------------------------------ MODULE NoteLinks ------------------------------
(***************************************************************************)
(* What the Notes page computes from the whole list of notes: the health   *)
(* of their [[links]] (analyzeLinks), the folders of the sidebar and what  *)
(* choosing one shows (buildFolderTree and the filter), and the vault the  *)
(* user exports (exportVaultAsZip).  Each is a loop over the notes; the    *)
(* model takes one note a step.  Titles are compared without letter case.  *)
(***************************************************************************)
EXTENDS Integers, Sequences, FiniteSets, SequencesExt

CONSTANTS
  Titles,      \* titles of notes and targets of links
  Tags,        \* tags, as the sequence of their parts between slashes
  Nothing,     \* the empty part of a tag
  SafeName(_), \* the file name a title gives
  Tables       \* the lists of notes to look at

NoteForms == [title: Titles, links: Seq(Titles), tags: Seq(Tags)]
ASSUME TablesAssumption ==
  /\ Tables \subseteq Seq(NoteForms)
  /\ Tags \subseteq Seq(UNION {ToSet(tag) : tag \in Tags} \cup {Nothing}) \ {<<>>}

VARIABLES
  notes,       \* the list; a note's id is its place
  passed,          \* notes the loops have passed
  health,      \* NoteHealth of each note
  brokenLinks, \* the broken links, by note and target
  gapCount,    \* how often each missing title is linked
  folders,     \* noteIds of each folder, by its place in the tree
  untagged,    \* noteIds of the root
  vault        \* the files of the vault: the id of the note each holds

analysis == <<health, brokenLinks, gapCount>>
linkVars == <<notes, passed, analysis, folders, untagged, vault>>

Ids == DOMAIN notes
Names == {SafeName(t) : t \in Titles}

LinksTypeOK ==
  /\ notes \in Seq(NoteForms) /\ passed \in 0..Len(notes)
  /\ DOMAIN health = Ids
  /\ \A id \in Ids : /\ health[id].status \in {"healthy", "broken", "orphan"}
                     /\ ToSet(health[id].brokenTargets) \subseteq Titles
                     /\ ToSet(health[id].referencedBy) \subseteq Ids
  /\ ToSet(brokenLinks) \subseteq Ids \X Titles
  /\ gapCount \in [Titles -> Nat]
  /\ \A place \in DOMAIN folders : folders[place] \subseteq 1..passed /\ folders[place] # {}
  /\ untagged \subseteq 1..passed
  /\ vault \in [Names -> {0} \cup 1..passed]

-----------------------------------------------------------------------------
(* analyzeLinks.                                                           *)

\* two notes of one title: the later one keeps it
titleToId(title) ==
  LET ids == {id \in Ids : notes[id].title = title}
  IN IF ids = {} THEN 0 ELSE CHOOSE id \in ids : \A other \in ids : other <= id

\* Mutant of Follow: a title is known once its note has been passed
FollowEarlier(state, id, target) ==
  LET to == titleToId(target)
  IN IF to # 0 /\ to <= id
     THEN [state EXCEPT !.health[to].referencedBy = Append(@, id)]
     ELSE [state EXCEPT !.health[id].brokenTargets = Append(@, target),
                        !.broken = Append(@, <<id, target>>),
                        !.gaps[target] = @ + 1]

Follow(state, id, target) ==
  LET to == titleToId(target)
  IN IF to # 0
     THEN [state EXCEPT !.health[to].referencedBy = Append(@, id)]
     ELSE [state EXCEPT !.health[id].brokenTargets = Append(@, target),
                        !.broken = Append(@, <<id, target>>),
                        !.gaps[target] = @ + 1]

\* what the loops have gathered once the first n links of a note are followed
Followed(id) ==
  LET links == notes[id].links
      state[n \in 0..Len(links)] ==
        IF n = 0 THEN [health |-> health, broken |-> brokenLinks, gaps |-> gapCount]
        ELSE Follow(state[n - 1], id, links[n])
  IN state
analyzeLinks(id) == Followed(id)[Len(notes[id].links)]

\* the last loop: statuses are set once all links are followed
Status(h, id) ==
  CASE h.brokenTargets # <<>> -> "broken"
    [] notes[id].links = <<>> /\ h.referencedBy = <<>> -> "orphan"
    [] OTHER -> "healthy"
Marked(table) == [id \in Ids |-> [table[id] EXCEPT !.status = Status(table[id], id)]]

knowledgeGaps == {t \in Titles : gapCount[t] >= 2}

\* the first note of the title, or a new editor: 0
openWikiNote(title) ==
  LET ids == {id \in Ids : notes[id].title = title}
  IN IF ids = {} THEN 0 ELSE CHOOSE id \in ids : \A other \in ids : other >= id

-----------------------------------------------------------------------------
(* buildFolderTree and the filter by tag.                                  *)

Places(tag) == {SubSeq(tag, 1, n) : n \in 1..Len(tag)}
buildFolderTree(id) ==
  LET places == UNION {Places(tag) : tag \in ToSet(notes[id].tags)}
      before == [p \in DOMAIN folders \cup places |-> IF p \in DOMAIN folders THEN folders[p] ELSE {}]
  IN [p \in DOMAIN before |-> before[p] \cup (IF p \in places THEN {id} ELSE {})]

\* the path a folder is chosen by: after an empty path comes the part alone
PathTo(place) ==
  LET path[n \in 0..Len(place)] ==
        IF n = 0 THEN <<>>
        ELSE IF path[n - 1] \in {<<>>, <<Nothing>>} THEN <<place[n]>> ELSE Append(path[n - 1], place[n])
  IN path
fullPath(place) == PathTo(place)[Len(place)]

\* Mutant of Filtered: the filter forgets the folders below the chosen one
FilteredExact(chosen) ==
  {id \in Ids : chosen = <<Nothing>> \/ chosen \in ToSet(notes[id].tags)}

\* the tag chosen, or one below it; an empty choice shows every note
Filtered(chosen) ==
  {id \in Ids : chosen = <<Nothing>> \/ \E tag \in ToSet(notes[id].tags) : IsPrefix(chosen, tag)}

-----------------------------------------------------------------------------
(* The vault.                                                              *)

\* JSZip replaces a file of the same name
exportVaultAsZip(id) == [vault EXCEPT ![SafeName(notes[id].title)] = id]

-----------------------------------------------------------------------------
LinksInit ==
  /\ notes \in Tables /\ passed = 0
  /\ health = [id \in Ids |-> [status |-> "healthy", brokenTargets |-> <<>>, referencedBy |-> <<>>]]
  /\ brokenLinks = <<>> /\ gapCount = [t \in Titles |-> 0]
  /\ folders = [path \in {} |-> {}] /\ untagged = {}
  /\ vault = [name \in Names |-> 0]

NextNote ==
  /\ passed < Len(notes) /\ passed' = passed + 1
  /\ LET state == analyzeLinks(passed')
     IN /\ health' = IF passed' = Len(notes) THEN Marked(state.health) ELSE state.health
        /\ brokenLinks' = state.broken /\ gapCount' = state.gaps
  /\ folders' = buildFolderTree(passed')
  /\ untagged' = IF notes[passed'].tags = <<>> THEN untagged \cup {passed'} ELSE untagged
  /\ vault' = exportVaultAsZip(passed')
  /\ UNCHANGED notes
LinksNext == NextNote
LinksSpec == LinksInit /\ [][LinksNext]_linkVars

-----------------------------------------------------------------------------
(* Properties.                                                             *)
Done == passed = Len(notes)

\* Analysis and navigation agree, though the analysis looks a title up in the
\* last note that has it and openWikiNote in the first.  A link is listed as
\* broken exactly when following it opens a new note, and a note is shown
\* broken exactly when one of its links is.  A note whose title no other has
\* is shown as an orphan exactly when it has no link and following none opens
\* it; of two notes of one title the first is opened by their links and may be
\* called an orphan all the same.  A missing title is a gap when two notes
\* link it, and only then unless one of them links it twice.
Shares(id) == \E other \in Ids \ {id} : notes[other].title = notes[id].title
Repeats(id, title) ==
  \E i, k \in DOMAIN notes[id].links : i # k /\ {notes[id].links[i], notes[id].links[k]} = {title}
Linking(title) == {id \in Ids : title \in ToSet(notes[id].links)}
HealthTellsTheTruth ==
  Done =>
    /\ \A t \in Titles :
         LET missed == openWikiNote(t) = 0 /\ \E id, other \in Linking(t) : id # other
         IN /\ missed => t \in knowledgeGaps
            /\ t \in knowledgeGaps /\ (\A id \in Ids : ~Repeats(id, t)) => missed
    /\ \A id \in Ids :
         /\ \A t \in ToSet(notes[id].links) :
              <<id, t>> \in ToSet(brokenLinks) <=> openWikiNote(t) = 0
         /\ health[id].status = "broken" <=> \E t \in ToSet(notes[id].links) : openWikiNote(t) = 0
         /\ ~Shares(id) =>
              (health[id].status = "orphan" <=>
                 notes[id].links = <<>> /\ \A other \in Ids : \A t \in ToSet(notes[other].links) : openWikiNote(t) # id)

\* The number beside a folder is the number of notes that choosing it shows,
\* but for tags that start with a slash, whose folders the filter never finds.
FolderCountsMatch ==
  Done /\ (\A tag \in Tags : (\E id \in Ids : tag \in ToSet(notes[id].tags)) => Head(tag) # Nothing) =>
    /\ \A place \in DOMAIN folders : folders[place] = Filtered(fullPath(place))
    /\ \A id \in Ids : id \in untagged <=> \A place \in DOMAIN folders : id \notin folders[place]
=============================================================================
