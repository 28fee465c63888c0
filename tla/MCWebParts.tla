------------------------------ MODULE MCWebParts ------------------------------
(***************************************************************************)
(* NoteMarkdown, NoteLinks, NoteGraph, NoteEditor and BrowserSession for   *)
(* TLC.  They share no state: a behaviour runs one of them; the others     *)
(* stand still.                                                            *)
(***************************************************************************)
EXTENDS NoteMarkdown, NoteLinks, NoteGraph, NoteEditor, BrowserSession

CONSTANTS a, b, c

Plain == [fence |-> "no", table |-> "no", matches |-> {}, blank |-> FALSE, link |-> "none",
          within |-> "nothing", tag |-> "none"]
MCLines ==
  {[Plain EXCEPT !.fence = f] : f \in {"plain", "indented", "info"}} \cup
  {[Plain EXCEPT !.table = "row", !.link = "alias"],
   [Plain EXCEPT !.table = "row", !.link = "plain", !.tag = "bare"],
   [Plain EXCEPT !.table = "separator"],
   [Plain EXCEPT !.blank = TRUE],
   [Plain EXCEPT !.matches = {"heading"}, !.link = "plain", !.within = "code", !.tag = "bare"],
   [Plain EXCEPT !.matches = {"task", "bullet"}, !.link = "alias"],
   [Plain EXCEPT !.matches = {"rule"}],
   [Plain EXCEPT !.link = "empty", !.tag = "code"],
   [Plain EXCEPT !.link = "noAlias", !.within = "star"],
   [Plain EXCEPT !.link = "plain", !.within = "underscore", !.tag = "bare"]}

\* up to two links a note, to a title that one, two or none of three notes has
MCTags == {<<a>>, <<a, b>>, <<Nothing, a>>, <<a, Nothing, b>>, <<b, a, c>>}
UpToTwo(S) == {<<>>} \cup {<<x>> : x \in S} \cup {<<x, y>> : x, y \in S}
MCTables ==
  {<<[title |-> a, links |-> l[1], tags |-> <<>>], [title |-> t, links |-> l[2], tags |-> <<>>],
     [title |-> b, links |-> l[3], tags |-> <<>>]>> : l \in [1..3 -> UpToTwo(Titles)], t \in {a, b}}
  \cup {<<[title |-> a, links |-> <<>>, tags |-> t[1]], [title |-> b, links |-> <<>>, tags |-> t[2]]>> :
          t \in [1..2 -> UpToTwo(Tags)]}
  \cup {<<[title |-> b, links |-> <<>>, tags |-> <<>>], [title |-> c, links |-> <<>>, tags |-> <<>>]>>}
\* two titles that differ in a character no file name has
MCSafeName(t) == IF t = c THEN b ELSE t

\* note 1 resembles all the others
MCAlike == {{1, n} : n \in 2..Count}
MCLinkable == {{1, 2}, {2, 3}}
MCSharing == {{1, 3}}

MarkdownOff == /\ note = <<>> /\ outline = <<>> /\ ended = TRUE /\ reader = NewView /\ preview = NewView
               /\ tagger = [inCode |-> FALSE, found |-> {}]
LinksOff == /\ notes = <<>> /\ passed = 0 /\ health = <<>> /\ brokenLinks = <<>> /\ folders = <<>>
            /\ untagged = {} /\ gapCount = [t \in Titles |-> 0] /\ vault = [name \in Names |-> 0]
GraphOff == /\ phase = "links" /\ kind = [p \in Pairs |-> "none"] /\ candidates = <<>> /\ at = 0
            /\ degree = [n \in Notes |-> 0] /\ parent = [n \in Notes |-> n]
EditorOff == /\ source = None /\ body = Template /\ queued = None /\ effect = None /\ mode = "edit"
             /\ save = [s \in Saves |-> NoSave] /\ storedText = Template /\ typed = Template
             /\ open = FALSE /\ edits = 0 /\ raced = TRUE /\ late = FALSE

\* no step that fairness is about is enabled
SessionOff ==
  /\ setUp = FALSE /\ live = FALSE /\ idleFor = 0 /\ initialized = "unknown" /\ authed = FALSE
  /\ idleTimer = Stopped /\ pollDue = 0 /\ request = [r \in Requests |-> [NoRequest EXCEPT !.answer = "lost"]]
  /\ deeds = 0 /\ lost = 0

\* the part a behaviour runs
VARIABLE part

PartsInit ==
  /\ part \in {"markdown", "links", "graph", "editor", "session"}
  /\ IF part = "markdown" THEN MarkdownInit ELSE MarkdownOff
  /\ IF part = "links" THEN LinksInit ELSE LinksOff
  /\ IF part = "graph" THEN GraphInit ELSE GraphOff
  /\ IF part = "editor" THEN EditorInit ELSE EditorOff
  /\ IF part = "session" THEN SessionInit ELSE SessionOff

textVars == <<markdownVars, linkVars, graphVars>>
partVars == <<part, textVars, editorVars, sessionVars>>
PartsNext ==
  \/ part = "markdown" /\ MarkdownNext /\ UNCHANGED <<part, linkVars, graphVars, editorVars, sessionVars>>
  \/ part = "links" /\ LinksNext /\ UNCHANGED <<part, markdownVars, graphVars, editorVars, sessionVars>>
  \/ part = "graph" /\ GraphNext /\ UNCHANGED <<part, markdownVars, linkVars, editorVars, sessionVars>>
  \/ part = "editor" /\ EditorNext /\ UNCHANGED <<part, textVars, sessionVars>>
  \/ part = "session" /\ SessionNext /\ UNCHANGED <<part, textVars, editorVars>>
PartsSpec == PartsInit /\ [][PartsNext]_partVars /\ EditorFairness /\ SessionFairness

\* The type invariants of the five.
PartsTypeOK ==
  /\ MarkdownTypeOK /\ LinksTypeOK /\ GraphTypeOK /\ EditorTypeOK /\ SessionTypeOK
=============================================================================
