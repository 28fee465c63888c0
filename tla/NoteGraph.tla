------------------------------ MODULE NoteGraph ------------------------------
(***************************************************************************)
(* The relationships the graph of notes draws (buildNoteRelationships) and *)
(* the clusters it colours (noteColor).  Pairs of notes are related by a   *)
(* [[link]], by a tag they share, or by what they are about; the last kind *)
(* is chosen from the candidates by score, in two passes.  Which pairs     *)
(* link, share and resemble each other is data: any choice, in any order.  *)
(***************************************************************************)
EXTENDS Integers, Sequences, FiniteSets, SequencesExt

CONSTANTS
  Count,      \* notes; their ids are 1..Count, in the order of the list
  Linkable,   \* bound: pairs that may link
  Sharing,    \* bound: pairs that may share a tag
  Alike,      \* bound: pairs that may be about the same
  Palette     \* colours of TAG_COLORS_LIST

Notes == 1..Count
Pairs == {p \in SUBSET Notes : Cardinality(p) = 2}

ASSUME GraphAssumption ==
  /\ Count \in Nat /\ Palette \in Nat \ {0}
  /\ Linkable \subseteq Pairs /\ Sharing \subseteq Pairs /\ Alike \subseteq Pairs

VARIABLES
  phase,        \* the loop that runs
  kind,         \* relationships: the kind of each related pair
  candidates,   \* topicCandidates
  degree,       \* topicDegree
  at,           \* steps the loop has made
  parent        \* noteColor's union-find

graphVars == <<phase, kind, candidates, degree, at, parent>>

Kinds == {"none", "topic", "tag", "wiki"}
Phases == {"links", "first", "second", "clusters", "drawn"}

GraphTypeOK ==
  /\ phase \in Phases
  /\ kind \in [Pairs -> Kinds]
  /\ candidates \in Seq(Pairs)
  /\ degree \in [Notes -> Nat]
  /\ at \in Nat
  /\ parent \in [Notes -> Notes]

Related == {p \in Pairs : kind[p] # "none"}
Other(p, n) == CHOOSE m \in p : m # n

-----------------------------------------------------------------------------
(* addRelationship keeps the stronger kind.                                *)
Rank(k) == CASE k = "none" -> 0 [] k = "topic" -> 1 [] k = "tag" -> 2 [] k = "wiki" -> 3
Stronger(old, new) == IF Rank(new) > Rank(old) THEN new ELSE old

GraphInit ==
  /\ phase = "links" /\ kind = [p \in Pairs |-> "none"] /\ candidates = <<>>
  /\ degree = [n \in Notes |-> 0] /\ at = 0
  /\ parent = [n \in Notes |-> n]

\* links first, then every pair: a shared tag makes it no candidate; at last
\* the candidates are sorted by score
RelateNotes ==
  /\ phase = "links" /\ phase' = "first" /\ at' = 0
  /\ \E linked \in SUBSET Linkable, shared \in SUBSET Sharing :
     \E alike \in SUBSET (Alike \ shared) :
       /\ kind' = [p \in Pairs |->
                     Stronger(IF p \in linked THEN "wiki" ELSE "none",
                              IF p \in shared THEN "tag" ELSE "none")]
       /\ candidates' \in SetToSeqs(alike)
  /\ UNCHANGED <<degree, parent>>

\* selectTopic passes over a pair that is related
SelectTopic(p) ==
  IF p \in Related THEN UNCHANGED <<kind, degree>>
  ELSE /\ kind' = [kind EXCEPT ![p] = "topic"]
       /\ degree' = [n \in Notes |-> IF n \in p THEN degree[n] + 1 ELSE degree[n]]

\* Mutant of Best: the first pass takes the best candidate whatever its other end has
BestOfAll(n) == {i \in DOMAIN candidates : n \in candidates[i]}

\* where a note's candidates stand whose other end has room; the first is best
Best(n) ==
  {i \in DOMAIN candidates : n \in candidates[i] /\ degree[Other(candidates[i], n)] < 4}
Lowest(S) == CHOOSE n \in S : \A m \in S : n <= m

\* one note of the list
FirstPass ==
  /\ phase = "first" /\ at < Count
  /\ at' = at + 1
  /\ IF degree[at'] = 0 /\ Best(at') # {} THEN SelectTopic(candidates[Lowest(Best(at'))])
     ELSE UNCHANGED <<kind, degree>>
  /\ UNCHANGED <<phase, candidates, parent>>

\* one candidate
SecondPass ==
  /\ phase = "second" /\ at < Len(candidates)
  /\ at' = at + 1
  /\ IF \A n \in candidates[at'] : degree[n] < 3 THEN SelectTopic(candidates[at'])
     ELSE UNCHANGED <<kind, degree>>
  /\ UNCHANGED <<phase, candidates, parent>>

-----------------------------------------------------------------------------
(* The clusters: find, with its path compression, and union.               *)
Root[n \in Notes] == IF parent[n] = n THEN n ELSE Root[parent[n]]
Path[n \in Notes] == {n} \cup (IF parent[n] = n THEN {} ELSE Path[parent[n]])

\* Mutant of Union: the note is joined, and not the root of its cluster
UnionOfNotes(source, target) ==
  [n \in Notes |-> IF n \in Path[source] \cup {target} THEN Root[source] ELSE parent[n]]

Union(source, target) ==
  [n \in Notes |->
     IF n \in Path[source] \cup {Root[target]} THEN Root[source]
     ELSE IF n \in Path[target] THEN Root[target] ELSE parent[n]]

\* the relationships in some order
Key(p) == Count * Lowest(p) + Other(p, Lowest(p))
Nth(i) ==
  LET keys == {Key(p) : p \in Related}
  IN CHOOSE p \in Related : Cardinality({k \in keys : k <= Key(p)}) = i

\* one relationship, from either end
JoinClusters ==
  /\ phase = "clusters" /\ at < Cardinality(Related)
  /\ at' = at + 1
  /\ LET p == Nth(at') IN \E source \in p : parent' = Union(source, Other(p, source))
  /\ UNCHANGED <<phase, kind, candidates, degree>>

NextLoop ==
  /\ \/ phase = "first" /\ at = Count /\ phase' = "second"
     \/ phase = "second" /\ at = Len(candidates) /\ phase' = "clusters"
     \/ phase = "clusters" /\ at = Cardinality(Related) /\ phase' = "drawn"
  /\ at' = 0
  /\ UNCHANGED <<kind, candidates, degree, parent>>

\* a cluster takes its colour when the list comes to its first note,
\* and after the last colour the first comes again
Cluster(n) == {m \in Notes : Root[m] = Root[n]}
ClustersBefore(n) == {Root[m] : m \in 1..(Lowest(Cluster(n)) - 1)}
noteColor(n) == Cardinality(ClustersBefore(n)) % Palette

GraphNext == RelateNotes \/ FirstPass \/ SecondPass \/ JoinClusters \/ NextLoop
GraphSpec == GraphInit /\ [][GraphNext]_graphVars

-----------------------------------------------------------------------------
(* Properties.                                                             *)

\* "without creating noisy hubs" (NotesPage.tsx:2200): no note is drawn with
\* more than four topics, and the degrees count what is drawn.
NoNoisyHubs ==
  \A n \in Notes : /\ degree[n] <= 4
                   /\ degree[n] = Cardinality({p \in Pairs : n \in p /\ kind[p] = "topic"})

\* "Give every note its strongest credible content match first"
\* (NotesPage.tsx:2199): a note is drawn without any relationship only if it
\* has no candidate, or every note it resembles has four topics.
NobodyLeftOut ==
  phase \in {"second", "clusters", "drawn"} =>
    \A n \in Notes :
      (\A p \in Related : n \notin p) =>
        \A p \in ToSet(candidates) : n \in p => degree[Other(p, n)] = 4

\* The choice of topics keeps both promises of that comment: every note that
\* can be related is, and nobody becomes a hub for it.
TopicsChosenWell == NoNoisyHubs /\ NobodyLeftOut

\* What relationships connect to a note: whatever is in every set with the
\* note that no relationship leads out of.
Closed(pairs, S) == \A p \in pairs : p \cap S # {} => p \subseteq S
Groups ==
  LET related == Related
      closed == {S \in SUBSET Notes : Closed(related, S)}
  IN {{m \in Notes : \A S \in closed : n \in S => m \in S} : n \in Notes}
Colors(g) == {noteColor(n) : n \in g}

\* Notes that relationships connect are drawn in one colour, and, while there
\* are no more clusters than colours, notes that are not connected in two: the
\* union-find neither parts a cluster nor joins two, in whatever order the
\* relationships come.  With more clusters the colours begin again.
ColoursTellClusters ==
  phase = "drawn" =>
    LET groups == Groups
    IN /\ \A g \in groups : \A k1, k2 \in Colors(g) : k1 = k2
       /\ Cardinality(groups) <= Palette =>
            \A g, h \in groups : g # h => Colors(g) \cap Colors(h) = {}
=============================================================================
