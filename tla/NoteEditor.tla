----------------------------- MODULE NoteEditor -----------------------------
(***************************************************************************)
(* The note editor (NoteEditor and MarkdownSourceEditor, NotesPage.tsx).   *)
(* The text of a note is held twice, as the body of the React component    *)
(* and as the document of the CodeMirror view, and each is copied into the *)
(* other: the view's listener sets the body, to be rendered later, and     *)
(* after a rendering an effect writes the body it rendered into the view   *)
(* when the two differ.  Saving sends the text last rendered, from a       *)
(* button or from Ctrl+S, which a running save does not hold back.  A text *)
(* is a model value: what the user types at once, or a template.           *)
(***************************************************************************)
EXTENDS Integers, FiniteSets

CONSTANTS
  Texts,        \* texts; the edits of a user
  Template,     \* the text of a template
  None,         \* no text
  MaxEdits,     \* bound: edits of the user
  Saves         \* bound: identifiers of save requests

ASSUME EditorAssumption == Template \in Texts /\ None \notin Texts /\ MaxEdits \in Nat

VARIABLES
  source,       \* the document of the view, None when there is no view
  body,         \* body, as last rendered
  queued,       \* the body set and not rendered, None when there is none
  effect,       \* the value a pending effect was rendered with, or None
  mode,         \* "edit" and "split" show the source, "preview" does not
  save,         \* each save: the text it carries, and how far it is
  storedText,   \* the note in the table
  open,         \* the editor is open
  edits,        \* edits so far
  typed,        \* history: the text the user gave last
  raced,        \* history: an edit met a pending effect, or a template an edit not rendered
  late          \* history: an edit or another save met a running save

work == <<source, body, queued, effect, mode>>
history == <<typed, raced, late>>
editorVars == <<work, save, storedText, open, edits, history>>

NoSave == [text |-> None, stage |-> "idle"]
EditorTypeOK ==
  /\ {source, queued, effect} \subseteq Texts \cup {None}
  /\ {body, storedText, typed} \subseteq Texts
  /\ mode \in {"edit", "split", "preview"}
  /\ save \in [Saves -> [text: Texts \cup {None}, stage: {"idle", "call", "answer"}]]
  /\ {open, raced, late} \subseteq BOOLEAN /\ edits \in 0..MaxEdits

Saving == \E s \in Saves : save[s] # NoSave

-----------------------------------------------------------------------------
(* Editing.                                                                *)

Edit(text) ==
  /\ open /\ edits < MaxEdits /\ edits' = edits + 1
  /\ queued' = text /\ typed' = text
  /\ late' = (late \/ Saving)
  /\ UNCHANGED <<body, effect, mode, save, storedText, open>>

\* the listener of the view sets the body
Type ==
  /\ source # None
  /\ \E text \in Texts \ {source, Template} : Edit(text) /\ source' = text
  /\ raced' = (raced \/ effect # None)
ApplyTemplate ==
  /\ Edit(Template) /\ UNCHANGED source
  /\ raced' = (raced \/ queued # None)

\* React runs what effects are left before it renders; then the body is the
\* one set last, and a changed one makes the effect of the view run again
Render ==
  /\ open /\ queued # None /\ effect = None
  /\ body' = queued /\ queued' = None
  /\ effect' = IF source # None /\ body' # body THEN body' ELSE None
  /\ UNCHANGED <<source, mode, save, storedText, open, edits, history>>

\* Mutant of SyncSource: the effect writes without comparing
SyncSourceAlways ==
  /\ open /\ effect # None /\ effect' = effect
  /\ source' = effect /\ queued' = effect
  /\ UNCHANGED <<body, mode, save, storedText, open, edits, history>>

\* writing into the view calls its listener
SyncSource ==
  /\ open /\ effect # None /\ effect' = None
  /\ IF source = effect THEN UNCHANGED <<source, queued>>
     ELSE source' = effect /\ queued' = effect
  /\ UNCHANGED <<body, mode, save, storedText, open, edits, history>>

\* Mutant of SwitchMode: changing the mode drops a body not yet rendered
SwitchModeDropping ==
  /\ open /\ effect = None
  /\ mode' \in {"edit", "split", "preview"} \ {mode}
  /\ queued' = None /\ UNCHANGED <<body, effect>>
  /\ source' = IF mode' = "preview" THEN None ELSE body
  /\ UNCHANGED <<save, storedText, open, edits, history>>

\* the view is destroyed and built again from the body; building may fail
SwitchMode ==
  /\ open /\ effect = None
  /\ mode' \in {"edit", "split", "preview"} \ {mode}
  /\ body' = IF queued = None THEN body ELSE queued
  /\ queued' = None
  /\ \/ mode' = "preview" /\ source' = None /\ UNCHANGED effect
     \/ mode = "preview" /\ source' \in {body', None} /\ UNCHANGED effect
     \/ /\ "preview" \notin {mode, mode'} /\ UNCHANGED source
        /\ effect' = IF source # None /\ body' # body THEN body' ELSE None
  /\ UNCHANGED <<save, storedText, open, edits, history>>

-----------------------------------------------------------------------------
(* Saving and leaving.                                                     *)

\* Mutant of Save: it reads the view, which a preview does not have
SaveFromView ==
  /\ open
  /\ \E s \in Saves : save[s] = NoSave /\ save' = [save EXCEPT ![s] = [text |-> source, stage |-> "call"]]
  /\ late' = (late \/ Saving \/ queued # None \/ effect # None)
  /\ UNCHANGED <<work, storedText, open, edits, typed, raced>>

\* Mutant of Save: Ctrl+S keeps the text of the first rendering
SaveFirst ==
  /\ open
  /\ \E s \in Saves : /\ save[s] = NoSave
                      /\ save' = [save EXCEPT ![s] = [text |-> storedText, stage |-> "call"]]
  /\ late' = (late \/ Saving \/ queued # None \/ effect # None)
  /\ UNCHANGED <<work, storedText, open, edits, typed, raced>>

\* the button waits for a running save, Ctrl+S does not
Save ==
  /\ open
  /\ \E s \in Saves : save[s] = NoSave /\ save' = [save EXCEPT ![s] = [text |-> body, stage |-> "call"]]
  /\ late' = (late \/ Saving \/ queued # None \/ effect # None)
  /\ UNCHANGED <<work, storedText, open, edits, typed, raced>>

Store(s) ==
  /\ save[s].stage = "call"
  /\ storedText' = save[s].text
  /\ save' = [save EXCEPT ![s].stage = "answer"]
  /\ UNCHANGED <<work, open, edits, history>>

\* the editor is closed by the answer; one that fails leaves it open
Answered(s) ==
  /\ save[s].stage = "answer"
  /\ save' = [save EXCEPT ![s] = NoSave] /\ open' = FALSE
  /\ UNCHANGED <<work, storedText, edits, history>>
SaveFails(s) ==
  /\ save[s] # NoSave
  /\ save' = [save EXCEPT ![s] = NoSave]
  /\ UNCHANGED <<work, storedText, open, edits, history>>

\* a changed text is left after a question; Cancel waits for a running save,
\* the cross and the backdrop do not
HandleCancel ==
  /\ open /\ open' = FALSE
  /\ typed' = body /\ raced' = TRUE
  /\ UNCHANGED <<work, save, storedText, edits, late>>

-----------------------------------------------------------------------------
EditorInit ==
  /\ \E text \in Texts : /\ body = text /\ source = text /\ storedText = text /\ typed = text
  /\ queued = None /\ effect = None /\ mode = "edit"
  /\ save = [s \in Saves |-> NoSave]
  /\ open = TRUE /\ edits = 0 /\ raced = FALSE /\ late = FALSE

EditorNext ==
  \/ Type \/ ApplyTemplate \/ Render \/ SyncSource \/ SwitchMode \/ Save \/ HandleCancel
  \/ \E s \in Saves : Store(s) \/ Answered(s) \/ SaveFails(s)

\* React renders what is set and runs the effects
EditorFairness == WF_editorVars(Render) /\ WF_editorVars(SyncSource)
EditorSpec == EditorInit /\ [][EditorNext]_editorVars /\ EditorFairness

-----------------------------------------------------------------------------
(* Properties.                                                             *)
Quiet == queued = None /\ effect = None

\* When nothing is left to render or to copy, the view holds the body, and
\* both hold what the user gave last: of all the copies back and forth none
\* is lost or comes back.  Two orders of events break this.  An edit between
\* a rendering and its effect is overwritten by the older text; a template
\* that undoes an edit not yet rendered leaves the body as it was, so that
\* nothing is rendered and the view keeps the edit.
EditsSurvive ==
  open /\ Quiet /\ ~raced => source \in {body, None} /\ body = typed

\* A save that closes the editor has stored the text the user gave last,
\* unless a part of it was not rendered, or typed or saved again, meanwhile.
SavedIsTyped == ~open /\ ~raced /\ ~late /\ ~Saving => storedText = typed

\* The two copies never chase each other for ever.
EditorSettles == []<>(open => Quiet)
=============================================================================
