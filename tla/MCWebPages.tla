------------------------------ MODULE MCWebPages ------------------------------
(***************************************************************************)
(* RecordPages and SettingsPage for TLC.  One page is mounted at a time,   *)
(* so a behaviour runs one of the two; the other has no step.              *)
(***************************************************************************)
EXTENDS RecordPages, SettingsPage, TLC

MCSymmetry == Permutations(Handlers) \cup Permutations(Calls) \cup Permutations(Picks)

PagesInit == RecordsInit /\ SettingsInit
PagesNext == \/ mountedPage # "settings" /\ RecordsNext /\ UNCHANGED settingsVars
             \/ mountedPage = "settings" /\ SettingsNext /\ UNCHANGED recordVars
PagesSpec == PagesInit /\ [][PagesNext]_<<recordVars, settingsVars>>

\* The type invariants of the two.
PagesTypeOK == RecordsTypeOK /\ SettingsTypeOK
=============================================================================
