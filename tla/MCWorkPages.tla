------------------------------ MODULE MCWorkPages ------------------------------
(***************************************************************************)
(* NotesWorkspace and CredentialsPage for TLC.  One page is mounted at a   *)
(* time, so a behaviour runs one of the two; the other has no step.        *)
(***************************************************************************)
EXTENDS NotesWorkspace, CredentialsPage, TLC

CONSTANTS Other
\* a file whose content gives another title than its name, so that replacing
\* and importing aim at different notes
MCFiles == {[name |-> Other, title |-> Today]}
MCSymmetry == Permutations(Chains) \cup Permutations(Jobs)

NotesOff ==
  /\ stored = NoRows /\ born = 0 /\ clicks = 0 /\ list = NoRows /\ loadError = FALSE
  /\ reader = NoCopy /\ editor = Closed /\ dupCheck = NoDup /\ import = NoImport
  /\ chain = [c \in Chains |-> Idle] /\ lastRead = "none" /\ shownLast = FALSE /\ missed = TRUE
CredentialsOff ==
  /\ window = 0 /\ table = {} /\ items = {} /\ form = ClosedForm /\ saving = FALSE /\ deleting = NoCred
  /\ viewing = NoCred /\ revealTtl = 0 /\ pollTimer = Off /\ poll = "none" /\ overdue = 0
  /\ showReveal = FALSE /\ pendingAction = NoAction /\ clip = "other" /\ clipTimer = Off /\ refused = FALSE
  /\ job = [c \in Jobs |-> FreeJob] /\ acts = 0 /\ mounted = FALSE

\* the page a behaviour runs; the vault has one note, of the name of the file
VARIABLE shownPage

WorkInit == \/ shownPage = "notes" /\ Init /\ stored[1].title = Other /\ CredentialsOff
            \/ shownPage = "credentials" /\ NotesOff /\ CredentialsInit
WorkNext == \/ shownPage = "notes" /\ Next /\ UNCHANGED <<shownPage, credsVars>>
            \/ shownPage = "credentials" /\ CredentialsNext /\ UNCHANGED <<shownPage, vars>>
WorkSpec == WorkInit /\ [][WorkNext]_<<shownPage, vars, credsVars>>

\* The type invariants of the two.
WorkTypeOK == TypeOK /\ CredentialsTypeOK
=============================================================================
