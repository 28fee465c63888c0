-------------------------- MODULE MCCredentialStore --------------------------
(***************************************************************************)
(* CredentialStore for TLC.  Identifiers of sessions, threads and secrets  *)
(* are only compared for equality, so each of these sets may be permuted.  *)
(***************************************************************************)
EXTENDS CredentialStore, TLC

Symmetric == Permutations(SessionIds) \cup Permutations(Threads)
                \cup Permutations(Secrets)
===============================================================================
