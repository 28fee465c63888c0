--------------------------- MODULE MCBackupRestore ---------------------------
(***************************************************************************)
(* BackupRestore for TLC: sessions, threads and tokens are only compared   *)
(* for equality, so each of these sets may be permuted.                    *)
(***************************************************************************)
EXTENDS BackupRestore, TLC

Symmetric == Permutations(SessionIds) \cup Permutations(Threads) \cup Permutations(Tokens)
===============================================================================
