---------------------------- MODULE MCVaultAuth ----------------------------
(***************************************************************************)
(* VaultAuth for TLC.  The specification and its properties only compare   *)
(* identifiers, threads, passwords and salts for equality and quantify     *)
(* over them, so each of these sets may be permuted.                       *)
(***************************************************************************)
EXTENDS VaultAuth, TLC

Symmetric == Permutations(SessionIds) \cup Permutations(Threads)
                \cup Permutations(Passwords) \cup Permutations(Salts)
===============================================================================
