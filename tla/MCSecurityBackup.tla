-------------------------- MODULE MCSecurityBackup --------------------------
(* Instances of SecurityBackup for TLC: which cell a buffer lies in makes no *)
(* difference, so cells may be permuted.                                     *)
EXTENDS SecurityBackup, TLC

CellSymmetry == Permutations(Addr)

\* A bound: what follows a copy that shares a buffer is not looked at, since only
\* TypeOK says something of it.
Duplicated == whole
=============================================================================
