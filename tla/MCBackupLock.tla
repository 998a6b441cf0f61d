---------------------------- MODULE MCBackupLock ----------------------------
(***************************************************************************)
(* Constants and symmetry for the runs of BackupLock.                      *)
(***************************************************************************)
EXTENDS BackupLock, TLC

\* The isolates differ in nothing; used in runs without liveness.
Symmetry == Permutations(Isolates)
=============================================================================
