------------------------------ MODULE MCRestart ------------------------------
(* Model-checking instance of Restart.  The two restart files are not       *)
(* distinguished by anything but their names.                               *)
EXTENDS Restart, TLC

FilesSymmetry == Permutations(RestartFiles)
=============================================================================
