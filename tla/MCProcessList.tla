---------------------------- MODULE MCProcessList ----------------------------
(* ProcessList on a small machine: see the .cfg files for the constants.   *)
EXTENDS ProcessList
=============================================================================
