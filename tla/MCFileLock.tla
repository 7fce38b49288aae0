---------------------------- MODULE MCFileLock ----------------------------
(* Instances of FileLock for TLC: all processes on one host.               *)
EXTENDS FileLock, TLC

MCHostOf == [p \in Procs |-> "host"]

===========================================================================
