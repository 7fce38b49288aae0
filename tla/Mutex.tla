------------------------------- MODULE Mutex -------------------------------
(* What withFileLock promises its callers: at most one process is inside   *)
(* its fn.  FileLock implements it as long as no lock file outlives        *)
(* staleMs; the modules of the lock's users are built on it.               *)
CONSTANT Procs

VARIABLE inside     \* the processes running their fn

Init == inside = {}

Enter(p) == inside = {} /\ inside' = {p}

Leave(p) == inside = {p} /\ inside' = {}

Next == \E p \in Procs : Enter(p) \/ Leave(p)

Spec == Init /\ [][Next]_inside
============================================================================
