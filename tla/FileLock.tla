----------------------------- MODULE FileLock -----------------------------
(***************************************************************************)
(* withFileLock (packages/core/src/io/file-lock.js): the advisory lock     *)
(* that serialises the revocation registry, the delegation budget          *)
(* registry, the evidence recorder and the capability history across       *)
(* processes.  Each action is one file-system call (or one decision) of    *)
(* one process, because other processes run between any two of them.       *)
(*                                                                         *)
(* The lock file is a directory entry: the call that created the inode     *)
(* (`owner`), whether its holder record was written (`content`) and        *)
(* whether its mtime is more than staleMs ago (`age`).                     *)
(***************************************************************************)
EXTENDS Naturals

CONSTANTS
    Procs,      \* the processes, one pid each
    HostOf,     \* hostname() of each process
    Mortal,     \* the processes that may crash
    Aging,      \* TRUE iff a lock file may become older than staleMs
    IOErrors,   \* TRUE iff write/fsync of the holder record, or an unlink, may fail
    PidReuse,   \* TRUE iff a dead process's pid may name another process
    MaxCalls,   \* bound: calls of withFileLock made by one process
    NoToken     \* the token of a file nobody wrote

ASSUME MortalAssumption == Mortal \subseteq Procs
ASSUME HostAssumption == DOMAIN HostOf = Procs
ASSUME SwitchAssumption == {Aging, IOErrors, PidReuse} \subseteq BOOLEAN
ASSUME CallsAssumption == MaxCalls \in Nat
ASSUME TokenAssumption == NoToken \notin Procs \X Nat

\* randomUUID() per call: the n-th call of a process has a token of its own.
Tokens == Procs \X Nat

Absent == [owner |-> NoToken, content |-> "absent", age |-> "young"]

VARIABLES
    file,   \* the lock path
    pc,     \* where each process is in withFileLock
    calls,  \* calls made so far; <<p, calls[p]>> is p's current token
    seen    \* the token read at line 58 by a process removing a stale lock

vars == <<file, pc, calls, seen>>

Labels == {"idle", "open", "write", "stat", "judge", "holder", "recheck",
           "unlinkStale", "wait", "fn", "checkOwned", "unlinkOwned", "dead", "reused"}

\* A "reused" process is dead and its pid names a process of another program.
Gone == {"dead", "reused"}

Files == [owner : Tokens \cup {NoToken},
          content : {"absent", "empty", "written"},
          age : {"young", "old"}]

\* Type invariant.
TypeOK == /\ file \in Files
          /\ pc \in [Procs -> Labels]
          /\ calls \in [Procs -> Nat]
          /\ seen \in [Procs -> Tokens \cup {NoToken}]

Init == /\ file = Absent
        /\ pc = [p \in Procs |-> "idle"]
        /\ calls = [p \in Procs |-> 0]
        /\ seen = [p \in Procs |-> NoToken]

Token(p) == <<p, calls[p]>>

\* readHolder: the token in the file, nothing if it is missing or not JSON.
ReadHolder == IF file.content = "written" THEN file.owner ELSE NoToken

\* process.kill(pid, 0): some process has the pid, p or another program.
PidAlive(p) == pc[p] # "dead"

Goto(p, label) == pc' = [pc EXCEPT ![p] = label]

---------------------------------------------------------------------------
(* Acquire                                                                 *)

Call(p) == /\ pc[p] = "idle" /\ calls[p] < MaxCalls
           /\ calls' = [calls EXCEPT ![p] = @ + 1]
           /\ Goto(p, "open")
           /\ UNCHANGED <<file, seen>>

\* Mutant of OpenCreates: open with 'w' instead of 'wx'.
OpenTruncates(p) == /\ pc[p] = "open"
                    /\ file' = [owner |-> Token(p), content |-> "empty", age |-> "young"]
                    /\ Goto(p, "write")
                    /\ UNCHANGED <<calls, seen>>

\* openSync(lockPath, 'wx') succeeds: a new, empty file.
OpenCreates(p) == /\ pc[p] = "open" /\ file.content = "absent"
                  /\ file' = [owner |-> Token(p), content |-> "empty", age |-> "young"]
                  /\ Goto(p, "write")
                  /\ UNCHANGED <<calls, seen>>

\* Mutant of OpenExists: EEXIST is swallowed.
OpenExistsIgnored(p) == /\ pc[p] = "open" /\ file.content # "absent"
                        /\ Goto(p, "write")
                        /\ UNCHANGED <<file, calls, seen>>

OpenExists(p) == /\ pc[p] = "open" /\ file.content # "absent"
                 /\ Goto(p, "stat")
                 /\ UNCHANGED <<file, calls, seen>>

\* Mutant of Written: a holder record cut short.
WrittenInPart(p) == IF file.owner = Token(p) THEN [file EXCEPT !.content = "part"] ELSE file

\* The descriptor names the inode p created, which may no longer be at lockPath.
Written(p) == IF file.owner = Token(p)
              THEN [file EXCEPT !.content = "written", !.age = "young"]
              ELSE file

WriteHolder(p) == /\ pc[p] = "write"
                  /\ file' = Written(p)
                  /\ Goto(p, "fn")
                  /\ UNCHANGED <<calls, seen>>

\* The write fails (the file stays empty) or the fsync after it does: the
\* error is thrown and the lock file is left behind.
WriteFails(p) == /\ IOErrors /\ pc[p] = "write"
                 /\ file' \in {file, Written(p)}
                 /\ Goto(p, "idle")
                 /\ UNCHANGED <<calls, seen>>

---------------------------------------------------------------------------
(* The lock is taken: stale(lockPath), then removal or wait                *)

\* existsSync and statSync: not stale when missing or young.
Stat(p) == /\ pc[p] = "stat"
           /\ Goto(p, IF file.age = "old" THEN "judge" ELSE "wait")
           /\ UNCHANGED <<file, calls, seen>>

\* Mutant of HeldByLiveLocal: the pid is not probed.
HeldByLocal(p) == \E q \in Procs : ReadHolder \in {q} \X Nat /\ HostOf[q] = HostOf[p]

\* Not stale only when the record names a live pid of this host: a file
\* that is empty, or has vanished since statSync, counts as stale.
HeldByLiveLocal(p) == \E q \in Procs : /\ ReadHolder \in {q} \X Nat
                                       /\ HostOf[q] = HostOf[p]
                                       /\ PidAlive(q)

Judge(p) == /\ pc[p] = "judge"
            /\ Goto(p, IF HeldByLiveLocal(p) THEN "wait" ELSE "holder")
            /\ UNCHANGED <<file, calls, seen>>

\* const holder = readHolder(lockPath), line 58.
Holder(p) == /\ pc[p] = "holder"
             /\ seen' = [seen EXCEPT ![p] = ReadHolder]
             /\ Goto(p, IF ReadHolder = NoToken THEN "unlinkStale" ELSE "recheck")
             /\ UNCHANGED <<file, calls>>

\* The read in unlinkIfOwned(lockPath, holder.token).
Recheck(p) == /\ pc[p] = "recheck"
              /\ Goto(p, IF ReadHolder = seen[p] THEN "unlinkStale" ELSE "open")
              /\ UNCHANGED <<file, calls, seen>>

\* unlinkSync removes whatever is at lockPath by now (ENOENT is swallowed).
UnlinkStale(p) == /\ pc[p] = "unlinkStale"
                  /\ file' = Absent
                  /\ Goto(p, "open")
                  /\ UNCHANGED <<calls, seen>>

\* unlinkSync fails (EPERM, EACCES, a read-only mount): the error is swallowed
\* and `continue` goes back to openSync, past the test of timeoutMs.
UnlinkStaleFails(p) == /\ IOErrors /\ pc[p] = "unlinkStale"
                       /\ Goto(p, "open")
                       /\ UNCHANGED <<file, calls, seen>>

\* timeoutMs has not passed: sleepSync(retryMs) and try again.
Retry(p) == /\ pc[p] = "wait"
            /\ Goto(p, "open")
            /\ UNCHANGED <<file, calls, seen>>

\* Mutant of Timeout: the deadline is noticed and nothing is thrown.
TimeoutForgotten(p) == /\ pc[p] = "wait"
                       /\ Goto(p, "open")
                       /\ UNCHANGED <<file, calls, seen>>

Timeout(p) == /\ pc[p] = "wait"
              /\ Goto(p, "idle")
              /\ UNCHANGED <<file, calls, seen>>

---------------------------------------------------------------------------
(* Release: the finally block, after fn() returned or threw                *)

Fn(p) == /\ pc[p] = "fn"
         /\ Goto(p, "checkOwned")
         /\ UNCHANGED <<file, calls, seen>>

CheckOwned(p) == /\ pc[p] = "checkOwned"
                 /\ Goto(p, IF ReadHolder = Token(p) THEN "unlinkOwned" ELSE "idle")
                 /\ UNCHANGED <<file, calls, seen>>

UnlinkOwned(p) == /\ pc[p] = "unlinkOwned"
                  /\ file' = Absent
                  /\ Goto(p, "idle")
                  /\ UNCHANGED <<calls, seen>>

\* The error is swallowed: the call returns and its file stays at lockPath.
UnlinkOwnedFails(p) == /\ IOErrors /\ pc[p] = "unlinkOwned"
                       /\ Goto(p, "idle")
                       /\ UNCHANGED <<file, calls, seen>>

---------------------------------------------------------------------------
(* Environment                                                             *)

Crash(p) == /\ p \in Mortal /\ pc[p] \notin Gone
            /\ Goto(p, "dead")
            /\ UNCHANGED <<file, calls, seen>>

\* The system gives a dead process's pid to another program, or that ends.
PidChanges(p) == /\ PidReuse /\ pc[p] \in Gone
                 /\ Goto(p, IF pc[p] = "dead" THEN "reused" ELSE "dead")
                 /\ UNCHANGED <<file, calls, seen>>

\* More than staleMs pass since the file's last write.
GrowOld == /\ Aging /\ file.content # "absent" /\ file.age = "young"
           /\ file' = [file EXCEPT !.age = "old"]
           /\ UNCHANGED <<pc, calls, seen>>

Step(p) == \/ OpenCreates(p) \/ OpenExists(p) \/ WriteHolder(p) \/ WriteFails(p)
           \/ Stat(p) \/ Judge(p) \/ Holder(p) \/ Recheck(p)
           \/ UnlinkStale(p) \/ UnlinkStaleFails(p) \/ Retry(p) \/ Timeout(p)
           \/ Fn(p) \/ CheckOwned(p) \/ UnlinkOwned(p) \/ UnlinkOwnedFails(p)

Next == \/ \E p \in Procs : Call(p) \/ Step(p) \/ Crash(p) \/ PidChanges(p)
        \/ GrowOld

Spec == Init /\ [][Next]_vars

\* A live process keeps running its synchronous loop, and the wall clock it
\* compares with timeoutMs advances.
Fairness == \A p \in Procs : WF_vars(Step(p)) /\ SF_vars(Timeout(p))

FairSpec == Spec /\ Fairness

---------------------------------------------------------------------------
(* Properties                                                              *)

\* No two processes run their fn at the same time.
MutualExclusion == \A p, q \in Procs : pc[p] = "fn" /\ pc[q] = "fn" => p = q

\* What the users of the lock may rely on.
Inside == {p \in Procs : pc[p] = "fn"}
Lock == INSTANCE Mutex WITH inside <- Inside

\* withFileLock is a mutex to its callers: each step enters fn with nobody
\* inside, leaves it, or does neither.
ImplementsMutex == Lock!Spec

\* unlinkIfOwned at release removes only the file its own call created.
RemovedByOwner ==
    [][\A p \in Procs : UnlinkOwned(p) => file.owner = Token(p)]_vars

\* Some call finds a stale lock over and over and fails to unlink it.
UnlinkFailsForEver == []<><<\E p \in Procs : UnlinkStaleFails(p)>>_vars

\* Every call of withFileLock returns, by fn or by an error, unless its
\* process dies.  The one exception is what the stale branch does: it never
\* looks at the clock, so a call spins, past timeoutMs, exactly as long as
\* the removal of a stale lock keeps failing.
CallReturns == \/ \A p \in Procs : pc[p] # "idle" ~> pc[p] \in {"idle"} \cup Gone
               \/ UnlinkFailsForEver

\* A lock that names a pid no process has and is older than staleMs.
Abandoned == /\ file.age = "old"
             /\ \E q \in Procs : file.owner \in {q} \X Nat /\ pc[q] = "dead"

\* A lock left by a dead process and older than staleMs does not outlive a
\* live contender that has found it in its way, unless the dead process's
\* pid is given to another program meanwhile (the lock then counts as held)
\* or the unlink keeps failing.
AbandonedLockRemoved ==
    \/ \A p \in Procs : (pc[p] = "stat" /\ Abandoned) ~> (~Abandoned \/ pc[p] \in Gone)
    \/ UnlinkFailsForEver

\* The comment at lines 60-61: the token check keeps the stale branch from
\* deleting the lock of an owner that raced in.
StaleRemovalSparesNewOwner ==
    [][\A p \in Procs : UnlinkStale(p) /\ seen[p] # NoToken
                          => file.owner \in {seen[p], NoToken}]_vars
===========================================================================
