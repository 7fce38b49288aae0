---------------------------- MODULE EvidenceLog ----------------------------
(***************************************************************************)
(* EvidenceRecorder (packages/core/src/protocol/recorder.js): the          *)
(* hash-chained JSONL evidence log that several processes append to under  *)
(* withFileLock.  An append is one write to a file opened with 'a', and it *)
(* may stop short: killed, out of space (writeSync then returns a smaller  *)
(* count, which the code ignores), or failing.                             *)
(*                                                                         *)
(* SHA-256 is abstracted to the identity of the event: an event's hash is  *)
(* its id, and previousHash the id of the line before it.                  *)
(***************************************************************************)
EXTENDS Naturals, Sequences

CONSTANTS
    Writers,
    MaxEvents,      \* limits.maxEvents
    MaxDraws,       \* bound: events composed by all processes together
    AppendErrors,    \* TRUE iff write or fsync may throw
    ShortWrites     \* TRUE iff writeSync may return having written less

ASSUME LimitAssumption == MaxEvents \in Nat /\ MaxDraws \in Nat
ASSUME SwitchAssumption == AppendErrors \in BOOLEAN /\ ShortWrites \in BOOLEAN

Genesis == 0

VARIABLES
    log,        \* the non-empty lines of the file
    ended,      \* whether the file ends with a newline (or is empty)
    logLock,    \* the processes inside withFileLock
    writer,     \* where each process is in append, and the event it composed
    composed,   \* events composed so far: event ids are fresh
    returned    \* history: the events append returned

logVars == <<log, ended, logLock, writer, composed, returned>>

LogMutex == INSTANCE Mutex WITH Procs <- Writers, inside <- logLock

\* A line is an event, or it is not JSON.
Lines == [whole : BOOLEAN, id : Nat, index : Nat, prev : Nat]
Garbage == [whole |-> FALSE, id |-> 0, index |-> 0, prev |-> 0]

IdleWriter == [pc |-> "idle", event |-> Garbage]

\* Type invariant.
LogTypeOK == /\ log \in Seq(Lines)
             /\ ended \in BOOLEAN
             /\ logLock \subseteq Writers
             /\ writer \in [Writers -> [pc : {"idle", "lock", "last", "write", "dead"}, event : Lines]]
             /\ composed \in 0 .. MaxDraws
             /\ returned \subseteq Lines

LogInit == /\ log = <<>> /\ ended = TRUE
           /\ logLock = {}
           /\ writer = [p \in Writers |-> IdleWriter]
           /\ composed = 0 /\ returned = {}

---------------------------------------------------------------------------
(* append                                                                  *)

AppendEvent(p) == /\ writer[p].pc = "idle"
                  /\ writer' = [writer EXCEPT ![p].pc = "lock"]
                  /\ UNCHANGED <<log, ended, logLock, composed, returned>>

\* Mutant of LockAppend: append without withFileLock.
AppendUnlocked(p) == /\ writer[p].pc = "lock"
                     /\ writer' = [writer EXCEPT ![p].pc = "last"]
                     /\ UNCHANGED <<log, ended, logLock, composed, returned>>

LockAppend(p) == /\ writer[p].pc = "lock"
                 /\ LogMutex!Enter(p)
                 /\ writer' = [writer EXCEPT ![p].pc = "last"]
                 /\ UNCHANGED <<log, ended, composed, returned>>

\* "timed out acquiring file lock"
LogLockTimeout(p) == /\ writer[p].pc = "lock" /\ logLock # {}
                     /\ writer' = [writer EXCEPT ![p] = IdleWriter]
                     /\ UNCHANGED <<log, ended, logLock, composed, returned>>

\* append throws: the lock is released, nothing else changes.
Throw(p) == /\ writer' = [writer EXCEPT ![p] = IdleWriter]
            /\ logLock' = logLock \ {p}
            /\ UNCHANGED <<log, ended, composed, returned>>

LastIndex == IF log = <<>> THEN 0 ELSE log[Len(log)].index
LastHash == IF log = <<>> THEN Genesis ELSE log[Len(log)].id

LastParses == log # <<>> => log[Len(log)].whole

\* "invalid final evidence JSONL line"
RejectTornTail(p) == /\ writer[p].pc = "last" /\ ~LastParses
                     /\ Throw(p)

\* "evidence log exceeds maxEvents"
OverLimit == LastIndex + 1 > MaxEvents

RejectFull(p) == /\ writer[p].pc = "last" /\ LastParses /\ OverLimit
                 /\ Throw(p)

\* The event, chained to the last line.
Compose(p) == /\ writer[p].pc = "last" /\ LastParses /\ ~OverLimit
              /\ composed < MaxDraws
              /\ composed' = composed + 1
              /\ writer' = [writer EXCEPT ![p] = [pc |-> "write",
                              event |-> [whole |-> TRUE, id |-> composed + 1,
                                         index |-> LastIndex + 1, prev |-> LastHash]]]
              /\ UNCHANGED <<log, ended, logLock, returned>>

\* How much of the serialized line reached the file.
Extents == {"nothing", "part", "allButNewline", "all"}

\* The bytes go to the end of the file; without a newline there they join
\* the last line, which is then two JSON texts or one and a piece.
WriteBytes(event, extent) ==
    LET line == IF extent = "part" THEN Garbage ELSE event IN
    /\ log' = CASE extent = "nothing" -> log
                [] extent # "nothing" /\ ended -> log \o <<line>>
                [] extent # "nothing" /\ ~ended -> [log EXCEPT ![Len(log)] = Garbage]
    /\ ended' = CASE extent = "nothing" -> ended
                  [] extent = "all" -> TRUE
                  [] OTHER -> FALSE

\* writeSync returned, fsync too: the event is returned to the caller.
WriteLine(p, extent) ==
    /\ writer[p].pc = "write" /\ extent # "nothing" /\ (extent = "all" \/ ShortWrites)
    /\ WriteBytes(writer[p].event, extent)
    /\ returned' = returned \cup {writer[p].event}
    /\ writer' = [writer EXCEPT ![p] = IdleWriter]
    /\ logLock' = logLock \ {p}
    /\ UNCHANGED composed

\* The write fails, or the fsync after it.
AppendFails(p, extent) ==
    /\ AppendErrors /\ writer[p].pc = "write" /\ (extent \in {"nothing", "all"} \/ ShortWrites)
    /\ WriteBytes(writer[p].event, extent)
    /\ writer' = [writer EXCEPT ![p] = IdleWriter]
    /\ logLock' = logLock \ {p}
    /\ UNCHANGED <<composed, returned>>

---------------------------------------------------------------------------
(* Crashes: a process may die in the middle of its write                   *)

WriterDies(p, extent) ==
    /\ writer[p].pc # "dead" /\ (extent = "nothing" \/ writer[p].pc = "write")
    /\ WriteBytes(writer[p].event, extent)
    /\ writer' = [writer EXCEPT ![p] = [IdleWriter EXCEPT !.pc = "dead"]]
    /\ UNCHANGED <<logLock, composed, returned>>

\* A contender removes the stale lock of a dead process.
BreakLogLock(p) == /\ writer[p].pc = "dead"
                   /\ LogMutex!Leave(p)
                   /\ UNCHANGED <<log, ended, writer, composed, returned>>

\* A new process in its place.
Restart(p) == /\ writer[p].pc = "dead" /\ p \notin logLock
              /\ writer' = [writer EXCEPT ![p] = IdleWriter]
              /\ UNCHANGED <<log, ended, logLock, composed, returned>>

LogNext == \E p \in Writers :
              \/ AppendEvent(p) \/ LockAppend(p) \/ LogLockTimeout(p)
              \/ RejectTornTail(p) \/ RejectFull(p) \/ Compose(p)
              \/ \E extent \in Extents : WriteLine(p, extent) \/ AppendFails(p, extent) \/ WriterDies(p, extent)
              \/ BreakLogLock(p) \/ Restart(p)

LogSpec == LogInit /\ [][LogNext]_logVars

---------------------------------------------------------------------------
(* readEvents and verifyEvidence                                           *)

\* loadJsonLines throws on the first line that does not parse, and the
\* reader on more than maxEvents lines.
ReadEvents == IF Len(log) <= MaxEvents /\ \A i \in 1 .. Len(log) : log[i].whole
              THEN [ok |-> TRUE, events |-> log]
              ELSE [ok |-> FALSE, events |-> <<>>]

VerifyEvidence(events) ==
    \A i \in 1 .. Len(events) :
        /\ events[i].index = i
        /\ events[i].prev = IF i = 1 THEN Genesis ELSE events[i - 1].id

---------------------------------------------------------------------------
(* Properties                                                              *)

\* All lines but a damaged last one.
Undamaged ==
    SubSeq(log, 1, IF log # <<>> /\ ~log[Len(log)].whole THEN Len(log) - 1 ELSE Len(log))

\* Whatever the recorder itself wrote, interrupted or not, verifyEvidence
\* accepts all of it but a damaged last line: damage never spreads into the
\* chain, and the writer never outgrows what the reader accepts.
WrittenLogVerifies ==
    /\ Len(log) <= MaxEvents
    /\ \A i \in 1 .. Len(log) : ~log[i].whole => i = Len(log)
    /\ VerifyEvidence(Undamaged)

\* An event that append returned is never silently missing: readEvents
\* yields it in its place, or refuses the log.
LossIsDetected ==
    ReadEvents.ok => \A e \in returned : e.index <= Len(log) /\ ReadEvents.events[e.index] = e

\* However writers interleave, die and write short, the log verifies up to a
\* damaged last line and no loss goes unnoticed (protocol/recorder.js).
LogIsSound == LogTypeOK /\ WrittenLogVerifies /\ LossIsDetected
============================================================================
