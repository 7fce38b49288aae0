--------------------------- MODULE Stores_proofs ---------------------------
(***************************************************************************)
(* Proofs about four stores that share no state: the evidence log, git     *)
(* execution, delegated grants and capability history; each for any number *)
(* of processes, and whatever the constants are.                           *)
(***************************************************************************)
EXTENDS EvidenceLog, GitExecution, Delegation, CapabilityHistory, FiniteSetTheorems,
        WellFoundedInduction, TLAPS

---------------------------------------------------------------------------
(* EvidenceLog: the inductive invariant.                                   *)

\* One process is inside withFileLock, and whoever composes or writes is.
LockOK == /\ \A p, q \in logLock : p = q
          /\ \A p \in Writers : writer[p].pc \in {"last", "write"} => p \in logLock
          /\ \A p \in logLock : writer[p].pc \in {"last", "write", "dead"}

\* Only the last line may be damaged; a whole one is in its place.
InPlace(line, i) == /\ line.index = i
                    /\ line.prev = IF i = 1 THEN Genesis ELSE log[i - 1].id
ChainOK == /\ \A i \in 1 .. Len(log) : ~log[i].whole => i = Len(log)
           /\ \A i \in 1 .. Len(log) : log[i].whole => InPlace(log[i], i)
           /\ Len(log) <= MaxEvents
           /\ log = <<>> => ended

\* No line is damaged.
AllWhole == \A i \in 1 .. Len(log) : log[i].whole

\* The event about to be written continues the log as it still is.
WriteOK == \A p \in Writers : writer[p].pc = "write" =>
    /\ AllWhole
    /\ writer[p].event.whole
    /\ InPlace(writer[p].event, Len(log) + 1)
    /\ Len(log) < MaxEvents

\* As long as no line is damaged, a returned event is in its place.
ReturnedOK == AllWhole => \A e \in returned : e.index \in 1 .. Len(log) /\ log[e.index] = e

IInv == LogTypeOK /\ LockOK /\ ChainOK /\ WriteOK /\ ReturnedOK

---------------------------------------------------------------------------
(* What reaches the file.                                                  *)

\* The log is undamaged when its last line is.
LEMMA LastTellsAll == ASSUME LogTypeOK, ChainOK, LastParses PROVE AllWhole
<1>1. Len(log) \in Nat /\ (log = <<>> => Len(log) = 0)
  BY DEF LogTypeOK
<1> QED
  BY <1>1 DEF ChainOK, LastParses, AllWhole

\* An undamaged log ends with the event whose index is its length.
LEMMA LastOfWhole ==
    ASSUME LogTypeOK, ChainOK, AllWhole
    PROVE  /\ LastIndex = Len(log)
           /\ LastHash = IF Len(log) + 1 = 1 THEN Genesis ELSE log[Len(log)].id
           /\ LastHash \in Nat
<1>1. Len(log) \in Nat /\ (log = <<>> <=> Len(log) = 0)
  BY DEF LogTypeOK
<1>2. CASE log = <<>>
  BY <1>1, <1>2 DEF LastIndex, LastHash, Genesis
<1>3. CASE log # <<>>
  <2>1. Len(log) \in 1 .. Len(log) /\ log[Len(log)] \in Lines
    BY <1>1, <1>3 DEF LogTypeOK
  <2>2. log[Len(log)].index = Len(log) /\ log[Len(log)].id \in Nat
    BY <2>1 DEF ChainOK, InPlace, AllWhole, Lines
  <2> QED
    BY <1>1, <1>3, <2>2 DEF LastIndex, LastHash
<1> QED
  BY <1>2, <1>3

\* A write leaves the log alone, adds a line, or damages an unended last one.
LEMMA WriteEffect ==
    ASSUME LogTypeOK, NEW event \in Lines, NEW extent \in Extents, WriteBytes(event, extent)
    PROVE  /\ ended' \in BOOLEAN
           /\ extent = "nothing" => log' = log /\ ended' = ended
           /\ extent # "nothing" /\ ended =>
                 log' = Append(log, IF extent = "part" THEN Garbage ELSE event)
           /\ extent # "nothing" /\ ~ended => log' = [log EXCEPT ![Len(log)] = Garbage]
<1> DEFINE line == IF extent = "part" THEN Garbage ELSE event
<1>1. line \in Lines
  BY DEF Garbage, Lines
<1>2. log \o <<line>> = Append(log, line)
  BY <1>1 DEF LogTypeOK
<1> QED
  BY <1>2 DEF WriteBytes, Extents, LogTypeOK

\* What a write by the holder of the lock makes of the log: the chain still
\* holds, and an undamaged result has the event in its place.
LEMMA WriteKeepsChain ==
    ASSUME LogTypeOK, ChainOK, AllWhole, Len(log) < MaxEvents,
           NEW event \in Lines, event.whole, InPlace(event, Len(log) + 1),
           NEW extent \in Extents, WriteBytes(event, extent)
    PROVE  /\ log' \in Seq(Lines) /\ ended' \in BOOLEAN
           /\ ChainOK'
           /\ AllWhole' => /\ \A i \in 1 .. Len(log) : i \in 1 .. Len(log') /\ log'[i] = log[i]
                           /\ extent # "nothing" => /\ event.index \in 1 .. Len(log')
                                                    /\ log'[event.index] = event
<1>1. /\ Len(log) \in Nat /\ (log = <<>> <=> Len(log) = 0) /\ MaxEvents \in Nat
      /\ \A i \in 1 .. Len(log) : log[i] \in Lines
  BY LimitAssumption DEF LogTypeOK
<1>2. CASE extent = "nothing"
  <2>1. log' = log /\ ended' = ended
    BY <1>2, WriteEffect
  <2> QED
    BY <1>2, <2>1 DEF LogTypeOK, ChainOK, InPlace
<1>3. CASE extent # "nothing" /\ ended
  <2> DEFINE line == IF extent = "part" THEN Garbage ELSE event
  <2>1. line \in Lines /\ (line.whole => line = event)
    BY DEF Garbage, Lines
  <2>2. log' = Append(log, line) /\ ended' \in BOOLEAN
    BY <1>3, WriteEffect
  <2> HIDE DEF line
  <2>3. /\ log' \in Seq(Lines) /\ Len(log') = Len(log) + 1
        /\ log'[Len(log) + 1] = line
        /\ \A i \in 1 .. Len(log) : log'[i] = log[i]
    BY <2>1, <2>2 DEF LogTypeOK
  <2>4. ChainOK'
    <3>1. \A i \in 1 .. Len(log') : ~log'[i].whole => i = Len(log')
      BY <1>1, <2>3 DEF AllWhole
    <3>2. ASSUME NEW i \in 1 .. Len(log'), log'[i].whole PROVE InPlace(log[i], i)'
      <4>1. CASE i = Len(log) + 1
        BY <1>1, <2>1, <2>3, <3>2, <4>1 DEF InPlace
      <4>2. CASE i \in 1 .. Len(log)
        <5>1. InPlace(log[i], i) /\ (i # 1 => i - 1 \in 1 .. Len(log))
          BY <1>1, <4>2 DEF ChainOK, AllWhole
        <5> QED
          BY <4>2, <5>1, <2>3 DEF InPlace
      <4> QED
        BY <1>1, <2>3, <4>1, <4>2
    <3>3. Len(log') <= MaxEvents /\ log' # <<>>
      BY <1>1, <2>3
    <3> QED
      BY <3>1, <3>2, <3>3 DEF ChainOK, InPlace
  <2>5. AllWhole' => event.index \in 1 .. Len(log') /\ log'[event.index] = event
    BY <1>1, <2>1, <2>3 DEF AllWhole, InPlace
  <2> QED
    BY <1>1, <2>2, <2>3, <2>4, <2>5
<1>4. CASE extent # "nothing" /\ ~ended
  <2>1. log' = [log EXCEPT ![Len(log)] = Garbage] /\ ended' \in BOOLEAN
        /\ Len(log) \in 1 .. Len(log)
    BY <1>1, <1>4, WriteEffect DEF ChainOK
  <2>2. /\ log' \in Seq(Lines) /\ Len(log') = Len(log)
        /\ log'[Len(log)] = Garbage
        /\ \A i \in 1 .. Len(log) : i # Len(log) => log'[i] = log[i]
    BY <2>1 DEF LogTypeOK, Garbage, Lines
  <2>3. ~AllWhole'
    <3>1. Len(log) \in 1 .. Len(log') /\ ~log'[Len(log)].whole
      <4>1. log'[Len(log)].whole = FALSE
        BY <2>2 DEF Garbage
      <4> QED
        BY <2>1, <2>2, <4>1
    <3> QED
      BY <3>1 DEF AllWhole
  <2>4. ChainOK'
    <3>1. \A i \in 1 .. Len(log') : ~log'[i].whole => i = Len(log')
      BY <1>1, <2>2 DEF AllWhole
    <3>2. ASSUME NEW i \in 1 .. Len(log'), log'[i].whole PROVE InPlace(log[i], i)'
      <4>1. i \in 1 .. Len(log) /\ i # Len(log)
        BY <2>2, <3>2 DEF Garbage
      <4>2. InPlace(log[i], i) /\ (i # 1 => i - 1 \in 1 .. Len(log) /\ i - 1 # Len(log))
        BY <1>1, <4>1 DEF ChainOK, AllWhole
      <4> QED
        BY <4>1, <4>2, <2>2 DEF InPlace
    <3>3. Len(log') <= MaxEvents /\ log' # <<>>
      <4>1. Len(log) >= 1 /\ Len(log) <= MaxEvents
        BY <1>1, <2>1
      <4> QED
        BY <1>1, <2>2, <4>1
    <3> QED
      BY <3>1, <3>2, <3>3 DEF ChainOK, InPlace
  <2> QED
    BY <2>1, <2>2, <2>3, <2>4
<1> QED
  BY <1>2, <1>3, <1>4 DEF LogTypeOK

---------------------------------------------------------------------------
(* The actions.                                                            *)

Pcs == {"idle", "lock", "last", "write", "dead"}
WriterRecords == [pc : Pcs, event : Lines]

\* A process moves without touching the log: it needs the lock where it has
\* to have it, and no event to write.
LEMMA WriterMoves ==
    ASSUME IInv, NEW p \in Writers, NEW w \in WriterRecords,
           writer' = [writer EXCEPT ![p] = w],
           w.pc # "write",
           logLock' \subseteq Writers, \A q, r \in logLock' : q = r,
           \A q \in Writers : q # p => (q \in logLock' <=> q \in logLock),
           w.pc = "last" => p \in logLock',
           p \in logLock' => w.pc \in {"last", "dead"},
           UNCHANGED <<log, ended, composed, returned>>
    PROVE  IInv'
<1>1. /\ writer'[p] = w
      /\ \A q \in Writers \ {p} : writer'[q] = writer[q]
  BY DEF IInv, LogTypeOK
<1>2. LogTypeOK'
  BY DEF IInv, LogTypeOK, WriterRecords, Pcs
<1>3. LockOK'
  BY <1>1 DEF IInv, LockOK, LogTypeOK
<1>4. ChainOK' /\ ReturnedOK' /\ AllWhole' = AllWhole
  BY DEF IInv, ChainOK, ReturnedOK, AllWhole, InPlace
<1>5. WriteOK'
  BY <1>1, <1>4 DEF IInv, WriteOK, InPlace
<1> QED
  BY <1>2, <1>3, <1>4, <1>5 DEF IInv

\* A writer's record with another pc.
LEMMA AtPc ==
    ASSUME LogTypeOK, NEW p \in Writers, NEW pc \in Pcs
    PROVE  /\ [writer[p] EXCEPT !.pc = pc] \in WriterRecords
           /\ [writer[p] EXCEPT !.pc = pc].pc = pc
BY DEF LogTypeOK, WriterRecords, Pcs

\* An idle or a dead process has no event.
LEMMA RestingRecords ==
    /\ IdleWriter \in WriterRecords /\ IdleWriter.pc = "idle"
    /\ [IdleWriter EXCEPT !.pc = "dead"] \in WriterRecords
    /\ [IdleWriter EXCEPT !.pc = "dead"].pc = "dead"
BY DEF IdleWriter, WriterRecords, Pcs, Garbage, Lines

\* append is called.
LEMMA AppendEventStep == ASSUME IInv, NEW p \in Writers, AppendEvent(p) PROVE IInv'
<1> DEFINE w == [writer[p] EXCEPT !.pc = "lock"]
<1>1. w \in WriterRecords /\ w.pc = "lock"
  BY AtPc DEF IInv, Pcs
<1>2. /\ writer[p].pc = "idle" /\ writer' = [writer EXCEPT ![p] = w]
      /\ UNCHANGED <<log, ended, logLock, composed, returned>>
  BY DEF AppendEvent
<1> HIDE DEF w
<1>3. p \notin logLock /\ logLock \subseteq Writers /\ (\A q, r \in logLock : q = r)
  BY <1>2 DEF IInv, LockOK, LogTypeOK
<1> QED
  BY <1>1, <1>2, <1>3, WriterMoves

\* The lock is taken.
LEMMA LockAppendStep == ASSUME IInv, NEW p \in Writers, LockAppend(p) PROVE IInv'
<1> DEFINE w == [writer[p] EXCEPT !.pc = "last"]
<1>1. w \in WriterRecords /\ w.pc = "last"
  BY AtPc DEF IInv, Pcs
<1>2. /\ writer' = [writer EXCEPT ![p] = w] /\ logLock = {} /\ logLock' = {p}
      /\ UNCHANGED <<log, ended, composed, returned>>
  BY DEF LockAppend, LogMutex!Enter
<1> HIDE DEF w
<1> QED
  BY <1>1, <1>2, WriterMoves

\* The lock is not got in time.
LEMMA LogLockTimeoutStep == ASSUME IInv, NEW p \in Writers, LogLockTimeout(p) PROVE IInv'
<1>1. /\ writer[p].pc = "lock" /\ writer' = [writer EXCEPT ![p] = IdleWriter]
      /\ UNCHANGED <<log, ended, logLock, composed, returned>>
  BY DEF LogLockTimeout
<1>2. p \notin logLock /\ logLock \subseteq Writers /\ (\A q, r \in logLock : q = r)
  BY <1>1 DEF IInv, LockOK, LogTypeOK
<1> QED
  BY <1>1, <1>2, RestingRecords, WriterMoves

\* append throws before it writes.
LEMMA ThrowStep == ASSUME IInv, NEW p \in Writers, Throw(p) PROVE IInv'
<1>1. /\ writer' = [writer EXCEPT ![p] = IdleWriter] /\ logLock' = logLock \ {p}
      /\ UNCHANGED <<log, ended, composed, returned>>
  BY DEF Throw
<1>2. logLock \subseteq Writers /\ (\A q, r \in logLock : q = r)
  BY DEF IInv, LockOK, LogTypeOK
<1> QED
  BY <1>1, <1>2, RestingRecords, WriterMoves

\* The event is composed from the last line, under the lock.
LEMMA ComposeStep == ASSUME IInv, NEW p \in Writers, Compose(p) PROVE IInv'
<1> DEFINE event == [whole |-> TRUE, id |-> composed + 1, index |-> LastIndex + 1,
    prev |-> LastHash]
           w == [pc |-> "write", event |-> event]
<1>1. /\ writer[p].pc = "last" /\ LastParses /\ ~OverLimit /\ composed < MaxDraws
      /\ composed' = composed + 1
      /\ writer' = [writer EXCEPT ![p] = w]
      /\ UNCHANGED <<log, ended, logLock, returned>>
  BY DEF Compose
<1>2. AllWhole
  BY <1>1, LastTellsAll DEF IInv
<1>3. /\ LastIndex = Len(log) /\ LastHash \in Nat /\ Len(log) \in Nat
      /\ LastHash = IF Len(log) + 1 = 1 THEN Genesis ELSE log[Len(log)].id
  BY <1>2, LastOfWhole DEF IInv, LogTypeOK
<1>4. Len(log) < MaxEvents /\ composed' \in 0 .. MaxDraws /\ composed + 1 \in Nat
  BY <1>1, <1>3, LimitAssumption DEF OverLimit, IInv, LogTypeOK
<1>5. w \in WriterRecords /\ w.pc = "write" /\ w.event.whole /\ InPlace(w.event, Len(log) + 1)
  BY <1>3, <1>4 DEF WriterRecords, Pcs, Lines, InPlace
<1> HIDE DEF w
<1>6. /\ writer'[p] = w
      /\ \A q \in Writers \ {p} : writer'[q] = writer[q]
      /\ writer' \in [Writers -> WriterRecords]
  BY <1>1, <1>5 DEF IInv, LogTypeOK, WriterRecords, Pcs
<1>7. LogTypeOK'
  BY <1>1, <1>4, <1>6 DEF IInv, LogTypeOK, WriterRecords, Pcs
<1>8. LockOK'
  BY <1>1, <1>5, <1>6 DEF IInv, LockOK, LogTypeOK
<1>9. ChainOK' /\ ReturnedOK' /\ AllWhole'
  BY <1>1, <1>2 DEF IInv, ChainOK, ReturnedOK, AllWhole, InPlace
<1>10. WriteOK'
  BY <1>1, <1>4, <1>5, <1>6, <1>9 DEF IInv, WriteOK, InPlace
<1> QED
  BY <1>7, <1>8, <1>9, <1>10 DEF IInv

\* The bytes reach the file, some or all of them; the writer is done, or dead
\* and still named in the lock.
LEMMA WrittenStep ==
    ASSUME IInv, NEW p \in Writers, writer[p].pc = "write",
           NEW extent \in Extents, WriteBytes(writer[p].event, extent),
           NEW w \in WriterRecords, w.pc \in {"idle", "dead"},
           writer' = [writer EXCEPT ![p] = w],
           logLock' = logLock \ {p} \/ (logLock' = logLock /\ w.pc = "dead"),
           \/ returned' = returned
           \/ returned' = returned \cup {writer[p].event} /\ extent # "nothing",
           UNCHANGED composed
    PROVE  IInv'
<1>1. /\ writer'[p] = w
      /\ \A q \in Writers \ {p} : writer'[q] = writer[q]
      /\ writer[p].event \in Lines
  BY DEF IInv, LogTypeOK
<1>2. /\ AllWhole /\ Len(log) < MaxEvents /\ writer[p].event.whole
      /\ InPlace(writer[p].event, Len(log) + 1)
  BY DEF IInv, WriteOK
<1>3. /\ log' \in Seq(Lines) /\ ended' \in BOOLEAN
      /\ ChainOK'
      /\ AllWhole' => /\ \A i \in 1 .. Len(log) : i \in 1 .. Len(log') /\ log'[i] = log[i]
                      /\ extent # "nothing" => /\ writer[p].event.index \in 1 .. Len(log')
                                               /\ log'[writer[p].event.index] = writer[p].event
  BY <1>1, <1>2, WriteKeepsChain DEF IInv
<1>4. LogTypeOK'
  BY <1>1, <1>3 DEF IInv, LogTypeOK, WriterRecords, Pcs
<1>5. LockOK'
  BY <1>1 DEF IInv, LockOK, LogTypeOK
<1>6. \A q \in Writers : writer'[q].pc # "write"
  BY <1>1 DEF IInv, LockOK
<1>7. ReturnedOK'
  <2> SUFFICES ASSUME AllWhole', NEW e \in returned'
               PROVE  e.index \in 1 .. Len(log') /\ log'[e.index] = e
    BY DEF ReturnedOK
  <2>1. CASE e \in returned
    BY <1>2, <1>3, <2>1 DEF IInv, ReturnedOK
  <2>2. CASE e = writer[p].event /\ extent # "nothing"
    BY <1>3, <2>2
  <2> QED
    BY <2>1, <2>2
<1> QED
  BY <1>3, <1>4, <1>5, <1>6, <1>7 DEF IInv, WriteOK

\* writeSync and fsync return.
LEMMA WriteLineStep ==
    ASSUME IInv, NEW p \in Writers, NEW extent \in Extents, WriteLine(p, extent) PROVE IInv'
BY RestingRecords, WrittenStep DEF WriteLine

\* They throw.
LEMMA AppendFailsStep ==
    ASSUME IInv, NEW p \in Writers, NEW extent \in Extents, AppendFails(p, extent) PROVE IInv'
BY RestingRecords, WrittenStep DEF AppendFails

\* A process dies, in the middle of its write or elsewhere.
LEMMA WriterDiesStep ==
    ASSUME IInv, NEW p \in Writers, NEW extent \in Extents, WriterDies(p, extent) PROVE IInv'
<1> DEFINE w == [IdleWriter EXCEPT !.pc = "dead"]
<1>1. w \in WriterRecords /\ w.pc = "dead"
  BY RestingRecords
<1>2. /\ extent = "nothing" \/ writer[p].pc = "write"
      /\ WriteBytes(writer[p].event, extent)
      /\ writer' = [writer EXCEPT ![p] = w]
      /\ UNCHANGED <<logLock, composed, returned>>
  BY DEF WriterDies
<1> HIDE DEF w
<1>3. CASE writer[p].pc = "write"
  BY <1>1, <1>2, <1>3, WrittenStep
<1>4. CASE writer[p].pc # "write"
  <2>1. extent = "nothing" /\ log' = log /\ ended' = ended
    BY <1>2, <1>4 DEF WriteBytes
  <2>2. logLock \subseteq Writers /\ (\A q, r \in logLock : q = r)
    BY DEF IInv, LockOK, LogTypeOK
  <2> QED
    BY <1>1, <1>2, <2>1, <2>2, WriterMoves
<1> QED
  BY <1>3, <1>4

\* The lock of a dead process is broken.
LEMMA BreakLogLockStep == ASSUME IInv, NEW p \in Writers, BreakLogLock(p) PROVE IInv'
<1>1. /\ writer[p].pc = "dead" /\ logLock = {p} /\ logLock' = {}
      /\ UNCHANGED <<log, ended, writer, composed, returned>>
  BY DEF BreakLogLock, LogMutex!Leave
<1>2. LogTypeOK' /\ LockOK'
  BY <1>1 DEF IInv, LogTypeOK, LockOK
<1>3. ChainOK' /\ ReturnedOK' /\ AllWhole' = AllWhole
  BY <1>1 DEF IInv, ChainOK, ReturnedOK, AllWhole, InPlace
<1>4. WriteOK'
  BY <1>1, <1>3 DEF IInv, WriteOK, InPlace
<1> QED
  BY <1>2, <1>3, <1>4 DEF IInv

\* A new process takes the place of a dead one.
LEMMA RestartStep == ASSUME IInv, NEW p \in Writers, Restart(p) PROVE IInv'
<1>1. /\ p \notin logLock /\ writer' = [writer EXCEPT ![p] = IdleWriter]
      /\ UNCHANGED <<log, ended, logLock, composed, returned>>
  BY DEF Restart
<1>2. logLock \subseteq Writers /\ (\A q, r \in logLock : q = r)
  BY DEF IInv, LockOK, LogTypeOK
<1> QED
  BY <1>1, <1>2, RestingRecords, WriterMoves

---------------------------------------------------------------------------
(* The theorem.                                                            *)

\* The invariant says what verifyEvidence and readEvents will find.
LEMMA InvariantImplies == IInv => LogIsSound
<1> SUFFICES ASSUME IInv PROVE LogIsSound
    OBVIOUS
<1>1. Len(log) \in Nat /\ log \in Seq(Lines) /\ (log = <<>> <=> Len(log) = 0)
  BY DEF IInv, LogTypeOK
<1>2. WrittenLogVerifies
  <2> DEFINE n == IF log # <<>> /\ ~log[Len(log)].whole THEN Len(log) - 1 ELSE Len(log)
  <2>1. n \in 0 .. Len(log) /\ (\A i \in 1 .. n : log[i].whole)
    BY <1>1 DEF IInv, ChainOK
  <2> HIDE DEF n
  <2>2. /\ Len(SubSeq(log, 1, n)) = n
        /\ \A i \in 1 .. n : SubSeq(log, 1, n)[i] = log[i]
    BY <1>1, <2>1
  <2>3. VerifyEvidence(SubSeq(log, 1, n))
    <3> SUFFICES ASSUME NEW i \in 1 .. n
                 PROVE  /\ log[i].index = i
                        /\ log[i].prev = IF i = 1 THEN Genesis ELSE SubSeq(log, 1, n)[i - 1].id
      BY <2>2 DEF VerifyEvidence
    <3>1. i \in 1 .. Len(log) /\ log[i].whole /\ (i # 1 => i - 1 \in 1 .. n)
      BY <1>1, <2>1
    <3> QED
      BY <2>2, <3>1 DEF IInv, ChainOK, InPlace
  <2>4. VerifyEvidence(Undamaged)
    BY <2>3 DEF Undamaged, n
  <2> QED
    BY <2>4 DEF IInv, ChainOK, WrittenLogVerifies
<1>3. LossIsDetected
  <2> SUFFICES ASSUME ReadEvents.ok, NEW e \in returned
               PROVE  e.index <= Len(log) /\ ReadEvents.events[e.index] = e
    BY DEF LossIsDetected
  <2>1. AllWhole /\ ReadEvents.events = log
    BY DEF ReadEvents, AllWhole
  <2> QED
    BY <1>1, <2>1 DEF IInv, ReturnedOK
<1> QED
  BY <1>2, <1>3 DEF IInv, LogIsSound

\* However many writers append, die in the middle of a write, write short or
\* fail, the log has its types, verifyEvidence accepts all of it but a
\* damaged last line, it never outgrows what the reader accepts, and an event
\* that append returned is read back in its place or the log is refused.
THEOREM LogSound == LogSpec => []LogIsSound
<1>1. LogInit => IInv
  BY RestingRecords, LimitAssumption DEF LogInit, IInv, LogTypeOK, LockOK, ChainOK, WriteOK,
     ReturnedOK, AllWhole, WriterRecords, Pcs
<1>2. IInv /\ [LogNext]_logVars => IInv'
  <2> SUFFICES ASSUME IInv, [LogNext]_logVars PROVE IInv'
    OBVIOUS
  <2>1. CASE UNCHANGED logVars
    <3>1. UNCHANGED <<log, ended, logLock, writer, composed, returned>>
      BY <2>1 DEF logVars
    <3>2. LogTypeOK' /\ LockOK'
      BY <3>1 DEF IInv, LogTypeOK, LockOK
    <3>3. ChainOK' /\ ReturnedOK' /\ AllWhole' = AllWhole
      BY <3>1 DEF IInv, ChainOK, ReturnedOK, AllWhole, InPlace
    <3>4. WriteOK'
      BY <3>1, <3>3 DEF IInv, WriteOK, InPlace
    <3> QED
      BY <3>2, <3>3, <3>4 DEF IInv
  <2>2. CASE LogNext
    BY <2>2, AppendEventStep, LockAppendStep, LogLockTimeoutStep, ThrowStep, ComposeStep,
       WriteLineStep, AppendFailsStep, WriterDiesStep, BreakLogLockStep, RestartStep, Zenon
       DEF LogNext, RejectTornTail, RejectFull
  <2> QED
    BY <2>1, <2>2
<1> QED
  BY <1>1, <1>2, InvariantImplies, PTL DEF LogSpec

---------------------------------------------------------------------------
(* Git: the inductive invariant.                                           *)

Authors == GitExecutors \cup {"others"}
Repositories == [commits : Seq(Authors), branch : Authors \cup {"nobody"}, staged : BOOLEAN,
                 pushed : Nat]
GitSteps == {"ready", "consume", "ledger", "run", "observe", "record", "done", "threw", "refused",
             "dead"}
GitReceipts ==
    [status : {"success", "failure"},
     observed : [branch_exists : BOOLEAN, head_changed : BOOLEAN, remote_matches_local : BOOLEAN]]
Executions == [step : GitSteps, before : Nat, ok : BOOLEAN, receipt : Seq(GitReceipts)]

GitTypes ==
    /\ leaseHeld \in [GitExecutors -> GitLeases]
    /\ operationOf \in [GitLeases -> EXECUTABLE_OPERATIONS]
    /\ repository \in Repositories
    /\ git \in [GitExecutors -> Executions]

\* e changed the repository; e may, because it consumed its lease.
Changed(e) == MadeBranch(e) \/ Committed(e)
Running == {"run", "observe", "record", "done"}
Entitled(e) == git[e].step \in Running \cup {"ledger"} \/ Changed(e)

\* Whoever is entitled has spent its lease, and is the only one with it: also
\* after it died or threw, if its change is in the repository.
EntitledOK == \A e \in GitExecutors : Entitled(e) =>
    /\ leaseHeld[e] \in leasesSpent
    /\ \A d \in GitExecutors : Entitled(d) /\ leaseHeld[d] = leaseHeld[e] => d = e

\* The ledger has the start of what is run and of what was changed.
StartedOK == \A e \in GitExecutors : git[e].step \in Running \/ Changed(e) =>
    {<<"consumed", leaseHeld[e]>>, <<"started", leaseHeld[e]>>} \subseteq ledger

\* Before the command there is no change and no result; before the look at
\* the repository after it there is no receipt.
UnchangedOK == \A e \in GitExecutors :
    /\ git[e].step \in {"ready", "consume", "ledger", "run"} => ~Changed(e) /\ ~git[e].ok
    /\ git[e].step \in {"ready", "consume", "ledger", "run", "observe"} => git[e].receipt = <<>>

\* The HEAD that an executor looked at first is in the history, and its own
\* commits come after it.
BeforeOK == \A e \in GitExecutors :
    /\ git[e].before <= Len(repository.commits)
    /\ \A i \in 1 .. Len(repository.commits) : repository.commits[i] = e => git[e].before < i

\* A command that succeeded made its change.
SuccessOK == \A e \in GitExecutors : git[e].ok =>
    /\ OperationOf(e) = "branch.create" => MadeBranch(e)
    /\ OperationOf(e) = "commit" => Committed(e)

\* A receipt says success only after a success.
StatusOK == \A e \in GitExecutors : git[e].receipt # <<>> =>
    (git[e].receipt[1].status = "success" => git[e].ok)

ReceiptOK == \A e \in GitExecutors : git[e].receipt # <<>> =>
    /\ MadeBranch(e) => git[e].receipt[1].observed.branch_exists
    /\ Committed(e) => git[e].receipt[1].observed.head_changed

GitInv == /\ GitTypes /\ EntitledOK /\ StartedOK /\ UnchangedOK /\ BeforeOK
          /\ SuccessOK /\ StatusOK /\ ReceiptOK

\* What is left to show of a step in which e goes to step: who is entitled to
\* change the repository, and what the ledger has.
Moved(e, step) ==
    /\ GitTypes' /\ UnchangedOK' /\ BeforeOK' /\ SuccessOK' /\ StatusOK' /\ ReceiptOK'
    /\ \A d \in GitExecutors : Changed(d)' = Changed(d)
    /\ \A d \in GitExecutors \ {e} : git'[d] = git[d]
    /\ git'[e].step = step

\* A step of one executor that leaves the repository alone, records no result
\* and writes no receipt keeps what is about changes, results and receipts.
LEMMA QuietGit ==
    ASSUME GitInv, UNCHANGED <<leaseHeld, operationOf, repository>>,
           NEW e \in GitExecutors, NEW step \in GitSteps, NEW before \in 0 .. Len(repository.commits),
           git' = [git EXCEPT ![e].step = step, ![e].before = before],
           step \in {"consume", "ledger", "run"}
               => git[e].step \in {"ready", "consume", "ledger", "run"},
           step \notin {"ready", "observe"},
           before = git[e].before \/ git[e].step = "ready"
    PROVE  Moved(e, step)
<1>0. before \in Nat /\ Len(repository.commits) \in Nat /\ before <= Len(repository.commits)
  BY DEF GitInv, GitTypes, Repositories
<1>1. git' \in [GitExecutors -> Executions] /\ git[e] \in Executions
  BY <1>0 DEF GitInv, GitTypes, Executions
<1>2. /\ \A d \in GitExecutors \ {e} : git'[d] = git[d]
      /\ git'[e].step = step /\ git'[e].before = before
      /\ git'[e].ok = git[e].ok /\ git'[e].receipt = git[e].receipt
  BY DEF GitInv, GitTypes, Executions
<1>3. /\ \A d \in GitExecutors : Changed(d)' = Changed(d) /\ MadeBranch(d)' = MadeBranch(d)
      /\ \A d \in GitExecutors : Committed(d)' = Committed(d) /\ OperationOf(d)' = OperationOf(d)
  BY DEF Changed, MadeBranch, Committed, OperationOf
<1>4. GitTypes'
  BY <1>1 DEF GitInv, GitTypes
<1>5. UnchangedOK'
  BY <1>2, <1>3 DEF GitInv, UnchangedOK
<1>6. BeforeOK'
  <2>0. \A d \in GitExecutors : git'[d].before <= Len(repository.commits)
    BY <1>0, <1>2 DEF GitInv, BeforeOK
  <2> SUFFICES ASSUME NEW d \in GitExecutors, NEW i \in 1 .. Len(repository.commits),
                      repository.commits[i] = d
               PROVE  git'[d].before < i
    BY <2>0 DEF BeforeOK
  <2>1. git[d].before < i /\ Changed(d)
    BY DEF GitInv, BeforeOK, Changed, Committed, GitTypes, Repositories
  <2>2. d = e => git[e].step # "ready"
    BY <2>1 DEF GitInv, UnchangedOK
  <2> QED
    BY <1>2, <2>1, <2>2
<1>7. SuccessOK' /\ StatusOK' /\ ReceiptOK'
  BY <1>2, <1>3 DEF GitInv, SuccessOK, StatusOK, ReceiptOK
<1> QED
  BY <1>2, <1>3, <1>4, <1>5, <1>6, <1>7 DEF Moved

LEMMA LookBeforeStep ==
    ASSUME GitInv, NEW e \in GitExecutors, LookBefore(e)
    PROVE  GitInv'
<1>1. PICK step \in {"consume", "threw"} :
         git' = [git EXCEPT ![e].step = step, ![e].before = HeadOf(repository)]
  BY DEF LookBefore
<1>2. HeadOf(repository) \in 0 .. Len(repository.commits) /\ git[e].step = "ready"
  BY DEF GitInv, GitTypes, Repositories, HeadOf, LookBefore, At
<1>3. /\ UNCHANGED <<leaseHeld, operationOf, repository, leasesSpent, ledger>> /\ step \in GitSteps
      /\ step \notin Running \cup {"ledger", "ready"}
  BY DEF LookBefore, GitSteps, Running
<1>4. Moved(e, step)
  BY <1>1, <1>2, <1>3, QuietGit, Zenon DEF Running
<1>5. EntitledOK' /\ StartedOK'
  BY <1>3, <1>4 DEF Moved, GitInv, EntitledOK, StartedOK, Entitled
<1> QED
  BY <1>4, <1>5 DEF Moved, GitInv

\* The same for the steps that only move on.
LEMMA GoesGit ==
    ASSUME GitInv, UNCHANGED <<leaseHeld, operationOf, repository>>,
           NEW e \in GitExecutors, NEW step \in GitSteps, Goes(e, step),
           step \in {"consume", "ledger", "run"}
               => git[e].step \in {"ready", "consume", "ledger", "run"},
           step \notin {"ready", "observe"}
    PROVE  Moved(e, step)
<1>1. git' = [git EXCEPT ![e].step = step, ![e].before = git[e].before]
  BY DEF Goes, GitInv, GitTypes, Executions
<1>2. git[e].before \in Nat /\ Len(repository.commits) \in Nat
  BY DEF GitInv, GitTypes, Executions, Repositories
<1>3. git[e].before \in 0 .. Len(repository.commits)
  BY <1>2 DEF GitInv, BeforeOK
<1> QED
  BY <1>1, <1>3, QuietGit

LEMMA ConsumeGitLeaseStep ==
    ASSUME GitInv, NEW e \in GitExecutors, ConsumeGitLease(e)
    PROVE  GitInv'
<1>1. /\ git[e].step = "consume" /\ UNCHANGED <<leaseHeld, operationOf, repository, ledger>>
      /\ \/ Goes(e, "refused") /\ leasesSpent' = leasesSpent
         \/ /\ leaseHeld[e] \notin leasesSpent /\ Goes(e, "ledger")
            /\ leasesSpent' = leasesSpent \cup {leaseHeld[e]}
  BY DEF ConsumeGitLease, At
<1>2. PICK step \in {"refused", "ledger"} :
         /\ Goes(e, step)
         /\ step = "refused" => leasesSpent' = leasesSpent
         /\ step = "ledger" => /\ leaseHeld[e] \notin leasesSpent
                               /\ leasesSpent' = leasesSpent \cup {leaseHeld[e]}
  BY <1>1
<1>3. Moved(e, step)
  BY <1>1, <1>2, GoesGit DEF GitSteps
<1>4. ~Changed(e) /\ ~Changed(e)'
  BY <1>1, <1>3 DEF Moved, GitInv, UnchangedOK
<1>5. StartedOK'
  BY <1>1, <1>2, <1>3, <1>4 DEF Moved, GitInv, StartedOK, Running
<1>6. EntitledOK'
  <2>1. CASE step = "refused"
    BY <2>1, <1>1, <1>2, <1>3, <1>4 DEF Moved, GitInv, EntitledOK, Entitled, Running
  <2>2. CASE step = "ledger"
    <3>1. \A d \in GitExecutors \ {e} : Entitled(d)' = Entitled(d)
      BY <1>3 DEF Moved, Entitled
    <3>2. \A d \in GitExecutors \ {e} :
              Entitled(d) => leaseHeld[d] \in leasesSpent /\ leaseHeld[d] # leaseHeld[e]
      BY <1>2, <2>2 DEF GitInv, EntitledOK
    <3> QED
      BY <1>1, <1>2, <2>2, <3>1, <3>2 DEF GitInv, EntitledOK
  <2> QED
    BY <1>2, <2>1, <2>2
<1> QED
  BY <1>3, <1>5, <1>6 DEF Moved, GitInv

LEMMA LedgerStartStep ==
    ASSUME GitInv, NEW e \in GitExecutors, LedgerStart(e)
    PROVE  GitInv'
<1>1. /\ git[e].step = "ledger" /\ UNCHANGED <<leaseHeld, operationOf, repository, leasesSpent>>
      /\ ledger \subseteq ledger'
      /\ \/ Goes(e, "threw")
         \/ /\ Goes(e, "run")
            /\ {<<"consumed", leaseHeld[e]>>, <<"started", leaseHeld[e]>>} \subseteq ledger'
  BY DEF LedgerStart, At
<1>2. PICK step \in {"threw", "run"} :
         /\ Goes(e, step)
         /\ step = "run" =>
               {<<"consumed", leaseHeld[e]>>, <<"started", leaseHeld[e]>>} \subseteq ledger'
  BY <1>1
<1>3. Moved(e, step)
  BY <1>1, <1>2, GoesGit DEF GitSteps
<1>4. Entitled(e) /\ ~Changed(e) /\ \A d \in GitExecutors : Entitled(d)' => Entitled(d)
  BY <1>1, <1>2, <1>3 DEF Moved, GitInv, UnchangedOK, Entitled, Running
<1>5. StartedOK'
  BY <1>1, <1>2, <1>3, <1>4 DEF Moved, GitInv, StartedOK, Running
<1>6. EntitledOK'
  BY <1>1, <1>4 DEF GitInv, EntitledOK
<1> QED
  BY <1>3, <1>5, <1>6 DEF Moved, GitInv

LEMMA LedgerEffectStep ==
    ASSUME GitInv, NEW e \in GitExecutors, LedgerEffect(e) \/ GitDies(e)
    PROVE  GitInv'
<1>1. /\ UNCHANGED <<leaseHeld, operationOf, repository, leasesSpent>> /\ ledger \subseteq ledger'
      /\ \/ Goes(e, "threw") \/ Goes(e, "dead")
         \/ Goes(e, "done") /\ git[e].step = "record"
  BY DEF LedgerEffect, GitDies, At
<1>2. PICK step \in {"threw", "dead", "done"} :
         Goes(e, step) /\ (step = "done" => git[e].step = "record")
  BY <1>1
<1>3. Moved(e, step)
  BY <1>1, <1>2, GoesGit DEF GitSteps
<1>4. \A d \in GitExecutors : /\ Entitled(d)' => Entitled(d)
                              /\ git'[d].step \in Running => git[d].step \in Running
  BY <1>2, <1>3 DEF Moved, Entitled, Running
<1>5. StartedOK'
  BY <1>1, <1>3, <1>4 DEF Moved, GitInv, StartedOK
<1>6. EntitledOK'
  BY <1>1, <1>4 DEF GitInv, EntitledOK
<1> QED
  BY <1>3, <1>5, <1>6 DEF Moved, GitInv

\* What an executor's receipt shows: the branch it made, the HEAD it moved.
LEMMA WriteReceiptStep ==
    ASSUME GitInv, NEW e \in GitExecutors, WriteReceipt(e)
    PROVE  GitInv'
<1> DEFINE r == [status |-> IF git[e].ok THEN "success" ELSE "failure", observed |-> Observed(e)]
<1>1. /\ git[e].step = "observe" /\ UNCHANGED <<leaseHeld, operationOf, repository, leasesSpent, ledger>>
      /\ git' = [git EXCEPT ![e].step = "record", ![e].receipt = <<r>>]
  BY DEF WriteReceipt, At
<1>2. Observed(e) \in [branch_exists : BOOLEAN, head_changed : BOOLEAN, remote_matches_local : BOOLEAN]
  BY DEF Observed
<1>3. r \in GitReceipts /\ r.observed = Observed(e) /\ (r.status = "success" => git[e].ok)
  BY <1>2 DEF GitReceipts
<1> HIDE DEF r
<1>4. /\ \A d \in GitExecutors \ {e} : git'[d] = git[d]
      /\ git'[e].step = "record" /\ git'[e].before = git[e].before
      /\ git'[e].ok = git[e].ok /\ git'[e].receipt = <<r>>
  BY <1>1 DEF GitInv, GitTypes, Executions
<1>5. GitTypes'
  <2>1. git[e] \in Executions /\ <<r>> \in Seq(GitReceipts)
    BY <1>3 DEF GitInv, GitTypes
  <2>2. git' \in [GitExecutors -> Executions]
    BY <1>1, <2>1 DEF GitInv, GitTypes, Executions, GitSteps
  <2> QED
    BY <1>1, <2>2 DEF GitInv, GitTypes
<1>6. /\ \A d \in GitExecutors : Changed(d)' = Changed(d) /\ MadeBranch(d)' = MadeBranch(d)
      /\ \A d \in GitExecutors : Committed(d)' = Committed(d) /\ OperationOf(d)' = OperationOf(d)
  BY <1>1 DEF Changed, MadeBranch, Committed, OperationOf
<1>7. EntitledOK' /\ StartedOK'
  <2>1. \A d \in GitExecutors : /\ Entitled(d)' => Entitled(d)
                                /\ git'[d].step \in Running => git[d].step \in Running
    BY <1>1, <1>4, <1>6 DEF Entitled, Running
  <2> QED
    BY <1>1, <1>6, <2>1 DEF GitInv, EntitledOK, StartedOK
<1>8. UnchangedOK' /\ BeforeOK' /\ SuccessOK'
  BY <1>1, <1>4, <1>6 DEF GitInv, UnchangedOK, BeforeOK, SuccessOK
<1>9. StatusOK'
  BY <1>3, <1>4 DEF GitInv, StatusOK
<1>10. ReceiptOK'
  <2>1. MadeBranch(e) => Observed(e).branch_exists
    BY GitAssumption DEF MadeBranch, Observed
  <2>2. Committed(e) => Observed(e).head_changed
    <3> SUFFICES ASSUME NEW i \in DOMAIN repository.commits, repository.commits[i] = e
                 PROVE  git[e].before # HeadOf(repository)
      BY DEF Committed, Observed
    <3>1. i \in 1 .. Len(repository.commits) /\ Len(repository.commits) \in Nat
      BY DEF GitInv, GitTypes, Repositories
    <3>2. git[e].before < i /\ git[e].before \in Nat
      BY <3>1 DEF GitInv, BeforeOK, GitTypes, Executions
    <3> QED
      BY <3>1, <3>2 DEF HeadOf
  <2> QED
    BY <1>3, <1>4, <1>6, <2>1, <2>2 DEF GitInv, ReceiptOK
<1> QED
  BY <1>5, <1>7, <1>8, <1>9, <1>10 DEF GitInv

\* How the repository grows: a branch is made where none is, and a commit
\* comes after the others.
LEMMA Grown ==
    ASSUME GitInv, NEW a \in Authors, NEW r,
           \/ repository.branch = "nobody" /\ r = [repository EXCEPT !.branch = a]
           \/ r = [repository EXCEPT !.commits = Append(repository.commits, a), !.staged = FALSE]
           \/ \E b \in BOOLEAN : r = [repository EXCEPT !.staged = b]
           \/ r = [repository EXCEPT !.pushed = Len(repository.commits)]
           \/ r = repository,
           repository' = r
    PROVE  /\ repository' \in Repositories /\ Len(repository.commits) <= Len(repository'.commits)
           /\ \A d \in GitExecutors : /\ MadeBranch(d) => MadeBranch(d)'
                                      /\ Committed(d) => Committed(d)'
                                      /\ d # a => (Changed(d)' <=> Changed(d))
                                      /\ d # a => (MadeBranch(d)' <=> MadeBranch(d))
                                      /\ d # a => (Committed(d)' <=> Committed(d))
           /\ \A d \in GitExecutors : \A i \in 1 .. Len(repository'.commits) :
                 repository'.commits[i] = d /\ (i > Len(repository.commits) \/ repository.commits[i] # d)
                     => d = a /\ i = Len(repository.commits) + 1
<1>0. repository \in Repositories
  BY DEF GitInv, GitTypes
<1>1. CASE repository.branch = "nobody" /\ r = [repository EXCEPT !.branch = a]
  BY <1>0, <1>1, GitAssumption DEF Repositories, MadeBranch, Committed, Changed, Authors
<1>2. CASE r = [repository EXCEPT !.commits = Append(repository.commits, a), !.staged = FALSE]
  <2>1. /\ Append(repository.commits, a) \in Seq(Authors)
        /\ Len(Append(repository.commits, a)) = Len(repository.commits) + 1
        /\ Len(repository.commits) \in Nat
        /\ DOMAIN repository.commits = 1 .. Len(repository.commits)
        /\ DOMAIN Append(repository.commits, a) = 1 .. Len(repository.commits) + 1
        /\ \A i \in 1 .. Len(repository.commits) :
              Append(repository.commits, a)[i] = repository.commits[i]
        /\ Append(repository.commits, a)[Len(repository.commits) + 1] = a
    BY <1>0 DEF Repositories
  <2>2. /\ repository'.commits = Append(repository.commits, a) /\ repository'.branch = repository.branch
        /\ repository' \in Repositories
    BY <1>0, <1>2, <2>1 DEF Repositories
  <2>3. \A d \in GitExecutors : (MadeBranch(d)' <=> MadeBranch(d))
    BY <2>2 DEF MadeBranch
  <2>4. \A d \in GitExecutors : Committed(d) => Committed(d)'
    BY <2>1, <2>2 DEF Committed
  <2>5. \A d \in GitExecutors : Committed(d)' => Committed(d) \/ d = a
    BY <2>1, <2>2 DEF Committed
  <2>6. \A d \in GitExecutors : \A i \in 1 .. Len(repository'.commits) :
            repository'.commits[i] = d /\ (i > Len(repository.commits) \/ repository.commits[i] # d)
                => d = a /\ i = Len(repository.commits) + 1
    BY <2>1, <2>2
  <2> QED
    BY <2>1, <2>2, <2>3, <2>4, <2>5, <2>6 DEF Changed
<1>3. CASE \/ \E b \in BOOLEAN : r = [repository EXCEPT !.staged = b]
           \/ r = [repository EXCEPT !.pushed = Len(repository.commits)]
           \/ r = repository
  <2>1. Len(repository.commits) \in Nat
    BY <1>0 DEF Repositories
  <2>2. /\ repository'.commits = repository.commits /\ repository'.branch = repository.branch
        /\ repository' \in Repositories
    BY <1>0, <1>3, <2>1 DEF Repositories
  <2>3. \A d \in GitExecutors : (MadeBranch(d)' <=> MadeBranch(d)) /\ (Committed(d)' <=> Committed(d))
    BY <2>2 DEF MadeBranch, Committed
  <2> QED
    BY <2>1, <2>2, <2>3 DEF Changed
<1> QED
  BY <1>1, <1>2, <1>3

LEMMA OthersWorkStep ==
    ASSUME GitInv, OthersWork
    PROVE  GitInv'
<1>1. /\ UNCHANGED <<leaseHeld, operationOf, leasesSpent, ledger, git>>
      /\ \/ repository.branch = "nobody" /\ repository' = [repository EXCEPT !.branch = "others"]
         \/ repository' = [repository EXCEPT !.commits = Append(repository.commits, "others"),
                                             !.staged = FALSE]
         \/ \E b \in BOOLEAN : repository' = [repository EXCEPT !.staged = b]
  BY DEF OthersWork
<1>2. "others" \in Authors /\ "others" \notin GitExecutors
  BY GitAssumption DEF Authors
<1>3. /\ repository' \in Repositories /\ Len(repository.commits) <= Len(repository'.commits)
      /\ \A d \in GitExecutors : /\ Changed(d)' <=> Changed(d)
                                 /\ MadeBranch(d)' <=> MadeBranch(d)
                                 /\ Committed(d)' <=> Committed(d)
      /\ \A d \in GitExecutors : \A i \in 1 .. Len(repository'.commits) :
            repository'.commits[i] = d => i <= Len(repository.commits) /\ repository.commits[i] = d
  <2>2. /\ repository' \in Repositories /\ Len(repository.commits) <= Len(repository'.commits)
        /\ \A d \in GitExecutors : /\ d # "others" => (Changed(d)' <=> Changed(d))
                                   /\ d # "others" => (MadeBranch(d)' <=> MadeBranch(d))
                                   /\ d # "others" => (Committed(d)' <=> Committed(d))
        /\ \A d \in GitExecutors : \A i \in 1 .. Len(repository'.commits) :
              repository'.commits[i] = d /\ (i > Len(repository.commits) \/ repository.commits[i] # d)
                  => d = "others" /\ i = Len(repository.commits) + 1
    BY <1>1, <1>2, Grown
  <2>3. Len(repository'.commits) \in Nat /\ Len(repository.commits) \in Nat
    BY <2>2 DEF GitInv, GitTypes, Repositories
  <2> QED
    BY <1>2, <2>2, <2>3
<1>4. GitTypes'
  BY <1>1, <1>3 DEF GitInv, GitTypes
<1>5. EntitledOK' /\ StartedOK' /\ UnchangedOK'
  BY <1>1, <1>3 DEF GitInv, EntitledOK, StartedOK, UnchangedOK, Entitled
<1>6. BeforeOK'
  <2>1. Len(repository.commits) \in Nat /\ Len(repository'.commits) \in Nat
    BY <1>3 DEF GitInv, GitTypes, Repositories
  <2>2. \A d \in GitExecutors : git[d].before \in Nat
    BY DEF GitInv, GitTypes, Executions
  <2> QED
    BY <1>1, <1>3, <2>1, <2>2 DEF GitInv, BeforeOK
<1>7. SuccessOK' /\ StatusOK' /\ ReceiptOK'
  BY <1>1, <1>3 DEF GitInv, SuccessOK, StatusOK, ReceiptOK, OperationOf
<1> QED
  BY <1>4, <1>5, <1>6, <1>7 DEF GitInv

\* git runs: the only step that makes an executor's change.
LEMMA RunGitStep ==
    ASSUME GitInv, NEW e \in GitExecutors, RunGit(e)
    PROVE  GitInv'
<1>1. PICK ok \in BOOLEAN, takesEffect \in BOOLEAN :
         /\ ok => takesEffect
         /\ takesEffect => Feasible(OperationOf(e), repository)
         /\ repository' = IF takesEffect THEN Performed(e, OperationOf(e), repository) ELSE repository
         /\ git' = [git EXCEPT ![e].step = "observe", ![e].ok = ok]
  BY DEF RunGit
<1>2. git[e].step = "run" /\ UNCHANGED <<leaseHeld, operationOf, leasesSpent, ledger>>
  BY DEF RunGit, At
<1>3. OperationOf(e) \in EXECUTABLE_OPERATIONS /\ OperationOf(e)' = OperationOf(e)
  BY <1>2 DEF GitInv, GitTypes, OperationOf
<1>4. \/ repository.branch = "nobody" /\ repository' = [repository EXCEPT !.branch = e]
      \/ repository' = [repository EXCEPT !.commits = Append(repository.commits, e),
                                          !.staged = FALSE]
      \/ repository' = [repository EXCEPT !.pushed = Len(repository.commits)]
      \/ repository' = repository
  BY <1>1, <1>3 DEF Performed, Feasible, EXECUTABLE_OPERATIONS
<1>5. e \in Authors
  BY DEF Authors
<1>6. /\ repository' \in Repositories /\ Len(repository.commits) <= Len(repository'.commits)
      /\ \A d \in GitExecutors : /\ MadeBranch(d) => MadeBranch(d)'
                                 /\ Committed(d) => Committed(d)'
                                 /\ d # e => (Changed(d)' <=> Changed(d))
                                 /\ d # e => (MadeBranch(d)' <=> MadeBranch(d))
                                 /\ d # e => (Committed(d)' <=> Committed(d))
      /\ \A d \in GitExecutors : \A i \in 1 .. Len(repository'.commits) :
            repository'.commits[i] = d /\ (i > Len(repository.commits) \/ repository.commits[i] # d)
                => d = e /\ i = Len(repository.commits) + 1
  BY <1>4, <1>5, Grown
<1>7. /\ \A d \in GitExecutors \ {e} : git'[d] = git[d]
      /\ git'[e].step = "observe" /\ git'[e].before = git[e].before
      /\ git'[e].ok = ok /\ git'[e].receipt = git[e].receipt
  BY <1>1 DEF GitInv, GitTypes, Executions
<1>8. GitTypes'
  <2>1. git' \in [GitExecutors -> Executions]
    BY <1>1 DEF GitInv, GitTypes, Executions, GitSteps
  <2> QED
    BY <1>2, <1>6, <2>1 DEF GitInv, GitTypes
<1>9. Entitled(e) /\ \A d \in GitExecutors : Entitled(d)' => Entitled(d)
  BY <1>2, <1>6, <1>7 DEF Entitled, Running
<1>10. EntitledOK' /\ StartedOK'
  <2>1. EntitledOK'
    BY <1>2, <1>9 DEF GitInv, EntitledOK
  <2>2. StartedOK'
    BY <1>2, <1>6, <1>7 DEF GitInv, StartedOK, Running
  <2> QED
    BY <2>1, <2>2
<1>11. UnchangedOK' /\ StatusOK' /\ ReceiptOK'
  <2>1. git[e].receipt = <<>> /\ git'[e].receipt = <<>>
    BY <1>2, <1>7 DEF GitInv, UnchangedOK
  <2> QED
    BY <1>6, <1>7, <2>1 DEF GitInv, UnchangedOK, StatusOK, ReceiptOK
<1>12. BeforeOK'
  <2> SUFFICES ASSUME NEW d \in GitExecutors, NEW i \in 1 .. Len(repository'.commits),
                      repository'.commits[i] = d
               PROVE  git'[d].before < i
    <3>1. \A d \in GitExecutors : git'[d].before <= Len(repository'.commits)
      <4>1. \A d \in GitExecutors : git'[d].before = git[d].before /\ git[d].before \in Nat
        BY <1>7 DEF GitInv, GitTypes, Executions
      <4>2. Len(repository.commits) \in Nat /\ Len(repository'.commits) \in Nat
        BY <1>6 DEF GitInv, GitTypes, Repositories
      <4> QED
        BY <1>6, <4>1, <4>2 DEF GitInv, BeforeOK
    <3> QED
      BY <3>1 DEF BeforeOK
  <2>1. /\ Len(repository.commits) \in Nat /\ Len(repository'.commits) \in Nat
        /\ git'[d].before = git[d].before /\ git[d].before \in Nat
    BY <1>6, <1>7 DEF GitInv, GitTypes, Repositories, Executions
  <2>2. CASE i <= Len(repository.commits) /\ repository.commits[i] = d
    BY <2>1, <2>2 DEF GitInv, BeforeOK
  <2>3. CASE i = Len(repository.commits) + 1 /\ d = e
    BY <2>1, <2>3 DEF GitInv, BeforeOK
  <2> QED
    BY <1>6, <2>1, <2>2, <2>3
<1>13. SuccessOK'
  <2>1. ok => /\ OperationOf(e) = "branch.create" => MadeBranch(e)'
              /\ OperationOf(e) = "commit" => Committed(e)'
    <3>1. ASSUME ok, OperationOf(e) = "branch.create" PROVE MadeBranch(e)'
      BY <1>1, <3>1 DEF GitInv, GitTypes, Repositories, Performed, MadeBranch
    <3>2. ASSUME ok, OperationOf(e) = "commit" PROVE Committed(e)'
      <4>1. repository' = [repository EXCEPT !.commits = Append(repository.commits, e),
                                             !.staged = FALSE]
        BY <1>1, <3>2 DEF Performed
      <4>2. /\ Len(repository.commits) \in Nat /\ repository'.commits = Append(repository.commits, e)
            /\ Len(repository.commits) + 1 \in DOMAIN Append(repository.commits, e)
            /\ Append(repository.commits, e)[Len(repository.commits) + 1] = e
        BY <4>1, <1>5 DEF GitInv, GitTypes, Repositories
      <4> QED
        BY <4>2 DEF Committed
    <3> QED
      BY <3>1, <3>2
  <2>2. \A d \in GitExecutors : OperationOf(d)' = OperationOf(d)
    BY <1>2 DEF OperationOf
  <2> QED
    BY <1>6, <1>7, <2>1, <2>2 DEF GitInv, SuccessOK
<1> QED
  BY <1>8, <1>10, <1>11, <1>12, <1>13 DEF GitInv

\* However executors, some with one lease, race, die and are killed, and
\* whatever others do to the repository: a change was authorised once and on
\* the ledger before it, and its receipt tells of it.
THEOREM GitAccountable == GitSpec => []GitIsAccountable
<1>1. GitInit => GitInv
  <2> SUFFICES ASSUME GitInit PROVE GitInv
    OBVIOUS
  <2>1. /\ repository.commits = <<"others">> /\ repository.branch = "nobody"
        /\ repository \in Repositories /\ git \in [GitExecutors -> Executions]
    BY DEF GitInit, Repositories, Authors, Executions, GitSteps, Unexecuted
  <2>2. \A e \in GitExecutors : git[e] = Unexecuted
    BY DEF GitInit
  <2>3. \A e \in GitExecutors : ~MadeBranch(e) /\ ~Committed(e)
    BY <2>1, GitAssumption DEF MadeBranch, Committed
  <2>4. GitTypes
    BY <2>1 DEF GitInit, GitTypes
  <2>5. EntitledOK /\ StartedOK /\ UnchangedOK
    BY <2>1, <2>2, <2>3 DEF EntitledOK, StartedOK, UnchangedOK, Entitled, Changed, Running,
       Unexecuted
  <2>6. BeforeOK /\ SuccessOK /\ StatusOK /\ ReceiptOK
    BY <2>1, <2>2, <2>3 DEF BeforeOK, SuccessOK, StatusOK, ReceiptOK, Committed, Unexecuted
  <2> QED
    BY <2>4, <2>5, <2>6 DEF GitInv
<1>2. GitInv /\ [GitNext]_gitVars => GitInv'
  <2> SUFFICES ASSUME GitInv, [GitNext]_gitVars PROVE GitInv'
    OBVIOUS
  <2>1. CASE UNCHANGED gitVars
    BY <2>1 DEF gitVars, GitInv, GitTypes, EntitledOK, StartedOK, UnchangedOK, BeforeOK,
       SuccessOK, StatusOK, ReceiptOK, Entitled, Changed, MadeBranch, Committed, OperationOf
  <2>2. CASE GitNext
    BY <2>2, OthersWorkStep, LookBeforeStep, ConsumeGitLeaseStep, LedgerStartStep, RunGitStep,
       WriteReceiptStep, LedgerEffectStep, Zenon DEF GitNext
  <2> QED
    BY <2>1, <2>2
<1>3. GitInv => GitIsAccountable
  <2> SUFFICES ASSUME GitInv PROVE GitIsAccountable
    OBVIOUS
  <2>1. GitEffectHasLease
    BY DEF GitInv, EntitledOK, StartedOK, Entitled, Changed, GitEffectHasLease
  <2>2. GitReceiptTells
    BY DEF GitInv, SuccessOK, StatusOK, ReceiptOK, GitReceiptTells
  <2> QED
    BY <2>1, <2>2 DEF GitIsAccountable
<1> QED
  BY <1>1, <1>2, <1>3, PTL DEF GitSpec

---------------------------------------------------------------------------
(* Least numbers, finite sets, and sums as numbers of units.               *)

\* The least-number principle, for sets.
LEMMA LeastNatural ==
    ASSUME NEW S \in SUBSET Nat, S # {}
    PROVE  \E n \in S : \A m \in S : n <= m
<1>1. IsWellFoundedOn(OpToRel(<, Nat), Nat)
  BY NatLessThanWellFounded
<1>2. PICK n \in S : \A m \in S : <<m, n>> \notin OpToRel(<, Nat)
  BY <1>1, WFMin
<1>3. \A m \in S : ~(m < n)
  BY <1>2 DEF OpToRel
<1> QED
  BY <1>3

\* What a function does to a finite set is finite.
LEMMA FiniteRange ==
    ASSUME NEW S, IsFiniteSet(S), NEW f, DOMAIN f = S, f = [x \in S |-> f[x]]
    PROVE  IsFiniteSet({f[x] : x \in S})
<1>1. f \in Surjection(S, {f[x] : x \in S})
  BY DEF Surjection
<1> QED
  BY <1>1, FS_Surjection, Zenon

\* What SumFunctionOnSet is by its definition.
One(s) == CHOOSE x \in s : TRUE
Adds(fun, S, iter) == iter = [s \in SUBSET S |-> IF s = {} THEN 0
                                                ELSE fun[One(s)] + iter[s \ {One(s)}]]

LEMMA SumUnfolded ==
    ASSUME NEW fun, NEW S
    PROVE  SumFunctionOnSet(fun, S) = (CHOOSE iter : Adds(fun, S, iter))[S]
BY DEF SumFunctionOnSet, FoldFunctionOnSet, MapThenFoldSet, Adds, One

\* The units of the values of fun on S.
Unit(fun, x) == {x} \X (1 .. fun[x])
Units(fun, S) == UNION {Unit(fun, x) : x \in S}
Count(fun, S) == Cardinality(Units(fun, S))

LEMMA UnitCount ==
    ASSUME NEW fun, NEW x, fun[x] \in Nat
    PROVE  IsFiniteSet(Unit(fun, x)) /\ Cardinality(Unit(fun, x)) = fun[x]
<1>1. IsFiniteSet({x}) /\ Cardinality({x}) = 1
  BY FS_Singleton
<1>2. IsFiniteSet(1 .. fun[x]) /\ Cardinality(1 .. fun[x]) = fun[x]
  BY FS_Interval
<1>3. /\ IsFiniteSet({x} \X (1 .. fun[x]))
      /\ Cardinality({x} \X (1 .. fun[x])) = Cardinality({x}) * Cardinality(1 .. fun[x])
  BY ONLY <1>1, <1>2, FS_Product
<1> QED
  BY <1>1, <1>2, <1>3 DEF Unit

LEMMA UnitsFinite ==
    ASSUME NEW fun, NEW S, IsFiniteSet(S), \A x \in S : fun[x] \in Nat
    PROVE  IsFiniteSet(Units(fun, S)) /\ Count(fun, S) \in Nat
<1> DEFINE u == [x \in S |-> Unit(fun, x)]
<1>1. IsFiniteSet({u[x] : x \in S})
  BY FiniteRange
<1>2. {u[x] : x \in S} = {Unit(fun, x) : x \in S}
  OBVIOUS
<1>3. \A T \in {Unit(fun, x) : x \in S} : IsFiniteSet(T)
  BY UnitCount
<1> QED
  BY <1>1, <1>2, <1>3, FS_UNION, FS_CardinalityType DEF Units, Count

LEMMA CountEmpty == ASSUME NEW fun PROVE Count(fun, {}) = 0
<1>1. Units(fun, {}) = {}
  BY DEF Units
<1> QED
  BY <1>1, FS_EmptySet DEF Count

\* A union counts at most both, and exactly both if nothing is in both.
LEMMA CountUnion ==
    ASSUME NEW fun, NEW S, NEW T, IsFiniteSet(S), IsFiniteSet(T), \A x \in S \cup T : fun[x] \in Nat
    PROVE  /\ Count(fun, S \cup T) <= Count(fun, S) + Count(fun, T)
           /\ S \cap T = {} => Count(fun, S \cup T) = Count(fun, S) + Count(fun, T)
<1>1. /\ IsFiniteSet(Units(fun, S)) /\ Count(fun, S) \in Nat
      /\ IsFiniteSet(Units(fun, T)) /\ Count(fun, T) \in Nat
  BY UnitsFinite
<1>2. Units(fun, S \cup T) = Units(fun, S) \cup Units(fun, T)
  BY DEF Units
<1>3. Count(fun, S \cup T) = Count(fun, S) + Count(fun, T)
                             - Cardinality(Units(fun, S) \cap Units(fun, T))
  BY <1>1, <1>2, FS_Union DEF Count
<1>4. Cardinality(Units(fun, S) \cap Units(fun, T)) \in Nat
  BY <1>1, FS_Intersection, FS_CardinalityType
<1>5. ASSUME S \cap T = {} PROVE Units(fun, S) \cap Units(fun, T) = {}
  <2> SUFFICES ASSUME NEW e, e \in Units(fun, S), e \in Units(fun, T) PROVE FALSE
    OBVIOUS
  <2>1. PICK x \in S : e \in Unit(fun, x)
    BY DEF Units
  <2>2. PICK y \in T : e \in Unit(fun, y)
    BY DEF Units
  <2>3. e[1] = x /\ e[1] = y
    BY <2>1, <2>2 DEF Unit
  <2> QED
    BY <1>5, <2>3
<1>6. ASSUME S \cap T = {} PROVE Cardinality(Units(fun, S) \cap Units(fun, T)) = 0
  BY <1>5, <1>6, FS_EmptySet
<1> QED
  BY <1>1, <1>3, <1>4, <1>6

LEMMA CountOne == ASSUME NEW fun, NEW x, fun[x] \in Nat PROVE Count(fun, {x}) = fun[x]
<1>1. Units(fun, {x}) = Unit(fun, x)
  BY DEF Units
<1> QED
  BY <1>1, UnitCount DEF Count

LEMMA CountSubset ==
    ASSUME NEW fun, NEW S, NEW T \in SUBSET S, IsFiniteSet(S), \A x \in S : fun[x] \in Nat
    PROVE  Count(fun, T) <= Count(fun, S)
<1>1. Units(fun, T) \subseteq Units(fun, S)
  BY DEF Units
<1> QED
  BY <1>1, UnitsFinite, FS_Subset DEF Count

\* The sum is the number of units.
LEMMA SumIsCount ==
    ASSUME NEW fun, NEW S, IsFiniteSet(S), \A x \in S : fun[x] \in Nat
    PROVE  SumFunctionOnSet(fun, S) = Count(fun, S)
<1>0. ASSUME NEW s \in SUBSET S, s # {}
      PROVE  /\ One(s) \in s /\ s \ {One(s)} \in SUBSET S
             /\ IsFiniteSet(s) /\ Cardinality(s \ {One(s)}) < Cardinality(s)
             /\ Cardinality(s) \in Nat /\ Cardinality(s \ {One(s)}) \in Nat
             /\ Count(fun, s) = fun[One(s)] + Count(fun, s \ {One(s)})
  <2>1. One(s) \in s
    BY <1>0 DEF One
  <2>2. IsFiniteSet(s) /\ Cardinality(s) \in Nat
    BY FS_Subset, FS_CardinalityType
  <2>3. /\ IsFiniteSet(s \ {One(s)}) /\ Cardinality(s \ {One(s)}) = Cardinality(s) - 1
        /\ Cardinality(s \ {One(s)}) \in Nat
    BY <2>1, <2>2, FS_RemoveElement, FS_CardinalityType
  <2>4. IsFiniteSet({One(s)}) /\ fun[One(s)] \in Nat
    BY <2>1, FS_Singleton
  <2>5. (s \ {One(s)}) \cup {One(s)} = s /\ (s \ {One(s)}) \cap {One(s)} = {}
    BY <2>1
  <2>6. Count(fun, s) = Count(fun, s \ {One(s)}) + Count(fun, {One(s)})
    BY <2>3, <2>4, <2>5, CountUnion
  <2>7. Count(fun, {One(s)}) = fun[One(s)]
    BY <2>4, CountOne
  <2>8. Count(fun, s \ {One(s)}) \in Nat
    BY <2>3, UnitsFinite
  <2> QED
    BY <2>1, <2>2, <2>3, <2>4, <2>6, <2>7, <2>8
<1>1. Adds(fun, S, [s \in SUBSET S |-> Count(fun, s)])
  <2> DEFINE iter == [s \in SUBSET S |-> Count(fun, s)]
  <2> SUFFICES ASSUME NEW s \in SUBSET S
               PROVE  Count(fun, s) = IF s = {} THEN 0 ELSE fun[One(s)] + iter[s \ {One(s)}]
    BY DEF Adds
  <2>1. CASE s = {}
    BY <2>1, CountEmpty
  <2>2. CASE s # {}
    BY <1>0, <2>2
  <2> QED
    BY <2>1, <2>2
<1>2. PICK iter : iter = (CHOOSE i : Adds(fun, S, i)) /\ Adds(fun, S, iter)
  BY <1>1
<1>3. \A s \in SUBSET S : iter[s] = Count(fun, s)
  <2> DEFINE Bad == {n \in Nat : \E s \in SUBSET S : Cardinality(s) = n /\ iter[s] # Count(fun, s)}
  <2>1. SUFFICES ASSUME Bad # {} PROVE FALSE
    <3>1. \A s \in SUBSET S : Cardinality(s) \in Nat
      BY FS_Subset, FS_CardinalityType
    <3> QED
      BY <3>1
  <2>2. PICK n \in Bad : \A m \in Bad : n <= m
    BY <2>1, LeastNatural
  <2>3. PICK s \in SUBSET S : Cardinality(s) = n /\ iter[s] # Count(fun, s)
    OBVIOUS
  <2>4. iter[s] = IF s = {} THEN 0 ELSE fun[One(s)] + iter[s \ {One(s)}]
    BY <1>2 DEF Adds
  <2>5. s # {}
    BY <2>3, <2>4, CountEmpty
  <2>6. /\ s \ {One(s)} \in SUBSET S /\ Cardinality(s \ {One(s)}) < n
        /\ Cardinality(s \ {One(s)}) \in Nat /\ n \in Nat
    BY <1>0, <2>3, <2>5
  <2> HIDE DEF Bad
  <2>7. Cardinality(s \ {One(s)}) \notin Bad
    BY <2>2, <2>6
  <2> USE DEF Bad
  <2>8. iter[s \ {One(s)}] = Count(fun, s \ {One(s)})
    BY <2>6, <2>7
  <2> QED
    BY <1>0, <2>3, <2>4, <2>5, <2>8
<1> QED
  BY <1>2, <1>3, SumUnfolded

\* Sets that count no more than the values they stand for count, together, no
\* more than the sum of those.
LEMMA CountFamily ==
    ASSUME NEW fun, NEW D, IsFiniteSet(D), \A x \in D : fun[x] \in Nat,
           NEW K \in SUBSET D, NEW family \in [K -> SUBSET D],
           \A c \in K : Count(fun, family[c]) <= fun[c]
    PROVE  Count(fun, UNION {family[c] : c \in K}) <= Count(fun, K)
<1> DEFINE All(k) == UNION {family[c] : c \in k}
<1> DEFINE Bad == {n \in Nat : \E k \in SUBSET K : /\ Cardinality(k) = n
                                                   /\ ~(Count(fun, All(k)) <= Count(fun, k))}
<1>0. \A k \in SUBSET K : IsFiniteSet(k) /\ Cardinality(k) \in Nat /\ Count(fun, k) \in Nat
  BY FS_Subset, FS_CardinalityType, UnitsFinite
<1>1. SUFFICES ASSUME Bad # {} PROVE FALSE
  BY <1>0
<1>2. PICK n \in Bad : \A m \in Bad : n <= m
  BY <1>1, LeastNatural
<1>3. PICK k \in SUBSET K : Cardinality(k) = n /\ ~(Count(fun, All(k)) <= Count(fun, k))
  OBVIOUS
<1>4. k # {}
  <2>1. All({}) = {}
    OBVIOUS
  <2> HIDE DEF All
  <2>2. Count(fun, {}) = 0
    BY CountEmpty
  <2>3. Count(fun, All({})) <= Count(fun, {})
    BY <2>1, <2>2
  <2> QED
    BY <1>3, <2>3
<1>5. PICK c \in k : TRUE
  BY <1>4
<1> DEFINE j == k \ {c}
<1>6. j \in SUBSET K /\ Cardinality(j) = n - 1 /\ n \in Nat /\ Cardinality(j) \in Nat
  BY <1>0, <1>3, <1>5, FS_RemoveElement
<1>7. Count(fun, All(j)) <= Count(fun, j)
  <2> HIDE DEF Bad, j
  <2>1. Cardinality(j) \notin Bad
    BY <1>2, <1>6
  <2> USE DEF Bad
  <2> HIDE DEF All
  <2> QED
    BY <1>6, <2>1
<1>8. All(k) = All(j) \cup family[c] /\ All(j) \in SUBSET D /\ family[c] \in SUBSET D
  BY <1>5
<1>9. /\ IsFiniteSet(All(j)) /\ IsFiniteSet(family[c]) /\ Count(fun, All(j)) \in Nat
      /\ Count(fun, family[c]) \in Nat
  <2>1. IsFiniteSet(All(j)) /\ IsFiniteSet(family[c])
    BY <1>8, FS_Subset
  <2> QED
    BY <1>8, <2>1, UnitsFinite
<1>10. /\ Count(fun, All(k)) <= Count(fun, All(j)) + Count(fun, family[c])
       /\ Count(fun, All(k)) \in Nat
  <2>1. IsFiniteSet(All(k)) /\ All(k) \in SUBSET D
    BY <1>8, <1>9, FS_Subset
  <2> QED
    BY <1>8, <1>9, <2>1, CountUnion, UnitsFinite
<1>11. Count(fun, k) = Count(fun, j) + fun[c]
  <2>1. k = j \cup {c} /\ j \cap {c} = {} /\ IsFiniteSet({c}) /\ IsFiniteSet(j) /\ fun[c] \in Nat
    BY <1>0, <1>5, <1>6, FS_Singleton
  <2>2. Count(fun, k) = Count(fun, j) + Count(fun, {c})
    BY <2>1, <1>6, CountUnion
  <2> QED
    BY <2>1, <2>2, CountOne
<1>12. Count(fun, family[c]) <= fun[c] /\ fun[c] \in Nat /\ Count(fun, j) \in Nat
  BY <1>0, <1>5, <1>6
<1> QED
  BY ONLY <1>3, <1>7, <1>9, <1>10, <1>11, <1>12

---------------------------------------------------------------------------
(* Delegation: the inductive invariant.                                    *)

\* A delegation is under way: its child has been built.
UnderWay == {"delegate", "lockBudget", "reserve", "write"}
Delegating(p) == delegation[p].pc \in UnderWay

\* Ids are drawn once: a child under way has an id of its own, without a file.
DrawnOK ==
    /\ Issued \subseteq drawn
    /\ \A p \in Delegators : Delegating(p) =>
          /\ delegation[p].id \in drawn \ Issued
          /\ \A q \in Delegators : Delegating(q) /\ delegation[q].id = delegation[p].id => q = p

\* How a grant hangs below its parent.
Below(child) ==
    /\ child.parent \in Issued
    /\ child.ancestors = AncestorIds(child.parent, grants[child.parent])
    /\ child.depth = grants[child.parent].depth + 1
Narrower(child) == ValidGrant(child) /\ IsAuthorityGrantAttenuated(grants[child.parent], child)

\* A child under way hangs below its parent and, once checked, is narrower.
ChildOK == \A p \in Delegators : Delegating(p) =>
    /\ delegation[p].child \in GrantRecords
    /\ Below(delegation[p].child)
    /\ delegation[p].pc # "delegate" => Narrower(delegation[p].child)

\* So does every grant but the root.
TreeOK == \A g \in Issued :
    \/ grants[g].parent = NoGrant /\ grants[g].ancestors = {}
    \/ Below(grants[g]) /\ Narrower(grants[g])

\* Every grant is within all its ancestors, which know their ancestors.
Within(g, a) ==
    /\ a \in Issued /\ AllowedBy(grants[a], grants[g])
    /\ grants[a].mode = "partition" => grants[g].mode = "partition"
    /\ grants[a].ancestors \subseteq grants[g].ancestors
NarrowOK == \A g \in Issued : \A a \in grants[g].ancestors : Within(g, a)

GrantInv == DelegationTypeOK /\ DrawnOK /\ ChildOK /\ TreeOK /\ NarrowOK

\* The idle record, and the parts of a delegation record.
Jobs == [pc : Labels, id : Ids \cup {NoGrant}, at : Nat, child : GrantRecords \cup {NoGrant},
         loaded : SUBSET Allocations]

LEMMA IdleJob == /\ Idle \in Jobs /\ [Idle EXCEPT !.pc = "dead"] \in Jobs
                 /\ Idle.pc \notin UnderWay /\ [Idle EXCEPT !.pc = "dead"].pc \notin UnderWay
BY DEF Idle, Jobs, Labels, UnderWay

\* What is narrower than its parent allows nothing that the parent does not.
LEMMA AttenuatedAllows ==
    ASSUME NEW a \in GrantRecords, NEW g \in GrantRecords, IsAuthorityGrantAttenuated(a, g)
    PROVE  AllowedBy(a, g) /\ (a.mode = "partition" => g.mode = "partition")
<1>1. /\ a.notBefore \in Nat /\ a.expires \in Nat /\ g.notBefore \in Nat /\ g.expires \in Nat
      /\ a.budget \in Budgets /\ g.budget \in Budgets
  BY DEF GrantRecords
<1>2. g.notBefore .. g.expires \subseteq a.notBefore .. a.expires
  BY <1>1 DEF IsAuthorityGrantAttenuated, WindowWithin
<1>3. UNION g.caps \subseteq UNION a.caps
  BY DEF IsAuthorityGrantAttenuated, CapabilitiesWithin
<1>4. \A f \in Fields : a.budget[f] # Unlimited =>
         g.budget[f] # Unlimited /\ g.budget[f] <= a.budget[f]
  BY DEF IsAuthorityGrantAttenuated, BudgetIsWithin, Limited
<1>5. a.mode = "partition" => g.mode = "partition"
  BY DEF IsAuthorityGrantAttenuated, DelegationPolicyIsWithin
<1> QED
  BY <1>2, <1>3, <1>4, <1>5 DEF AllowedBy

LEMMA AllowedTransitive ==
    ASSUME NEW a \in GrantRecords, NEW b \in GrantRecords, NEW c \in GrantRecords,
           AllowedBy(a, b), AllowedBy(b, c)
    PROVE  AllowedBy(a, c)
<1>1. a.budget \in Budgets /\ b.budget \in Budgets /\ c.budget \in Budgets
  BY DEF GrantRecords
<1>2. /\ c.notBefore .. c.expires \subseteq a.notBefore .. a.expires
      /\ UNION c.caps \subseteq UNION a.caps
  BY DEF AllowedBy
<1>3. ASSUME NEW f \in Fields, a.budget[f] # Unlimited
      PROVE  c.budget[f] # Unlimited /\ c.budget[f] <= a.budget[f]
  <2>1. /\ b.budget[f] # Unlimited /\ b.budget[f] <= a.budget[f]
        /\ c.budget[f] # Unlimited /\ c.budget[f] <= b.budget[f]
    BY <1>3 DEF AllowedBy
  <2>2. a.budget[f] \in Nat /\ b.budget[f] \in Nat /\ c.budget[f] \in Nat
    BY <1>1, <1>3, <2>1 DEF Budgets
  <2> QED
    BY <2>1, <2>2
<1> QED
  BY <1>2, <1>3 DEF AllowedBy

\* A step that touches no file: it may draw an id, and what it says of the
\* delegation of p holds.
LEMMA DelegatorStep ==
    ASSUME GrantInv, NEW p \in Delegators, NEW job \in Jobs,
           grants' = grants, delegation' = [delegation EXCEPT ![p] = job],
           now' \in Nat, allocations' \subseteq Allocations, budgetLock' \subseteq Delegators,
           registry' \subseteq Revocations, drawn' \in SUBSET Ids, drawn \subseteq drawn',
           job.pc \in UnderWay =>
               /\ job.id \in drawn' \ Issued
               /\ \A q \in Delegators \ {p} : Delegating(q) => delegation[q].id # job.id
               /\ job.child \in GrantRecords /\ Below(job.child)
               /\ job.pc # "delegate" => Narrower(job.child)
    PROVE  GrantInv'
<1>1. DelegationTypeOK'
  BY DEF GrantInv, DelegationTypeOK, Jobs
<1>2. /\ \A q \in Delegators \ {p} : delegation'[q] = delegation[q]
      /\ delegation'[p] = job
  BY DEF GrantInv, DelegationTypeOK
<1>3. /\ Issued' = Issued /\ (\A c : Below(c)' <=> Below(c)) /\ (\A c : Narrower(c)' <=> Narrower(c))
      /\ \A g, a : Within(g, a)' <=> Within(g, a)
  BY DEF Issued, Below, Narrower, Within
<1>4. DrawnOK'
  BY <1>2, <1>3 DEF GrantInv, DrawnOK, Delegating
<1>5. ChildOK'
  BY <1>2, <1>3 DEF GrantInv, ChildOK, Delegating
<1>6. TreeOK' /\ NarrowOK'
  BY <1>3 DEF GrantInv, TreeOK, NarrowOK
<1> QED
  BY <1>1, <1>4, <1>5, <1>6 DEF GrantInv

LEMMA LoadParentStep ==
    ASSUME GrantInv, NEW p \in Delegators, NEW g \in Ids, NEW parent \in Ids, NEW spec \in Specs,
           LoadParent(p, g, parent, spec)
    PROVE  GrantInv'
<1> DEFINE child == ChildGrant(parent, grants[parent], spec, now)
           job == [pc |-> "delegate", id |-> g, at |-> now, child |-> child, loaded |-> {}]
<1>1. /\ g \in Ids \ drawn /\ parent \in Issued /\ drawn' = drawn \cup {g}
      /\ delegation' = [delegation EXCEPT ![p] = job]
      /\ UNCHANGED <<now, grants, allocations, budgetLock, registry>>
  BY DEF LoadParent
<1>2. grants[parent] \in GrantRecords /\ spec \in Terms /\ now \in Nat
  BY <1>1, SpecsAssumption DEF GrantInv, DelegationTypeOK, Issued
<1>3. child \in GrantRecords
  <2>1. InheritAuthorityBudget(grants[parent].budget, spec.budget) \in Budgets
    BY <1>2 DEF InheritAuthorityBudget, Budgets, GrantRecords, Terms
  <2>2. \A x, y \in Nat : Latest(x, y) \in Nat
    BY DEF Latest
  <2>3. Latest(now, Latest(grants[parent].notBefore, spec.notBefore)) \in Nat
    BY <1>2, <2>2 DEF GrantRecords, Terms
  <2>4. AncestorIds(parent, grants[parent]) \subseteq Ids /\ grants[parent].depth + 1 \in Nat
    BY <1>2 DEF AncestorIds, GrantRecords
  <2> QED
    BY <1>2, <2>1, <2>3, <2>4 DEF ChildGrant, GrantRecords, Terms
<1>4. Below(child)
  BY <1>1 DEF Below, ChildGrant
<1> HIDE DEF child
<1>5. job \in Jobs /\ job.pc = "delegate" /\ job.id = g /\ job.child = child
  BY <1>2, <1>3 DEF Jobs, Labels
<1> HIDE DEF job
<1>6. \A q \in Delegators \ {p} : Delegating(q) => delegation[q].id # job.id
  BY <1>1, <1>5 DEF GrantInv, DrawnOK
<1>7. g \in drawn' \ Issued /\ drawn' \in SUBSET Ids /\ drawn \subseteq drawn'
  BY <1>1 DEF GrantInv, DrawnOK, DelegationTypeOK
<1>8. /\ now' \in Nat /\ allocations' \subseteq Allocations /\ budgetLock' \subseteq Delegators
      /\ registry' \subseteq Revocations
  BY <1>1 DEF GrantInv, DelegationTypeOK
<1> QED
  BY <1>1, <1>3, <1>4, <1>5, <1>6, <1>7, <1>8, DelegatorStep

\* A delegation ends or its process dies, without a file.
LEMMA EndStep ==
    ASSUME GrantInv, NEW p \in Delegators, NEW job \in {Idle, [Idle EXCEPT !.pc = "dead"]},
           grants' = grants, delegation' = [delegation EXCEPT ![p] = job],
           allocations' \subseteq Allocations, budgetLock' \subseteq Delegators,
           UNCHANGED <<now, registry, drawn>>
    PROVE  GrantInv'
<1>1. job \in Jobs /\ job.pc \notin UnderWay
  BY IdleJob
<1>2. now' \in Nat /\ registry' \subseteq Revocations /\ drawn' \in SUBSET Ids /\ drawn \subseteq drawn'
  BY DEF GrantInv, DelegationTypeOK
<1> QED
  BY <1>1, <1>2, DelegatorStep

\* A delegation goes on with the same child, checked by now.
LEMMA GoOnStep ==
    ASSUME GrantInv, NEW p \in Delegators, NEW pc \in UnderWay \ {"delegate"},
           NEW loaded \in SUBSET Allocations,
           Delegating(p), Narrower(delegation[p].child),
           delegation' = [delegation EXCEPT ![p].pc = pc, ![p].loaded = loaded],
           allocations' \subseteq Allocations, budgetLock' \subseteq Delegators,
           UNCHANGED <<now, grants, registry, drawn>>
    PROVE  GrantInv'
<1> DEFINE job == [delegation[p] EXCEPT !.pc = pc, !.loaded = loaded]
<1>1. /\ delegation[p] \in Jobs /\ delegation' = [delegation EXCEPT ![p] = job]
  BY DEF GrantInv, DelegationTypeOK, Jobs
<1>2. /\ job \in Jobs /\ job.pc = pc /\ job.id = delegation[p].id
      /\ job.child = delegation[p].child
  BY <1>1 DEF Jobs, Labels, UnderWay
<1> HIDE DEF job
<1>3. /\ now' \in Nat /\ registry' \subseteq Revocations /\ drawn' \in SUBSET Ids
      /\ drawn \subseteq drawn'
  BY DEF GrantInv, DelegationTypeOK
<1>4. /\ job.id \in drawn' \ Issued
      /\ \A q \in Delegators \ {p} : Delegating(q) => delegation[q].id # job.id
  BY <1>2 DEF GrantInv, DrawnOK
<1>5. job.child \in GrantRecords /\ Below(job.child) /\ Narrower(job.child)
  BY <1>2 DEF GrantInv, ChildOK
<1> QED
  BY <1>1, <1>2, <1>3, <1>4, <1>5, DelegatorStep

\* The file of a grant is written: it is new, narrower than its parent, and so
\* within everything that its parent is within.
LEMMA WriteStep ==
    ASSUME GrantInv, NEW p \in Delegators, delegation[p].pc = "write", Done(p),
           grants' = [grants EXCEPT ![delegation[p].id] = delegation[p].child],
           UNCHANGED <<now, allocations, budgetLock, registry, drawn>>
    PROVE  GrantInv'
<1> DEFINE id == delegation[p].id
           child == delegation[p].child
<1>1. /\ id \in drawn \ Issued /\ id \in Ids /\ child \in GrantRecords
      /\ Below(child) /\ Narrower(child)
      /\ \A q \in Delegators \ {p} : Delegating(q) => delegation[q].id # id
  BY DEF GrantInv, DrawnOK, ChildOK, Delegating, UnderWay, DelegationTypeOK
<1>2. grants' = [grants EXCEPT ![id] = child]
  OBVIOUS
<1>3. /\ delegation'[p] = Idle /\ \A q \in Delegators \ {p} : delegation'[q] = delegation[q]
      /\ delegation' \in [Delegators -> Jobs]
  BY IdleJob DEF GrantInv, DelegationTypeOK, Done, Jobs
<1> HIDE DEF id, child
<1>4. /\ grants' \in [Ids -> GrantRecords \cup {NoGrant}] /\ grants'[id] = child
      /\ \A g \in Ids \ {id} : grants'[g] = grants[g]
  BY <1>1, <1>2 DEF GrantInv, DelegationTypeOK
<1>5. /\ Issued' = Issued \cup {id}
      /\ \A g \in Issued : grants'[g] = grants[g] /\ grants[g] \in GrantRecords
  BY <1>1, <1>4, NoGrantAssumption DEF Issued, GrantInv, DelegationTypeOK
<1>6. DelegationTypeOK'
  BY <1>3, <1>4 DEF GrantInv, DelegationTypeOK, Jobs
<1>7. \A c : (Below(c) => Below(c)') /\ (Below(c) /\ Narrower(c) => Narrower(c)')
  BY <1>5 DEF Below, Narrower
<1>8. DrawnOK'
  BY <1>1, <1>3, <1>5, IdleJob DEF GrantInv, DrawnOK, Delegating
<1>9. ChildOK'
  BY <1>3, <1>7, IdleJob DEF GrantInv, ChildOK, Delegating
<1>10. TreeOK'
  BY <1>1, <1>4, <1>5, <1>7 DEF GrantInv, TreeOK
<1>11. NarrowOK'
  <2> SUFFICES ASSUME NEW g \in Issued', NEW a \in grants'[g].ancestors PROVE Within(g, a)'
    BY DEF NarrowOK
  <2>1. CASE g \in Issued
    <3>1. Within(g, a) /\ a \in Issued
      BY <1>5, <2>1 DEF GrantInv, NarrowOK, Within
    <3> QED
      BY <1>5, <2>1, <3>1 DEF Within
  <2>2. CASE g = id
    <3> DEFINE up == child.parent
    <3>1. /\ up \in Issued /\ grants[up] \in GrantRecords
          /\ child.ancestors = grants[up].ancestors \cup {up}
      BY <1>1, <1>5 DEF Below, AncestorIds
    <3>2. /\ AllowedBy(grants[up], child)
          /\ grants[up].mode = "partition" => child.mode = "partition"
      BY <1>1, <3>1, AttenuatedAllows DEF Narrower
    <3>3. CASE a = up
      BY <1>4, <1>5, <2>2, <3>1, <3>2, <3>3 DEF Within
    <3>4. CASE a \in grants[up].ancestors
      <4>1. Within(up, a) /\ a \in Issued /\ grants[a] \in GrantRecords
        BY <1>5, <3>1, <3>4 DEF GrantInv, NarrowOK, Within
      <4>2. AllowedBy(grants[a], child)
        BY <1>1, <3>1, <3>2, <4>1, AllowedTransitive DEF Within
      <4> QED
        BY <1>4, <1>5, <2>2, <3>1, <3>2, <4>1, <4>2 DEF Within
    <3> QED
      BY <1>4, <2>2, <3>1, <3>3, <3>4
  <2> QED
    BY <1>5, <2>1, <2>2
<1> QED
  BY <1>6, <1>8, <1>9, <1>10, <1>11 DEF GrantInv

\* A step of the environment.
LEMMA WorldStep ==
    ASSUME GrantInv, UNCHANGED <<grants, drawn, delegation, allocations>>,
           now' \in Nat, budgetLock' \subseteq Delegators, registry' \subseteq Revocations
    PROVE  GrantInv'
<1>1. DelegationTypeOK'
  BY DEF GrantInv, DelegationTypeOK
<1>2. /\ Issued' = Issued /\ (\A c : Below(c)' <=> Below(c)) /\ (\A c : Narrower(c)' <=> Narrower(c))
      /\ (\A g, a : Within(g, a)' <=> Within(g, a)) /\ \A p : Delegating(p)' <=> Delegating(p)
  BY DEF Issued, Below, Narrower, Within, Delegating
<1>3. DrawnOK' /\ ChildOK' /\ TreeOK' /\ NarrowOK'
  BY <1>2 DEF GrantInv, DrawnOK, ChildOK, TreeOK, NarrowOK
<1> QED
  BY <1>1, <1>3 DEF GrantInv

LEMMA DelegateStep ==
    ASSUME GrantInv, NEW p \in Delegators, Delegate(p)
    PROVE  GrantInv'
<1>1. /\ delegation[p].pc = "delegate"
      /\ UNCHANGED <<now, grants, allocations, budgetLock, registry, drawn>>
      /\ \/ Done(p)
         \/ /\ Narrower(delegation[p].child)
            /\ delegation' = [delegation EXCEPT ![p].pc =
                                 IF grants[ParentOf(p)].mode = "partition" THEN "lockBudget" ELSE "write"]
  BY DEF Delegate, Narrower, ParentOf
<1>2. allocations' \subseteq Allocations /\ budgetLock' \subseteq Delegators
  BY <1>1 DEF GrantInv, DelegationTypeOK
<1>3. CASE Done(p)
  BY <1>1, <1>2, <1>3, EndStep DEF Done
<1>4. ASSUME Narrower(delegation[p].child), NEW pc \in {"lockBudget", "write"},
             delegation' = [delegation EXCEPT ![p].pc = pc]
      PROVE  GrantInv'
  <2>1. /\ delegation' = [delegation EXCEPT ![p].pc = pc, ![p].loaded = delegation[p].loaded]
        /\ delegation[p].loaded \in SUBSET Allocations
    BY <1>4 DEF GrantInv, DelegationTypeOK
  <2>2. Delegating(p) /\ pc \in UnderWay \ {"delegate"}
    BY <1>1 DEF Delegating, UnderWay
  <2> QED
    BY <1>1, <1>2, <1>4, <2>1, <2>2, GoOnStep
<1> QED
  BY <1>1, <1>3, <1>4

\* What reserve writes: the records it loaded and its own.
LEMMA PersistedRecords ==
    ASSUME GrantInv, NEW p \in Delegators, delegation[p].pc = "reserve"
    PROVE  Persisted(p) \subseteq Allocations
<1>1. /\ delegation[p].child \in GrantRecords /\ delegation[p].child.parent \in Issued
      /\ delegation[p].id \in drawn /\ delegation[p].loaded \subseteq Allocations
  BY DEF GrantInv, DelegationTypeOK, DrawnOK, ChildOK, Below, Delegating, UnderWay
<1>2. /\ delegation[p].child.parent \in Ids /\ delegation[p].id \in Ids
      /\ delegation[p].child.budget \in Budgets
  BY <1>1 DEF GrantInv, DelegationTypeOK, Issued, GrantRecords
<1> QED
  BY <1>1, <1>2 DEF Persisted, Record, ParentOf, Allocations

LEMMA BudgetStep ==
    ASSUME GrantInv, NEW p \in Delegators, LockBudget(p) \/ Reserve(p)
    PROVE  GrantInv'
<1>1. /\ delegation[p].pc \in {"lockBudget", "reserve"} /\ Delegating(p)
      /\ Narrower(delegation[p].child)
  BY DEF LockBudget, Reserve, Delegating, UnderWay, GrantInv, ChildOK
<1>2. CASE LockBudget(p)
  <2>1. /\ delegation' = [delegation EXCEPT ![p].pc = "reserve", ![p].loaded = allocations]
        /\ UNCHANGED <<now, grants, allocations, registry, drawn>>
        /\ budgetLock' = budgetLock \cup {p}
    BY <1>2 DEF LockBudget, BudgetLock!Enter
  <2>2. /\ allocations \in SUBSET Allocations /\ budgetLock' \subseteq Delegators
        /\ "reserve" \in UnderWay \ {"delegate"}
    BY <2>1 DEF GrantInv, DelegationTypeOK, UnderWay
  <2> QED
    BY <1>1, <2>1, <2>2, GoOnStep
<1>3. CASE Reserve(p)
  <2>1. /\ delegation' = [delegation EXCEPT ![p].pc = "write", ![p].loaded = {}]
        /\ UNCHANGED <<now, grants, registry, drawn>> /\ delegation[p].pc = "reserve"
        /\ budgetLock' = budgetLock \ {p} /\ allocations' = Persisted(p)
    BY <1>3 DEF Reserve, Unlock
  <2>2. /\ allocations' \subseteq Allocations /\ budgetLock' \subseteq Delegators
        /\ "write" \in UnderWay \ {"delegate"} /\ {} \in SUBSET Allocations
    BY <2>1, PersistedRecords DEF GrantInv, DelegationTypeOK, UnderWay
  <2> QED
    BY <1>1, <2>1, <2>2, GoOnStep
<1> QED
  BY <1>2, <1>3

LEMMA EndingStep ==
    ASSUME GrantInv, NEW p \in Delegators,
           ReserveFails(p) \/ BudgetLockTimeout(p) \/ DelegatorDies(p)
    PROVE  GrantInv'
<1>1. PICK job \in {Idle, [Idle EXCEPT !.pc = "dead"]} :
         /\ delegation' = [delegation EXCEPT ![p] = job]
         /\ UNCHANGED <<now, grants, registry, drawn>>
  BY DEF ReserveFails, BudgetLockTimeout, DelegatorDies, Done
<1>2. allocations' \subseteq Allocations
  <2>1. CASE ReserveFails(p)
    BY <2>1, PersistedRecords DEF ReserveFails, GrantInv, DelegationTypeOK
  <2>2. CASE BudgetLockTimeout(p) \/ DelegatorDies(p)
    BY <2>2 DEF BudgetLockTimeout, DelegatorDies, GrantInv, DelegationTypeOK
  <2> QED
    BY <2>1, <2>2
<1>3. budgetLock' \subseteq Delegators
  BY DEF ReserveFails, BudgetLockTimeout, DelegatorDies, Unlock, GrantInv, DelegationTypeOK
<1> QED
  BY <1>1, <1>2, <1>3, EndStep

LEMMA WritingStep ==
    ASSUME GrantInv, NEW p \in Delegators, WriteGrant(p) \/ WriteGrantFails(p)
    PROVE  GrantInv'
<1>1. /\ delegation[p].pc = "write" /\ Done(p)
      /\ UNCHANGED <<now, allocations, budgetLock, registry, drawn>>
      /\ \/ grants' = grants
         \/ grants' = [grants EXCEPT ![delegation[p].id] = delegation[p].child]
  BY DEF WriteGrant, WriteGrantFails
<1>2. allocations' \subseteq Allocations /\ budgetLock' \subseteq Delegators
  BY <1>1 DEF GrantInv, DelegationTypeOK
<1>3. CASE grants' = grants
  BY <1>1, <1>2, <1>3, EndStep DEF Done
<1>4. CASE grants' = [grants EXCEPT ![delegation[p].id] = delegation[p].child]
  BY <1>1, <1>4, WriteStep
<1> QED
  BY <1>1, <1>3, <1>4

LEMMA GrantInvariant == DelegationSpec => []GrantInv
<1>1. DelegationInit => GrantInv
  <2> SUFFICES ASSUME DelegationInit PROVE GrantInv
    OBVIOUS
  <2>1. PICK r \in RootGrants : grants = [g \in Ids |-> IF g = Root THEN r ELSE NoGrant]
    BY DEF DelegationInit
  <2>2. r \in GrantRecords /\ r.parent = NoGrant /\ r.ancestors = {} /\ r # NoGrant
    BY RootAssumption, NoGrantAssumption
  <2>3. Issued = {Root} /\ grants[Root] = r /\ \A p \in Delegators : ~Delegating(p)
    BY <2>1, <2>2, RootAssumption, IdleJob DEF Issued, Delegating, DelegationInit
  <2>4. DelegationTypeOK
    <3>1. grants \in [Ids -> GrantRecords \cup {NoGrant}]
      BY <2>1, <2>2
    <3>2. delegation \in [Delegators -> Jobs]
      BY IdleJob DEF DelegationInit
    <3> QED
      BY <3>1, <3>2, RootAssumption DEF DelegationInit, DelegationTypeOK, Jobs
  <2>5. DrawnOK /\ ChildOK
    BY <2>3 DEF DrawnOK, ChildOK, DelegationInit
  <2>6. TreeOK /\ NarrowOK
    BY <2>2, <2>3 DEF TreeOK, NarrowOK
  <2> QED
    BY <2>4, <2>5, <2>6 DEF GrantInv
<1>2. GrantInv /\ [DelegationNext]_delegationVars => GrantInv'
  <2> SUFFICES ASSUME GrantInv, [DelegationNext]_delegationVars PROVE GrantInv'
    OBVIOUS
  <2>1. /\ now \in Nat /\ now + 1 \in Nat
        /\ budgetLock \subseteq Delegators /\ registry \subseteq Revocations
    BY DEF GrantInv, DelegationTypeOK
  <2>2. CASE UNCHANGED delegationVars
    BY <2>1, <2>2, WorldStep DEF delegationVars
  <2>3. CASE Tick \/ \E r \in Revocations : Revoke(r)
    BY <2>1, <2>3, WorldStep DEF Tick, Revoke
  <2>4. ASSUME NEW p \in Delegators, BreakBudgetLock(p) PROVE GrantInv'
    BY <2>1, <2>4, WorldStep DEF BreakBudgetLock, BudgetLock!Leave
  <2> QED
    BY <2>2, <2>3, <2>4, LoadParentStep, DelegateStep, BudgetStep, EndingStep, WritingStep
       DEF DelegationNext
<1> QED
  BY <1>1, <1>2, PTL DEF DelegationSpec

\* The recorded ancestors are all there is above a grant: they have its parent
\* and the parents of all of them.
LEMMA AboveIsAncestors ==
    ASSUME GrantInv, NEW g \in Issued
    PROVE  Above(g) \subseteq grants[g].ancestors
<1> DEFINE S == grants[g].ancestors
<1>1. \A h \in Issued : grants[h] \in GrantRecords
  BY DEF GrantInv, DelegationTypeOK, Issued
<1>2. S \in SUBSET Ids
  BY <1>1 DEF GrantRecords
<1>3. \A h \in Issued : grants[h].parent # NoGrant => grants[h].parent \in grants[h].ancestors
  BY DEF GrantInv, TreeOK, Below, AncestorIds
<1>4. \A a \in S : a \in Issued /\ grants[a].ancestors \subseteq S
  BY DEF GrantInv, NarrowOK, Within
<1>5. Parents({g}) \subseteq S
  BY <1>3 DEF Parents
<1>6. Parents(S) \subseteq S
  BY <1>3, <1>4 DEF Parents
<1> HIDE DEF S
<1>7. Above(g) \subseteq S
  BY <1>2, <1>5, <1>6 DEF Above
<1> QED
  BY <1>7 DEF S

---------------------------------------------------------------------------
(* Delegation: budgets.                                                    *)

\* Whoever replaces the allocations is alone in the lock, and they still are
\* what it loaded.
ReserverOK == \A p \in Delegators : delegation[p].pc = "reserve" =>
    budgetLock = {p} /\ delegation[p].loaded = allocations

\* Allocations are from grants on file; all is finite.
AllocationsOK == /\ IsFiniteSet(drawn) /\ IsFiniteSet(allocations)
                 /\ \A r \in allocations : r.parent \in Issued

\* What is allocated from a partitioned grant is within its budget.
UsedOK == \A g \in Issued : grants[g].mode = "partition" =>
    \A f \in Limited(grants[g].budget) : Used(allocations, g, f) <= grants[g].budget[f]

\* Below a partitioned grant there is an allocation for every grant on file or
\* about to be.
Reserved(g, child) == grants[child.parent].mode = "partition" =>
    [parent |-> child.parent, child |-> g, budget |-> child.budget] \in allocations
ReservedOK == /\ \A p \in Delegators : delegation[p].pc = "write" =>
                    Reserved(delegation[p].id, delegation[p].child)
              /\ \A g \in Issued : grants[g].parent # NoGrant => Reserved(g, grants[g])

BudgetInv == ReserverOK /\ AllocationsOK /\ UsedOK /\ ReservedOK

\* An amount is a number, and counts are of the values alone.
LEMMA AmountNat ==
    ASSUME NEW budget \in Budgets, NEW f \in Fields
    PROVE  Amount(budget, f) \in Nat /\ (f \in Limited(budget) => Amount(budget, f) = budget[f])
BY DEF Budgets, Amount, Limited

LEMMA CountSame ==
    ASSUME NEW fun, NEW gun, NEW S, \A x \in S : fun[x] = gun[x]
    PROVE  Count(fun, S) = Count(gun, S)
<1>1. \A x \in S : Unit(fun, x) = Unit(gun, x)
  BY DEF Unit
<1>2. Units(fun, S) = Units(gun, S)
  BY <1>1 DEF Units
<1> QED
  BY <1>2 DEF Count

\* What the records allocate from a grant, as a count.
Amounts(records, f) == [r \in records |-> Amount(r.budget, f)]
From(records, id) == {r \in records : r.parent = id}

LEMMA UsedIsCount ==
    ASSUME NEW records \in SUBSET Allocations, IsFiniteSet(records), NEW id, NEW f \in Fields
    PROVE  /\ Used(records, id, f) = Count(Amounts(records, f), From(records, id))
           /\ Used(records, id, f) \in Nat /\ IsFiniteSet(From(records, id))
           /\ \A r \in records : Amounts(records, f)[r] = Amount(r.budget, f) /\ Amount(r.budget, f) \in Nat
<1>1. \A r \in records : Amounts(records, f)[r] = Amount(r.budget, f) /\ Amount(r.budget, f) \in Nat
  BY AmountNat DEF Allocations, Amounts
<1>2. From(records, id) \in SUBSET records
  BY DEF From
<1>3. IsFiniteSet(From(records, id))
  BY <1>2, FS_Subset
<1>4. \A r \in From(records, id) : Amounts(records, f)[r] \in Nat
  BY <1>1, <1>2
<1>5. Used(records, id, f) = SumFunctionOnSet(Amounts(records, f), From(records, id))
  BY DEF Used, Amounts, From
<1> QED
  BY <1>1, <1>3, <1>4, <1>5, SumIsCount, UnitsFinite

\* A new record adds at most its amount, and only to what its parent gave.
LEMMA UsedGrows ==
    ASSUME NEW records \in SUBSET Allocations, IsFiniteSet(records), NEW r \in Allocations,
           NEW id, NEW f \in Fields
    PROVE  /\ r.parent # id => Used(records \cup {r}, id, f) = Used(records, id, f)
           /\ Used(records \cup {r}, id, f) <= Used(records, id, f) + Amount(r.budget, f)
<1> DEFINE more == records \cup {r}
<1>1. IsFiniteSet(more) /\ more \in SUBSET Allocations
  BY FS_AddElement
<1> HIDE DEF more
<1>2. /\ Used(more, id, f) = Count(Amounts(more, f), From(more, id))
      /\ \A x \in more : Amounts(more, f)[x] = Amount(x.budget, f) /\ Amount(x.budget, f) \in Nat
  BY <1>1, UsedIsCount
<1>3. /\ Used(records, id, f) = Count(Amounts(records, f), From(records, id))
      /\ Used(records, id, f) \in Nat /\ IsFiniteSet(From(records, id))
      /\ \A x \in records : Amounts(records, f)[x] = Amount(x.budget, f)
  BY UsedIsCount
<1>4. Count(Amounts(more, f), From(records, id)) = Used(records, id, f)
  <2>1. \A x \in From(records, id) : Amounts(more, f)[x] = Amounts(records, f)[x]
    BY <1>2, <1>3 DEF From, more
  <2> QED
    BY <1>3, <2>1, CountSame
<1>5. r.parent # id => From(more, id) = From(records, id)
  BY DEF From, more
<1>6. r.parent = id => From(more, id) = From(records, id) \cup {r}
  BY DEF From, more
<1>7. /\ Count(Amounts(more, f), {r}) = Amount(r.budget, f) /\ IsFiniteSet({r})
      /\ Amount(r.budget, f) \in Nat
  <2>1. r \in more
    BY DEF more
  <2>2. Amounts(more, f)[r] = Amount(r.budget, f) /\ Amount(r.budget, f) \in Nat
    BY <1>2, <2>1
  <2> QED
    BY <2>2, CountOne, FS_Singleton
<1>8. \A x \in From(records, id) \cup {r} : Amounts(more, f)[x] \in Nat
  BY <1>2 DEF From, more
<1>9. Count(Amounts(more, f), From(records, id) \cup {r}) <= Used(records, id, f) + Amount(r.budget, f)
  BY <1>3, <1>4, <1>7, <1>8, CountUnion
<1>10. r.parent # id => Used(more, id, f) = Used(records, id, f)
  BY <1>2, <1>4, <1>5
<1>11. Used(more, id, f) <= Used(records, id, f) + Amount(r.budget, f)
  <2>1. CASE r.parent = id
    BY <1>2, <1>6, <1>9, <2>1
  <2>2. CASE r.parent # id
    BY <1>3, <1>7, <1>10, <2>2
  <2> QED
    BY <2>1, <2>2
<1> QED
  BY <1>10, <1>11 DEF more

\* A delegation goes on or ends without touching a file.
LEMMA QuietBudget ==
    ASSUME GrantInv, BudgetInv, NEW p \in Delegators, NEW job,
           delegation' = [delegation EXCEPT ![p] = job], UNCHANGED <<grants, allocations>>,
           IsFiniteSet(drawn'),
           job.pc = "reserve" => budgetLock' = {p} /\ job.loaded = allocations,
           job.pc = "write" => Reserved(job.id, job.child),
           \A q \in Delegators \ {p} : delegation[q].pc = "reserve" => budgetLock' = {q}
    PROVE  BudgetInv'
<1>1. delegation'[p] = job /\ \A q \in Delegators \ {p} : delegation'[q] = delegation[q]
  BY DEF GrantInv, DelegationTypeOK
<1>2. Issued' = Issued /\ \A g, child : Reserved(g, child)' <=> Reserved(g, child)
  BY DEF Issued, Reserved
<1>3. ReserverOK'
  BY <1>1 DEF BudgetInv, ReserverOK
<1>4. AllocationsOK'
  BY <1>2 DEF BudgetInv, AllocationsOK
<1>5. UsedOK'
  BY <1>2 DEF BudgetInv, UsedOK
<1>6. ReservedOK'
  BY <1>1, <1>2 DEF BudgetInv, ReservedOK
<1> QED
  BY <1>3, <1>4, <1>5, <1>6 DEF BudgetInv

\* An allocation is added by a process that found it to fit.
LEMMA AddedBudget ==
    ASSUME GrantInv, BudgetInv, NEW p \in Delegators, NEW job, delegation[p].pc = "reserve", Fits(p),
           allocations' = Persisted(p), delegation' = [delegation EXCEPT ![p] = job],
           UNCHANGED <<grants, drawn>>, job.pc # "reserve",
           job.pc = "write" => job.id = delegation[p].id /\ job.child = delegation[p].child
    PROVE  BudgetInv'
<1>1. delegation'[p] = job /\ \A q \in Delegators \ {p} : delegation'[q] = delegation[q]
  BY DEF GrantInv, DelegationTypeOK
<1>2. Issued' = Issued
  BY DEF Issued
<1>3. allocations' = allocations \cup {Record(p)}
  BY DEF BudgetInv, ReserverOK, Persisted
<1>4. /\ delegation[p].id \in Ids /\ delegation[p].child \in GrantRecords
      /\ Below(delegation[p].child) /\ ParentOf(p) \in Issued
  BY DEF GrantInv, DrawnOK, ChildOK, Delegating, UnderWay, Below, ParentOf, DelegationTypeOK
<1>5. Record(p) \in Allocations /\ Record(p).parent = ParentOf(p)
      /\ Record(p).budget = delegation[p].child.budget
  BY <1>4 DEF Record, Allocations, GrantRecords, ParentOf, Issued
<1>6. ReserverOK'
  BY <1>1 DEF BudgetInv, ReserverOK
<1>7. allocations \in SUBSET Allocations /\ IsFiniteSet(allocations)
  BY DEF GrantInv, DelegationTypeOK, BudgetInv, AllocationsOK
<1>8. AllocationsOK'
  BY <1>2, <1>3, <1>4, <1>5, <1>7, FS_AddElement DEF BudgetInv, AllocationsOK
<1>9. UsedOK'
  <2> SUFFICES ASSUME NEW g \in Issued, grants[g].mode = "partition",
                      NEW f \in Limited(grants[g].budget)
               PROVE  Used(allocations', g, f) <= grants[g].budget[f]
    BY <1>2 DEF UsedOK
  <2>1. f \in Fields /\ grants[g].budget[f] \in Nat
    BY DEF Limited, GrantInv, DelegationTypeOK, Issued, GrantRecords, Budgets
  <2>2. CASE g # ParentOf(p)
    <3>1. Used(allocations', g, f) = Used(allocations, g, f)
      BY <1>3, <1>5, <1>7, <2>1, <2>2, UsedGrows
    <3> QED
      BY <3>1 DEF BudgetInv, UsedOK
  <2>3. CASE g = ParentOf(p)
    <3>1. Used(allocations', g, f) <= Used(allocations, g, f) + Amount(delegation[p].child.budget, f)
      BY <1>3, <1>5, <1>7, <2>1, UsedGrows
    <3>2. Used(allocations, g, f) + Amount(delegation[p].child.budget, f) <= grants[g].budget[f]
      BY <2>3 DEF Fits, BudgetInv, ReserverOK
    <3>3. Used(allocations, g, f) \in Nat /\ Amount(delegation[p].child.budget, f) \in Nat
      BY <1>4, <1>7, <2>1, UsedIsCount, AmountNat DEF GrantRecords
    <3>4. Used(allocations', g, f) \in Nat
      BY <1>3, <1>5, <1>7, <1>8, <2>1, UsedIsCount DEF AllocationsOK
    <3> QED
      BY <2>1, <3>1, <3>2, <3>3, <3>4
  <2> QED
    BY <2>2, <2>3
<1>10. ReservedOK'
  <2>1. \A g, child : Reserved(g, child) => Reserved(g, child)'
    BY <1>3 DEF Reserved
  <2>2. \A g, child : g = delegation[p].id /\ child = delegation[p].child => Reserved(g, child)'
    BY <1>3 DEF Reserved, Record, ParentOf
  <2> QED
    BY <1>1, <1>2, <2>1, <2>2 DEF BudgetInv, ReservedOK
<1> QED
  BY <1>6, <1>8, <1>9, <1>10 DEF BudgetInv

\* A grant is written; nothing has been allocated from it yet.
LEMMA WrittenBudget ==
    ASSUME GrantInv, BudgetInv, NEW p \in Delegators, delegation[p].pc = "write", Done(p),
           grants' = [grants EXCEPT ![delegation[p].id] = delegation[p].child],
           UNCHANGED <<allocations, budgetLock, drawn>>
    PROVE  BudgetInv'
<1> DEFINE id == delegation[p].id
           child == delegation[p].child
<1>1. /\ id \in drawn \ Issued /\ id \in Ids /\ child \in GrantRecords /\ Below(child)
      /\ Reserved(id, child) /\ child.parent \in Issued
  BY DEF GrantInv, DrawnOK, ChildOK, Delegating, UnderWay, DelegationTypeOK, BudgetInv, ReservedOK,
         Below
<1>2. /\ delegation'[p] = Idle /\ \A q \in Delegators \ {p} : delegation'[q] = delegation[q]
  BY DEF GrantInv, DelegationTypeOK, Done
<1>3. grants' = [grants EXCEPT ![id] = child]
  OBVIOUS
<1> HIDE DEF id, child
<1>4. /\ grants'[id] = child /\ \A g \in Ids \ {id} : grants'[g] = grants[g]
      /\ Issued' = Issued \cup {id} /\ \A g \in Issued : g \in Ids /\ g # id
  BY <1>1, <1>3, NoGrantAssumption DEF Issued, GrantInv, DelegationTypeOK
<1>5. ReserverOK'
  BY <1>2, IdleJob DEF BudgetInv, ReserverOK, Idle
<1>6. AllocationsOK'
  BY <1>4 DEF BudgetInv, AllocationsOK
<1>7. UsedOK'
  <2> SUFFICES ASSUME NEW g \in Issued', grants'[g].mode = "partition",
                      NEW f \in Limited(grants'[g].budget)
               PROVE  Used(allocations, g, f) <= grants'[g].budget[f]
    BY DEF UsedOK
  <2>1. CASE g \in Issued
    BY <1>4, <2>1 DEF BudgetInv, UsedOK
  <2>2. CASE g = id
    <3>1. f \in Fields /\ grants'[g].budget[f] \in Nat
      BY <1>1, <1>4, <2>2 DEF Limited, GrantRecords, Budgets
    <3>2. From(allocations, g) = {}
      BY <1>1, <2>2 DEF BudgetInv, AllocationsOK, From
    <3>3. Used(allocations, g, f) = Count(Amounts(allocations, f), From(allocations, g))
      BY <3>1, UsedIsCount DEF GrantInv, DelegationTypeOK, BudgetInv, AllocationsOK
    <3>4. Used(allocations, g, f) = 0
      BY <3>2, <3>3, CountEmpty
    <3> QED
      BY <3>1, <3>4
  <2> QED
    BY <1>4, <2>1, <2>2
<1>8. ReservedOK'
  <2>1. \A q \in Delegators : delegation[q].pc = "write" => delegation[q].child.parent \in Issued
    BY DEF GrantInv, ChildOK, Delegating, UnderWay, Below
  <2>2. \A g \in Issued : grants[g].parent # NoGrant => grants[g].parent \in Issued
    BY DEF GrantInv, TreeOK, Below
  <2>3. \A g, c : c.parent \in Issued /\ Reserved(g, c) => Reserved(g, c)'
    BY <1>4 DEF Reserved
  <2>4. (\A q \in Delegators : delegation[q].pc = "write" =>
             Reserved(delegation[q].id, delegation[q].child))'
    BY <1>2, <2>1, <2>3 DEF BudgetInv, ReservedOK, Idle
  <2>5. (\A g \in Issued : grants[g].parent # NoGrant => Reserved(g, grants[g]))'
    <3> SUFFICES ASSUME NEW g \in Issued', grants'[g].parent # NoGrant PROVE Reserved(g, grants[g])'
      OBVIOUS
    <3>1. \E c : c = grants'[g] /\ c.parent \in Issued /\ Reserved(g, c)
      BY <1>1, <1>4, <2>2 DEF BudgetInv, ReservedOK
    <3> QED
      BY <2>3, <3>1
  <2> QED
    BY <2>4, <2>5 DEF ReservedOK
<1> QED
  BY <1>5, <1>6, <1>7, <1>8 DEF BudgetInv

LEMMA DelegatorBudget ==
    ASSUME GrantInv, BudgetInv, NEW p \in Delegators,
           \/ \E g \in Ids, parent \in Ids, spec \in Specs : LoadParent(p, g, parent, spec)
           \/ Delegate(p) \/ LockBudget(p) \/ Reserve(p) \/ ReserveFails(p) \/ WriteGrant(p)
           \/ WriteGrantFails(p) \/ BudgetLockTimeout(p) \/ DelegatorDies(p)
    PROVE  BudgetInv'
<1>0. IsFiniteSet(drawn)
  BY DEF BudgetInv, AllocationsOK
<1>1. \A q \in Delegators : delegation[q].pc = "reserve" =>
         budgetLock = {q} /\ delegation[q].loaded = allocations
  BY DEF BudgetInv, ReserverOK
<1>2. delegation \in [Delegators -> Jobs]
  BY DEF GrantInv, DelegationTypeOK, Jobs
<1>3. ASSUME NEW g \in Ids, NEW parent \in Ids, NEW spec \in Specs, LoadParent(p, g, parent, spec)
      PROVE  BudgetInv'
  <2>1. /\ drawn' = drawn \cup {g} /\ UNCHANGED <<grants, allocations, budgetLock>>
        /\ \E job : job.pc = "delegate" /\ delegation' = [delegation EXCEPT ![p] = job]
    BY <1>3 DEF LoadParent
  <2>2. IsFiniteSet(drawn')
    BY <1>0, <2>1, FS_AddElement
  <2> QED
    BY <1>1, <2>1, <2>2, QuietBudget
<1>4. CASE Delegate(p)
  <2>1. UNCHANGED <<grants, allocations, budgetLock, drawn>> /\ delegation[p] \in Jobs
    BY <1>2, <1>4 DEF Delegate
  <2>2. PICK job : /\ delegation' = [delegation EXCEPT ![p] = job] /\ job.pc # "reserve"
                   /\ job.pc = "write" => Reserved(job.id, job.child)
    <3>1. CASE Done(p)
      <4>1. Idle.pc # "reserve" /\ Idle.pc # "write"
        BY DEF Idle
      <4> QED
        BY <3>1, <4>1 DEF Done
    <3>2. CASE ~Done(p)
      <4> DEFINE to == IF grants[ParentOf(p)].mode = "partition" THEN "lockBudget" ELSE "write"
                 job == [delegation[p] EXCEPT !.pc = to]
      <4>1. delegation' = [delegation EXCEPT ![p] = job]
        BY <1>2, <1>4, <3>2 DEF Delegate
      <4>2. job.pc = to /\ job.child = delegation[p].child
        BY <2>1 DEF Jobs
      <4>3. job.pc = "write" => Reserved(job.id, job.child)
        BY <4>2 DEF Reserved, ParentOf
      <4> HIDE DEF job
      <4> QED
        BY <4>1, <4>2, <4>3
    <3> QED
      BY <3>1, <3>2
  <2> QED
    BY <1>0, <1>1, <2>1, <2>2, QuietBudget
<1>5. CASE LockBudget(p)
  <2> DEFINE job == [delegation[p] EXCEPT !.pc = "reserve", !.loaded = allocations]
  <2>1. /\ budgetLock = {} /\ budgetLock' = {p} /\ UNCHANGED <<grants, allocations, drawn>>
        /\ delegation' = [delegation EXCEPT ![p] = job]
    BY <1>2, <1>5 DEF LockBudget, BudgetLock!Enter
  <2>2. job.pc = "reserve" /\ job.loaded = allocations
    BY <1>2 DEF Jobs
  <2> HIDE DEF job
  <2> QED
    BY <1>0, <1>1, <2>1, <2>2, QuietBudget
<1>6. CASE Reserve(p)
  <2> DEFINE job == [delegation[p] EXCEPT !.pc = "write", !.loaded = {}]
  <2>1. /\ delegation[p].pc = "reserve" /\ Fits(p) /\ allocations' = Persisted(p)
        /\ delegation' = [delegation EXCEPT ![p] = job] /\ UNCHANGED <<grants, drawn>>
    BY <1>2, <1>6 DEF Reserve
  <2>2. job.pc = "write" /\ job.id = delegation[p].id /\ job.child = delegation[p].child
    BY <1>2 DEF Jobs
  <2> HIDE DEF job
  <2> QED
    BY <2>1, <2>2, AddedBudget
<1>7. CASE ReserveFails(p)
  <2>1. /\ delegation[p].pc = "reserve" /\ budgetLock = {p} /\ UNCHANGED <<grants, drawn>>
        /\ delegation' = [delegation EXCEPT ![p] = Idle]
        /\ allocations' = allocations \/ (Fits(p) /\ allocations' = Persisted(p))
    BY <1>1, <1>7 DEF ReserveFails, Done
  <2>2. Idle.pc = "idle" /\ \A q \in Delegators \ {p} : delegation[q].pc # "reserve"
    BY <1>1, <2>1 DEF Idle
  <2>3. CASE allocations' = allocations
    BY <1>0, <2>1, <2>2, <2>3, QuietBudget
  <2>4. CASE Fits(p) /\ allocations' = Persisted(p)
    BY <2>1, <2>2, <2>4, AddedBudget
  <2> QED
    BY <2>1, <2>3, <2>4
<1>8. CASE WriteGrant(p) \/ WriteGrantFails(p)
  <2>1. /\ delegation[p].pc = "write" /\ Done(p) /\ UNCHANGED <<allocations, budgetLock, drawn>>
        /\ \/ grants' = grants
           \/ grants' = [grants EXCEPT ![delegation[p].id] = delegation[p].child]
    BY <1>8 DEF WriteGrant, WriteGrantFails
  <2>2. CASE grants' = grants
    BY <1>0, <1>1, <2>1, <2>2, QuietBudget DEF Done, Idle
  <2>3. CASE grants' = [grants EXCEPT ![delegation[p].id] = delegation[p].child]
    BY <2>1, <2>3, WrittenBudget
  <2> QED
    BY <2>1, <2>2, <2>3
<1>9. CASE BudgetLockTimeout(p) \/ DelegatorDies(p)
  <2>1. /\ UNCHANGED <<grants, allocations, budgetLock, drawn>>
        /\ \E job \in {Idle, [Idle EXCEPT !.pc = "dead"]} : delegation' = [delegation EXCEPT ![p] = job]
    BY <1>9 DEF BudgetLockTimeout, DelegatorDies, Done
  <2>2. \A job \in {Idle, [Idle EXCEPT !.pc = "dead"]} : job.pc \in {"idle", "dead"}
    BY DEF Idle
  <2> QED
    BY <1>0, <1>1, <2>1, <2>2, QuietBudget
<1> QED
  BY <1>3, <1>4, <1>5, <1>6, <1>7, <1>8, <1>9

LEMMA BudgetInvariant == DelegationSpec => []BudgetInv
<1>1. DelegationInit => BudgetInv
  <2> SUFFICES ASSUME DelegationInit PROVE BudgetInv
    OBVIOUS
  <2>1. PICK r \in RootGrants : grants = [g \in Ids |-> IF g = Root THEN r ELSE NoGrant]
    BY DEF DelegationInit
  <2>2. r \in GrantRecords /\ r.parent = NoGrant /\ r # NoGrant
    BY RootAssumption, NoGrantAssumption
  <2>3. Issued = {Root} /\ grants[Root] = r /\ \A p \in Delegators : delegation[p].pc = "idle"
    BY <2>1, <2>2, RootAssumption DEF Issued, DelegationInit, Idle
  <2>4. allocations = {} /\ IsFiniteSet(drawn) /\ IsFiniteSet(allocations)
    BY FS_Singleton, FS_EmptySet DEF DelegationInit
  <2>5. ReserverOK /\ AllocationsOK /\ ReservedOK
    BY <2>2, <2>3, <2>4 DEF ReserverOK, AllocationsOK, ReservedOK
  <2>6. UsedOK
    <3> SUFFICES ASSUME NEW f \in Limited(r.budget) PROVE Used({}, Root, f) <= r.budget[f]
      BY <2>3, <2>4 DEF UsedOK
    <3>1. f \in Fields /\ r.budget[f] \in Nat
      BY <2>2 DEF Limited, GrantRecords, Budgets
    <3>2. Used({}, Root, f) = Count(Amounts({}, f), From({}, Root)) /\ From({}, Root) = {}
      BY <2>4, <3>1, UsedIsCount DEF From
    <3>3. Used({}, Root, f) = 0
      BY <3>2, CountEmpty
    <3> QED
      BY <3>1, <3>3
  <2> QED
    BY <2>5, <2>6 DEF BudgetInv
<1>2. GrantInv /\ BudgetInv /\ [DelegationNext]_delegationVars => BudgetInv'
  <2> SUFFICES ASSUME GrantInv, BudgetInv, [DelegationNext]_delegationVars PROVE BudgetInv'
    OBVIOUS
  <2>1. ASSUME UNCHANGED <<grants, allocations, drawn, delegation>>,
               \A q \in Delegators : delegation[q].pc = "reserve" => budgetLock' = {q}
        PROVE  BudgetInv'
    <3>1. Issued' = Issued /\ \A g, child : Reserved(g, child)' <=> Reserved(g, child)
      BY <2>1 DEF Issued, Reserved
    <3> QED
      BY <2>1, <3>1 DEF BudgetInv, ReserverOK, AllocationsOK, UsedOK, ReservedOK
  <2>2. \A q \in Delegators : delegation[q].pc = "reserve" => budgetLock = {q}
    BY DEF BudgetInv, ReserverOK
  <2>3. CASE UNCHANGED delegationVars \/ Tick \/ \E r \in Revocations : Revoke(r)
    BY <2>1, <2>2, <2>3 DEF delegationVars, Tick, Revoke
  <2>4. ASSUME NEW p \in Delegators, BreakBudgetLock(p) PROVE BudgetInv'
    <3>1. /\ UNCHANGED <<grants, allocations, drawn, delegation>> /\ delegation[p].pc = "dead"
          /\ budgetLock = {p}
      BY <2>4 DEF BreakBudgetLock, BudgetLock!Leave
    <3>2. \A q \in Delegators : delegation[q].pc # "reserve"
      BY <2>2, <3>1
    <3> QED
      BY <2>1, <3>1, <3>2
  <2> QED
    BY <2>3, <2>4, DelegatorBudget DEF DelegationNext
<1> QED
  BY <1>1, <1>2, GrantInvariant, PTL DEF DelegationSpec

\* The children of a grant, and the leaves that are a grant or below it.
Kids(g) == {c \in Issued : grants[c].parent = g}
Frontier(c) == IF Leaf(c) THEN {c} ELSE LeavesBelow(c)

\* A leaf below a grant is one of its children or below one of them.
LEMMA LeavesByKid ==
    ASSUME GrantInv, NEW g \in Issued
    PROVE  LeavesBelow(g) \subseteq UNION {Frontier(c) : c \in Kids(g)}
<1> SUFFICES ASSUME NEW h \in LeavesBelow(g) PROVE \E c \in Kids(g) : h \in Frontier(c)
  OBVIOUS
<1>1. h \in Issued /\ Leaf(h) /\ g \in Above(h)
  BY DEF LeavesBelow, Leaf
<1>2. Parents({h}) \subseteq Above(h) /\ Parents(Above(h)) \subseteq Above(h)
  <2>1. \A S \in SUBSET Ids : Parents(S) \subseteq Ids
    BY DEF Parents, GrantInv, DelegationTypeOK, Issued, GrantRecords
  <2>2. {h} \in SUBSET Ids /\ Above(h) \in SUBSET Ids
    BY <1>1 DEF Issued, Above
  <2>3. Parents({h}) \subseteq Above(h)
    BY <2>1, <2>2 DEF Above
  <2>4. \A S \in SUBSET Ids : Parents({h}) \subseteq S /\ Parents(S) \subseteq S =>
                                  Parents(Above(h)) \subseteq S
    BY DEF Above, Parents
  <2> QED
    BY <2>1, <2>2, <2>3, <2>4 DEF Above
<1> DEFINE S == Above(h) \ {g}
<1>3. ~(Parents({h}) \subseteq S /\ Parents(S) \subseteq S)
  BY <1>1 DEF Above
<1>4. PICK c \in {h} \cup S : c \in Issued /\ grants[c].parent = g
  BY <1>2, <1>3 DEF Parents
<1>5. c \in Kids(g)
  BY <1>4 DEF Kids
<1>6. CASE c = h
  BY <1>1, <1>5, <1>6 DEF Frontier
<1>7. CASE c \in Above(h)
  <2>1. ~Leaf(c)
    <3>1. \E d \in Issued : grants[d].parent = c
      <4> DEFINE T == Above(h) \ {c}
      <4>1. ~(Parents({h}) \subseteq T /\ Parents(T) \subseteq T)
        BY <1>7 DEF Above
      <4> QED
        BY <1>2, <4>1 DEF Parents
    <3> QED
      BY <3>1 DEF Leaf
  <2>2. h \in LeavesBelow(c)
    BY <1>1, <1>7 DEF LeavesBelow, Issued
  <2> QED
    BY <1>5, <2>1, <2>2 DEF Frontier
<1> QED
  BY <1>4, <1>6, <1>7

\* The children of a partitioned grant have a budget of the same kind, and
\* together no more than was allocated from the grant.
LEMMA KidsFit ==
    ASSUME GrantInv, BudgetInv, NEW g \in Issued, grants[g].mode = "partition",
           NEW f \in Limited(grants[g].budget)
    PROVE  /\ \A c \in Kids(g) : /\ grants[c].mode = "partition" /\ f \in Limited(grants[c].budget)
                                 /\ grants[c].depth = grants[g].depth + 1
           /\ Count([h \in Issued |-> Amount(grants[h].budget, f)], Kids(g)) <= grants[g].budget[f]
<1> DEFINE amount == [h \in Issued |-> Amount(grants[h].budget, f)]
<1>0. /\ f \in Fields /\ g # NoGrant /\ \A h \in Issued : h \in Ids /\ grants[h] \in GrantRecords
      /\ grants[g].budget[f] \in Nat
  BY NoGrantAssumption DEF Limited, Issued, GrantInv, DelegationTypeOK, GrantRecords, Budgets
<1>1. ASSUME NEW c \in Kids(g)
      PROVE  /\ c \in Issued /\ grants[c].parent = g /\ Below(grants[c]) /\ Narrower(grants[c])
             /\ [parent |-> g, child |-> c, budget |-> grants[c].budget] \in allocations
  <2>1. c \in Issued /\ grants[c].parent = g
    BY DEF Kids
  <2>2. Below(grants[c]) /\ Narrower(grants[c])
    BY <1>0, <2>1 DEF GrantInv, TreeOK
  <2>3. Reserved(c, grants[c])
    BY <1>0, <2>1 DEF BudgetInv, ReservedOK
  <2> QED
    BY <2>1, <2>2, <2>3 DEF Reserved
<1>2. \A c \in Kids(g) : /\ grants[c].mode = "partition" /\ f \in Limited(grants[c].budget)
                         /\ grants[c].depth = grants[g].depth + 1
  BY <1>1 DEF Below, Narrower, IsAuthorityGrantAttenuated, BudgetIsWithin, DelegationPolicyIsWithin
<1> DEFINE all == Amounts(allocations, f)
           rec == [c \in Kids(g) |-> [parent |-> g, child |-> c, budget |-> grants[c].budget]]
           move == [e \in Units(amount, Kids(g)) |-> <<rec[e[1]], e[2]>>]
<1>3. /\ Used(allocations, g, f) = Count(all, From(allocations, g))
      /\ IsFiniteSet(From(allocations, g))
      /\ \A r \in allocations : all[r] = Amount(r.budget, f) /\ Amount(r.budget, f) \in Nat
  BY <1>0, UsedIsCount DEF GrantInv, DelegationTypeOK, BudgetInv, AllocationsOK
<1>4. \A c \in Kids(g) : /\ rec[c] \in From(allocations, g) /\ rec[c].child = c
                         /\ all[rec[c]] = amount[c]
  <2> SUFFICES ASSUME NEW c \in Kids(g)
               PROVE  /\ rec[c] \in From(allocations, g) /\ rec[c].child = c
                      /\ all[rec[c]] = amount[c]
    OBVIOUS
  <2>1. c \in Issued /\ rec[c] \in allocations /\ rec[c].parent = g /\ rec[c].child = c
        /\ rec[c].budget = grants[c].budget
    BY <1>1
  <2>2. amount[c] = Amount(grants[c].budget, f)
    BY <2>1
  <2>3. all[rec[c]] = Amount(rec[c].budget, f)
    BY <1>3, <2>1
  <2> HIDE DEF rec, all, amount
  <2> QED
    BY <2>1, <2>2, <2>3 DEF From
<1> HIDE DEF rec, all, amount
<1>5. \A e \in Units(amount, Kids(g)) : /\ e[1] \in Kids(g) /\ e[2] \in 1 .. amount[e[1]]
                                        /\ e = <<e[1], e[2]>>
  BY DEF Units, Unit
<1>6. move \in Injection(Units(amount, Kids(g)), Units(all, From(allocations, g)))
  <2>1. \A e \in Units(amount, Kids(g)) : move[e] \in Units(all, From(allocations, g))
    <3> SUFFICES ASSUME NEW e \in Units(amount, Kids(g))
                 PROVE  <<rec[e[1]], e[2]>> \in Units(all, From(allocations, g))
      OBVIOUS
    <3>1. rec[e[1]] \in From(allocations, g) /\ e[2] \in 1 .. all[rec[e[1]]]
      BY <1>4, <1>5
    <3> QED
      BY <3>1 DEF Units, Unit
  <2>2. \A d, e \in Units(amount, Kids(g)) : move[d] = move[e] => d = e
    <3> SUFFICES ASSUME NEW d \in Units(amount, Kids(g)), NEW e \in Units(amount, Kids(g)),
                        rec[d[1]] = rec[e[1]], d[2] = e[2]
                 PROVE  d = e
      OBVIOUS
    <3>1. d[1] = e[1]
      BY <1>4, <1>5
    <3> QED
      BY <1>5, <3>1
  <2> QED
    BY <2>1, <2>2 DEF Injection, IsInjective
<1>7. IsFiniteSet(Units(all, From(allocations, g)))
  <2>1. \A r \in From(allocations, g) : all[r] \in Nat
    BY <1>3 DEF From
  <2> QED
    BY <1>3, <2>1, UnitsFinite
<1>8. Count(amount, Kids(g)) <= Count(all, From(allocations, g))
  BY <1>6, <1>7, FS_Injection DEF Count
<1>9. Used(allocations, g, f) <= grants[g].budget[f]
  BY DEF BudgetInv, UsedOK
<1>10. Count(amount, Kids(g)) <= grants[g].budget[f]
  <2>1. Count(amount, Kids(g)) \in Nat /\ Used(allocations, g, f) \in Nat
    BY <1>0, <1>6, <1>7, FS_Injection, FS_CardinalityType, UsedIsCount
       DEF Count, GrantInv, DelegationTypeOK, BudgetInv, AllocationsOK
  <2> QED
    BY <1>0, <1>3, <1>8, <1>9, <2>1
<1> QED
  BY <1>2, <1>10 DEF amount

\* From the leaves upwards: a grant's leaves spend no more than its children
\* may, and those no more than was allocated.
LEMMA SubtreeFits == ASSUME GrantInv, BudgetInv PROVE SubtreeWithinBudget
<1> SUFFICES ASSUME NEW f \in Fields
             PROVE  \A g \in Issued : grants[g].mode = "partition" /\ f \in Limited(grants[g].budget) =>
                        SumFunctionOnSet([h \in Issued |-> Amount(grants[h].budget, f)], LeavesBelow(g))
                           <= grants[g].budget[f]
  BY DEF SubtreeWithinBudget, Limited
<1> DEFINE amount == [h \in Issued |-> Amount(grants[h].budget, f)]
           Deeper(g) == {h \in Issued : grants[h].depth > grants[g].depth}
           Fine(g) == Count(amount, LeavesBelow(g)) <= grants[g].budget[f]
           Asked(g) == grants[g].mode = "partition" /\ f \in Limited(grants[g].budget)
           Bad == {n \in Nat : \E g \in Issued : Cardinality(Deeper(g)) = n /\ Asked(g) /\ ~Fine(g)}
<1>1. IsFiniteSet(Issued)
  BY FS_Subset DEF GrantInv, DrawnOK, BudgetInv, AllocationsOK
<1>2. \A h \in Issued : /\ grants[h] \in GrantRecords /\ grants[h].depth \in Nat
                        /\ amount[h] = Amount(grants[h].budget, f) /\ amount[h] \in Nat
  <2>1. \A h \in Issued : grants[h] \in GrantRecords
    BY DEF GrantInv, DelegationTypeOK, Issued
  <2>2. \A h \in Issued : grants[h].depth \in Nat /\ grants[h].budget \in Budgets
    BY <2>1 DEF GrantRecords
  <2> QED
    BY <2>1, <2>2, AmountNat
<1>3. \A g : LeavesBelow(g) \in SUBSET Issued
  BY DEF LeavesBelow, Leaf
<1>4. \A g : SumFunctionOnSet(amount, LeavesBelow(g)) = Count(amount, LeavesBelow(g))
  <2> SUFFICES ASSUME NEW g
               PROVE  SumFunctionOnSet(amount, LeavesBelow(g)) = Count(amount, LeavesBelow(g))
    OBVIOUS
  <2>1. IsFiniteSet(LeavesBelow(g)) /\ \A x \in LeavesBelow(g) : amount[x] \in Nat
    BY <1>1, <1>2, <1>3, FS_Subset
  <2> HIDE DEF amount
  <2> QED
    BY <2>1, SumIsCount
<1> HIDE DEF amount
<1>5. SUFFICES \A g \in Issued : Asked(g) => Fine(g)
  BY <1>4 DEF amount
<1>6. \A g : /\ Deeper(g) \in SUBSET Issued /\ IsFiniteSet(Deeper(g))
             /\ Cardinality(Deeper(g)) \in Nat
  BY <1>1, FS_Subset, FS_CardinalityType
<1>7. SUFFICES ASSUME Bad # {} PROVE FALSE
  BY <1>6
<1>8. PICK n \in Bad : \A m \in Bad : n <= m
  BY <1>7, LeastNatural
<1>9. PICK g \in Issued : Cardinality(Deeper(g)) = n /\ Asked(g) /\ ~Fine(g)
  OBVIOUS
<1>10. /\ \A c \in Kids(g) : c \in Issued /\ Asked(c) /\ grants[c].depth = grants[g].depth + 1
       /\ Count(amount, Kids(g)) <= grants[g].budget[f]
  BY <1>9, KidsFit DEF amount, Kids
<1>11. \A c \in Kids(g) : Fine(c)
  <2> SUFFICES ASSUME NEW c \in Kids(g) PROVE Fine(c)
    OBVIOUS
  <2>1. Deeper(c) \in SUBSET Deeper(g) /\ c \in Deeper(g) /\ c \notin Deeper(c)
    BY <1>2, <1>10
  <2>2. Cardinality(Deeper(c)) < Cardinality(Deeper(g))
    <3> HIDE DEF Deeper
    <3>1. /\ Cardinality(Deeper(c)) <= Cardinality(Deeper(g))
          /\ Cardinality(Deeper(g)) = Cardinality(Deeper(c)) => Deeper(g) = Deeper(c)
      BY <1>6, <2>1, FS_Subset
    <3> QED
      BY <1>6, <2>1, <3>1
  <2>3. Cardinality(Deeper(c)) \notin Bad
    <3> HIDE DEF Bad, Deeper
    <3> QED
      BY <1>6, <1>8, <1>9, <2>2
  <2> HIDE DEF Deeper, Fine
  <2> QED
    BY <1>6, <1>10, <2>3
<1> DEFINE family == [c \in Kids(g) |-> Frontier(c)]
<1>12. /\ Kids(g) \in SUBSET Issued /\ family \in [Kids(g) -> SUBSET Issued]
  BY <1>3 DEF Kids, Frontier
<1>13. \A c \in Kids(g) : Count(amount, family[c]) <= amount[c]
  <2> SUFFICES ASSUME NEW c \in Kids(g) PROVE Count(amount, Frontier(c)) <= amount[c]
    OBVIOUS
  <2>1. c \in Issued /\ amount[c] = grants[c].budget[f] /\ amount[c] \in Nat
    BY <1>2, <1>10, AmountNat DEF GrantRecords
  <2>2. CASE Leaf(c)
    <3>1. Count(amount, {c}) = amount[c]
      BY <2>1, CountOne
    <3> QED
      BY <2>1, <2>2, <3>1 DEF Frontier
  <2>3. CASE ~Leaf(c)
    BY <1>11, <2>1, <2>3 DEF Frontier
  <2> QED
    BY <2>2, <2>3
<1>14. Count(amount, UNION {family[c] : c \in Kids(g)}) <= Count(amount, Kids(g))
  <2> HIDE DEF family
  <2>1. \A x \in Issued : amount[x] \in Nat
    BY <1>2
  <2> QED
    BY <1>1, <1>12, <1>13, <2>1, CountFamily
<1>15. LeavesBelow(g) \subseteq UNION {family[c] : c \in Kids(g)}
  BY LeavesByKid
<1>16. /\ UNION {family[c] : c \in Kids(g)} \in SUBSET Issued
       /\ IsFiniteSet(UNION {family[c] : c \in Kids(g)})
  <2>1. UNION {family[c] : c \in Kids(g)} \in SUBSET Issued
    BY <1>12
  <2> HIDE DEF family
  <2> QED
    BY <1>1, <2>1, FS_Subset
<1> DEFINE below == UNION {family[c] : c \in Kids(g)}
<1> HIDE DEF below, family
<1>17. Count(amount, LeavesBelow(g)) <= Count(amount, below)
  BY <1>2, <1>15, <1>16, CountSubset DEF below
<1>18. /\ Count(amount, below) \in Nat /\ Count(amount, Kids(g)) \in Nat
       /\ Count(amount, LeavesBelow(g)) \in Nat
  <2>1. /\ IsFiniteSet(below) /\ IsFiniteSet(Kids(g)) /\ IsFiniteSet(LeavesBelow(g))
        /\ below \in SUBSET Issued
    BY <1>1, <1>3, <1>12, <1>16, FS_Subset DEF below
  <2> QED
    BY <1>2, <1>3, <1>12, <2>1, UnitsFinite
<1>19. grants[g].budget[f] \in Nat
  BY <1>2, <1>9 DEF Limited, GrantRecords, Budgets
<1>20. Count(amount, below) <= Count(amount, Kids(g))
  BY <1>14 DEF below
<1> QED
  BY ONLY <1>9, <1>10, <1>17, <1>18, <1>19, <1>20

\* However delegations and revocations interleave, at whatever depth, and
\* whoever dies half-way: the leaves below a partitioned grant may not spend
\* more than it has, no grant allows more than any grant above it, although
\* each is compared with its parent only, and a cascading revocation stops
\* everything below.
THEOREM GrantsSound == DelegationSpec => []GrantsAreSound
<1>1. GrantInv /\ BudgetInv => GrantsAreSound
  <2> SUFFICES ASSUME GrantInv, BudgetInv PROVE GrantsAreSound
    OBVIOUS
  <2>1. AuthorityNeverWidens
    BY AboveIsAncestors DEF AuthorityNeverWidens, GrantInv, NarrowOK, Within
  <2>2. CascadeReachesAll
    <3> SUFFICES ASSUME NEW r \in registry, NEW g \in Issued, r.cascade, r.subject \in Above(g),
                        NEW t \in r.at .. MaxTime
                 PROVE  ~Active(g, t)
      BY DEF CascadeReachesAll
    <3>1. r.at \in Nat /\ r.at <= t
      BY RevocationsAssumption, TimeAssumption DEF GrantInv, DelegationTypeOK
    <3>2. r.subject \in grants[g].ancestors
      BY AboveIsAncestors
    <3> QED
      BY <3>1, <3>2 DEF Active, Revoked
  <2> QED
    BY <2>1, <2>2, SubtreeFits DEF GrantsAreSound, GrantInv
<1> QED
  BY <1>1, GrantInvariant, BudgetInvariant, PTL

\* A set of numbers up to n that is not empty has a greatest element: the
\* least of its upper bounds.
LEMMA MaxOfBounded ==
    ASSUME NEW n \in Nat, NEW S \in SUBSET (0 .. n), S # {}
    PROVE  Max(S) \in S /\ \A i \in S : i <= Max(S)
<1>1. PICK u \in Nat : (\A i \in S : i <= u) /\ \A v \in Nat : (\A i \in S : i <= v) => u <= v
  <2> DEFINE Bounds == {u \in Nat : \A i \in S : i <= u}
  <2>1. Bounds \in SUBSET Nat /\ n \in Bounds
    OBVIOUS
  <2>2. \E u \in Bounds : \A v \in Bounds : u <= v
    BY <2>1, LeastNatural, Zenon
  <2> QED
    BY <2>2
<1>2. u \in S
  <2> SUFFICES ASSUME u \notin S PROVE FALSE
    OBVIOUS
  <2>1. PICK i \in S : TRUE
    OBVIOUS
  <2>2. u # 0 /\ \A j \in S : j <= u - 1
    BY <1>1, <2>1
  <2> QED
    BY <1>1, <2>2
<1>3. \E x \in S : \A y \in S : x >= y
  BY <1>1, <1>2
<1> HIDE DEF Max
<1>4. Max(S) \in S /\ \A y \in S : Max(S) >= y
  BY <1>3 DEF Max
<1> QED
  BY <1>4

---------------------------------------------------------------------------
(* The capability history: the inductive invariant.                        *)

KnownCapabilities == UNION {{<<manifest.transport, name>> : name \in DOMAIN manifest.tools}
                               : manifest \in Manifests}
Lifecycles == {"first_seen", "present", "removed", "reintroduced"}
Drifts == {"capability_expansion", "capability_contraction", "schema_change",
           "consequence_escalation", "consequence_reduction", "provenance_change",
           "transport_change"}
HistoryLines == [cap : KnownCapabilities, at : Nat, previous : Nat, tool : Tools \cup {NoTool},
                 lifecycle : Lifecycles, drift : SUBSET Drifts]

HistoryTypes ==
    /\ history \in Seq(HistoryLines)
    /\ observer \in [Observers -> [step : {"idle", "append"}, batch : SUBSET HistoryLines]]
    /\ \A o \in Observers : IsFiniteSet(observer[o].batch)

\* The drift of an observation is told from the line it names.
Told(ob) == /\ ob.previous <= Len(history)
            /\ \E moved \in BOOLEAN :
                  ob.drift = classifyCapabilityDrift(toolAt(history, ob.previous), ob.tool, moved)
DriftOK == \A i \in 1 .. Len(history) : Told(history[i])
BatchesOK == \A o \in Observers : \A ob \in observer[o].batch : Told(ob)

HistoryInv == HistoryTypes /\ HistoryLoads /\ DriftOK /\ BatchesOK

\* The latest line of a capability.
LEMMA LatestLine ==
    ASSUME NEW lines \in Seq(HistoryLines), NEW cap
    PROVE  /\ latest(lines, cap) \in 0 .. Len(lines)
           /\ latest(lines, cap) # 0 => lines[latest(lines, cap)].cap = cap
           /\ \A i \in 1 .. Len(lines) : lines[i].cap = cap => i <= latest(lines, cap)
<1> DEFINE S == {0} \cup {i \in DOMAIN lines : lines[i].cap = cap}
<1>1. S \in SUBSET (0 .. Len(lines)) /\ S # {} /\ Len(lines) \in Nat
  OBVIOUS
<1>2. Max(S) \in S /\ \A i \in S : i <= Max(S)
  BY <1>1, MaxOfBounded, Zenon
<1>3. latest(lines, cap) = Max(S)
  BY DEF latest
<1>4. \A i \in 1 .. Len(lines) : lines[i].cap = cap => i \in S
  OBVIOUS
<1>5. \A i \in S : i = 0 \/ lines[i].cap = cap
  OBVIOUS
<1> HIDE DEF S
<1> QED
  BY <1>1, <1>2, <1>3, <1>4, <1>5

\* An observation built from the history is a line that is told from it.
LEMMA ObservationTold ==
    ASSUME HistoryInv, NEW cap \in KnownCapabilities, NEW after \in Tools \cup {NoTool}, NEW at \in Nat,
           NEW moved \in BOOLEAN
    PROVE  Observation(history, cap, after, at, moved) \in HistoryLines
           /\ Told(Observation(history, cap, after, at, moved))
<1> DEFINE i == latest(history, cap)
           o == Observation(history, cap, after, at, moved)
           c == classifyCapabilityDrift(toolAt(history, i), after, moved)
<1>1. i \in 0 .. Len(history) /\ Len(history) \in Nat
  BY LatestLine DEF HistoryInv, HistoryTypes
<1>2. c \in SUBSET Drifts
  BY DEF classifyCapabilityDrift, Drifts
<1>3. /\ o.cap = cap /\ o.at = at /\ o.previous = i /\ o.tool = after /\ o.drift = c
      /\ o = [cap |-> cap, at |-> at, previous |-> i, tool |-> after, lifecycle |-> o.lifecycle,
              drift |-> c]
  BY DEF Observation
<1>4. o.lifecycle \in Lifecycles
  <2>1. o.lifecycle = CASE i = 0 -> "first_seen"
                        [] i # 0 /\ after = NoTool -> "removed"
                        [] OTHER -> IF history[i].lifecycle = "removed" THEN "reintroduced" ELSE "present"
    BY DEF Observation
  <2>2. CASE i = 0
    BY <2>1, <2>2 DEF Lifecycles
  <2>3. CASE i # 0 /\ after = NoTool
    BY <2>1, <2>3 DEF Lifecycles
  <2>4. CASE ~(i = 0) /\ ~(i # 0 /\ after = NoTool)
    BY <2>1, <2>4 DEF Lifecycles
  <2> QED
    BY <2>2, <2>3, <2>4
<1> HIDE DEF i, o, c
<1>5. o \in HistoryLines
  <2>1. i \in Nat
    BY <1>1
  <2> QED
    BY <1>2, <1>3, <1>4, <2>1 DEF HistoryLines
<1>6. Told(o)
  BY <1>1, <1>3 DEF Told, c
<1> QED
  BY <1>5, <1>6 DEF o

LEMMA LoadHistoryStep ==
    ASSUME HistoryInv, NEW o \in Observers, NEW manifest \in Manifests, NEW at \in 1 .. MaxClock,
           LoadHistory(o, manifest, at)
    PROVE  HistoryInv'
<1> DEFINE moved == manifest.lineage \ {manifest.transport} # {}
           current == {<<manifest.transport, name>> : name \in DOMAIN manifest.tools}
           known == {history[i].cap : i \in DOMAIN history}
           gone == {cap \in known \ current :
                       /\ cap[1] \in manifest.lineage \cup {manifest.transport}
                       /\ history[latest(history, cap)].lifecycle # "removed"}
           seen == {Observation(history, cap, manifest.tools[cap[2]], at, moved) : cap \in current}
           lost == {Observation(history, cap, NoTool, at, moved) : cap \in gone}
           batch == observeCapabilityManifest(history, manifest, at)
<1>1. batch = seen \cup lost
  BY DEF observeCapabilityManifest
<1>2. /\ \A name \in DOMAIN manifest.tools : manifest.tools[name] \in Tools
      /\ IsFiniteSet(DOMAIN manifest.tools) /\ at \in Nat /\ moved \in BOOLEAN
  BY ManifestsAssumption, LimitsAssumption
<1>3. current \subseteq KnownCapabilities /\ known \subseteq KnownCapabilities
  <2>1. current \subseteq KnownCapabilities
    BY DEF KnownCapabilities
  <2>2. \A i \in DOMAIN history : history[i] \in HistoryLines
    BY DEF HistoryInv, HistoryTypes
  <2>3. \A i \in DOMAIN history : history[i].cap \in KnownCapabilities
    BY <2>2 DEF HistoryLines
  <2> QED
    BY <2>1, <2>3
<1>4. \A cap \in current : manifest.tools[cap[2]] \in Tools
  BY <1>2
<1>5. \A ob \in batch : ob \in HistoryLines /\ Told(ob)
  <2>1. \A cap \in current :
           /\ Observation(history, cap, manifest.tools[cap[2]], at, moved) \in HistoryLines
           /\ Told(Observation(history, cap, manifest.tools[cap[2]], at, moved))
    BY <1>2, <1>3, <1>4, ObservationTold
  <2>2. \A cap \in gone : /\ Observation(history, cap, NoTool, at, moved) \in HistoryLines
                          /\ Told(Observation(history, cap, NoTool, at, moved))
    BY <1>2, <1>3, ObservationTold
  <2> QED
    BY <1>1, <2>1, <2>2
<1>6. IsFiniteSet(batch)
  <2>1. IsFiniteSet(current)
    <3> DEFINE f == [name \in DOMAIN manifest.tools |-> <<manifest.transport, name>>]
    <3>1. current = {f[name] : name \in DOMAIN manifest.tools}
      OBVIOUS
    <3>2. DOMAIN f = DOMAIN manifest.tools /\ f = [name \in DOMAIN manifest.tools |-> f[name]]
      OBVIOUS
    <3> HIDE DEF f
    <3>3. IsFiniteSet({f[name] : name \in DOMAIN manifest.tools})
      BY <1>2, <3>2, FiniteRange
    <3> QED
      BY <3>1, <3>3
  <2>2. IsFiniteSet(DOMAIN history)
    <3>1. DOMAIN history = 1 .. Len(history) /\ 1 \in Int /\ Len(history) \in Int
      BY DEF HistoryInv, HistoryTypes
    <3> QED
      BY <3>1, FS_Interval
  <2>3. IsFiniteSet(known)
    <3> DEFINE f == [i \in DOMAIN history |-> history[i].cap]
    <3>1. known = {f[i] : i \in DOMAIN history}
      OBVIOUS
    <3>2. DOMAIN f = DOMAIN history /\ f = [i \in DOMAIN history |-> f[i]]
      OBVIOUS
    <3> HIDE DEF f
    <3>3. IsFiniteSet({f[i] : i \in DOMAIN history})
      BY <2>2, <3>2, FiniteRange
    <3> QED
      BY <3>1, <3>3
  <2>4. IsFiniteSet(gone)
    <3>1. gone \subseteq known
      OBVIOUS
    <3> QED
      BY <2>3, <3>1, FS_Subset
  <2>5. IsFiniteSet(seen)
    <3> DEFINE f == [cap \in current |->
                        Observation(history, cap, manifest.tools[cap[2]], at, moved)]
    <3>1. seen = {f[cap] : cap \in current}
      OBVIOUS
    <3>2. DOMAIN f = current /\ f = [cap \in current |-> f[cap]]
      OBVIOUS
    <3> HIDE DEF f, current
    <3>3. IsFiniteSet({f[cap] : cap \in current})
      BY <2>1, <3>2, FiniteRange
    <3> QED
      BY <3>1, <3>3
  <2>6. IsFiniteSet(lost)
    <3> DEFINE f == [cap \in gone |-> Observation(history, cap, NoTool, at, moved)]
    <3>1. lost = {f[cap] : cap \in gone}
      OBVIOUS
    <3>2. DOMAIN f = gone /\ f = [cap \in gone |-> f[cap]]
      OBVIOUS
    <3> HIDE DEF f, gone
    <3>3. IsFiniteSet({f[cap] : cap \in gone})
      BY <2>4, <3>2, FiniteRange
    <3> QED
      BY <3>1, <3>3
  <2> HIDE DEF seen, lost
  <2>7. IsFiniteSet(seen \cup lost)
    BY <2>5, <2>6, FS_Union
  <2> QED
    BY <1>1, <2>7
<1> HIDE DEF batch
<1>7. /\ history' = history
      /\ observer' = [observer EXCEPT ![o] = [step |-> "append", batch |-> batch]]
  BY DEF LoadHistory, batch
<1>8. \A ob : Told(ob)' <=> Told(ob)
  BY <1>7 DEF Told
<1>9. HistoryTypes' /\ HistoryLoads' /\ DriftOK'
  BY <1>5, <1>6, <1>7, <1>8 DEF HistoryInv, HistoryTypes, HistoryLoads, DriftOK
<1>10. BatchesOK'
  BY <1>5, <1>7, <1>8 DEF HistoryInv, BatchesOK, HistoryTypes
<1> QED
  BY <1>9, <1>10 DEF HistoryInv

\* SetToSeq lists the elements of a finite set.
LEMMA Listed ==
    ASSUME NEW S, IsFiniteSet(S)
    PROVE  SetToSeq(S) \in Seq(S)
<1>1. Cardinality(S) \in Nat /\ ExistsBijection(1 .. Cardinality(S), S)
  BY FS_CardinalityType
<1>2. \E f \in [1 .. Cardinality(S) -> S] : IsInjective(f)
  BY <1>1 DEF ExistsBijection, Bijection, Injection
<1>3. SetToSeq(S) \in [1 .. Cardinality(S) -> S]
  BY <1>2 DEF SetToSeq
<1> QED
  BY <1>1, <1>3

\* Nothing is told differently from a longer history.
LEMMA StillTold ==
    ASSUME HistoryInv, NEW pending \in Seq(HistoryLines), history' = history \o pending
    PROVE  \A ob \in HistoryLines : Told(ob) => Told(ob)'
<1> SUFFICES ASSUME NEW ob \in HistoryLines, Told(ob) PROVE Told(ob)'
  OBVIOUS
<1>1. /\ history \in Seq(HistoryLines) /\ ob.previous \in Nat /\ ob.previous <= Len(history)
      /\ Len(history) \in Nat /\ Len(pending) \in Nat
  BY DEF HistoryInv, HistoryTypes, Told, HistoryLines
<1>2. /\ Len(history') = Len(history) + Len(pending)
      /\ \A i \in 1 .. Len(history) : history'[i] = history[i]
  BY <1>1
<1>3. toolAt(history', ob.previous) = toolAt(history, ob.previous)
  BY <1>1, <1>2 DEF toolAt
<1> QED
  BY <1>1, <1>2, <1>3 DEF Told

LEMMA AppendObservationsStep ==
    ASSUME HistoryInv, NEW o \in Observers, AppendObservations(o)
    PROVE  HistoryInv'
<1> DEFINE pending == SetToSeq(Fresh(observer[o].batch))
<1>1. /\ observer' = [observer EXCEPT ![o] = Nothing]
      /\ history' = IF Appendable(pending) THEN history \o pending ELSE history
  BY DEF AppendObservations
<1>2. Fresh(observer[o].batch) \subseteq observer[o].batch /\ observer[o].batch \in SUBSET HistoryLines
  BY DEF Fresh, HistoryInv, HistoryTypes
<1>3. pending \in Seq(Fresh(observer[o].batch))
  <2>1. IsFiniteSet(observer[o].batch)
    BY DEF HistoryInv, HistoryTypes
  <2>2. IsFiniteSet(Fresh(observer[o].batch))
    BY <1>2, <2>1, FS_Subset
  <2> QED
    BY <2>2, Listed
<1> HIDE DEF pending
<1>4. /\ pending \in Seq(HistoryLines) /\ Len(pending) \in Nat
      /\ \A k \in 1 .. Len(pending) : pending[k] \in HistoryLines /\ Told(pending[k])
  BY <1>2, <1>3 DEF HistoryInv, BatchesOK
<1>5. HistoryLoads'
  <2>1. CASE Appendable(pending)
    BY <1>1, <1>4, <2>1 DEF Appendable, HistoryLoads, HistoryInv, HistoryTypes
  <2>2. CASE ~Appendable(pending)
    BY <1>1, <2>2 DEF HistoryLoads, HistoryInv
  <2> QED
    BY <2>1, <2>2
<1>6. history' \in Seq(HistoryLines)
  BY <1>1, <1>4 DEF HistoryInv, HistoryTypes
<1>7. \A ob \in HistoryLines : Told(ob) => Told(ob)'
  <2>1. CASE Appendable(pending)
    BY <1>1, <1>4, <2>1, StillTold
  <2>2. CASE ~Appendable(pending)
    BY <1>1, <2>2 DEF Told
  <2> QED
    BY <2>1, <2>2
<1>8. DriftOK'
  <2>1. \A i \in 1 .. Len(history') : history'[i] \in HistoryLines /\ Told(history'[i])
    <3>1. \A i \in 1 .. Len(history) : history[i] \in HistoryLines /\ Told(history[i])
      BY DEF HistoryInv, HistoryTypes, DriftOK
    <3>2. CASE ~Appendable(pending)
      BY <1>1, <3>1, <3>2
    <3>3. CASE Appendable(pending)
      <4>1. history' = history \o pending /\ history \in Seq(HistoryLines) /\ Len(history) \in Nat
        BY <1>1, <3>3 DEF HistoryInv, HistoryTypes
      <4>2. \A i \in 1 .. Len(history') :
               \/ i \in 1 .. Len(history) /\ history'[i] = history[i]
               \/ i - Len(history) \in 1 .. Len(pending) /\ history'[i] = pending[i - Len(history)]
        BY <1>4, <4>1
      <4> QED
        BY <1>4, <3>1, <4>2
    <3> QED
      BY <3>2, <3>3
  <2> QED
    BY <1>7, <2>1 DEF DriftOK
<1>9. HistoryTypes' /\ BatchesOK'
  <2>1. /\ observer'[o].batch = {} /\ \A d \in Observers \ {o} : observer'[d] = observer[d]
        /\ observer' \in [Observers -> [step : {"idle", "append"}, batch : SUBSET HistoryLines]]
    BY <1>1 DEF HistoryInv, HistoryTypes, Nothing
  <2>2. HistoryTypes'
    BY <1>6, <2>1, FS_EmptySet DEF HistoryInv, HistoryTypes
  <2>3. BatchesOK'
    BY <1>7, <2>1 DEF HistoryInv, BatchesOK, HistoryTypes
  <2> QED
    BY <2>2, <2>3
<1> QED
  BY <1>5, <1>8, <1>9 DEF HistoryInv

\* What escalates over one tool escalates over what does not.
LEMMA EscalationFrom ==
    ASSUME NEW t \in Tools, NEW u \in Tools, NEW v \in Tools, escalation(t, v), ~escalation(t, u)
    PROVE  escalation(u, v)
BY DEF escalation, Tools

\* The first line that shows a capability to be more consequential than the
\* line i says so, for it is told from a line that does not.
LEMMA EscalationFound ==
    ASSUME HistoryInv, NEW i \in 1 .. Len(history), NEW j \in 1 .. Len(history),
           i < j, history[i].cap = history[j].cap, NoTool \notin {history[i].tool, history[j].tool},
           escalation(history[i].tool, history[j].tool)
    PROVE  \E k \in i + 1 .. j :
               /\ k \in publicEvents /\ history[k].cap = history[i].cap
               /\ history[k].drift \cap {"consequence_escalation", "capability_expansion"} # {}
<1> DEFINE S == {k \in i + 1 .. Len(history) :
                    /\ history[k].cap = history[i].cap /\ history[k].tool # NoTool
                    /\ escalation(history[i].tool, history[k].tool)}
<1>0. history \in Seq(HistoryLines) /\ Len(history) \in Nat /\ DOMAIN history = 1 .. Len(history)
  BY DEF HistoryInv, HistoryTypes
<1>1. S \in SUBSET Nat /\ j \in S
  BY <1>0
<1>2. PICK k \in S : \A m \in S : k <= m
  BY <1>1, LeastNatural, Zenon
<1>3. /\ k \in 1 .. Len(history) /\ i < k /\ k <= j /\ history[k].cap = history[i].cap
      /\ history[k].tool # NoTool /\ escalation(history[i].tool, history[k].tool)
  BY <1>0, <1>1, <1>2
<1> DEFINE prefix == SubSeq(history, 1, k - 1)
           b == latest(prefix, history[k].cap)
<1>4. /\ prefix \in Seq(HistoryLines) /\ Len(prefix) = k - 1
      /\ \A m \in 1 .. k - 1 : prefix[m] = history[m]
  BY <1>0, <1>3
<1>5. /\ b \in 0 .. k - 1 /\ (b # 0 => prefix[b].cap = history[k].cap)
      /\ \A m \in 1 .. k - 1 : prefix[m].cap = history[k].cap => m <= b
  BY <1>4, LatestLine
<1>6. history[k].previous = b
  BY <1>0, <1>3 DEF HistoryInv, HistoryLoads, validateObservationChain
<1> HIDE DEF prefix, b
<1>7. b \in i .. k - 1 /\ history[b].cap = history[i].cap
  BY <1>3, <1>4, <1>5
<1>8. PICK moved \in BOOLEAN :
         history[k].drift = classifyCapabilityDrift(history[b].tool, history[k].tool, moved)
  BY <1>3, <1>6, <1>7 DEF HistoryInv, DriftOK, Told, toolAt
<1>9. /\ history[i].tool \in Tools /\ history[k].tool \in Tools
      /\ history[b].tool \in Tools \cup {NoTool}
  <2>1. \A m \in 1 .. Len(history) : history[m] \in HistoryLines
    BY <1>0
  <2>2. \A m \in 1 .. Len(history) : history[m].tool \in Tools \cup {NoTool}
    BY <2>1 DEF HistoryLines
  <2>3. b \in 1 .. Len(history)
    BY <1>0, <1>3, <1>7
  <2> QED
    BY <1>3, <2>2, <2>3
<1>10. history[b].tool # NoTool => escalation(history[b].tool, history[k].tool)
  <2>1. CASE b = i
    BY <1>3, <2>1
  <2>2. CASE b # i /\ history[b].tool # NoTool
    <3>1. b \in i + 1 .. Len(history) /\ b < k
      BY <1>0, <1>3, <1>7, <2>2
    <3>2. ~escalation(history[i].tool, history[b].tool)
      BY <1>2, <1>7, <2>2, <3>1
    <3>3. /\ history[i].tool \in Tools /\ history[b].tool \in Tools
          /\ history[k].tool \in Tools /\ escalation(history[i].tool, history[k].tool)
      BY <1>3, <1>9, <2>2
    <3> QED
      BY ONLY <3>2, <3>3, EscalationFrom
  <2> QED
    BY <2>1, <2>2
<1>11. history[k].drift \cap {"consequence_escalation", "capability_expansion"} # {}
  <2>1. CASE history[b].tool = NoTool
    <3>1. "capability_expansion" \in history[k].drift
      BY <1>3, <1>8, <2>1 DEF classifyCapabilityDrift
    <3> QED
      BY <3>1
  <2>2. CASE history[b].tool # NoTool
    <3>1. "consequence_escalation" \in history[k].drift
      BY <1>3, <1>8, <1>10, <2>2 DEF classifyCapabilityDrift
    <3> QED
      BY <3>1
  <2> QED
    BY <2>1, <2>2
<1>12. k \in publicEvents
  BY <1>0, <1>3, <1>11 DEF publicEvents
<1> QED
  BY <1>3, <1>11, <1>12

\* However observers interleave and die, the history loads, and no escalation
\* escapes the public index.
THEOREM HistorySound == HistorySpec => []HistoryIsSound
<1>1. HistoryInit => HistoryInv
  <2> SUFFICES ASSUME HistoryInit PROVE HistoryInv
    OBVIOUS
  <2>1. history = <<>> /\ Len(history) = 0 /\ DOMAIN history = {} /\ history \in Seq(HistoryLines)
    BY DEF HistoryInit
  <2>2. observer = [o \in Observers |-> [step |-> "idle", batch |-> {}]]
    BY DEF HistoryInit, Nothing
  <2>3. HistoryTypes /\ BatchesOK
    BY <2>1, <2>2, FS_EmptySet DEF HistoryTypes, BatchesOK
  <2>4. HistoryLoads /\ DriftOK
    BY <2>1, LimitsAssumption DEF HistoryLoads, DriftOK, validateObservationChain
  <2> QED
    BY <2>3, <2>4 DEF HistoryInv
<1>2. HistoryInv /\ [HistoryNext]_historyVars => HistoryInv'
  <2> SUFFICES ASSUME HistoryInv, [HistoryNext]_historyVars PROVE HistoryInv'
    OBVIOUS
  <2>1. ASSUME NEW o \in Observers, ObserverDies(o) PROVE HistoryInv'
    <3>1. history' = history /\ observer' = [observer EXCEPT ![o] = Nothing]
      BY <2>1 DEF ObserverDies
    <3>2. /\ observer'[o].batch = {} /\ \A d \in Observers \ {o} : observer'[d] = observer[d]
          /\ observer' \in [Observers -> [step : {"idle", "append"}, batch : SUBSET HistoryLines]]
      BY <3>1 DEF HistoryInv, HistoryTypes, Nothing
    <3>3. \A ob : Told(ob)' <=> Told(ob)
      BY <3>1 DEF Told
    <3>4. HistoryTypes' /\ BatchesOK'
      BY <3>1, <3>2, <3>3, FS_EmptySet DEF HistoryInv, HistoryTypes, BatchesOK
    <3> QED
      BY <3>1, <3>3, <3>4 DEF HistoryInv, HistoryLoads, DriftOK
  <2>2. CASE UNCHANGED historyVars
    BY <2>2 DEF historyVars, HistoryInv, HistoryTypes, HistoryLoads, DriftOK, BatchesOK, Told
  <2>3. CASE HistoryNext
    BY <2>1, <2>3, LoadHistoryStep, AppendObservationsStep DEF HistoryNext
  <2> QED
    BY <2>2, <2>3
<1>3. HistoryInv => HistoryIsSound
  <2> SUFFICES ASSUME HistoryInv PROVE HistoryIsSound
    OBVIOUS
  <2>1. DOMAIN history = 1 .. Len(history)
    BY DEF HistoryInv, HistoryTypes
  <2>2. EscalationIsRecorded
    BY <2>1, EscalationFound DEF EscalationIsRecorded
  <2> QED
    BY <2>2 DEF HistoryInv, HistoryIsSound
<1> QED
  BY <1>1, <1>2, <1>3, PTL DEF HistorySpec

============================================================================
