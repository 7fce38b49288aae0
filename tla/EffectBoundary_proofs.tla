----------------------- MODULE EffectBoundary_proofs -----------------------
(***************************************************************************)
(* Proofs about EffectBoundary, for any number of requests and crashes:    *)
(* what is on disk about a forwarded call, and what a verdict that permits *)
(* a retry is worth.                                                       *)
(***************************************************************************)
EXTENDS EffectBoundary, TLAPS

---------------------------------------------------------------------------
(* The inductive invariant.                                                *)

\* The steps of beforeForward and those of #finalize or of a recovery.
Admitting == {"journal", "anchor"}
Settling == {"verify", "write", "supersede", "clear"}

\* A task at work is about a request, and has its verdict once verified.
TaskOK(task) == /\ task.step # "idle" => task.req \in Requests
                /\ task.step \in {"write", "supersede", "clear"} => task.verdict \in Verdicts
TasksOK == /\ TaskOK(busy) /\ TaskOK(rec)
           /\ busy.step = "idle" => busy = Quiet
           /\ rec.step \in Settling => rec.req \in anchored
           /\ rec.step \notin Admitting

\* A request is admitted once, and forwarded once.
StageOK == /\ \A r \in Requests : child[r] # "none" => stage[r] = "forwarded"
           /\ busy.step \in Admitting => stage[busy.req] = "new"
           /\ busy.step = "anchor" => busy.req \in pending
           /\ \A r \in pending : stage[r] = "new" => busy.step = "anchor" /\ busy.req = r
           /\ \A r \in left \cup anchored : stage[r] # "new"
           /\ \A r \in Requests : stage[r] = "admitted" /\ session = "open" => r \in pending
           /\ \A r \in answers : child[r] = "done"

\* What a boundary that is down has in memory: nothing.
DownOK == /\ up = "down" => /\ pending = {} /\ left = {} /\ busy = Quiet
                            /\ \A r \in Requests : stage[r] # "admitted"
          /\ left # {} => session = "closing"

\* A request's effect happens when the child runs it and when it is retried.
Ran(r) == child[r] \in {"ran", "done", "gone"}
EffectsOK == \A r \in Requests :
    /\ applied[r] \in 0 .. 2
    /\ ~Ran(r) => applied[r] <= 1
    /\ r \notin retried => applied[r] <= 1
    /\ ~Ran(r) /\ r \notin retried => applied[r] = 0
    /\ world[r] = "before" => applied[r] = 0

\* r has been, or is being, finalised or recovered.
HasState(r) == \E b \in Buckets : file[r][b] # "none"
Settled(r) == \/ HasState(r) \/ r \in retried
              \/ busy.step \in Settling /\ busy.req = r
              \/ rec.step \in Settling /\ rec.req = r

\* Without reconciliation beside a live boundary, the two never work on the
\* same request, and a settled request is past its response.
ApartOK == /\ rec.step # "idle" => rec.req \notin left /\ (busy.step # "idle" => busy.req # rec.req)
           /\ \A r \in Requests : Settled(r) => r \notin pending /\ stage[r] # "new"

\* An admitted request is in the journal until its state is on file.
Stored(task) ==
    task.step \in {"supersede", "clear"} => file[task.req][Bucket(task.verdict)] # "none"
RecordOK == /\ busy.step = "anchor" => busy.req \in journal
            /\ \A r \in Requests : stage[r] \in {"admitted", "forwarded"} => Recorded(r)
            /\ Stored(busy) /\ Stored(rec)

\* Work the child has not begun is awaited.
QueuedOK == \A r \in Requests :
    child[r] = "queued" => up = "up" /\ r \in pending /\ session = "open"

\* A request is found to have failed only where it had no effect.
Failed(r) == \/ \E b \in Buckets : file[r][b] = "confirmed_failure"
             \/ busy.step \in Settling /\ busy.req = r /\ busy.verdict = "confirmed_failure"
             \/ rec.step \in Settling /\ rec.req = r /\ rec.verdict = "confirmed_failure"
FailedOK == \A r \in Requests : Failed(r) /\ r \notin retried => applied[r] = 0

\* The inductive invariant; each part under the conditions it needs.
IInv == /\ TypeOK /\ TasksOK /\ StageOK /\ DownOK /\ EffectsOK
        /\ ~LiveReconcile => ApartOK /\ RecordOK
        /\ ~LiveReconcile /\ ~Orphans => QueuedOK /\ FailedOK /\ NoDuplicateEffect

\* The task of a process that is doing nothing.
LEMMA QuietTask ==
    Quiet \in Tasks /\ Quiet.step = "idle" /\ Quiet.req = NoReq /\ Quiet.verdict = "none"
  BY DEF Tasks, Quiet, Steps

\* What a verification may find.
LEMMA ObserveType ==
    ASSUME TypeOK, NEW r \in Requests
    PROVE  Observe(r) \in Verdicts /\ (Observe(r) = "confirmed_failure" => world[r] = "before")
  BY DEF Observe, TypeOK, Verdicts

\* What a step of persistEffectState does to the request's files.
LEMMA PersistStep ==
    ASSUME TypeOK, NEW t \in Tasks, TaskOK(t), Persist(t)
    PROVE  LET u == NextTask(t) IN
           /\ t.step \in {"write", "supersede", "clear"}
           /\ t.req \in Requests /\ t.verdict \in Verdicts
           /\ u \in Tasks
           /\ t.step = "write" => u.step = "supersede" /\ u.req = t.req /\ u.verdict = t.verdict
           /\ t.step = "supersede" => u.step = "clear" /\ u.req = t.req /\ u.verdict = t.verdict
           /\ t.step = "clear" => u = Quiet
           /\ file' \in [Requests -> [Buckets -> Verdicts \cup {"none"}]]
           /\ \A r \in Requests \ {t.req} : file'[r] = file[r] /\ (r \in journal' <=> r \in journal)
           /\ journal' \subseteq journal
           /\ \A b \in Buckets : file'[t.req][b] \in {file[t.req][b], t.verdict, "none"}
           /\ t.step = "write" => file'[t.req][Bucket(t.verdict)] # "none" /\ journal' = journal
           /\ t.step = "supersede"
              => file'[t.req][Bucket(t.verdict)] = file[t.req][Bucket(t.verdict)]
              /\ journal' = journal
           /\ t.step = "clear" => file' = file
<1>1. t.step \in {"write", "supersede", "clear"} /\ t.req \in Requests /\ t.verdict \in Verdicts
  BY DEF Persist, TaskOK
<1>2. file \in [Requests -> [Buckets -> Verdicts \cup {"none"}]] /\ journal \subseteq Requests
  BY DEF TypeOK
<1>3. PICK b \in Buckets : b = Bucket(t.verdict)
  BY DEF Bucket, Buckets
<1>4. Other(b) \in Buckets /\ Other(b) # b /\ t.verdict # "none"
  BY <1>1, <1>3 DEF Other, Buckets, Verdicts
<1>5. CASE t.step = "write"
  <2>1. NextTask(t) = [t EXCEPT !.step = "supersede"]
    BY <1>5 DEF NextTask
  <2>2. NextTask(t) \in Tasks /\ NextTask(t).step = "supersede" /\ NextTask(t).req = t.req
        /\ NextTask(t).verdict = t.verdict
    BY <2>1 DEF Tasks, Steps
  <2>3. file' = [file EXCEPT ![t.req][b] = t.verdict] /\ journal' = journal
    BY <1>3, <1>5 DEF Persist, WriteState
  <2> QED
    BY <1>1, <1>2, <1>3, <1>4, <1>5, <2>2, <2>3
<1>6. CASE t.step = "supersede"
  <2>1. NextTask(t) = [t EXCEPT !.step = "clear"]
    BY <1>6 DEF NextTask
  <2>2. NextTask(t) \in Tasks /\ NextTask(t).step = "clear" /\ NextTask(t).req = t.req
        /\ NextTask(t).verdict = t.verdict
    BY <2>1 DEF Tasks, Steps
  <2>3. /\ file' \in {[file EXCEPT ![t.req][Other(b)] = "none"], file}
        /\ journal' = journal
    BY <1>3, <1>6 DEF Persist, Supersede
  <2> QED
    BY <1>1, <1>2, <1>3, <1>4, <1>6, <2>2, <2>3
<1>7. CASE t.step = "clear"
  <2>1. NextTask(t) = Quiet
    BY <1>7 DEF NextTask
  <2>2. journal' \in {journal \ {t.req}, journal} /\ file' = file
    BY <1>7 DEF Persist, ClearInflight
  <2> QED
    BY <1>1, <1>2, <1>7, <2>1, <2>2, QuietTask
<1> QED
  BY <1>1, <1>5, <1>6, <1>7

\* At the start nothing is admitted, queued or on file.
LEMMA InitInv == Init => IInv
<1> SUFFICES ASSUME Init PROVE IInv
  OBVIOUS
<1>0. Quiet \in Tasks /\ Quiet.step = "idle" /\ Quiet.req = NoReq /\ Quiet.verdict = "none"
  BY QuietTask
<1> USE <1>0, NoReqAssumption DEF Init
<1>1. TypeOK
  <2>1. 0 \in 0 .. MaxCrashes
    BY CrashAssumption
  <2>2. file \in [Requests -> [Buckets -> Verdicts \cup {"none"}]]
    BY DEF NoFile
  <2> QED
    BY <2>1, <2>2 DEF TypeOK, Logs
<1>2. TasksOK /\ StageOK /\ DownOK /\ EffectsOK
  BY DEF TasksOK, TaskOK, StageOK, DownOK, EffectsOK, Ran, Admitting, Settling
<1>3. \A r \in Requests : ~HasState(r)
  BY DEF HasState, Buckets, NoFile
<1>4. ApartOK /\ RecordOK
  BY <1>3 DEF ApartOK, Settled, RecordOK, Stored, Settling
<1>5. QueuedOK /\ NoDuplicateEffect /\ FailedOK
  BY <1>3 DEF QueuedOK, FailedOK, NoDuplicateEffect
<1> QED
  BY <1>1, <1>2, <1>4, <1>5 DEF IInv

\* Whatever happens to the evidence log, it is whole or torn.
LEMMA LogStep == TypeOK /\ [Next]_vars => log' \in Logs
<1> SUFFICES ASSUME TypeOK, [Next]_vars PROVE log' \in Logs
  OBVIOUS
<1>1. log \in Logs
  BY DEF TypeOK
<1>2. Append => log' \in Logs
  BY <1>1 DEF Append, Logs
<1>3. UNCHANGED log \/ Append \/ AppendThrows
  BY Zenon DEF Next, Boundary, Reconcile, Close, Exit, Journal, Anchor, FinalizeVerify,
     FinalizePersist, AppendThrows, Forward, Observed, FinalizeUnresolved, ReconcileVerify,
     ReconcilePersist, Admit, Refuse, ChildRun, ChildAnswer, Recover, Reverify, Retry, Crash,
     Restart, ChildExit, ReconcileCrash, vars, boundaryVars, childVars, diskVars
<1> QED
  BY <1>1, <1>2, <1>3 DEF AppendThrows, Logs

\* Every action preserves the invariant.
LEMMA StepInv == IInv /\ [Next]_vars => IInv'
<1> SUFFICES ASSUME IInv, [Next]_vars PROVE IInv'
  OBVIOUS
<1>Q. Quiet \in Tasks /\ Quiet.step = "idle" /\ Quiet.req = NoReq /\ Quiet.verdict = "none"
  BY QuietTask
<1>R. rec.step # "idle" =>
        /\ rec.req \in Requests /\ rec.step \in Settling
        /\ ~LiveReconcile => rec.req \notin pending /\ stage[rec.req] # "new" /\ rec.req \notin left
  <2>1. rec.step # "idle" => rec.req \in Requests /\ rec.step \in Settling
    BY DEF IInv, TypeOK, TasksOK, TaskOK, Tasks, Steps, Admitting, Settling
  <2> QED
    BY <2>1 DEF IInv, ApartOK, Settled
<1>L. log' \in Logs
  BY LogStep DEF IInv
<1> USE <1>Q, <1>L, NoReqAssumption, SwitchAssumption DEF IInv
<1>1. ASSUME NEW r \in Requests, Admit(r) PROVE IInv'
  <2>1. /\ UNCHANGED <<up, crashes, stage, pending, session, left, child, answers, world, applied,
           journal, anchored, file, rec, retried>>
        /\ up = "up"
        /\ busy = Quiet
        /\ stage[r] = "new"
        /\ r \notin pending
    BY <1>1 DEF Admit, vars, boundaryVars, childVars, diskVars, InUse
  <2>2. busy' \in Tasks /\ busy'.step = "journal" /\ busy'.req = r /\ busy'.verdict = "none"
    BY <1>1 DEF Admit, Steps, Tasks, TypeOK
  <2>3. TypeOK'
    BY <2>1, <2>2 DEF TypeOK, TasksOK, TaskOK
  <2>4. TasksOK'
    BY <2>1, <2>2 DEF TasksOK, TaskOK, Admitting, Settling, TypeOK
  <2>5. StageOK'
    BY <2>1, <2>2 DEF StageOK, Admitting, TypeOK, TasksOK, TaskOK, DownOK, Settling
  <2>6. DownOK'
    BY <2>1, <2>2 DEF DownOK, TypeOK, TasksOK, TaskOK
  <2>7. ~LiveReconcile => ApartOK'
    <3> SUFFICES ASSUME ~LiveReconcile PROVE ApartOK'
      OBVIOUS
    <3>1. rec'.step # "idle" => rec'.req \notin left'
          /\ (busy'.step # "idle" => busy'.req # rec'.req)
      BY <1>R, <2>1, <2>2 DEF ApartOK, TasksOK, TaskOK, DownOK, StageOK
    <3>2. ASSUME NEW s \in Requests, Settled(s)'
          PROVE  s \notin pending' /\ stage'[s] # "new"
      <4>1. Settled(s) \/ (s \notin pending' /\ stage'[s] # "new")
        BY <3>2, <2>1, <2>2 DEF ApartOK, Settled, HasState, Settling, Buckets, TypeOK, TasksOK,
           TaskOK, StageOK, Admitting, DownOK
      <4>2. Settled(s) => s \notin pending /\ stage[s] # "new"
        BY DEF ApartOK
      <4> QED
        BY <4>1, <4>2, <2>1, <2>2 DEF TypeOK, TasksOK, TaskOK, StageOK, Admitting, DownOK, Settled,
           Settling
    <3> QED
      BY <3>1, <3>2 DEF ApartOK
  <2>8. ~LiveReconcile => RecordOK'
    BY <2>1, <2>2 DEF RecordOK, Stored, Recorded, Buckets, TypeOK, TasksOK, TaskOK, StageOK,
       Admitting, ApartOK
  <2>9. ~LiveReconcile /\ ~Orphans => FailedOK'
    BY <2>1, <2>2 DEF FailedOK, Failed, Settling, TypeOK, TasksOK, TaskOK, StageOK, EffectsOK, Ran,
       QueuedOK, ApartOK, Settled, HasState
  <2>10. /\ EffectsOK'
        /\ (~LiveReconcile /\ ~Orphans => QueuedOK' /\ NoDuplicateEffect')
    BY <2>1 DEF EffectsOK, Ran, QueuedOK, NoDuplicateEffect
  <2> QED
    BY <2>3, <2>4, <2>5, <2>6, <2>7, <2>8, <2>9, <2>10
<1>2. ASSUME NEW r \in Requests, Refuse(r) PROVE IInv'
  <2>1. /\ UNCHANGED <<up, crashes, busy, pending, session, left, child, answers, world, applied,
           journal, anchored, file, rec, retried>>
        /\ busy = Quiet
        /\ stage[r] = "new"
        /\ stage' = [stage EXCEPT ![r] = "refused"]
    BY <1>2 DEF Refuse, vars, boundaryVars, childVars, diskVars, InUse
  <2>2. TypeOK'
    BY <2>1 DEF TypeOK, TasksOK, TaskOK
  <2>3. StageOK'
    BY <2>1 DEF StageOK, Admitting, TypeOK, TasksOK, TaskOK, DownOK, Settling
  <2>4. DownOK'
    BY <2>1 DEF DownOK, TypeOK, TasksOK, TaskOK
  <2>5. ~LiveReconcile => ApartOK'
    <3> SUFFICES ASSUME ~LiveReconcile PROVE ApartOK'
      OBVIOUS
    <3>1. rec'.step # "idle" => rec'.req \notin left'
          /\ (busy'.step # "idle" => busy'.req # rec'.req)
      BY <1>R, <2>1 DEF ApartOK, TasksOK, TaskOK, DownOK, StageOK
    <3>2. ASSUME NEW s \in Requests, Settled(s)'
          PROVE  s \notin pending' /\ stage'[s] # "new"
      <4>1. Settled(s) \/ (s \notin pending' /\ stage'[s] # "new")
        BY <3>2, <2>1 DEF ApartOK, Settled, HasState, Settling, Buckets, TypeOK, TasksOK, TaskOK,
           StageOK, Admitting, DownOK
      <4>2. Settled(s) => s \notin pending /\ stage[s] # "new"
        BY DEF ApartOK
      <4> QED
        BY <4>1, <4>2, <2>1 DEF TypeOK, TasksOK, TaskOK, StageOK, Admitting, DownOK, Settled,
           Settling
    <3> QED
      BY <3>1, <3>2 DEF ApartOK
  <2>6. ~LiveReconcile => RecordOK'
    BY <2>1 DEF RecordOK, Stored, Recorded, Buckets, TypeOK, TasksOK, TaskOK, StageOK, Admitting,
       ApartOK
  <2>7. /\ TasksOK'
        /\ EffectsOK'
        /\ (~LiveReconcile /\ ~Orphans => QueuedOK' /\ FailedOK' /\ NoDuplicateEffect')
    BY <2>1 DEF TasksOK, TaskOK, EffectsOK, Ran, QueuedOK, FailedOK, Failed, NoDuplicateEffect
  <2> QED
    BY <2>2, <2>3, <2>4, <2>5, <2>6, <2>7
<1>3. CASE Journal
  <2>1. /\ UNCHANGED <<up, crashes, stage, session, left, child, answers, world, applied, anchored,
           file, rec, retried>>
        /\ up = "up"
        /\ busy.step = "journal"
        /\ journal' = journal \cup {busy.req}
        /\ pending' = pending \cup {busy.req}
    BY <1>3 DEF Journal, vars, boundaryVars, childVars, diskVars
  <2>2. busy' \in Tasks /\ busy'.step = "anchor" /\ busy'.req = busy.req
        /\ busy'.verdict = busy.verdict
    BY <1>3 DEF Journal, TypeOK, Steps, Tasks
  <2>3. TypeOK'
    BY <2>1, <2>2 DEF TypeOK, TasksOK, TaskOK
  <2>4. TasksOK'
    BY <2>1, <2>2 DEF TasksOK, TaskOK, Admitting, Settling, TypeOK
  <2>5. StageOK'
    BY <2>1, <2>2 DEF StageOK, Admitting, TypeOK, TasksOK, TaskOK, DownOK, Settling
  <2>6. DownOK'
    BY <2>1, <2>2 DEF DownOK, TypeOK, TasksOK, TaskOK
  <2>7. ~LiveReconcile => ApartOK'
    <3> SUFFICES ASSUME ~LiveReconcile PROVE ApartOK'
      OBVIOUS
    <3>1. rec'.step # "idle" => rec'.req \notin left'
          /\ (busy'.step # "idle" => busy'.req # rec'.req)
      BY <1>R, <2>1, <2>2 DEF ApartOK, TasksOK, TaskOK, DownOK, StageOK
    <3>2. ASSUME NEW s \in Requests, Settled(s)'
          PROVE  s \notin pending' /\ stage'[s] # "new"
      <4>1. Settled(s) \/ (s \notin pending' /\ stage'[s] # "new")
        BY <3>2, <2>1, <2>2 DEF ApartOK, Settled, HasState, Settling, Buckets, TypeOK, TasksOK,
           TaskOK, StageOK, Admitting, DownOK
      <4>2. Settled(s) => s \notin pending /\ stage[s] # "new"
        BY DEF ApartOK
      <4> QED
        BY <4>1, <4>2, <2>1, <2>2 DEF TypeOK, TasksOK, TaskOK, StageOK, Admitting, DownOK, Settled,
           Settling
    <3> QED
      BY <3>1, <3>2 DEF ApartOK
  <2>8. ~LiveReconcile => RecordOK'
    BY <2>1, <2>2 DEF RecordOK, Stored, Recorded, Buckets, TypeOK, TasksOK, TaskOK, StageOK,
       Admitting, ApartOK
  <2>9. ~LiveReconcile /\ ~Orphans => QueuedOK'
    BY <2>1, <2>2 DEF QueuedOK, TypeOK, StageOK, DownOK
  <2>10. ~LiveReconcile /\ ~Orphans => FailedOK'
    BY <2>1, <2>2 DEF FailedOK, Failed, Settling, TypeOK, TasksOK, TaskOK, StageOK, EffectsOK, Ran,
       QueuedOK, ApartOK, Settled, HasState
  <2>11. /\ EffectsOK'
        /\ (~LiveReconcile /\ ~Orphans => NoDuplicateEffect')
    BY <2>1 DEF EffectsOK, Ran, NoDuplicateEffect
  <2> QED
    BY <2>3, <2>4, <2>5, <2>6, <2>7, <2>8, <2>9, <2>10, <2>11
<1>4. CASE Anchor
  <2>1. /\ UNCHANGED <<up, crashes, pending, session, left, child, answers, world, applied,
           journal, file, rec, retried>>
        /\ up = "up"
        /\ busy.step = "anchor"
        /\ anchored' = anchored \cup {busy.req}
        /\ stage' = [stage EXCEPT ![busy.req] = "admitted"]
        /\ busy' = Quiet
    BY <1>4 DEF Anchor, vars, boundaryVars, childVars, diskVars
  <2>2. busy' \in Tasks /\ busy'.step = "idle"
    BY <1>4 DEF Anchor, Tasks, Steps, TypeOK
  <2>3. TypeOK'
    BY <2>1, <2>2 DEF TypeOK, TasksOK, TaskOK
  <2>4. TasksOK'
    BY <2>1, <2>2 DEF TasksOK, TaskOK, Admitting, Settling, TypeOK
  <2>5. StageOK'
    BY <2>1, <2>2 DEF StageOK, Admitting, TypeOK, TasksOK, TaskOK, DownOK, Settling
  <2>6. DownOK'
    BY <2>1, <2>2 DEF DownOK, TypeOK, TasksOK, TaskOK
  <2>7. ~LiveReconcile => ApartOK'
    <3> SUFFICES ASSUME ~LiveReconcile PROVE ApartOK'
      OBVIOUS
    <3>1. rec'.step # "idle" => rec'.req \notin left'
          /\ (busy'.step # "idle" => busy'.req # rec'.req)
      BY <1>R, <2>1, <2>2 DEF ApartOK, TasksOK, TaskOK, DownOK, StageOK
    <3>2. ASSUME NEW s \in Requests, Settled(s)'
          PROVE  s \notin pending' /\ stage'[s] # "new"
      <4>1. Settled(s) \/ (s \notin pending' /\ stage'[s] # "new")
        BY <3>2, <2>1, <2>2 DEF ApartOK, Settled, HasState, Settling, Buckets, TypeOK, TasksOK,
           TaskOK, StageOK, Admitting, DownOK
      <4>2. Settled(s) => s \notin pending /\ stage[s] # "new"
        BY DEF ApartOK
      <4> QED
        BY <4>1, <4>2, <2>1, <2>2 DEF TypeOK, TasksOK, TaskOK, StageOK, Admitting, DownOK, Settled,
           Settling
    <3> QED
      BY <3>1, <3>2 DEF ApartOK
  <2>8. ~LiveReconcile => RecordOK'
    BY <2>1, <2>2 DEF RecordOK, Stored, Recorded, Buckets, TypeOK, TasksOK, TaskOK, StageOK,
       Admitting, ApartOK
  <2>9. ~LiveReconcile /\ ~Orphans => FailedOK'
    BY <2>1, <2>2 DEF FailedOK, Failed, Settling, TypeOK, TasksOK, TaskOK, StageOK, EffectsOK, Ran,
       QueuedOK, ApartOK, Settled, HasState
  <2>10. /\ EffectsOK'
        /\ (~LiveReconcile /\ ~Orphans => QueuedOK' /\ NoDuplicateEffect')
    BY <2>1 DEF EffectsOK, Ran, QueuedOK, NoDuplicateEffect
  <2> QED
    BY <2>3, <2>4, <2>5, <2>6, <2>7, <2>8, <2>9, <2>10
<1>5. ASSUME NEW r \in Requests, Forward(r) PROVE IInv'
  <2>1. /\ UNCHANGED <<up, crashes, busy, pending, session, left, answers, world, applied, journal,
           anchored, file, rec, retried>>
        /\ up = "up"
        /\ busy = Quiet
        /\ stage[r] = "admitted"
        /\ stage' = [stage EXCEPT ![r] = "forwarded"]
        /\ child' = [child EXCEPT ![r] = IF session = "open" THEN "queued" ELSE "gone"]
    BY <1>5 DEF Forward, vars, boundaryVars, childVars, diskVars
  <2>2. TypeOK'
    BY <2>1 DEF TypeOK, TasksOK, TaskOK
  <2>3. StageOK'
    BY <2>1 DEF StageOK, Admitting, TypeOK, TasksOK, TaskOK, DownOK, Settling
  <2>4. DownOK'
    BY <2>1 DEF DownOK, TypeOK, TasksOK, TaskOK
  <2>5. EffectsOK'
    BY <2>1 DEF EffectsOK, Ran, TypeOK, StageOK
  <2>6. ~LiveReconcile => ApartOK'
    <3> SUFFICES ASSUME ~LiveReconcile PROVE ApartOK'
      OBVIOUS
    <3>1. rec'.step # "idle" => rec'.req \notin left'
          /\ (busy'.step # "idle" => busy'.req # rec'.req)
      BY <1>R, <2>1 DEF ApartOK, TasksOK, TaskOK, DownOK, StageOK
    <3>2. ASSUME NEW s \in Requests, Settled(s)'
          PROVE  s \notin pending' /\ stage'[s] # "new"
      <4>1. Settled(s) \/ (s \notin pending' /\ stage'[s] # "new")
        BY <3>2, <2>1 DEF ApartOK, Settled, HasState, Settling, Buckets, TypeOK, TasksOK, TaskOK,
           StageOK, Admitting, DownOK
      <4>2. Settled(s) => s \notin pending /\ stage[s] # "new"
        BY DEF ApartOK
      <4> QED
        BY <4>1, <4>2, <2>1 DEF TypeOK, TasksOK, TaskOK, StageOK, Admitting, DownOK, Settled,
           Settling
    <3> QED
      BY <3>1, <3>2 DEF ApartOK
  <2>7. ~LiveReconcile => RecordOK'
    BY <2>1 DEF RecordOK, Stored, Recorded, Buckets, TypeOK, TasksOK, TaskOK, StageOK, Admitting,
       ApartOK
  <2>8. ~LiveReconcile /\ ~Orphans => QueuedOK'
    BY <2>1 DEF QueuedOK, TypeOK, StageOK, DownOK
  <2>9. /\ TasksOK'
        /\ (~LiveReconcile /\ ~Orphans => FailedOK' /\ NoDuplicateEffect')
    BY <2>1 DEF TasksOK, TaskOK, FailedOK, Failed, NoDuplicateEffect
  <2> QED
    BY <2>2, <2>3, <2>4, <2>5, <2>6, <2>7, <2>8, <2>9
<1>6. ASSUME NEW r \in Requests, Observed(r) PROVE IInv'
  <2>1. /\ UNCHANGED <<up, crashes, stage, session, left, child, world, applied, journal, anchored,
           file, rec, retried>>
        /\ up = "up"
        /\ busy = Quiet
        /\ r \in answers \cap pending
        /\ pending' = pending \ {r}
        /\ answers' = answers \ {r}
    BY <1>6 DEF Observed, Finalize, vars, boundaryVars, childVars, diskVars
  <2>2. busy' \in Tasks /\ busy'.step = "verify" /\ busy'.req = r /\ busy'.verdict = "none"
    BY <1>6 DEF Observed, Finalize, Steps, Tasks, TypeOK
  <2>3. TypeOK'
    BY <2>1, <2>2 DEF TypeOK, TasksOK, TaskOK
  <2>4. TasksOK'
    BY <2>1, <2>2 DEF TasksOK, TaskOK, Admitting, Settling, TypeOK
  <2>5. StageOK'
    BY <2>1, <2>2 DEF StageOK, Admitting, TypeOK, TasksOK, TaskOK, DownOK, Settling
  <2>6. DownOK'
    BY <2>1, <2>2 DEF DownOK, TypeOK, TasksOK, TaskOK
  <2>7. ~LiveReconcile => ApartOK'
    <3> SUFFICES ASSUME ~LiveReconcile PROVE ApartOK'
      OBVIOUS
    <3>1. rec'.step # "idle" => rec'.req \notin left'
          /\ (busy'.step # "idle" => busy'.req # rec'.req)
      BY <1>R, <2>1, <2>2 DEF ApartOK, TasksOK, TaskOK, DownOK, StageOK
    <3>2. ASSUME NEW s \in Requests, Settled(s)'
          PROVE  s \notin pending' /\ stage'[s] # "new"
      <4>1. Settled(s) \/ (s \notin pending' /\ stage'[s] # "new")
        BY <3>2, <2>1, <2>2 DEF ApartOK, Settled, HasState, Settling, Buckets, TypeOK, TasksOK,
           TaskOK, StageOK, Admitting, DownOK
      <4>2. Settled(s) => s \notin pending /\ stage[s] # "new"
        BY DEF ApartOK
      <4> QED
        BY <4>1, <4>2, <2>1, <2>2 DEF TypeOK, TasksOK, TaskOK, StageOK, Admitting, DownOK, Settled,
           Settling
    <3> QED
      BY <3>1, <3>2 DEF ApartOK
  <2>8. ~LiveReconcile => RecordOK'
    BY <2>1, <2>2 DEF RecordOK, Stored, Recorded, Buckets, TypeOK, TasksOK, TaskOK, StageOK,
       Admitting, ApartOK
  <2>9. ~LiveReconcile /\ ~Orphans => QueuedOK'
    BY <2>1, <2>2 DEF QueuedOK, TypeOK, StageOK, DownOK
  <2>10. ~LiveReconcile /\ ~Orphans => FailedOK'
    BY <2>1, <2>2 DEF FailedOK, Failed, Settling, TypeOK, TasksOK, TaskOK, StageOK, EffectsOK, Ran,
       QueuedOK, ApartOK, Settled, HasState
  <2>11. /\ EffectsOK'
        /\ (~LiveReconcile /\ ~Orphans => NoDuplicateEffect')
    BY <2>1 DEF EffectsOK, Ran, NoDuplicateEffect
  <2> QED
    BY <2>3, <2>4, <2>5, <2>6, <2>7, <2>8, <2>9, <2>10, <2>11
<1>7. CASE Close
  <2>1. /\ UNCHANGED <<up, crashes, busy, stage, pending, child, answers, world, applied, journal,
           anchored, file, rec, retried>>
        /\ up = "up"
        /\ busy = Quiet
        /\ session = "exited"
        /\ session' = "closing"
        /\ left' = pending
    BY <1>7 DEF Close, vars, boundaryVars, childVars, diskVars
  <2>2. TypeOK'
    BY <2>1 DEF TypeOK, TasksOK, TaskOK
  <2>3. StageOK'
    BY <2>1 DEF StageOK, Admitting, TypeOK, TasksOK, TaskOK, DownOK, Settling
  <2>4. DownOK'
    BY <2>1 DEF DownOK, TypeOK, TasksOK, TaskOK
  <2>5. ~LiveReconcile => ApartOK'
    <3> SUFFICES ASSUME ~LiveReconcile PROVE ApartOK'
      OBVIOUS
    <3>1. rec'.step # "idle" => rec'.req \notin left'
          /\ (busy'.step # "idle" => busy'.req # rec'.req)
      BY <1>R, <2>1 DEF ApartOK, TasksOK, TaskOK, DownOK, StageOK
    <3>2. ASSUME NEW s \in Requests, Settled(s)'
          PROVE  s \notin pending' /\ stage'[s] # "new"
      <4>1. Settled(s) \/ (s \notin pending' /\ stage'[s] # "new")
        BY <3>2, <2>1 DEF ApartOK, Settled, HasState, Settling, Buckets, TypeOK, TasksOK, TaskOK,
           StageOK, Admitting, DownOK
      <4>2. Settled(s) => s \notin pending /\ stage[s] # "new"
        BY DEF ApartOK
      <4> QED
        BY <4>1, <4>2, <2>1 DEF TypeOK, TasksOK, TaskOK, StageOK, Admitting, DownOK, Settled,
           Settling
    <3> QED
      BY <3>1, <3>2 DEF ApartOK
  <2>6. ~LiveReconcile /\ ~Orphans => QueuedOK'
    BY <2>1 DEF QueuedOK, TypeOK, StageOK, DownOK
  <2>7. /\ TasksOK'
        /\ EffectsOK'
        /\ (~LiveReconcile => RecordOK')
        /\ (~LiveReconcile /\ ~Orphans => FailedOK' /\ NoDuplicateEffect')
    BY <2>1 DEF TasksOK, TaskOK, EffectsOK, Ran, RecordOK, Stored, Recorded, FailedOK, Failed,
       NoDuplicateEffect
  <2> QED
    BY <2>2, <2>3, <2>4, <2>5, <2>6, <2>7
<1>8. ASSUME NEW r \in Requests, FinalizeUnresolved(r) PROVE IInv'
  <2>1. /\ UNCHANGED <<up, crashes, stage, session, child, answers, world, applied, journal,
           anchored, file, rec, retried>>
        /\ up = "up"
        /\ busy = Quiet
        /\ r \in left
        /\ pending' = pending \ {r}
        /\ left' = left \ {r}
    BY <1>8 DEF FinalizeUnresolved, Finalize, vars, boundaryVars, childVars, diskVars
  <2>2. busy' \in Tasks /\ busy'.step = "verify" /\ busy'.req = r /\ busy'.verdict = "none"
    BY <1>8 DEF FinalizeUnresolved, Finalize, Steps, Tasks, TypeOK
  <2>3. TypeOK'
    BY <2>1, <2>2 DEF TypeOK, TasksOK, TaskOK
  <2>4. TasksOK'
    BY <2>1, <2>2 DEF TasksOK, TaskOK, Admitting, Settling, TypeOK
  <2>5. StageOK'
    BY <2>1, <2>2 DEF StageOK, Admitting, TypeOK, TasksOK, TaskOK, DownOK, Settling
  <2>6. DownOK'
    BY <2>1, <2>2 DEF DownOK, TypeOK, TasksOK, TaskOK
  <2>7. ~LiveReconcile => ApartOK'
    <3> SUFFICES ASSUME ~LiveReconcile PROVE ApartOK'
      OBVIOUS
    <3>1. rec'.step # "idle" => rec'.req \notin left'
          /\ (busy'.step # "idle" => busy'.req # rec'.req)
      BY <1>R, <2>1, <2>2 DEF ApartOK, TasksOK, TaskOK, DownOK, StageOK
    <3>2. ASSUME NEW s \in Requests, Settled(s)'
          PROVE  s \notin pending' /\ stage'[s] # "new"
      <4>1. Settled(s) \/ (s \notin pending' /\ stage'[s] # "new")
        BY <3>2, <2>1, <2>2 DEF ApartOK, Settled, HasState, Settling, Buckets, TypeOK, TasksOK,
           TaskOK, StageOK, Admitting, DownOK
      <4>2. Settled(s) => s \notin pending /\ stage[s] # "new"
        BY DEF ApartOK
      <4> QED
        BY <4>1, <4>2, <2>1, <2>2 DEF TypeOK, TasksOK, TaskOK, StageOK, Admitting, DownOK, Settled,
           Settling
    <3> QED
      BY <3>1, <3>2 DEF ApartOK
  <2>8. ~LiveReconcile => RecordOK'
    BY <2>1, <2>2 DEF RecordOK, Stored, Recorded, Buckets, TypeOK, TasksOK, TaskOK, StageOK,
       Admitting, ApartOK
  <2>9. ~LiveReconcile /\ ~Orphans => QueuedOK'
    BY <2>1, <2>2 DEF QueuedOK, TypeOK, StageOK, DownOK
  <2>10. ~LiveReconcile /\ ~Orphans => FailedOK'
    BY <2>1, <2>2 DEF FailedOK, Failed, Settling, TypeOK, TasksOK, TaskOK, StageOK, EffectsOK, Ran,
       QueuedOK, ApartOK, Settled, HasState
  <2>11. /\ EffectsOK'
        /\ (~LiveReconcile /\ ~Orphans => NoDuplicateEffect')
    BY <2>1 DEF EffectsOK, Ran, NoDuplicateEffect
  <2> QED
    BY <2>3, <2>4, <2>5, <2>6, <2>7, <2>8, <2>9, <2>10, <2>11
<1>9. CASE FinalizeVerify
  <2>1. /\ UNCHANGED <<up, crashes, stage, pending, session, left, child, answers, world, applied,
           journal, anchored, file, rec, retried>>
        /\ up = "up"
        /\ busy.step = "verify"
        /\ busy.req \in Requests
    BY <1>9 DEF FinalizeVerify, vars, boundaryVars, childVars, diskVars, TasksOK, TaskOK
  <2>2. busy' \in Tasks /\ busy'.step = "write" /\ busy'.req = busy.req
        /\ busy'.verdict = Observe(busy.req) /\ Observe(busy.req) \in Verdicts
        /\ (Observe(busy.req) = "confirmed_failure" => applied[busy.req] = 0)
    BY <1>9, ObserveType DEF FinalizeVerify, EffectsOK, Verified, TypeOK, Steps, TasksOK, TaskOK,
       Tasks
  <2>3. TypeOK'
    BY <2>1, <2>2 DEF TypeOK, TasksOK, TaskOK
  <2>4. TasksOK'
    BY <2>1, <2>2 DEF TasksOK, TaskOK, Admitting, Settling, TypeOK
  <2>5. StageOK'
    BY <2>1, <2>2 DEF StageOK, Admitting, TypeOK, TasksOK, TaskOK, DownOK, Settling
  <2>6. DownOK'
    BY <2>1, <2>2 DEF DownOK, TypeOK, TasksOK, TaskOK
  <2>7. ~LiveReconcile => ApartOK'
    <3> SUFFICES ASSUME ~LiveReconcile PROVE ApartOK'
      OBVIOUS
    <3>1. rec'.step # "idle" => rec'.req \notin left'
          /\ (busy'.step # "idle" => busy'.req # rec'.req)
      BY <1>R, <2>1, <2>2 DEF ApartOK, TasksOK, TaskOK, DownOK, StageOK
    <3>2. ASSUME NEW s \in Requests, Settled(s)'
          PROVE  s \notin pending' /\ stage'[s] # "new"
      <4>1. Settled(s) \/ (s \notin pending' /\ stage'[s] # "new")
        BY <3>2, <2>1, <2>2 DEF ApartOK, Settled, HasState, Settling, Buckets, TypeOK, TasksOK,
           TaskOK, StageOK, Admitting, DownOK
      <4>2. Settled(s) => s \notin pending /\ stage[s] # "new"
        BY DEF ApartOK
      <4> QED
        BY <4>1, <4>2, <2>1, <2>2 DEF TypeOK, TasksOK, TaskOK, StageOK, Admitting, DownOK, Settled,
           Settling
    <3> QED
      BY <3>1, <3>2 DEF ApartOK
  <2>8. ~LiveReconcile => RecordOK'
    BY <2>1, <2>2 DEF RecordOK, Stored, Recorded, Buckets, TypeOK, TasksOK, TaskOK, StageOK,
       Admitting, ApartOK
  <2>9. ~LiveReconcile /\ ~Orphans => FailedOK'
    BY <2>1, <2>2 DEF FailedOK, Failed, Settling, TypeOK, TasksOK, TaskOK, StageOK, EffectsOK, Ran,
       QueuedOK, ApartOK, Settled, HasState
  <2>10. /\ EffectsOK'
        /\ (~LiveReconcile /\ ~Orphans => QueuedOK' /\ NoDuplicateEffect')
    BY <2>1 DEF EffectsOK, Ran, QueuedOK, NoDuplicateEffect
  <2> QED
    BY <2>3, <2>4, <2>5, <2>6, <2>7, <2>8, <2>9, <2>10
<1>10. CASE FinalizePersist
  <2>1. /\ UNCHANGED <<up, crashes, stage, pending, session, left, child, answers, world, applied,
           anchored, rec, retried>>
        /\ up = "up"
        /\ Persist(busy)
    BY <1>10 DEF FinalizePersist, vars, boundaryVars, childVars, diskVars
  <2>2. PICK t \in Tasks : t = busy /\ TaskOK(t) /\ Persist(t) /\ busy' = NextTask(t)
    BY <1>10 DEF FinalizePersist, Persist, WriteState, Supersede, ClearInflight, TypeOK, TasksOK
  <2>3. /\ t.step \in {"write", "supersede",
           "clear"} /\ t.req \in Requests /\ t.verdict \in Verdicts
        /\ busy' \in Tasks
        /\ t.step = "write" => busy'.step = "supersede" /\ busy'.req = t.req
           /\ busy'.verdict = t.verdict
        /\ t.step = "supersede" => busy'.step = "clear" /\ busy'.req = t.req
           /\ busy'.verdict = t.verdict
        /\ t.step = "clear" => busy' = Quiet
        /\ file' \in [Requests -> [Buckets -> Verdicts \cup {"none"}]]
        /\ \A s \in Requests \ {t.req} : file'[s] = file[s] /\ (s \in journal' <=> s \in journal)
        /\ journal' \subseteq journal
        /\ \A b \in Buckets : file'[t.req][b] \in {file[t.req][b], t.verdict, "none"}
        /\ t.step = "write" => file'[t.req][Bucket(t.verdict)] # "none" /\ journal' = journal
        /\ t.step = "supersede"
           => file'[t.req][Bucket(t.verdict)] = file[t.req][Bucket(t.verdict)] /\ journal' = journal
        /\ t.step = "clear" => file' = file
    BY <2>2, PersistStep
  <2>4. t = busy
    BY <2>2
  <2>5. TypeOK'
    BY <2>1, <2>3, <2>4 DEF TypeOK, TasksOK, TaskOK
  <2>6. TasksOK'
    BY <2>1, <2>3, <2>4 DEF TasksOK, TaskOK, Admitting, Settling, TypeOK
  <2>7. StageOK'
    BY <2>1, <2>3, <2>4 DEF StageOK, Admitting, TypeOK, TasksOK, TaskOK, DownOK, Settling
  <2>8. DownOK'
    BY <2>1, <2>3, <2>4 DEF DownOK, TypeOK, TasksOK, TaskOK
  <2>9. ~LiveReconcile => ApartOK'
    <3> SUFFICES ASSUME ~LiveReconcile PROVE ApartOK'
      OBVIOUS
    <3>1. rec'.step # "idle" => rec'.req \notin left'
          /\ (busy'.step # "idle" => busy'.req # rec'.req)
      BY <1>R, <2>1, <2>3, <2>4 DEF ApartOK, TasksOK, TaskOK, DownOK, StageOK
    <3>2. ASSUME NEW s \in Requests, Settled(s)'
          PROVE  s \notin pending' /\ stage'[s] # "new"
      <4>1. Settled(s) \/ (s \notin pending' /\ stage'[s] # "new")
        BY <3>2, <2>1, <2>3, <2>4 DEF ApartOK, Settled, HasState, Settling, Buckets, TypeOK,
           TasksOK, TaskOK, StageOK, Admitting, DownOK
      <4>2. Settled(s) => s \notin pending /\ stage[s] # "new"
        BY DEF ApartOK
      <4> QED
        BY <4>1, <4>2, <2>1, <2>3, <2>4 DEF TypeOK, TasksOK, TaskOK, StageOK, Admitting, DownOK,
           Settled, Settling
    <3> QED
      BY <3>1, <3>2 DEF ApartOK
  <2>10. ~LiveReconcile => RecordOK'
    <3> SUFFICES ASSUME ~LiveReconcile PROVE RecordOK'
      OBVIOUS
    <3>1. rec.step # "idle" => (busy.step # "idle" => busy.req # rec.req) /\ rec.req \in Requests
      BY <1>R DEF ApartOK
    <3>2. Stored(busy)'
      BY <2>1, <2>3, <2>4 DEF RecordOK, Stored
    <3>3. Stored(rec)'
      BY <2>1, <2>3, <2>4, <3>1 DEF RecordOK, Stored, TasksOK, TaskOK
    <3>4. busy'.step = "anchor" => busy'.req \in journal'
      BY <2>1, <2>3, <2>4, <3>1 DEF RecordOK, TasksOK, TaskOK
    <3>5. t.step # "write" => HasState(t.req)'
      <4>1. Bucket(t.verdict) \in Buckets
        BY DEF Bucket, Buckets
      <4> QED
        BY <2>3, <2>4, <4>1 DEF RecordOK, Stored, HasState
    <3>6. ASSUME NEW s \in Requests, stage[s] \in {"admitted", "forwarded"} PROVE Recorded(s)'
      <4>1. Recorded(s)
        BY <3>6 DEF RecordOK
      <4>2. CASE s # t.req
        BY <2>3, <4>1, <4>2 DEF Recorded
      <4>3. CASE s = t.req /\ t.step # "write"
        BY <3>5, <4>3 DEF Recorded, HasState
      <4>4. CASE s = t.req /\ t.step = "write"
        <5>1. Bucket(t.verdict) \in Buckets
          BY DEF Bucket, Buckets
        <5> QED
          BY <2>3, <4>4, <5>1 DEF Recorded
      <4> QED
        BY <4>2, <4>3, <4>4
    <3> QED
      BY <2>1, <3>2, <3>3, <3>4, <3>6 DEF RecordOK
  <2>11. ~LiveReconcile /\ ~Orphans => FailedOK'
    BY <2>1, <2>3, <2>4 DEF FailedOK, Failed, Settling, TypeOK, TasksOK, TaskOK, StageOK,
       EffectsOK, Ran, QueuedOK, ApartOK, Settled, HasState
  <2>12. /\ EffectsOK'
        /\ (~LiveReconcile /\ ~Orphans => QueuedOK' /\ NoDuplicateEffect')
    BY <2>1 DEF EffectsOK, Ran, QueuedOK, NoDuplicateEffect
  <2> QED
    BY <2>5, <2>6, <2>7, <2>8, <2>9, <2>10, <2>11, <2>12
<1>11. CASE Crash \/ AppendThrows
  <2>1. /\ UNCHANGED <<session, world, applied, journal, anchored, file, rec, retried>>
        /\ up = "up"
        /\ crashes' \in 0 .. MaxCrashes
        /\ up' = "down"
        /\ busy' = Quiet
        /\ pending' = {}
        /\ left' = {}
        /\ answers' = {}
        /\ stage' = [r \in Requests |-> IF stage[r] = "admitted" \/ (stage[r] = "new"
           /\ busy.req = r) THEN "lost" ELSE stage[r]]
        /\ child' = [r \in Requests |-> IF child[r] = "queued"
           /\ ~Orphans THEN "gone" ELSE child[r]]
    BY <1>11, CrashAssumption DEF Crash, AppendThrows, Die, Lost, TypeOK
  <2>2. busy' \in Tasks /\ busy'.step = "idle"
    BY <1>11 DEF Crash, AppendThrows, Die
  <2>3. TypeOK'
    BY <2>1, <2>2 DEF TypeOK, TasksOK, TaskOK
  <2>4. TasksOK'
    BY <2>1, <2>2 DEF TasksOK, TaskOK, Admitting, Settling, TypeOK
  <2>5. StageOK'
    BY <2>1, <2>2 DEF StageOK, Admitting, TypeOK, TasksOK, TaskOK, DownOK, Settling
  <2>6. DownOK'
    BY <2>1, <2>2 DEF DownOK, TypeOK, TasksOK, TaskOK
  <2>7. EffectsOK'
    BY <2>1, <2>2 DEF EffectsOK, Ran, TypeOK, StageOK
  <2>8. ~LiveReconcile => ApartOK'
    <3> SUFFICES ASSUME ~LiveReconcile PROVE ApartOK'
      OBVIOUS
    <3>1. rec'.step # "idle" => rec'.req \notin left'
          /\ (busy'.step # "idle" => busy'.req # rec'.req)
      BY <1>R, <2>1, <2>2 DEF ApartOK, TasksOK, TaskOK, DownOK, StageOK
    <3>2. ASSUME NEW s \in Requests, Settled(s)'
          PROVE  s \notin pending' /\ stage'[s] # "new"
      <4>1. Settled(s) \/ (s \notin pending' /\ stage'[s] # "new")
        BY <3>2, <2>1, <2>2 DEF ApartOK, Settled, HasState, Settling, Buckets, TypeOK, TasksOK,
           TaskOK, StageOK, Admitting, DownOK
      <4>2. Settled(s) => s \notin pending /\ stage[s] # "new"
        BY DEF ApartOK
      <4> QED
        BY <4>1, <4>2, <2>1, <2>2 DEF TypeOK, TasksOK, TaskOK, StageOK, Admitting, DownOK, Settled,
           Settling
    <3> QED
      BY <3>1, <3>2 DEF ApartOK
  <2>9. ~LiveReconcile => RecordOK'
    BY <2>1, <2>2 DEF RecordOK, Stored, Recorded, Buckets, TypeOK, TasksOK, TaskOK, StageOK,
       Admitting, ApartOK
  <2>10. ~LiveReconcile /\ ~Orphans => QueuedOK'
    BY <2>1, <2>2 DEF QueuedOK, TypeOK, StageOK, DownOK
  <2>11. ~LiveReconcile /\ ~Orphans => FailedOK'
    BY <2>1, <2>2 DEF FailedOK, Failed, Settling, TypeOK, TasksOK, TaskOK, StageOK, EffectsOK, Ran,
       QueuedOK, ApartOK, Settled, HasState
  <2>12. (~LiveReconcile /\ ~Orphans => NoDuplicateEffect')
    BY <2>1 DEF NoDuplicateEffect
  <2> QED
    BY <2>3, <2>4, <2>5, <2>6, <2>7, <2>8, <2>9, <2>10, <2>11, <2>12
<1>12. CASE Exit
  <2>1. /\ UNCHANGED <<crashes, busy, session, left, child, answers, world, applied, journal,
           anchored, file, rec, retried>>
        /\ busy = Quiet
        /\ session = "closing"
        /\ left = {}
        /\ up' = "down"
        /\ pending' = {}
        /\ stage' = [r \in Requests |-> IF stage[r] = "admitted" \/ (stage[r] = "new"
           /\ busy.req = r) THEN "lost" ELSE stage[r]]
    BY <1>12 DEF Exit, Lost, vars, boundaryVars, childVars, diskVars
  <2>2. TypeOK'
    BY <2>1 DEF TypeOK, TasksOK, TaskOK
  <2>3. StageOK'
    BY <2>1 DEF StageOK, Admitting, TypeOK, TasksOK, TaskOK, DownOK, Settling
  <2>4. DownOK'
    BY <2>1 DEF DownOK, TypeOK, TasksOK, TaskOK
  <2>5. ~LiveReconcile => ApartOK'
    <3> SUFFICES ASSUME ~LiveReconcile PROVE ApartOK'
      OBVIOUS
    <3>1. rec'.step # "idle" => rec'.req \notin left'
          /\ (busy'.step # "idle" => busy'.req # rec'.req)
      BY <1>R, <2>1 DEF ApartOK, TasksOK, TaskOK, DownOK, StageOK
    <3>2. ASSUME NEW s \in Requests, Settled(s)'
          PROVE  s \notin pending' /\ stage'[s] # "new"
      <4>1. Settled(s) \/ (s \notin pending' /\ stage'[s] # "new")
        BY <3>2, <2>1 DEF ApartOK, Settled, HasState, Settling, Buckets, TypeOK, TasksOK, TaskOK,
           StageOK, Admitting, DownOK
      <4>2. Settled(s) => s \notin pending /\ stage[s] # "new"
        BY DEF ApartOK
      <4> QED
        BY <4>1, <4>2, <2>1 DEF TypeOK, TasksOK, TaskOK, StageOK, Admitting, DownOK, Settled,
           Settling
    <3> QED
      BY <3>1, <3>2 DEF ApartOK
  <2>6. ~LiveReconcile => RecordOK'
    BY <2>1 DEF RecordOK, Stored, Recorded, Buckets, TypeOK, TasksOK, TaskOK, StageOK, Admitting,
       ApartOK
  <2>7. ~LiveReconcile /\ ~Orphans => QueuedOK'
    BY <2>1 DEF QueuedOK, TypeOK, StageOK, DownOK
  <2>8. /\ TasksOK'
        /\ EffectsOK'
        /\ (~LiveReconcile /\ ~Orphans => FailedOK' /\ NoDuplicateEffect')
    BY <2>1 DEF TasksOK, TaskOK, EffectsOK, Ran, FailedOK, Failed, NoDuplicateEffect
  <2> QED
    BY <2>2, <2>3, <2>4, <2>5, <2>6, <2>7, <2>8
<1>13. CASE Restart
  <2>1. /\ UNCHANGED <<crashes, busy, stage, pending, left, child, answers, world, applied,
           journal, anchored, file, rec, retried>>
        /\ up = "down"
        /\ up' = "up"
        /\ session' = "open"
    BY <1>13 DEF Restart, vars, boundaryVars, childVars, diskVars
  <2>2. TypeOK'
    BY <2>1 DEF TypeOK, TasksOK, TaskOK
  <2>3. StageOK'
    BY <2>1 DEF StageOK, Admitting, TypeOK, TasksOK, TaskOK, DownOK, Settling
  <2>4. DownOK'
    BY <2>1 DEF DownOK, TypeOK, TasksOK, TaskOK
  <2>5. ~LiveReconcile /\ ~Orphans => QueuedOK'
    BY <2>1 DEF QueuedOK, TypeOK, StageOK, DownOK
  <2>6. /\ TasksOK'
        /\ EffectsOK'
        /\ (~LiveReconcile => ApartOK' /\ RecordOK')
        /\ (~LiveReconcile /\ ~Orphans => FailedOK' /\ NoDuplicateEffect')
    BY <2>1 DEF TasksOK, TaskOK, EffectsOK, Ran, ApartOK, Settled, HasState, RecordOK, Stored,
       Recorded, FailedOK, Failed, NoDuplicateEffect
  <2> QED
    BY <2>2, <2>3, <2>4, <2>5, <2>6
<1>14. ASSUME NEW r \in Requests, ChildRun(r) PROVE IInv'
  <2>1. /\ UNCHANGED <<up, crashes, busy, stage, pending, session, left, answers, journal,
           anchored, file, rec, retried>>
        /\ child[r] = "queued"
        /\ child' = [child EXCEPT ![r] = "ran"]
        /\ (((\E w \in {"after",
           "other"} : world' = [world EXCEPT ![r] = w])
           /\ applied' = [applied EXCEPT ![r] = applied[r] + 1]) \/ (world' = world
           /\ applied' = applied))
    BY <1>14 DEF ChildRun, vars, boundaryVars, childVars, diskVars
  <2>2. TypeOK'
    <3>1. world' \in [Requests -> {"before", "after", "other"}]
      BY <2>1 DEF TypeOK
    <3>2. applied[r] \in 0 .. 2 /\ applied[r] <= 1
      BY <2>1 DEF TypeOK, EffectsOK, Ran
    <3>3. applied' \in [Requests -> 0 .. 2]
      BY <2>1, <3>2 DEF TypeOK
    <3> QED
      BY <2>1, <3>1, <3>3 DEF TypeOK
  <2>3. StageOK'
    BY <2>1 DEF StageOK, Admitting, TypeOK, TasksOK, TaskOK, DownOK, Settling
  <2>4. EffectsOK'
    BY <2>1 DEF EffectsOK, Ran, TypeOK, StageOK
  <2>5. ~LiveReconcile /\ ~Orphans => QueuedOK'
    BY <2>1 DEF QueuedOK, TypeOK, StageOK, DownOK
  <2>6. ~LiveReconcile /\ ~Orphans => FailedOK'
    BY <2>1 DEF FailedOK, Failed, Settling, TypeOK, TasksOK, TaskOK, StageOK, EffectsOK, Ran,
       QueuedOK, ApartOK, Settled, HasState
  <2>7. ~LiveReconcile /\ ~Orphans => NoDuplicateEffect'
    BY <2>1 DEF NoDuplicateEffect, TypeOK, EffectsOK, Ran, QueuedOK, ApartOK, Settled
  <2>8. /\ TasksOK'
        /\ DownOK'
        /\ (~LiveReconcile => ApartOK' /\ RecordOK')
    BY <2>1 DEF TasksOK, TaskOK, DownOK, ApartOK, Settled, HasState, RecordOK, Stored, Recorded
  <2> QED
    BY <2>2, <2>3, <2>4, <2>5, <2>6, <2>7, <2>8
<1>15. ASSUME NEW r \in Requests, ChildAnswer(r) PROVE IInv'
  <2>1. /\ UNCHANGED <<up, crashes, busy, stage, pending, session, left, world, applied, journal,
           anchored, file, rec, retried>>
        /\ child[r] = "ran"
        /\ child' = [child EXCEPT ![r] = "done"]
        /\ answers' \subseteq answers \cup {r}
        /\ answers \subseteq answers'
    BY <1>15 DEF ChildAnswer, vars, boundaryVars, childVars, diskVars
  <2>2. TypeOK'
    BY <2>1 DEF TypeOK, TasksOK, TaskOK
  <2>3. StageOK'
    BY <2>1 DEF StageOK, Admitting, TypeOK, TasksOK, TaskOK, DownOK, Settling
  <2>4. EffectsOK'
    BY <2>1 DEF EffectsOK, Ran, TypeOK, StageOK
  <2>5. ~LiveReconcile /\ ~Orphans => QueuedOK'
    BY <2>1 DEF QueuedOK, TypeOK, StageOK, DownOK
  <2>6. /\ TasksOK'
        /\ DownOK'
        /\ (~LiveReconcile => ApartOK' /\ RecordOK')
        /\ (~LiveReconcile /\ ~Orphans => FailedOK' /\ NoDuplicateEffect')
    BY <2>1 DEF TasksOK, TaskOK, DownOK, ApartOK, Settled, HasState, RecordOK, Stored, Recorded,
       FailedOK, Failed, NoDuplicateEffect
  <2> QED
    BY <2>2, <2>3, <2>4, <2>5, <2>6
<1>16. CASE ChildExit
  <2>1. /\ UNCHANGED <<up, crashes, busy, stage, pending, left, answers, world, applied, journal,
           anchored, file, rec, retried>>
        /\ session = "open"
        /\ session' = "exited"
        /\ child' = [r \in Requests |-> IF r \in pending /\ child[r] \in {"queued",
           "ran"} THEN "gone" ELSE child[r]]
    BY <1>16 DEF ChildExit, vars, boundaryVars, childVars, diskVars
  <2>2. TypeOK'
    BY <2>1 DEF TypeOK, TasksOK, TaskOK
  <2>3. StageOK'
    BY <2>1 DEF StageOK, Admitting, TypeOK, TasksOK, TaskOK, DownOK, Settling
  <2>4. DownOK'
    BY <2>1 DEF DownOK, TypeOK, TasksOK, TaskOK
  <2>5. EffectsOK'
    BY <2>1 DEF EffectsOK, Ran, TypeOK, StageOK
  <2>6. ~LiveReconcile /\ ~Orphans => QueuedOK'
    BY <2>1 DEF QueuedOK, TypeOK, StageOK, DownOK
  <2>7. /\ TasksOK'
        /\ (~LiveReconcile => ApartOK' /\ RecordOK')
        /\ (~LiveReconcile /\ ~Orphans => FailedOK' /\ NoDuplicateEffect')
    BY <2>1 DEF TasksOK, TaskOK, ApartOK, Settled, HasState, RecordOK, Stored, Recorded, FailedOK,
       Failed, NoDuplicateEffect
  <2> QED
    BY <2>2, <2>3, <2>4, <2>5, <2>6, <2>7
<1>17. ASSUME NEW r \in Requests, Recover(r) PROVE IInv'
  <2>1. /\ UNCHANGED <<up, crashes, busy, stage, pending, session, left, child, answers, world,
           applied, journal, anchored, file, retried>>
        /\ rec = Quiet
        /\ (LiveReconcile \/ up = "down")
        /\ r \in anchored
    BY <1>17 DEF Recover, Bound, MayReconcile, vars, boundaryVars, childVars, diskVars
  <2>2. rec' \in Tasks /\ rec'.step = "verify" /\ rec'.req = r /\ rec'.verdict = "none"
    BY <1>17 DEF Recover, Bound, Steps, Tasks, TypeOK
  <2>3. TypeOK'
    BY <2>1, <2>2 DEF TypeOK, TasksOK, TaskOK
  <2>4. TasksOK'
    BY <2>1, <2>2 DEF TasksOK, TaskOK, Admitting, Settling, TypeOK
  <2>5. ~LiveReconcile => ApartOK'
    <3> SUFFICES ASSUME ~LiveReconcile PROVE ApartOK'
      OBVIOUS
    <3>1. rec'.step # "idle" => rec'.req \notin left'
          /\ (busy'.step # "idle" => busy'.req # rec'.req)
      BY <1>R, <2>1, <2>2 DEF ApartOK, TasksOK, TaskOK, DownOK, StageOK
    <3>2. ASSUME NEW s \in Requests, Settled(s)'
          PROVE  s \notin pending' /\ stage'[s] # "new"
      <4>1. Settled(s) \/ (s \notin pending' /\ stage'[s] # "new")
        BY <3>2, <2>1, <2>2 DEF ApartOK, Settled, HasState, Settling, Buckets, TypeOK, TasksOK,
           TaskOK, StageOK, Admitting, DownOK
      <4>2. Settled(s) => s \notin pending /\ stage[s] # "new"
        BY DEF ApartOK
      <4> QED
        BY <4>1, <4>2, <2>1, <2>2 DEF TypeOK, TasksOK, TaskOK, StageOK, Admitting, DownOK, Settled,
           Settling
    <3> QED
      BY <3>1, <3>2 DEF ApartOK
  <2>6. ~LiveReconcile => RecordOK'
    BY <2>1, <2>2 DEF RecordOK, Stored, Recorded, Buckets, TypeOK, TasksOK, TaskOK, StageOK,
       Admitting, ApartOK
  <2>7. ~LiveReconcile /\ ~Orphans => FailedOK'
    BY <2>1, <2>2 DEF FailedOK, Failed, Settling, TypeOK, TasksOK, TaskOK, StageOK, EffectsOK, Ran,
       QueuedOK, ApartOK, Settled, HasState
  <2>8. /\ StageOK'
        /\ DownOK'
        /\ EffectsOK'
        /\ (~LiveReconcile /\ ~Orphans => QueuedOK' /\ NoDuplicateEffect')
    BY <2>1 DEF StageOK, DownOK, EffectsOK, Ran, QueuedOK, NoDuplicateEffect
  <2> QED
    BY <2>3, <2>4, <2>5, <2>6, <2>7, <2>8
<1>18. ASSUME NEW r \in Requests, Reverify(r) PROVE IInv'
  <2>1. /\ UNCHANGED <<up, crashes, busy, stage, pending, session, left, child, answers, world,
           applied, journal, anchored, file, retried>>
        /\ rec = Quiet
        /\ (LiveReconcile \/ up = "down")
        /\ r \in anchored
    BY <1>18 DEF Reverify, Bound, MayReconcile, vars, boundaryVars, childVars, diskVars
  <2>2. rec' \in Tasks /\ rec'.step = "verify" /\ rec'.req = r /\ rec'.verdict = "none"
    BY <1>18 DEF Reverify, Bound, Steps, Tasks, TypeOK
  <2>3. TypeOK'
    BY <2>1, <2>2 DEF TypeOK, TasksOK, TaskOK
  <2>4. TasksOK'
    BY <2>1, <2>2 DEF TasksOK, TaskOK, Admitting, Settling, TypeOK
  <2>5. ~LiveReconcile => ApartOK'
    <3> SUFFICES ASSUME ~LiveReconcile PROVE ApartOK'
      OBVIOUS
    <3>1. rec'.step # "idle" => rec'.req \notin left'
          /\ (busy'.step # "idle" => busy'.req # rec'.req)
      BY <1>R, <2>1, <2>2 DEF ApartOK, TasksOK, TaskOK, DownOK, StageOK
    <3>2. ASSUME NEW s \in Requests, Settled(s)'
          PROVE  s \notin pending' /\ stage'[s] # "new"
      <4>1. Settled(s) \/ (s \notin pending' /\ stage'[s] # "new")
        BY <3>2, <2>1, <2>2 DEF ApartOK, Settled, HasState, Settling, Buckets, TypeOK, TasksOK,
           TaskOK, StageOK, Admitting, DownOK
      <4>2. Settled(s) => s \notin pending /\ stage[s] # "new"
        BY DEF ApartOK
      <4> QED
        BY <4>1, <4>2, <2>1, <2>2 DEF TypeOK, TasksOK, TaskOK, StageOK, Admitting, DownOK, Settled,
           Settling
    <3> QED
      BY <3>1, <3>2 DEF ApartOK
  <2>6. ~LiveReconcile => RecordOK'
    BY <2>1, <2>2 DEF RecordOK, Stored, Recorded, Buckets, TypeOK, TasksOK, TaskOK, StageOK,
       Admitting, ApartOK
  <2>7. ~LiveReconcile /\ ~Orphans => FailedOK'
    BY <2>1, <2>2 DEF FailedOK, Failed, Settling, TypeOK, TasksOK, TaskOK, StageOK, EffectsOK, Ran,
       QueuedOK, ApartOK, Settled, HasState
  <2>8. /\ StageOK'
        /\ DownOK'
        /\ EffectsOK'
        /\ (~LiveReconcile /\ ~Orphans => QueuedOK' /\ NoDuplicateEffect')
    BY <2>1 DEF StageOK, DownOK, EffectsOK, Ran, QueuedOK, NoDuplicateEffect
  <2> QED
    BY <2>3, <2>4, <2>5, <2>6, <2>7, <2>8
<1>19. CASE ReconcileVerify /\ ~Throws
  <2>1. /\ UNCHANGED <<up, crashes, busy, stage, pending, session, left, child, answers, world,
           applied, journal, anchored, file, retried>>
        /\ rec.step = "verify"
        /\ rec.req \in Requests
    BY <1>19 DEF ReconcileVerify, vars, boundaryVars, childVars, diskVars, TasksOK, TaskOK
  <2>2. rec' \in Tasks /\ rec'.step = "write" /\ rec'.req = rec.req
        /\ rec'.verdict = Observe(rec.req) /\ Observe(rec.req) \in Verdicts
        /\ (Observe(rec.req) = "confirmed_failure" => applied[rec.req] = 0)
    BY <1>19, ObserveType DEF ReconcileVerify, EffectsOK, Verified, TypeOK, Steps, TasksOK, TaskOK,
       Tasks
  <2>3. TypeOK'
    BY <2>1, <2>2 DEF TypeOK, TasksOK, TaskOK
  <2>4. TasksOK'
    BY <2>1, <2>2 DEF TasksOK, TaskOK, Admitting, Settling, TypeOK
  <2>5. ~LiveReconcile => ApartOK'
    <3> SUFFICES ASSUME ~LiveReconcile PROVE ApartOK'
      OBVIOUS
    <3>1. rec'.step # "idle" => rec'.req \notin left'
          /\ (busy'.step # "idle" => busy'.req # rec'.req)
      BY <1>R, <2>1, <2>2 DEF ApartOK, TasksOK, TaskOK, DownOK, StageOK
    <3>2. ASSUME NEW s \in Requests, Settled(s)'
          PROVE  s \notin pending' /\ stage'[s] # "new"
      <4>1. Settled(s) \/ (s \notin pending' /\ stage'[s] # "new")
        BY <3>2, <2>1, <2>2 DEF ApartOK, Settled, HasState, Settling, Buckets, TypeOK, TasksOK,
           TaskOK, StageOK, Admitting, DownOK
      <4>2. Settled(s) => s \notin pending /\ stage[s] # "new"
        BY DEF ApartOK
      <4> QED
        BY <4>1, <4>2, <2>1, <2>2 DEF TypeOK, TasksOK, TaskOK, StageOK, Admitting, DownOK, Settled,
           Settling
    <3> QED
      BY <3>1, <3>2 DEF ApartOK
  <2>6. ~LiveReconcile => RecordOK'
    BY <2>1, <2>2 DEF RecordOK, Stored, Recorded, Buckets, TypeOK, TasksOK, TaskOK, StageOK,
       Admitting, ApartOK
  <2>7. ~LiveReconcile /\ ~Orphans => FailedOK'
    BY <2>1, <2>2 DEF FailedOK, Failed, Settling, TypeOK, TasksOK, TaskOK, StageOK, EffectsOK, Ran,
       QueuedOK, ApartOK, Settled, HasState
  <2>8. /\ StageOK'
        /\ DownOK'
        /\ EffectsOK'
        /\ (~LiveReconcile /\ ~Orphans => QueuedOK' /\ NoDuplicateEffect')
    BY <2>1 DEF StageOK, DownOK, EffectsOK, Ran, QueuedOK, NoDuplicateEffect
  <2> QED
    BY <2>3, <2>4, <2>5, <2>6, <2>7, <2>8
<1>20. CASE ReconcilePersist
  <2>1. /\ UNCHANGED <<up, crashes, busy, stage, pending, session, left, child, answers, world,
           applied, anchored, retried>>
        /\ Persist(rec)
    BY <1>20 DEF ReconcilePersist, vars, boundaryVars, childVars, diskVars
  <2>2. PICK t \in Tasks : t = rec /\ TaskOK(t) /\ Persist(t) /\ rec' = NextTask(t)
    BY <1>20 DEF ReconcilePersist, Persist, WriteState, Supersede, ClearInflight, TypeOK, TasksOK
  <2>3. /\ t.step \in {"write", "supersede",
           "clear"} /\ t.req \in Requests /\ t.verdict \in Verdicts
        /\ rec' \in Tasks
        /\ t.step = "write" => rec'.step = "supersede" /\ rec'.req = t.req
           /\ rec'.verdict = t.verdict
        /\ t.step = "supersede" => rec'.step = "clear" /\ rec'.req = t.req
           /\ rec'.verdict = t.verdict
        /\ t.step = "clear" => rec' = Quiet
        /\ file' \in [Requests -> [Buckets -> Verdicts \cup {"none"}]]
        /\ \A s \in Requests \ {t.req} : file'[s] = file[s] /\ (s \in journal' <=> s \in journal)
        /\ journal' \subseteq journal
        /\ \A b \in Buckets : file'[t.req][b] \in {file[t.req][b], t.verdict, "none"}
        /\ t.step = "write" => file'[t.req][Bucket(t.verdict)] # "none" /\ journal' = journal
        /\ t.step = "supersede"
           => file'[t.req][Bucket(t.verdict)] = file[t.req][Bucket(t.verdict)] /\ journal' = journal
        /\ t.step = "clear" => file' = file
    BY <2>2, PersistStep
  <2>4. t = rec
    BY <2>2
  <2>5. TypeOK'
    BY <2>1, <2>3, <2>4 DEF TypeOK, TasksOK, TaskOK
  <2>6. TasksOK'
    BY <2>1, <2>3, <2>4 DEF TasksOK, TaskOK, Admitting, Settling, TypeOK
  <2>7. ~LiveReconcile => ApartOK'
    <3> SUFFICES ASSUME ~LiveReconcile PROVE ApartOK'
      OBVIOUS
    <3>1. rec'.step # "idle" => rec'.req \notin left'
          /\ (busy'.step # "idle" => busy'.req # rec'.req)
      BY <1>R, <2>1, <2>3, <2>4 DEF ApartOK, TasksOK, TaskOK, DownOK, StageOK
    <3>2. ASSUME NEW s \in Requests, Settled(s)'
          PROVE  s \notin pending' /\ stage'[s] # "new"
      <4>1. Settled(s) \/ (s \notin pending' /\ stage'[s] # "new")
        BY <3>2, <2>1, <2>3, <2>4 DEF ApartOK, Settled, HasState, Settling, Buckets, TypeOK,
           TasksOK, TaskOK, StageOK, Admitting, DownOK
      <4>2. Settled(s) => s \notin pending /\ stage[s] # "new"
        BY DEF ApartOK
      <4> QED
        BY <4>1, <4>2, <2>1, <2>3, <2>4 DEF TypeOK, TasksOK, TaskOK, StageOK, Admitting, DownOK,
           Settled, Settling
    <3> QED
      BY <3>1, <3>2 DEF ApartOK
  <2>8. ~LiveReconcile => RecordOK'
    <3> SUFFICES ASSUME ~LiveReconcile PROVE RecordOK'
      OBVIOUS
    <3>1. rec.step # "idle" => (busy.step # "idle" => busy.req # rec.req) /\ rec.req \in Requests
      BY <1>R DEF ApartOK
    <3>2. Stored(rec)'
      BY <2>1, <2>3, <2>4 DEF RecordOK, Stored
    <3>3. Stored(busy)'
      BY <2>1, <2>3, <2>4, <3>1 DEF RecordOK, Stored, TasksOK, TaskOK
    <3>4. busy'.step = "anchor" => busy'.req \in journal'
      BY <2>1, <2>3, <2>4, <3>1 DEF RecordOK, TasksOK, TaskOK
    <3>5. t.step # "write" => HasState(t.req)'
      <4>1. Bucket(t.verdict) \in Buckets
        BY DEF Bucket, Buckets
      <4> QED
        BY <2>3, <2>4, <4>1 DEF RecordOK, Stored, HasState
    <3>6. ASSUME NEW s \in Requests, stage[s] \in {"admitted", "forwarded"} PROVE Recorded(s)'
      <4>1. Recorded(s)
        BY <3>6 DEF RecordOK
      <4>2. CASE s # t.req
        BY <2>3, <4>1, <4>2 DEF Recorded
      <4>3. CASE s = t.req /\ t.step # "write"
        BY <3>5, <4>3 DEF Recorded, HasState
      <4>4. CASE s = t.req /\ t.step = "write"
        <5>1. Bucket(t.verdict) \in Buckets
          BY DEF Bucket, Buckets
        <5> QED
          BY <2>3, <4>4, <5>1 DEF Recorded
      <4> QED
        BY <4>2, <4>3, <4>4
    <3> QED
      BY <2>1, <3>2, <3>3, <3>4, <3>6 DEF RecordOK
  <2>9. ~LiveReconcile /\ ~Orphans => FailedOK'
    BY <2>1, <2>3, <2>4 DEF FailedOK, Failed, Settling, TypeOK, TasksOK, TaskOK, StageOK,
       EffectsOK, Ran, QueuedOK, ApartOK, Settled, HasState
  <2>10. /\ StageOK'
        /\ DownOK'
        /\ EffectsOK'
        /\ (~LiveReconcile /\ ~Orphans => QueuedOK' /\ NoDuplicateEffect')
    BY <2>1 DEF StageOK, DownOK, EffectsOK, Ran, QueuedOK, NoDuplicateEffect
  <2> QED
    BY <2>5, <2>6, <2>7, <2>8, <2>9, <2>10
<1>21. CASE ReconcileCrash \/ (ReconcileVerify /\ Throws)
  <2>1. /\ UNCHANGED <<up, busy, stage, pending, session, left, child, answers, world, applied,
           journal, anchored, file, retried>>
        /\ crashes' \in 0 .. MaxCrashes
        /\ rec' = Quiet
    BY <1>21, CrashAssumption DEF ReconcileCrash, ReconcileVerify, boundaryVars, childVars, TypeOK
  <2>2. rec' \in Tasks /\ rec'.step = "idle"
    BY <2>1
  <2>3. TypeOK'
    BY <2>1, <2>2 DEF TypeOK, TasksOK, TaskOK
  <2>4. TasksOK'
    BY <2>1, <2>2 DEF TasksOK, TaskOK, Admitting, Settling, TypeOK
  <2>5. ~LiveReconcile => ApartOK'
    <3> SUFFICES ASSUME ~LiveReconcile PROVE ApartOK'
      OBVIOUS
    <3>1. rec'.step # "idle" => rec'.req \notin left'
          /\ (busy'.step # "idle" => busy'.req # rec'.req)
      BY <1>R, <2>1, <2>2 DEF ApartOK, TasksOK, TaskOK, DownOK, StageOK
    <3>2. ASSUME NEW s \in Requests, Settled(s)'
          PROVE  s \notin pending' /\ stage'[s] # "new"
      <4>1. Settled(s) \/ (s \notin pending' /\ stage'[s] # "new")
        BY <3>2, <2>1, <2>2 DEF ApartOK, Settled, HasState, Settling, Buckets, TypeOK, TasksOK,
           TaskOK, StageOK, Admitting, DownOK
      <4>2. Settled(s) => s \notin pending /\ stage[s] # "new"
        BY DEF ApartOK
      <4> QED
        BY <4>1, <4>2, <2>1, <2>2 DEF TypeOK, TasksOK, TaskOK, StageOK, Admitting, DownOK, Settled,
           Settling
    <3> QED
      BY <3>1, <3>2 DEF ApartOK
  <2>6. ~LiveReconcile => RecordOK'
    BY <2>1, <2>2 DEF RecordOK, Stored, Recorded, Buckets, TypeOK, TasksOK, TaskOK, StageOK,
       Admitting, ApartOK
  <2>7. ~LiveReconcile /\ ~Orphans => FailedOK'
    BY <2>1, <2>2 DEF FailedOK, Failed, Settling, TypeOK, TasksOK, TaskOK, StageOK, EffectsOK, Ran,
       QueuedOK, ApartOK, Settled, HasState
  <2>8. /\ StageOK'
        /\ DownOK'
        /\ EffectsOK'
        /\ (~LiveReconcile /\ ~Orphans => QueuedOK' /\ NoDuplicateEffect')
    BY <2>1 DEF StageOK, DownOK, EffectsOK, Ran, QueuedOK, NoDuplicateEffect
  <2> QED
    BY <2>3, <2>4, <2>5, <2>6, <2>7, <2>8
<1>22. ASSUME NEW r \in Requests, Retry(r) PROVE IInv'
  <2>1. /\ UNCHANGED <<up, crashes, busy, stage, pending, session, left, child, answers, journal,
           anchored, file, rec>>
        /\ r \notin retried
        /\ HasState(r)
        /\ Failed(r)
        /\ retried' = retried \cup {r}
        /\ applied' = [applied EXCEPT ![r] = @ + 1]
        /\ world' = [world EXCEPT ![r] = "after"]
    BY <1>22 DEF Retry, vars, boundaryVars, childVars, diskVars, RetryPlan, DecideEffectRetry,
       LoadEffectState, HasState, Failed, Buckets
  <2>2. TypeOK'
    <3>1. world' \in [Requests -> {"before", "after", "other"}]
      BY <2>1 DEF TypeOK
    <3>2. applied[r] \in 0 .. 2 /\ applied[r] <= 1
      BY <2>1 DEF TypeOK, EffectsOK, Ran
    <3>3. applied' \in [Requests -> 0 .. 2]
      BY <2>1, <3>2 DEF TypeOK
    <3> QED
      BY <2>1, <3>1, <3>3 DEF TypeOK
  <2>3. EffectsOK'
    BY <2>1 DEF EffectsOK, Ran, TypeOK, StageOK
  <2>4. ~LiveReconcile => ApartOK'
    <3> SUFFICES ASSUME ~LiveReconcile PROVE ApartOK'
      OBVIOUS
    <3>1. rec'.step # "idle" => rec'.req \notin left'
          /\ (busy'.step # "idle" => busy'.req # rec'.req)
      BY <1>R, <2>1 DEF ApartOK, TasksOK, TaskOK, DownOK, StageOK
    <3>2. ASSUME NEW s \in Requests, Settled(s)'
          PROVE  s \notin pending' /\ stage'[s] # "new"
      <4>1. Settled(s) \/ (s \notin pending' /\ stage'[s] # "new")
        BY <3>2, <2>1 DEF ApartOK, Settled, HasState, Settling, Buckets, TypeOK, TasksOK, TaskOK,
           StageOK, Admitting, DownOK
      <4>2. Settled(s) => s \notin pending /\ stage[s] # "new"
        BY DEF ApartOK
      <4> QED
        BY <4>1, <4>2, <2>1 DEF TypeOK, TasksOK, TaskOK, StageOK, Admitting, DownOK, Settled,
           Settling
    <3> QED
      BY <3>1, <3>2 DEF ApartOK
  <2>5. ~LiveReconcile /\ ~Orphans => FailedOK'
    BY <2>1 DEF FailedOK, Failed, Settling, TypeOK, TasksOK, TaskOK, StageOK, EffectsOK, Ran,
       QueuedOK, ApartOK, Settled, HasState
  <2>6. ~LiveReconcile /\ ~Orphans => NoDuplicateEffect'
    BY <2>1 DEF NoDuplicateEffect, FailedOK, TypeOK
  <2>7. /\ TasksOK'
        /\ StageOK'
        /\ DownOK'
        /\ (~LiveReconcile => RecordOK')
        /\ (~LiveReconcile /\ ~Orphans => QueuedOK')
    BY <2>1 DEF TasksOK, TaskOK, StageOK, DownOK, RecordOK, Stored, Recorded, QueuedOK
  <2> QED
    BY <2>2, <2>3, <2>4, <2>5, <2>6, <2>7
<1>23. CASE UNCHANGED vars
  <2>1. UNCHANGED <<up, crashes, busy, stage, pending, session, left, child, answers, world,
        applied, journal, anchored, file, rec, retried>>
    BY <1>23 DEF vars, boundaryVars, childVars, diskVars
  <2>2. TypeOK' /\ TasksOK' /\ StageOK'
    BY <2>1 DEF TypeOK, TasksOK, TaskOK, StageOK
  <2>3. DownOK' /\ EffectsOK' /\ (~LiveReconcile => ApartOK' /\ RecordOK')
    BY <2>1 DEF DownOK, EffectsOK, Ran, ApartOK, Settled, HasState, RecordOK, Stored, Recorded
  <2>4. ~LiveReconcile /\ ~Orphans => QueuedOK' /\ FailedOK' /\ NoDuplicateEffect'
    BY <2>1 DEF QueuedOK, FailedOK, Failed, NoDuplicateEffect
  <2> QED
    BY <2>2, <2>3, <2>4
<1> HIDE DEF IInv
<1> QED
  BY <1>1, <1>2, <1>3, <1>4, <1>5, <1>6, <1>7, <1>8, <1>9, <1>10, <1>11, <1>12, <1>13, <1>14,
     <1>15, <1>16, <1>17, <1>18, <1>19, <1>20, <1>21, <1>22, <1>23, Zenon DEF Next, Boundary,
     Reconcile

\* The invariant always holds.
LEMMA Invariance == Spec => []IInv
  BY InitInv, StepInv, PTL DEF Spec

---------------------------------------------------------------------------
(* The theorems.                                                           *)

\* The state of boundary, child, disk and reconciler keeps its types; no
\* request is admitted, forwarded or run more often than the types allow.
THEOREM EffectTypeCorrect == Spec => []TypeOK
<1>1. IInv => TypeOK
  BY DEF IInv
<1> QED
  BY <1>1, Invariance, PTL

\* If `effect reconcile` never runs beside a live boundary, a forwarded call
\* has its journal entry or an effect state on disk whenever a process may
\* crash: persistEffectState and the clearing of the journal leave no gap.
THEOREM ForwardRecorded == ~LiveReconcile => (Spec => []ForwardedIsRecorded)
<1> SUFFICES ASSUME ~LiveReconcile
             PROVE  Spec => []ForwardedIsRecorded
  OBVIOUS
<1>1. IInv => ForwardedIsRecorded
  BY DEF IInv, RecordOK, ForwardedIsRecorded
<1> QED
  BY <1>1, Invariance, PTL

\* If also no child outlives its boundary, an effect happens at most once even
\* where an operator retries what decideEffectRetry says is safe to retry.
THEOREM NoDuplicate == ~LiveReconcile /\ ~Orphans => (Spec => []NoDuplicateEffect)
<1> SUFFICES ASSUME ~LiveReconcile, ~Orphans
             PROVE  Spec => []NoDuplicateEffect
  OBVIOUS
<1>1. IInv => NoDuplicateEffect
  BY DEF IInv
<1> QED
  BY <1>1, Invariance, PTL

\* Under the same two conditions a state that says confirmed_failure means
\* that the effect did not take place before a retry.
THEOREM FailureIsSound == ~LiveReconcile /\ ~Orphans => (Spec => []ResolvedFailureMeansNoEffect)
<1> SUFFICES ASSUME ~LiveReconcile, ~Orphans
             PROVE  Spec => []ResolvedFailureMeansNoEffect
  OBVIOUS
<1>1. IInv => ResolvedFailureMeansNoEffect
  <2> SUFFICES ASSUME IInv, NEW r \in Requests, LoadEffectState(r) = "confirmed_failure",
      r \notin retried
               PROVE  applied[r] = 0
    BY DEF ResolvedFailureMeansNoEffect
  <2>1. Failed(r)
    BY DEF LoadEffectState, Failed, Buckets
  <2> QED
    BY <2>1 DEF IInv, FailedOK
<1> QED
  BY <1>1, Invariance, PTL
=============================================================================
