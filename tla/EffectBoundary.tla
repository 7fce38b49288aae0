--------------------------- MODULE EffectBoundary ---------------------------
(***************************************************************************)
(* The life of a consequential stdio MCP call: admission by                *)
(* StdioMcpEffectBoundary.beforeForward (lease, inflight journal, evidence *)
(* anchor), the forward to the child, the child's work, finalisation       *)
(* (cli/src/stdio-effect-boundary.js), and recovery and reconciliation of  *)
(* what a crash left behind (cli/src/effect-state.js).                     *)
(*                                                                         *)
(* The boundary is one process with one event loop: beforeForward and      *)
(* #finalize contain no await, so each runs to its end before another      *)
(* starts, but it may crash between two of its file operations, and the    *)
(* reconciler is another process that interleaves with all of them.  An    *)
(* exception in either is fatal to the wrapper and so is a crash here.     *)
(*                                                                         *)
(* The evidence log is damaged for good once an append was cut short: the  *)
(* recorder appends nothing to it any more and no verifier accepts it.     *)
(***************************************************************************)
EXTENDS Naturals, FiniteSets

CONSTANTS
    Requests,       \* consequential tools/call requests, one effect id each
    IdOf,           \* JSON-RPC id of each request
    Profiled,       \* the requests with a verifier contract
    Idempotent,     \* ... whose contract says idempotent (retry_safe)
    MaxCrashes,     \* bound: crashes of the boundary
    LiveReconcile,  \* TRUE iff `effect reconcile` may run beside a live boundary
    Orphans,        \* TRUE iff a child may go on after its boundary crashed
    IOErrors,       \* TRUE iff appends may be cut short, renames and unlinks fail
    NoReq

ASSUME ProfileAssumption == Idempotent \subseteq Profiled /\ Profiled \subseteq Requests
ASSUME SwitchAssumption == {LiveReconcile, Orphans, IOErrors} \subseteq BOOLEAN
ASSUME CrashAssumption == MaxCrashes \in Nat
ASSUME NoReqAssumption == NoReq \notin Requests

VARIABLES
    up,         \* the boundary process: "up" or "down"
    crashes,
    busy,       \* what the boundary's event loop is in the middle of
    stage,      \* how far each request has come
    pending,    \* this.pending: requests waiting for their response
    session,    \* the child: "open", "exited", or "closing" once the wrapper knows
    left,       \* the entries finalizeUnresolved has still to finalise
    child,      \* the child's work on each request
    answers,    \* responses on their way from the child
    world,      \* the resource, as a verifier sees it
    applied,    \* history: how often the effect took place
    journal,    \* effects/inflight
    anchored,   \* effects whose binding digest is in the evidence chain
    log,        \* the evidence log: what a reader and the next append find
    file,       \* effects/pending and effects/resolved
    rec,        \* the reconciler process
    retried     \* requests an operator has retried, following the retry plan

boundaryVars == <<up, crashes, busy, stage, pending, session, left>>
childVars == <<child, answers, world, applied>>
diskVars == <<journal, anchored, log, file>>
vars == <<boundaryVars, childVars, diskVars, rec, retried>>

Verdicts == {"confirmed_success", "confirmed_failure", "partial_or_ambiguous", "unknown"}
Buckets == {"pending", "resolved"}
NoFile == [b \in Buckets |-> "none"]

\* "torn": a line is not JSON.  A log that lacks only its last newline reads
\* as whole, and the next append, which completes no line of its own, tears it.
Logs == {"whole", "torn"}

Quiet == [step |-> "idle", req |-> NoReq, verdict |-> "none"]
Steps == {"idle", "journal", "anchor", "verify", "write", "supersede", "clear"}
Tasks == [step : Steps, req : Requests \cup {NoReq}, verdict : Verdicts \cup {"none"}]

\* Type invariant.
TypeOK ==
    /\ up \in {"up", "down"} /\ crashes \in 0 .. MaxCrashes
    /\ busy \in Tasks /\ rec \in Tasks
    /\ stage \in [Requests -> {"new", "admitted", "forwarded", "refused", "lost"}]
    /\ child \in [Requests -> {"none", "queued", "ran", "done", "gone"}]
    /\ session \in {"open", "exited", "closing"} /\ left \subseteq Requests
    /\ pending \subseteq Requests /\ answers \subseteq Requests
    /\ world \in [Requests -> {"before", "after", "other"}]
    /\ applied \in [Requests -> 0 .. 2]
    /\ journal \subseteq Requests /\ anchored \subseteq Requests /\ log \in Logs
    /\ file \in [Requests -> [Buckets -> Verdicts \cup {"none"}]]
    /\ retried \subseteq Requests

Init ==
    /\ up = "up" /\ session = "open" /\ left = {} /\ crashes = 0 /\ busy = Quiet /\ rec = Quiet
    /\ stage = [r \in Requests |-> "new"]
    /\ child = [r \in Requests |-> "none"]
    /\ pending = {} /\ answers = {} /\ journal = {} /\ anchored = {} /\ retried = {}
    /\ log = "whole"
    /\ world = [r \in Requests |-> "before"]
    /\ applied = [r \in Requests |-> 0]
    /\ file = [r \in Requests |-> NoFile]

---------------------------------------------------------------------------
(* Verification and retry disposition (execution/effect-verification.js)   *)

\* Mutant of Observe: whatever is not the postcondition is a failure.
ObserveTwoValued(r) == IF r \notin Profiled THEN "unknown"
                       ELSE IF world[r] = "after" THEN "confirmed_success"
                       ELSE "confirmed_failure"

\* verifyContract / verifySpec: the postcondition holds, the captured
\* pre-dispatch state still holds, or neither; no contract, no knowledge.
Observe(r) ==
    IF r \notin Profiled THEN "unknown"
    ELSE CASE world[r] = "after" -> "confirmed_success"
           [] world[r] = "before" -> "confirmed_failure"
           [] world[r] = "other" -> "partial_or_ambiguous"

Unresolved == {"partial_or_ambiguous", "unknown"}

\* decideEffectRetry, for the verdicts a bound record can have.
DecideEffectRetry(r, verdict) ==
    CASE verdict = "confirmed_success" -> "do_not_retry"
      [] verdict = "confirmed_failure" /\ r \in Idempotent -> "safe_to_retry_with_new_authority"
      [] OTHER -> "verify_before_retry"

\* loadEffectState prefers the pending bucket; retryPlan reads what it finds.
LoadEffectState(r) == IF file[r]["pending"] # "none" THEN file[r]["pending"]
                      ELSE file[r]["resolved"]

RetryPlan(r) == IF LoadEffectState(r) = "none" THEN "none"
                ELSE DecideEffectRetry(r, LoadEffectState(r))

---------------------------------------------------------------------------
(* EvidenceRecorder: an append may be cut short, or glued to a line that   *)
(* was, and be reported as done (the byte count of writeSync is ignored);  *)
(* from then on appends and verifications throw.                           *)

Append == log' = log \/ (IOErrors /\ log' = "torn")
Throws == log = "torn"

---------------------------------------------------------------------------
(* persistEffectState, three file operations of the boundary or the        *)
(* reconciler                                                              *)

Bucket(verdict) == IF verdict \in Unresolved THEN "pending" ELSE "resolved"
Other(bucket) == IF bucket = "pending" THEN "resolved" ELSE "pending"

WriteState(r, verdict) == file' = [file EXCEPT ![r][Bucket(verdict)] = verdict]

\* The file in the other bucket is renamed away; a failure is swallowed.
Supersede(r, verdict) ==
    \/ file' = [file EXCEPT ![r][Other(Bucket(verdict))] = "none"]
    \/ IOErrors /\ UNCHANGED file

\* The journal's file is unlinked; a failure is swallowed.
ClearInflight(r) == journal' = journal \ {r} \/ (IOErrors /\ UNCHANGED journal)

\* One step of a task at or after verification; NextTask is its successor.
Persist(task) ==
    \/ /\ task.step = "write" /\ WriteState(task.req, task.verdict)
       /\ UNCHANGED journal
    \/ /\ task.step = "supersede" /\ Supersede(task.req, task.verdict)
       /\ UNCHANGED journal
    \/ /\ task.step = "clear" /\ ClearInflight(task.req)
       /\ UNCHANGED file

NextTask(task) == CASE task.step = "write" -> [task EXCEPT !.step = "supersede"]
                    [] task.step = "supersede" -> [task EXCEPT !.step = "clear"]
                    [] task.step = "clear" -> Quiet

Verified(task) == [task EXCEPT !.step = "write", !.verdict = Observe(task.req)]

---------------------------------------------------------------------------
(* beforeForward                                                           *)

InUse(id) == \E r \in pending : IdOf[r] = id

\* Mutant of Admit: the inflight journal is not written.
AdmitUnjournaled(r) == /\ up = "up" /\ busy = Quiet /\ stage[r] = "new" /\ ~InUse(IdOf[r])
                       /\ busy' = [Quiet EXCEPT !.step = "anchor", !.req = r]
                       /\ UNCHANGED <<up, crashes, stage, pending, session, left, childVars,
                                      diskVars, rec, retried>>

\* A lease is built and consumed for the request.
Admit(r) == /\ up = "up" /\ busy = Quiet /\ stage[r] = "new" /\ ~InUse(IdOf[r])
            /\ busy' = [Quiet EXCEPT !.step = "journal", !.req = r]
            /\ UNCHANGED <<up, crashes, stage, pending, session, left, childVars, diskVars, rec, retried>>

\* Mutant of Refuse: a refused request gets a state of its own making.
RefuseUnknown(r) == /\ up = "up" /\ busy = Quiet /\ stage[r] = "new" /\ InUse(IdOf[r])
                    /\ stage' = [stage EXCEPT ![r] = "duplicate"]
                    /\ UNCHANGED <<up, crashes, busy, pending, session, left, childVars,
                                   diskVars, rec, retried>>

\* "another consequential MCP request with the same JSON-RPC id is still unresolved"
Refuse(r) == /\ up = "up" /\ busy = Quiet /\ stage[r] = "new" /\ InUse(IdOf[r])
             /\ stage' = [stage EXCEPT ![r] = "refused"]
             /\ UNCHANGED <<up, crashes, busy, pending, session, left, childVars, diskVars, rec, retried>>

\* persistInflightEffect, then this.pending.set.
Journal == /\ up = "up" /\ busy.step = "journal"
           /\ journal' = journal \cup {busy.req}
           /\ pending' = pending \cup {busy.req}
           /\ busy' = [busy EXCEPT !.step = "anchor"]
           /\ UNCHANGED <<up, crashes, stage, session, left, childVars, anchored, log, file, rec, retried>>

\* Mutant of Anchor: the evidence event lacks the binding digest.
AnchorUnbound == /\ up = "up" /\ busy.step = "anchor" /\ ~Throws
                 /\ stage' = [stage EXCEPT ![busy.req] = "admitted"]
                 /\ busy' = Quiet
                 /\ UNCHANGED <<up, crashes, pending, session, left, childVars, diskVars, rec, retried>>

\* The lease-consumed event carries the binding digest into the evidence.
Anchor == /\ up = "up" /\ busy.step = "anchor" /\ ~Throws /\ Append
          /\ anchored' = anchored \cup {busy.req}
          /\ stage' = [stage EXCEPT ![busy.req] = "admitted"]
          /\ busy' = Quiet
          /\ UNCHANGED <<up, crashes, pending, session, left, childVars, journal, file, rec, retried>>

\* childStdin.write, after the awaits of the gate (and of the batch).
Forward(r) == /\ up = "up" /\ busy = Quiet /\ stage[r] = "admitted"
              /\ stage' = [stage EXCEPT ![r] = "forwarded"]
              /\ child' = [child EXCEPT ![r] = IF session = "open" THEN "queued" ELSE "gone"]
              /\ UNCHANGED <<up, crashes, busy, pending, session, left, answers, world, applied,
                             diskVars, rec, retried>>

---------------------------------------------------------------------------
(* observeJson, finalizeUnresolved, #finalize                              *)

Finalize(r) == /\ pending' = pending \ {r}
               /\ busy' = [Quiet EXCEPT !.step = "verify", !.req = r]

Observed(r) == /\ up = "up" /\ busy = Quiet /\ r \in answers \cap pending
               /\ Finalize(r)
               /\ answers' = answers \ {r}
               /\ UNCHANGED <<up, crashes, stage, session, left, child, world, applied,
                              diskVars, rec, retried>>

\* The 'close' event, once all output of the child has been observed.
Close == /\ up = "up" /\ busy = Quiet /\ session = "exited" /\ answers \cap pending = {}
         /\ session' = "closing" /\ left' = pending
         /\ UNCHANGED <<up, crashes, busy, stage, pending, childVars, diskVars, rec, retried>>

\* Every entry left is finalised as ambiguous.
FinalizeUnresolved(r) ==
    /\ up = "up" /\ busy = Quiet /\ r \in left
    /\ Finalize(r)
    /\ left' = left \ {r}
    /\ UNCHANGED <<up, crashes, stage, session, childVars, diskVars, rec, retried>>

\* Both appends of #finalize, with the verification between them.
FinalizeVerify == /\ up = "up" /\ busy.step = "verify" /\ ~Throws /\ Append
                  /\ busy' = Verified(busy)
                  /\ UNCHANGED <<up, crashes, stage, pending, session, left, childVars,
                                 journal, anchored, file, rec, retried>>

FinalizePersist == /\ up = "up"
                   /\ Persist(busy)
                   /\ busy' = NextTask(busy)
                   /\ UNCHANGED <<up, crashes, stage, pending, session, left, childVars,
                                  anchored, log, rec, retried>>

\* What ends with the wrapper: requests it has not forwarded.
Lost == [r \in Requests |-> IF stage[r] = "admitted" \/ (stage[r] = "new" /\ busy.req = r)
                            THEN "lost" ELSE stage[r]]

\* The wrapper's memory is lost.  The child loses what it had not started,
\* unless it lives on.
Die == /\ up' = "down"
       /\ busy' = Quiet /\ pending' = {} /\ left' = {} /\ stage' = Lost
       /\ answers' = {}
       /\ child' = [r \in Requests |-> IF child[r] = "queued" /\ ~Orphans
                                       THEN "gone" ELSE child[r]]
       /\ UNCHANGED <<session, world, applied, journal, anchored, file, rec, retried>>

\* The wrapper dies, perhaps in the middle of an append.
Crash == /\ up = "up" /\ crashes < MaxCrashes
         /\ crashes' = crashes + 1
         /\ Append
         /\ Die

\* The recorder throws: on a torn log, or at the second append of #finalize
\* when the first has torn it.
AppendThrows == /\ up = "up"
                /\ \/ busy.step \in {"anchor", "verify"} /\ Throws
                   \/ busy.step = "verify" /\ IOErrors
                /\ log' = "torn"
                /\ Die
                /\ UNCHANGED crashes

\* Nothing is left to finalise: the wrapper ends, whatever was admitted since.
Exit == /\ up = "up" /\ busy = Quiet /\ session = "closing" /\ left = {}
        /\ up' = "down" /\ pending' = {} /\ stage' = Lost
        /\ UNCHANGED <<crashes, busy, session, left, childVars, diskVars, rec, retried>>

\* A new wrapper with a new child.
Restart == /\ up = "down"
           /\ up' = "up" /\ session' = "open"
           /\ UNCHANGED <<crashes, busy, stage, pending, left, childVars, diskVars, rec, retried>>

---------------------------------------------------------------------------
(* The child and its resources                                             *)

\* The effect takes place, in full or in part, or not at all.
ChildRun(r) == /\ child[r] = "queued"
               /\ child' = [child EXCEPT ![r] = "ran"]
               /\ \/ /\ world' \in {[world EXCEPT ![r] = w] : w \in {"after", "other"}}
                     /\ applied' = [applied EXCEPT ![r] = @ + 1]
                  \/ UNCHANGED <<world, applied>>
               /\ UNCHANGED <<boundaryVars, answers, diskVars, rec, retried>>

\* A response; without a boundary to read it, it is lost.
ChildAnswer(r) == /\ child[r] = "ran"
                  /\ child' = [child EXCEPT ![r] = "done"]
                  /\ answers' = IF up = "up" THEN answers \cup {r} ELSE answers
                  /\ UNCHANGED <<boundaryVars, world, applied, diskVars, rec, retried>>

\* The child exits: what it has not answered it will not answer.
ChildExit == /\ up = "up" /\ session = "open"
             /\ session' = "exited"
             /\ child' = [r \in Requests |-> IF r \in pending /\ child[r] \in {"queued", "ran"}
                                             THEN "gone" ELSE child[r]]
             /\ UNCHANGED <<up, crashes, busy, stage, pending, left, answers, world, applied,
                            diskVars, rec, retried>>

---------------------------------------------------------------------------
(* recoverInflightEffects, reverifyEffect, reconcilePendingEffects         *)

MayReconcile == rec = Quiet /\ (LiveReconcile \/ up = "down")

\* assertStateBinding: the binding is in a chain that verifies as a whole.
Bound(r) == r \in anchored /\ ~Throws

\* An intent that is not bound is left in the journal for manual review.
Recover(r) == /\ MayReconcile /\ r \in journal /\ Bound(r)
              /\ rec' = [Quiet EXCEPT !.step = "verify", !.req = r]
              /\ UNCHANGED <<boundaryVars, childVars, diskVars, retried>>

\* Without a verifier specification the state is left for manual review.
Reverify(r) == /\ MayReconcile /\ LoadEffectState(r) # "none" /\ r \in Profiled /\ Bound(r)
               /\ rec' = [Quiet EXCEPT !.step = "verify", !.req = r]
               /\ UNCHANGED <<boundaryVars, childVars, diskVars, retried>>

\* The verification and the append of its result; an error is caught and
\* reported, and nothing is persisted.
ReconcileVerify == /\ rec.step = "verify"
                   /\ Append
                   /\ rec' = IF Throws THEN Quiet ELSE Verified(rec)
                   /\ UNCHANGED <<boundaryVars, childVars, journal, anchored, file, retried>>

ReconcilePersist == /\ Persist(rec)
                    /\ rec' = NextTask(rec)
                    /\ UNCHANGED <<boundaryVars, childVars, anchored, log, retried>>

ReconcileCrash == /\ rec # Quiet /\ crashes < MaxCrashes
                  /\ rec' = Quiet /\ crashes' = crashes + 1
                  /\ Append
                  /\ UNCHANGED <<up, busy, stage, pending, session, left, childVars,
                                 journal, anchored, file, retried>>

\* Whoever follows the retry plan repeats the action, with new authority.
Retry(r) == /\ r \notin retried /\ RetryPlan(r) = "safe_to_retry_with_new_authority"
            /\ retried' = retried \cup {r}
            /\ applied' = [applied EXCEPT ![r] = @ + 1]
            /\ world' = [world EXCEPT ![r] = "after"]
            /\ UNCHANGED <<boundaryVars, child, answers, diskVars, rec>>

---------------------------------------------------------------------------

Boundary == \/ Close \/ Exit \/ Journal \/ Anchor \/ FinalizeVerify \/ FinalizePersist
            \/ AppendThrows
            \/ \E r \in Requests : Forward(r) \/ Observed(r) \/ FinalizeUnresolved(r)

Reconcile == \/ ReconcileVerify \/ ReconcilePersist

Next == \/ Boundary \/ Reconcile
        \/ \E r \in Requests : \/ Admit(r) \/ Refuse(r) \/ ChildRun(r) \/ ChildAnswer(r)
                               \/ Recover(r) \/ Reverify(r) \/ Retry(r)
        \/ Crash \/ Restart \/ ChildExit \/ ReconcileCrash

Spec == Init /\ [][Next]_vars

\* Live processes keep running, an MCP session ends some time, and somebody
\* runs `ruleoak effect reconcile` as long as it has inflight effects to
\* recover.
Fairness == /\ WF_vars(Boundary) /\ WF_vars(Reconcile)
            /\ WF_vars(ChildExit)
            /\ \A r \in Requests : SF_vars(Recover(r))

FairSpec == Spec /\ Fairness

---------------------------------------------------------------------------
(* Properties                                                              *)

Recorded(r) == r \in journal \/ \E b \in Buckets : file[r][b] # "none"

\* From the forward on there is always something on disk that says so, the
\* journal or an effect state, at every point where a process may crash.
ForwardedIsRecorded == \A r \in Requests : stage[r] = "forwarded" => Recorded(r)

\* Whoever follows the retry plan never makes an effect happen twice, as long
\* as no child outlives its boundary: verdicts that permit a retry are sound.
NoDuplicateEffect == \A r \in Requests : applied[r] <= 1

\* A resolved failure means that the effect did not take place.
ResolvedFailureMeansNoEffect ==
    \A r \in Requests : LoadEffectState(r) = "confirmed_failure" => applied[r] = 0 \/ r \in retried

\* Every forwarded call ends in an effect state, whatever crashes and
\* whichever rename or unlink fails, unless the evidence log is torn: then no
\* verification gets past the chain and the call stays in the journal, for
\* manual review (ForwardedIsRecorded).
ForwardedIsSettled ==
    \A r \in Requests : stage[r] = "forwarded"
                        ~> (\E b \in Buckets : file[r][b] # "none") \/ log = "torn"
============================================================================
