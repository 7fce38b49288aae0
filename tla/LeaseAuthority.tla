--------------------------- MODULE LeaseAuthority ---------------------------
(***************************************************************************)
(* Issue, revocation and consumption of one-use execution leases by        *)
(* concurrent processes that share a workspace directory:                  *)
(*   issueExecutionLease, consumeExecutionLease (execution/lease.js),      *)
(*   consumeApprovalResultForLease (approval/contract.js) and              *)
(*   RevocationRegistry (authority/revocation.js).                         *)
(* Every operation is synchronous JavaScript, so a process runs one at a   *)
(* time; processes interleave between file-system calls and may crash at   *)
(* any of them.  Markers are DurableMarker's, the registry lock is Mutex's.*)
(***************************************************************************)
EXTENDS Naturals, FiniteSets

CONSTANTS
    Procs,
    Leases,         \* lease ids (randomUUID: each is drawn once)
    Approvals,      \* allow ApprovalResults
    Bases,          \* authorities an authorization result may carry (grant, envelope)
    Direct,         \* Direct[b]: the grant and envelope themselves
    Above,          \* Above[b]: ancestor grants and the principals of the chain
    From, Until,    \* Until[b], Until[a]: validity windows of bases and approvals
    Ttl,            \* ttlMs
    MaxTime,        \* bound on the clock
    MaxRecords,     \* the registry's maxRecords
    Revocations,    \* bound: the revocations that may be asked for
    OpenErrors, WriteErrors,
    Unregistered,   \* TRUE iff some callers pass no revocationRegistry
    NoProc, NoKey, NoData

Subjects == Leases \cup UNION {Direct[b] \cup Above[b] : b \in Bases}

ASSUME BasesAssumption == /\ From \in [Bases \cup Approvals -> Nat]
                          /\ Until \in [Bases \cup Approvals -> Nat]
ASSUME BoundsAssumption == Ttl \in Nat /\ MaxTime \in Nat /\ MaxRecords \in Nat
ASSUME RevocationsAssumption == Revocations \subseteq [subject : Subjects, cascade : BOOLEAN, at : Nat]
ASSUME DisjointAssumption == Leases \cap Approvals = {}

VARIABLES
    now,        \* the wall clock
    lease,      \* lease[l]: what was issued under lease id l
    registry,   \* the revocation file: a set of records
    lock,       \* the processes inside the registry's withExclusive
    job,        \* the operation each process is in
    marker, create, wins

vars == <<now, lease, registry, lock, job, marker, create, wins>>

Keys == Leases \cup Approvals

ASSUME MarkerAssumption == /\ NoProc \notin Procs /\ NoKey \notin Keys /\ NoData \notin Leases
                           /\ OpenErrors \subseteq Keys /\ WriteErrors \in BOOLEAN
ASSUME CallersAssumption == Unregistered \in BOOLEAN

Marker == INSTANCE DurableMarker WITH Data <- Leases
Lock == INSTANCE Mutex WITH inside <- lock

Times == 0 .. MaxTime

Unissued == [state |-> "undrawn", basis |-> NoKey, approval |-> NoKey,
             notBefore |-> 0, expires |-> 0]

Idle == [pc |-> "idle", lease |-> NoData, approval |-> NoKey, basis |-> NoKey,
         checked |-> FALSE, at |-> 0, rec |-> {}, loaded |-> {}]

Labels == {"idle", "dead",
           "useApproval", "build",
           "lockConsume", "verify", "exists", "consume",
           "lockRevoke", "persist"}

\* Type invariant.
TypeOK ==
    /\ now \in Times
    /\ lease \in [Leases -> [state : {"undrawn", "drawn", "issued"},
                             basis : Bases \cup {NoKey},
                             approval : Approvals \cup {NoKey},
                             notBefore : Nat, expires : Nat]]
    /\ registry \subseteq Revocations
    /\ lock \subseteq Procs
    /\ job \in [Procs -> [pc : Labels, lease : Leases \cup {NoData},
                          approval : Approvals \cup {NoKey}, basis : Bases \cup {NoKey},
                          checked : BOOLEAN, at : Times,
                          rec : SUBSET Revocations, loaded : SUBSET Revocations]]
    /\ Marker!MarkerTypeOK

Init == /\ now = 0
        /\ lease = [l \in Leases |-> Unissued]
        /\ registry = {}
        /\ lock = {}
        /\ job = [p \in Procs |-> Idle]
        /\ Marker!MarkerInit

---------------------------------------------------------------------------
(* _isRevokedUnlocked                                                      *)

\* A record of a direct subject counts always, one of an ancestor only when
\* it cascades; both only from their revoked_at on.
IsRevoked(direct, ancestors, t) ==
    \E r \in registry : /\ r.at <= t
                        /\ \/ r.subject \in direct
                           \/ r.cascade /\ r.subject \in ancestors

\* Issuance asks about the grant and the envelope, ...
BasisRevoked(b, t) == IsRevoked(Direct[b], Above[b], t)

\* ... consumption about the lease, whose ancestors they are by then (a
\* lease from a grant of version 1.1 carries all of them).
LeaseRevoked(l, t) == IsRevoked({l}, Direct[lease[l].basis] \cup Above[lease[l].basis], t)

ApprovalActive(a, t) == From[a] <= t /\ t < Until[a]

---------------------------------------------------------------------------
(* issueExecutionLease                                                     *)

Job(p, pc) == job' = [job EXCEPT ![p].pc = pc]
Done(p) == job' = [job EXCEPT ![p] = Idle]

\* The lease id is drawn; an approval-bound lease first spends its approval.
Issue(p, l, a, b) ==
    /\ job[p].pc = "idle" /\ lease[l].state = "undrawn"
    /\ lease' = [lease EXCEPT ![l].state = "drawn"]
    /\ IF a = NoKey
       THEN /\ job' = [job EXCEPT ![p] = [Idle EXCEPT !.pc = "build", !.lease = l, !.basis = b]]
            /\ UNCHANGED <<marker, create, wins>>
       ELSE /\ ApprovalActive(a, now)
            /\ job' = [job EXCEPT ![p] = [Idle EXCEPT !.pc = "useApproval", !.lease = l,
                                                      !.basis = b, !.approval = a]]
            /\ Marker!Start(p, a, l)
    /\ UNCHANGED <<now, registry, lock>>

\* use.ok, or the error that ends the call.
ApprovalUsed(p) ==
    /\ job[p].pc = "useApproval"
    /\ IF create[p].step = "created" THEN Job(p, "build") ELSE Done(p)
    /\ Marker!Return(p)
    /\ UNCHANGED <<now, lease, registry, lock>>

MinOf(S) == CHOOSE x \in S : \A y \in S : x <= y
MaxOf(S) == CHOOSE x \in S : \A y \in S : x >= y

WindowStart(b) == MaxOf({now, From[b]})
\* Mutant of WindowEnd: the validity of authority and approval is ignored.
WindowEndTtlOnly(b, a) == now + Ttl

WindowEnd(b, a) == MinOf({now + Ttl, Until[b]} \cup (IF a = NoKey THEN {} ELSE {Until[a]}))

\* The checks of buildExecutionLease, with a clock read of its own.
Buildable(p) ==
    LET j == job[p] IN
    /\ j.approval # NoKey => /\ ApprovalActive(j.approval, now)
                             /\ marker[j.approval].state = "full"
                             /\ marker[j.approval].data = j.lease
    /\ ~BasisRevoked(j.basis, now)
    /\ WindowStart(j.basis) < WindowEnd(j.basis, j.approval)

\* Mutant of BuildLease: a lease with a status no verifier knows.
BuildLeaseActive(p) ==
    /\ job[p].pc = "build" /\ Buildable(p)
    /\ lease' = [lease EXCEPT ![job[p].lease].state = "active"]
    /\ Done(p)
    /\ UNCHANGED <<now, registry, lock, marker, create, wins>>

\* isRevoked takes the registry lock, unless there is no registry file.
BuildLease(p) ==
    /\ job[p].pc = "build" /\ (registry = {} \/ lock = {})
    /\ lease' = IF Buildable(p)
                THEN [lease EXCEPT ![job[p].lease] =
                        [state |-> "issued", basis |-> job[p].basis,
                         approval |-> job[p].approval,
                         notBefore |-> WindowStart(job[p].basis),
                         expires |-> WindowEnd(job[p].basis, job[p].approval)]]
                ELSE lease
    /\ Done(p)
    /\ UNCHANGED <<now, registry, lock, marker, create, wins>>

---------------------------------------------------------------------------
(* consumeExecutionLease                                                   *)

\* With a revocationRegistry the whole consumption runs under its lock.
Consume(p, l, registered) ==
    /\ job[p].pc = "idle" /\ lease[l].state = "issued"
    /\ job' = [job EXCEPT ![p] = [Idle EXCEPT !.pc = IF registered THEN "lockConsume" ELSE "verify",
                                              !.lease = l, !.checked = registered]]
    /\ UNCHANGED <<now, lease, registry, lock, marker, create, wins>>

LockConsume(p) == /\ job[p].pc = "lockConsume"
                  /\ Lock!Enter(p)
                  /\ Job(p, "verify")
                  /\ UNCHANGED <<now, lease, registry, marker, create, wins>>

Unlock(p) == lock' = lock \ {p}

Valid(p) == LET l == job[p].lease IN
            /\ lease[l].notBefore <= now /\ now < lease[l].expires
            /\ job[p].checked => ~LeaseRevoked(l, now)

\* Mutant of Verify: the registry lock covers the verification only.
VerifyThenUnlock(p) == /\ job[p].pc = "verify"
                       /\ IF Valid(p)
                          THEN job' = [job EXCEPT ![p].pc = "exists", ![p].at = now]
                          ELSE Done(p)
                       /\ Unlock(p)
                       /\ UNCHANGED <<now, lease, registry, marker, create, wins>>

\* verifyExecutionLease, against the clock and the registry of this moment.
Verify(p) == /\ job[p].pc = "verify"
             /\ IF Valid(p)
                THEN /\ job' = [job EXCEPT ![p].pc = "exists", ![p].at = now]
                     /\ UNCHANGED lock
                ELSE Done(p) /\ Unlock(p)
             /\ UNCHANGED <<now, lease, registry, marker, create, wins>>

\* existsSync(path): replayed.
Replayed(p) == /\ job[p].pc = "exists" /\ marker[job[p].lease].state # "absent"
               /\ Done(p) /\ Unlock(p)
               /\ UNCHANGED <<now, lease, registry, marker, create, wins>>

\* Mutant of CreateMarker: no existsSync before the creation.
CreateMarkerUnchecked(p) == /\ job[p].pc = "exists"
                            /\ Job(p, "consume")
                            /\ Marker!Start(p, job[p].lease, job[p].lease)
                            /\ UNCHANGED <<now, lease, registry, lock>>

CreateMarker(p) == /\ job[p].pc = "exists" /\ marker[job[p].lease].state = "absent"
                   /\ Job(p, "consume")
                   /\ Marker!Start(p, job[p].lease, job[p].lease)
                   /\ UNCHANGED <<now, lease, registry, lock>>

\* created: consumed; exists: replayed; failed: the error is thrown.
Consumed(p) == /\ job[p].pc = "consume"
               /\ Marker!Return(p)
               /\ Done(p) /\ Unlock(p)
               /\ UNCHANGED <<now, lease, registry>>

---------------------------------------------------------------------------
(* RevocationRegistry.revoke                                               *)

\* revokedAt may be given: a revocation may lie in the past or the future.
Revoke(p, r) == /\ job[p].pc = "idle"
                /\ job' = [job EXCEPT ![p] = [Idle EXCEPT !.pc = "lockRevoke", !.rec = {r}]]
                /\ UNCHANGED <<now, lease, registry, lock, marker, create, wins>>

\* Mutant of LockRevoke: the registry is read without its lock.
LoadUnlocked(p) == /\ job[p].pc = "lockRevoke"
                   /\ job' = [job EXCEPT ![p].pc = "persist", ![p].loaded = registry]
                   /\ UNCHANGED <<now, lease, registry, lock, marker, create, wins>>

\* const existing = this._loadUnlocked()
LockRevoke(p) == /\ job[p].pc = "lockRevoke"
                 /\ Lock!Enter(p)
                 /\ job' = [job EXCEPT ![p].pc = "persist", ![p].loaded = registry]
                 /\ UNCHANGED <<now, lease, registry, marker, create, wins>>

\* _persistUnlocked([...existing, record]), an atomic replacement of the
\* file; a failure may come before or after the rename.
Persist(p) == /\ job[p].pc = "persist"
              /\ LET records == job[p].loaded \cup job[p].rec IN
                 \/ Cardinality(records) <= MaxRecords /\ registry' = records
                 \/ (Cardinality(records) > MaxRecords \/ WriteErrors) /\ UNCHANGED registry
              /\ Done(p) /\ Unlock(p)
              /\ UNCHANGED <<now, lease, marker, create, wins>>

---------------------------------------------------------------------------
(* Lock timeouts, crashes, time                                            *)

\* "timed out acquiring file lock"
LockTimeout(p) == /\ job[p].pc \in {"lockConsume", "lockRevoke", "build"} /\ lock # {}
                  /\ job[p].pc = "build" => registry # {}
                  /\ Done(p)
                  /\ UNCHANGED <<now, lease, registry, lock, marker, create, wins>>

Crash(p) == /\ job[p].pc # "dead"
            /\ Job(p, "dead")
            /\ Marker!Die(p)
            /\ UNCHANGED <<now, lease, registry, lock>>

\* A contender removes the stale lock of a dead process.
BreakLock(p) == /\ job[p].pc = "dead"
                /\ Lock!Leave(p)
                /\ UNCHANGED <<now, lease, registry, job, marker, create, wins>>

Tick == /\ now < MaxTime
        /\ now' = now + 1
        /\ UNCHANGED <<lease, registry, lock, job, marker, create, wins>>

CreateStep(p) == Marker!CreateStep(p) /\ UNCHANGED <<now, lease, registry, lock, job>>

Begin(p) ==
    \/ \E l \in Leases, a \in Approvals \cup {NoKey}, b \in Bases : Issue(p, l, a, b)
    \/ \E l \in Leases, c \in {TRUE, ~Unregistered} : Consume(p, l, c)
    \/ \E r \in Revocations : Revoke(p, r)

Step(p) == \/ CreateStep(p) \/ ApprovalUsed(p) \/ BuildLease(p)
           \/ LockConsume(p) \/ Verify(p) \/ Replayed(p) \/ CreateMarker(p) \/ Consumed(p)
           \/ LockRevoke(p) \/ Persist(p) \/ LockTimeout(p)

Next == \/ \E p \in Procs : Begin(p) \/ Step(p) \/ Crash(p) \/ BreakLock(p)
        \/ Tick

Spec == Init /\ [][Next]_vars

---------------------------------------------------------------------------
(* Properties                                                              *)

\* A lease permits one execution: at most one consumption ever succeeds
\* (README.md: "Replay is rejected").
LeaseUsedOnce == \A l \in Leases : wins[l] <= 1

\* "A second lease cannot be issued from the same ApprovalResult"
\* (docs/concepts/APPROVAL_CONTRACT.md).
OneLeasePerApproval ==
    \A a \in Approvals :
        Cardinality({l \in Leases : lease[l].state = "issued" /\ lease[l].approval = a}) <= 1

\* While a registry-checked consumption is between its verification and its
\* marker, no revocation that its verification should have seen is on file.
RevocationNotOvertaken ==
    \A p \in Procs : job[p].pc \in {"exists", "consume"} /\ job[p].checked
                       => ~LeaseRevoked(job[p].lease, job[p].at)

\* No revocation is ever lost from the registry file.
RevocationsKept == [][registry \subseteq registry']_registry

\* Whoever passes verification does so while the authority and the approval
\* behind the lease are themselves within their windows.
UsedWhileAuthorityActive ==
    \A p \in Procs : job[p].pc \in {"exists", "consume"} =>
        LET src == {lease[job[p].lease].basis, lease[job[p].lease].approval} \ {NoKey} IN
        \A x \in src : From[x] <= job[p].at /\ job[p].at < Until[x]

\* The refinement: what each step does to issued, behind and uses is a step
\* of OneUse or leaves them alone.
Promise == INSTANCE OneUse WITH
    issued <- {l \in Leases : lease[l].state = "issued"},
    behind <- [l \in Leases |-> lease[l].approval],
    uses <- [l \in Leases |-> wins[l]]

ImplementsOneUse == Promise!Spec
============================================================================
