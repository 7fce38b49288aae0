----------------------- MODULE LeaseAuthority_proofs -----------------------
(***************************************************************************)
(* Proofs about LeaseAuthority, for any number of processes, leases,       *)
(* approvals, authorities and revocations: what a consumption may rely on  *)
(* between its verification and its marker, that no revocation is lost,    *)
(* and that issuance and consumption implement OneUse.                     *)
(***************************************************************************)
EXTENDS LeaseAuthority, FiniteSetTheorems, TLAPS

---------------------------------------------------------------------------
(* The inductive invariant of jobs, lock, registry and windows.            *)

Pc(p) == job[p].pc

\* What job[p] may be.
Jobs == [pc : Labels, lease : Leases \cup {NoData},
         approval : Approvals \cup {NoKey}, basis : Bases \cup {NoKey},
         checked : BOOLEAN, at : Times,
         rec : SUBSET Revocations, loaded : SUBSET Revocations]

\* p runs inside the registry's withExclusive.
Critical(p) == Pc(p) = "persist" \/ (Pc(p) \in {"verify", "exists", "consume"} /\ job[p].checked)

\* One process at a time is inside, and whoever must be inside is.
LockOK == /\ \A p, q \in lock : p = q
          /\ \A p \in Procs : Critical(p) => p \in lock

\* A call of durableExclusiveCreateSync is under way exactly where one is made.
CallOK == \A p \in Procs :
    /\ Pc(p) = "useApproval" => /\ job[p].approval \in Approvals
                                /\ create[p].key = job[p].approval
    /\ Pc(p) = "consume" => create[p].key = job[p].lease
    /\ Pc(p) \in {"useApproval", "consume"} => create[p].step \notin {"off", "dead"}
    /\ Pc(p) = "dead" => create[p].step = "dead"
    /\ Pc(p) \notin {"useApproval", "consume", "dead"} => create[p].step = "off"

\* A lease in the making is its maker's alone.
Making(p) == Pc(p) \in {"useApproval", "build"}
DrawnOK == \A p \in Procs : Making(p) =>
    /\ job[p].lease \in Leases /\ lease[job[p].lease].state = "drawn"
    /\ job[p].basis \in Bases
    /\ \A q \in Procs : Making(q) /\ job[q].lease = job[p].lease => q = p

\* A consumption is of an issued lease, which stays issued.
Using(p) == Pc(p) \in {"lockConsume", "verify", "exists", "consume"}
IssuedOK == \A p \in Procs : Using(p) =>
    job[p].lease \in Leases /\ lease[job[p].lease].state = "issued"

\* What revoke has read is what is on file until it persists.
LoadedOK == \A p \in Procs : Pc(p) = "persist" => job[p].loaded = registry

\* The window of a lease lies within those of its authority and approval.
WindowOK == \A l \in Leases : lease[l].state = "issued" =>
    /\ lease[l].basis \in Bases
    /\ From[lease[l].basis] <= lease[l].notBefore /\ lease[l].expires <= Until[lease[l].basis]
    /\ lease[l].approval # NoKey =>
          /\ From[lease[l].approval] <= lease[l].notBefore
          /\ lease[l].expires <= Until[lease[l].approval]

\* A verified consumption was verified inside the lease's window.
AtOK == \A p \in Procs : Pc(p) \in {"exists", "consume"} =>
    lease[job[p].lease].notBefore <= job[p].at /\ job[p].at < lease[job[p].lease].expires

IInv == /\ TypeOK /\ LockOK /\ CallOK /\ DrawnOK /\ IssuedOK /\ LoadedOK
        /\ RevocationNotOvertaken /\ WindowOK /\ AtOK

---------------------------------------------------------------------------
(* The markers: each step of the lease protocol is one of DurableMarker.   *)

M == INSTANCE DurableMarker_proofs WITH Data <- Leases

\* M and Marker are two instances of one module.
LEMMA SameMarkers ==
    /\ Marker!MarkerInit <=> M!MarkerInit
    /\ Marker!MarkerTypeOK <=> M!MarkerTypeOK
    /\ \A p \in Procs :
          /\ \A k \in Keys, d \in Leases : Marker!Start(p, k, d) <=> M!Start(p, k, d)
          /\ Marker!CreateStep(p) <=> M!CreateStep(p)
          /\ Marker!Return(p) <=> M!Return(p)
          /\ Marker!Die(p) <=> M!Die(p)
<1>1. Marker!MarkerInit <=> M!MarkerInit
  BY DEF Marker!MarkerInit, M!MarkerInit, Marker!Absent, M!Absent, Marker!NoCall, M!NoCall
<1>2. Marker!MarkerTypeOK <=> M!MarkerTypeOK
  BY DEF Marker!MarkerTypeOK, M!MarkerTypeOK, Marker!Steps, M!Steps
<1>3. ASSUME NEW p \in Procs
      PROVE  /\ \A k \in Keys, d \in Leases : Marker!Start(p, k, d) <=> M!Start(p, k, d)
             /\ Marker!CreateStep(p) <=> M!CreateStep(p)
             /\ Marker!Return(p) <=> M!Return(p)
             /\ Marker!Die(p) <=> M!Die(p)
  <2>1. \A k \in Keys, d \in Leases : Marker!Start(p, k, d) <=> M!Start(p, k, d)
    BY Zenon DEF Marker!Start, M!Start
  <2>2. Marker!CreateStep(p) <=> M!CreateStep(p)
    BY Zenon DEF Marker!CreateStep, M!CreateStep, Marker!OpenCreates, M!OpenCreates,
       Marker!OpenExists, M!OpenExists,
       Marker!OpenFails, M!OpenFails, Marker!Write, M!Write, Marker!Sync, M!Sync,
           Marker!WriteFails, M!WriteFails,
       Marker!Cleanup, M!Cleanup, Marker!SetStep, M!SetStep, Marker!KeyOf, M!KeyOf,
           Marker!CountedTo2, M!CountedTo2,
       Marker!Absent, M!Absent
  <2>3. Marker!Return(p) <=> M!Return(p)
    BY Zenon DEF Marker!Return, M!Return, Marker!NoCall, M!NoCall
  <2>4. Marker!Die(p) <=> M!Die(p)
    BY Zenon DEF Marker!Die, M!Die, Marker!SetStep, M!SetStep
  <2> QED
    BY <2>1, <2>2, <2>3, <2>4
<1> QED
  BY <1>1, <1>2, <1>3

\* Every step of the lease protocol is a step of DurableMarker or leaves
\* the markers alone, so what DurableMarker_proofs shows holds here.
LEMMA MarkerSteps == IInv /\ [Next]_vars => [M!MarkerNext]_M!markerVars
<1> SUFFICES ASSUME IInv, [Next]_vars
             PROVE  [M!MarkerNext]_M!markerVars
  OBVIOUS
<1>1. CASE UNCHANGED vars
  BY <1>1 DEF vars, M!markerVars
<1>2. ASSUME NEW p \in Procs, Begin(p) \/ Step(p) \/ Crash(p) \/ BreakLock(p)
      PROVE  [M!MarkerNext]_M!markerVars
  <2>1. CASE \/ Marker!Return(p) \/ Marker!Die(p) \/ Marker!CreateStep(p)
             \/ \E k \in Keys, d \in Leases : Marker!Start(p, k, d)
    BY <2>1, SameMarkers DEF M!MarkerNext
  <2>2. CASE UNCHANGED <<marker, create, wins>>
    BY <2>2 DEF M!markerVars
  <2>3. ASSUME NEW l \in Leases, NEW a \in Approvals \cup {NoKey}, NEW b \in Bases,
             Issue(p, l, a, b)
        PROVE  \/ UNCHANGED <<marker, create, wins>>
               \/ \E k \in Keys, d \in Leases : Marker!Start(p, k, d)
    BY <2>3 DEF Issue, Keys
  <2>4. ASSUME CreateMarker(p)
        PROVE  \E k \in Keys, d \in Leases : Marker!Start(p, k, d)
    <3>1. job[p].lease \in Leases
      BY <2>4 DEF IInv, IssuedOK, Using, Pc, CreateMarker
    <3> QED
      BY <2>4, <3>1 DEF CreateMarker, Keys
  <2>5. CASE Begin(p)
    BY <2>5, <2>1, <2>2, <2>3 DEF Begin, Consume, Revoke
  <2>6. CASE Step(p)
    BY <2>6, <2>1, <2>2, <2>4 DEF Step, CreateStep, ApprovalUsed, BuildLease, LockConsume, Verify,
       Replayed,
       Consumed, LockRevoke, Persist, LockTimeout
  <2> QED
    BY <1>2, <2>1, <2>2, <2>5, <2>6 DEF Crash, BreakLock
<1>3. CASE Tick
  BY <1>3 DEF Tick, M!markerVars
<1> QED
  BY <1>1, <1>2, <1>3 DEF Next

\* In particular the markers keep their types.
LEMMA TypeOfMarkers == IInv /\ [Next]_vars => Marker!MarkerTypeOK'
<1> SUFFICES ASSUME IInv, [Next]_vars
             PROVE  Marker!MarkerTypeOK'
  OBVIOUS
<1>1. M!KeysOK
  BY DEF IInv, TypeOK, CallOK, DrawnOK, IssuedOK, Making, Using, Pc, Labels, Keys, M!KeysOK,
     M!InCall, M!KeyOf
<1>2. M!MarkerTypeOK
  BY SameMarkers DEF IInv, TypeOK
<1>3. M!MarkerTypeOK'
  BY <1>1, <1>2, MarkerSteps, M!MarkerTypeStep, MarkerAssumption
<1>4. (Marker!MarkerTypeOK <=> M!MarkerTypeOK)'
  BY DEF Marker!MarkerTypeOK, M!MarkerTypeOK, Marker!Steps, M!Steps
<1> QED
  BY <1>3, <1>4

---------------------------------------------------------------------------
(* The invariant holds initially and is preserved by every step.           *)

\* Setting a field of a job to a value of its type leaves a job.
LEMMA JobTypes == /\ Idle \in Jobs
                  /\ TypeOK => job \in [Procs -> Jobs]
                  /\ \A j \in Jobs, s \in Labels : [j EXCEPT !.pc = s] \in Jobs
                  /\ \A j \in Jobs, t \in Times : [j EXCEPT !.at = t] \in Jobs
                  /\ \A j \in Jobs, R \in SUBSET Revocations : [j EXCEPT !.loaded = R] \in Jobs
<1>1. Idle \in Jobs
  BY BoundsAssumption DEF Idle, Jobs, Labels, Times
<1>2. TypeOK => job \in [Procs -> Jobs]
  BY DEF Jobs, TypeOK
<1>3. \A j \in Jobs, s \in Labels : [j EXCEPT !.pc = s] \in Jobs
  BY DEF Jobs
<1>4. \A j \in Jobs, t \in Times : [j EXCEPT !.at = t] \in Jobs
  BY DEF Jobs
<1>5. \A j \in Jobs, R \in SUBSET Revocations : [j EXCEPT !.loaded = R] \in Jobs
  BY DEF Jobs
<1> QED
  BY <1>1, <1>2, <1>3, <1>4, <1>5

\* Nothing is issued, revoked or under way at the start.
LEMMA InitInv == Init => IInv
  BY MarkerAssumption, BoundsAssumption DEF Init, IInv, TypeOK, LockOK, CallOK, DrawnOK, IssuedOK,
     LoadedOK, RevocationNotOvertaken, WindowOK, AtOK,
     Critical, Making, Using, Pc, Idle, Labels, Unissued, Times, Marker!MarkerInit,
         Marker!MarkerTypeOK, Marker!Steps, Marker!Absent, Marker!NoCall

\* MaxOf and MinOf of two or three numbers are among them and bound them.
LEMMA Extremes ==
    \A x, y, z \in Nat : /\ MaxOf({x, y}) \in {x, y} /\ MaxOf({x, y}) >= x /\ MaxOf({x, y}) >= y
                         /\ MinOf({x, y}) \in {x, y} /\ MinOf({x, y}) <= x /\ MinOf({x, y}) <= y
                         /\ MinOf({x, y, z}) \in {x, y, z}
                         /\ MinOf({x, y, z}) <= x /\ MinOf({x, y, z}) <= y /\ MinOf({x, y, z}) <= z
<1> SUFFICES ASSUME NEW x \in Nat, NEW y \in Nat, NEW z \in Nat
             PROVE  /\ MaxOf({x, y}) \in {x, y} /\ MaxOf({x, y}) >= x /\ MaxOf({x, y}) >= y
                    /\ MinOf({x, y}) \in {x, y} /\ MinOf({x, y}) <= x /\ MinOf({x, y}) <= y
                    /\ MinOf({x, y, z}) \in {x, y, z}
                    /\ MinOf({x, y, z}) <= x /\ MinOf({x, y, z}) <= y /\ MinOf({x, y, z}) <= z
  OBVIOUS
<1>1. \E m \in {x, y} : \A n \in {x, y} : m >= n
  OBVIOUS
<1>2. \E m \in {x, y} : \A n \in {x, y} : m <= n
  OBVIOUS
<1>3. \E m \in {x, y, z} : \A n \in {x, y, z} : m <= n
  OBVIOUS
<1> QED
  BY <1>1, <1>2, <1>3 DEF MaxOf, MinOf

\* The window a lease would get lies within its authority's, its approval's
\* and the future.
LEMMA Windows ==
    ASSUME TypeOK, NEW b \in Bases, NEW a \in Approvals \cup {NoKey}
    PROVE  /\ WindowStart(b) \in Nat /\ WindowStart(b) >= now /\ WindowStart(b) >= From[b]
           /\ WindowEnd(b, a) \in Nat /\ WindowEnd(b, a) <= Until[b]
           /\ a # NoKey => WindowEnd(b, a) <= Until[a]
<1>1. now \in Nat /\ now + Ttl \in Nat /\ From[b] \in Nat /\ Until[b] \in Nat
  BY BasesAssumption, BoundsAssumption DEF TypeOK, Times
<1>2. WindowStart(b) \in Nat /\ WindowStart(b) >= now /\ WindowStart(b) >= From[b]
  BY <1>1, Extremes DEF WindowStart
<1>3. CASE a = NoKey
  <2>1. WindowEnd(b, a) = MinOf({now + Ttl, Until[b]})
    BY <1>3 DEF WindowEnd
  <2>2. WindowEnd(b, a) \in Nat /\ WindowEnd(b, a) <= Until[b]
    BY <1>1, <2>1, Extremes
  <2> QED
    BY <1>2, <1>3, <2>2
<1>4. CASE a # NoKey
  <2>1. Until[a] \in Nat
    BY <1>4, BasesAssumption
  <2>2. {now + Ttl, Until[b]} \cup {Until[a]} = {now + Ttl, Until[b], Until[a]}
    OBVIOUS
  <2>3. WindowEnd(b, a) = MinOf({now + Ttl, Until[b], Until[a]})
    BY <1>4, <2>2 DEF WindowEnd
  <2>4. WindowEnd(b, a) \in Nat /\ WindowEnd(b, a) <= Until[b] /\ WindowEnd(b, a) <= Until[a]
    <3> DEFINE x == now + Ttl
               y == Until[b]
               z == Until[a]
    <3>1. x \in Nat /\ y \in Nat /\ z \in Nat
      BY <1>1, <2>1
    <3>2. WindowEnd(b, a) = MinOf({x, y, z})
      BY <2>3
    <3> HIDE DEF x, y, z
    <3>3. MinOf({x, y, z}) \in {x, y, z} /\ MinOf({x, y, z}) <= y /\ MinOf({x, y, z}) <= z
      BY <3>1, Extremes
    <3>4. WindowEnd(b, a) \in Nat /\ WindowEnd(b, a) <= y /\ WindowEnd(b, a) <= z
      BY <3>1, <3>2, <3>3
    <3> QED
      BY <3>4 DEF y, z
  <2> QED
    BY <1>2, <2>4
<1> QED
  BY <1>3, <1>4

\* Every action preserves the invariant.
LEMMA StepInv == IInv /\ [Next]_vars => IInv'
<1> SUFFICES ASSUME IInv, [Next]_vars
             PROVE  IInv'
  OBVIOUS
<1>0. Marker!MarkerTypeOK'
  BY TypeOfMarkers
<1>J. job \in [Procs -> Jobs] /\ Idle \in Jobs
  BY JobTypes DEF IInv
<1> USE <1>0, <1>J, MarkerAssumption, CallersAssumption
    DEF IInv, LockOK, CallOK, DrawnOK, IssuedOK, LoadedOK, RevocationNotOvertaken, WindowOK, AtOK,
        Critical, Making, Using, Pc, Labels, Job, Done, Unlock, Lock!Enter, Lock!Leave
<1>1. ASSUME NEW p \in Procs, NEW l \in Leases, NEW a \in Approvals \cup {NoKey}, NEW b \in Bases,
      Issue(p, l, a, b)
      PROVE  IInv'
  <2> DEFINE j == IF a = NoKey THEN [Idle EXCEPT !.pc = "build", !.lease = l, !.basis = b]
                  ELSE [Idle EXCEPT !.pc = "useApproval", !.lease = l, !.basis = b, !.approval = a]
  <2>1. /\ job' = [job EXCEPT ![p] = j] /\ j \in Jobs
        /\ j.pc = (IF a = NoKey THEN "build" ELSE "useApproval") /\ j.lease = l /\ j.basis = b
           /\ j.approval = a
    <3>1. CASE a = NoKey
      <4>1. [Idle EXCEPT !.pc = "build", !.lease = l, !.basis = b] \in Jobs
        BY DEF Jobs
      <4> QED
        BY <1>1, <3>1, <4>1 DEF Issue, Jobs, Idle
    <3>2. CASE a # NoKey
      <4>1. [Idle EXCEPT !.pc = "useApproval", !.lease = l, !.basis = b, !.approval = a] \in Jobs
        BY DEF Jobs
      <4> QED
        BY <1>1, <3>2, <4>1 DEF Issue, Jobs, Idle
    <3> QED
      BY <3>1, <3>2
  <2>2. /\ Pc(p) = "idle" /\ lease[l].state = "undrawn"
        /\ lease' = [lease EXCEPT ![l].state = "drawn"]
        /\ UNCHANGED <<now, registry, lock>>
    BY <1>1 DEF Issue
  <2>3. CallOK'
    BY <1>1, <2>1 DEF Issue, Marker!Start, TypeOK, Marker!MarkerTypeOK
  <2> HIDE DEF j
  <2>4. TypeOK'
    BY <2>1, <2>2 DEF TypeOK, Jobs
  <2>5. LockOK' /\ LoadedOK'
    BY <2>1, <2>2 DEF TypeOK
  <2>6. DrawnOK' /\ IssuedOK'
    BY <2>1, <2>2 DEF TypeOK
  <2>7. RevocationNotOvertaken'
    BY <2>1, <2>2 DEF TypeOK, LeaseRevoked, IsRevoked
  <2>8. WindowOK' /\ AtOK'
    BY <2>1, <2>2 DEF TypeOK
  <2> QED
    BY <2>3, <2>4, <2>5, <2>6, <2>7, <2>8
<1>2. ASSUME NEW p \in Procs, ApprovalUsed(p) PROVE IInv'
  <2> DEFINE j == IF create[p].step = "created" THEN [job[p] EXCEPT !.pc = "build"] ELSE Idle
  <2>1. /\ job' = [job EXCEPT ![p] = j] /\ j \in Jobs
        /\ (j.pc = "build" /\ j.lease = job[p].lease /\ j.basis = job[p].basis) \/ j.pc = "idle"
    <3>1. job' = [job EXCEPT ![p] = j]
      BY <1>2 DEF ApprovalUsed
    <3>2. CASE create[p].step = "created"
      <4>1. j = [job[p] EXCEPT !.pc = "build"] /\ j \in Jobs
        BY <3>2, JobTypes
      <4> QED
        BY <3>1, <4>1 DEF Jobs
    <3>3. CASE create[p].step # "created"
      BY <3>1, <3>3 DEF Idle
    <3> QED
      BY <3>2, <3>3
  <2>2. Pc(p) = "useApproval" /\ UNCHANGED <<now, lease, registry, lock>>
    BY <1>2 DEF ApprovalUsed
  <2>3. CallOK'
    BY <1>2, <2>1 DEF ApprovalUsed, Marker!Return, Marker!NoCall, TypeOK, Marker!MarkerTypeOK
  <2> HIDE DEF j
  <2>4. TypeOK'
    BY <2>1, <2>2 DEF TypeOK, Jobs
  <2>5. LockOK' /\ LoadedOK'
    BY <2>1, <2>2 DEF TypeOK
  <2>6. DrawnOK' /\ IssuedOK'
    BY <2>1, <2>2 DEF TypeOK
  <2>7. RevocationNotOvertaken'
    BY <2>1, <2>2 DEF TypeOK, LeaseRevoked, IsRevoked
  <2>8. WindowOK' /\ AtOK'
    BY <2>1, <2>2 DEF TypeOK
  <2> QED
    BY <2>3, <2>4, <2>5, <2>6, <2>7, <2>8
<1>3. ASSUME NEW p \in Procs, BuildLease(p) PROVE IInv'
  <2> DEFINE l == job[p].lease
             b == job[p].basis
             a == job[p].approval
  <2>1. /\ job' = [job EXCEPT ![p] = Idle] /\ Idle.pc = "idle"
        /\ Pc(p) = "build" /\ UNCHANGED <<now, registry, lock, marker, create, wins>>
    BY <1>3 DEF BuildLease, Idle
  <2>2. /\ l \in Leases /\ b \in Bases /\ a \in Approvals \cup {NoKey} /\ lease[l].state = "drawn"
    BY <2>1 DEF Jobs
  <2>3. \/ lease' = lease
        \/ /\ lease' = [lease EXCEPT ![l] = [state |-> "issued", basis |-> b, approval |-> a,
                                             notBefore |-> WindowStart(b),
                                             expires |-> WindowEnd(b, a)]]
           /\ a # NoKey => From[a] <= now
    BY <1>3 DEF BuildLease, Buildable, ApprovalActive
  <2>4. /\ WindowStart(b) \in Nat /\ WindowEnd(b, a) \in Nat
        /\ From[b] <= WindowStart(b) /\ WindowEnd(b, a) <= Until[b]
        /\ now <= WindowStart(b) /\ (a # NoKey => WindowEnd(b, a) <= Until[a])
    <3>1. now \in Nat /\ From[b] \in Nat
      BY <2>2, BasesAssumption, BoundsAssumption DEF TypeOK, Times
    <3> QED
      BY <2>2, <3>1, Windows
  <2>5. a # NoKey /\ lease' # lease => From[a] <= WindowStart(b)
    <3>1. now \in Nat /\ (a # NoKey => From[a] \in Nat)
      BY <2>2, BasesAssumption, BoundsAssumption DEF TypeOK, Times
    <3> QED
      BY <2>3, <2>4, <3>1
  <2>6. TypeOK'
    BY <2>1, <2>2, <2>3, <2>4 DEF TypeOK, Jobs
  <2>7. LockOK' /\ LoadedOK'
    BY <2>1 DEF TypeOK
  <2>8. CallOK'
    BY <2>1 DEF TypeOK
  <2>9. \A m \in Leases \ {l} : lease'[m] = lease[m]
    BY <2>2, <2>3 DEF TypeOK
  <2>10. lease'[l].state \in {"drawn", "issued"}
    BY <2>2, <2>3 DEF TypeOK
  <2>11. \A q \in Procs : Using(q) \/ (Making(q) /\ q # p) => job[q].lease \in Leases \ {l}
    BY <2>1, <2>2
  <2>12. DrawnOK' /\ IssuedOK'
    BY <2>1, <2>9, <2>11
  <2>13. RevocationNotOvertaken'
    BY <2>1, <2>9, <2>11 DEF LeaseRevoked, IsRevoked
  <2>14. WindowOK'
    BY <2>2, <2>3, <2>4, <2>5, <2>9 DEF TypeOK
  <2>15. AtOK'
    BY <2>1, <2>9, <2>11
  <2> QED
    BY <2>6, <2>7, <2>8, <2>12, <2>13, <2>14, <2>15
<1>4. ASSUME NEW p \in Procs, NEW l \in Leases, NEW c \in BOOLEAN, Consume(p, l, c) PROVE IInv'
  <2>0. job' \in [Procs -> Jobs]
    <3>1. [Idle EXCEPT !.pc = IF c THEN "lockConsume" ELSE "verify", !.lease = l,
          !.checked = c] \in Jobs
      BY DEF Jobs
    <3> QED
      BY <1>4, <3>1 DEF Consume
  <2>1. TypeOK'
    BY <1>4, <2>0 DEF Consume, TypeOK, Jobs
  <2>2. LockOK' /\ LoadedOK'
    BY <1>4 DEF Consume, Idle, TypeOK
  <2>3. CallOK'
    BY <1>4 DEF Consume, Idle, TypeOK, Jobs, Marker!MarkerTypeOK
  <2>4. DrawnOK' /\ IssuedOK'
    BY <1>4 DEF Consume, Idle, TypeOK
  <2>5. RevocationNotOvertaken'
    BY <1>4 DEF Consume, Idle, TypeOK, LeaseRevoked, IsRevoked
  <2>6. WindowOK' /\ AtOK'
    BY <1>4 DEF Consume, Idle, TypeOK
  <2> QED
    BY <2>1, <2>2, <2>3, <2>4, <2>5, <2>6
<1>5. ASSUME NEW p \in Procs, LockConsume(p) PROVE IInv'
  <2>0. job' \in [Procs -> Jobs]
    BY <1>5, JobTypes DEF LockConsume
  <2>1. TypeOK'
    BY <1>5, <2>0 DEF LockConsume, TypeOK, Jobs
  <2>2. LockOK' /\ LoadedOK'
    BY <1>5 DEF LockConsume, Idle, TypeOK
  <2>3. CallOK'
    BY <1>5 DEF LockConsume, Idle, TypeOK, Jobs, Marker!MarkerTypeOK
  <2>4. DrawnOK' /\ IssuedOK'
    BY <1>5 DEF LockConsume, Idle, TypeOK
  <2>5. RevocationNotOvertaken'
    BY <1>5 DEF LockConsume, Idle, TypeOK, LeaseRevoked, IsRevoked
  <2>6. WindowOK' /\ AtOK'
    BY <1>5 DEF LockConsume, Idle, TypeOK
  <2> QED
    BY <2>1, <2>2, <2>3, <2>4, <2>5, <2>6
<1>6. ASSUME NEW p \in Procs, Verify(p) PROVE IInv'
  <2>1. CASE Valid(p)
    <3> DEFINE j == [job[p] EXCEPT !.pc = "exists", !.at = now]
    <3>1. /\ job' = [job EXCEPT ![p] = j] /\ j \in Jobs
          /\ j.pc = "exists" /\ j.at = now /\ j.lease = job[p].lease /\ j.checked = job[p].checked
      <4>1. [job[p] EXCEPT !.pc = "exists"] \in Jobs
        BY JobTypes
      <4>2. j = [[job[p] EXCEPT !.pc = "exists"] EXCEPT !.at = now]
        OBVIOUS
      <4>3. j \in Jobs
        BY <4>1, <4>2, JobTypes DEF TypeOK
      <4>4. job' = [job EXCEPT ![p] = j]
        BY <1>6, <2>1 DEF Verify
      <4> QED
        BY <4>3, <4>4 DEF Jobs
    <3>2. Pc(p) = "verify" /\ UNCHANGED <<now, lease, registry, lock, marker, create, wins>>
      BY <1>6, <2>1 DEF Verify
    <3> HIDE DEF j
    <3>3. TypeOK'
      BY <3>1, <3>2 DEF TypeOK, Jobs
    <3>4. LockOK' /\ LoadedOK' /\ CallOK'
      BY <3>1, <3>2 DEF TypeOK
    <3>5. DrawnOK' /\ IssuedOK'
      BY <3>1, <3>2 DEF TypeOK
    <3>6. RevocationNotOvertaken'
      BY <2>1, <3>1, <3>2 DEF Valid, LeaseRevoked, IsRevoked
    <3>7. WindowOK' /\ AtOK'
      BY <2>1, <3>1, <3>2 DEF Valid, TypeOK
    <3> QED
      BY <3>3, <3>4, <3>5, <3>6, <3>7
  <2>2. CASE ~Valid(p)
    <3>1. /\ job' = [job EXCEPT ![p] = Idle] /\ Idle.pc = "idle" /\ lock' = lock \ {p}
          /\ Pc(p) = "verify" /\ UNCHANGED <<now, lease, registry, marker, create, wins>>
      BY <1>6, <2>2 DEF Verify, Idle
    <3>2. TypeOK'
      BY <3>1 DEF TypeOK, Jobs
    <3>3. LockOK' /\ LoadedOK' /\ CallOK'
      BY <3>1 DEF TypeOK
    <3>4. DrawnOK' /\ IssuedOK'
      BY <3>1 DEF TypeOK
    <3>5. RevocationNotOvertaken'
      BY <3>1 DEF LeaseRevoked, IsRevoked
    <3>6. WindowOK' /\ AtOK'
      BY <3>1 DEF TypeOK
    <3> QED
      BY <3>2, <3>3, <3>4, <3>5, <3>6
  <2> QED
    BY <2>1, <2>2
<1>7. ASSUME NEW p \in Procs, Replayed(p) PROVE IInv'
  <2>0. job' \in [Procs -> Jobs]
    BY <1>7, JobTypes DEF Replayed
  <2>1. TypeOK'
    BY <1>7, <2>0 DEF Replayed, TypeOK, Jobs
  <2>2. LockOK' /\ LoadedOK'
    BY <1>7 DEF Replayed, Idle, TypeOK
  <2>3. CallOK'
    BY <1>7 DEF Replayed, Idle, TypeOK, Jobs, Marker!MarkerTypeOK
  <2>4. DrawnOK' /\ IssuedOK'
    BY <1>7 DEF Replayed, Idle, TypeOK
  <2>5. RevocationNotOvertaken'
    BY <1>7 DEF Replayed, Idle, TypeOK, LeaseRevoked, IsRevoked
  <2>6. WindowOK' /\ AtOK'
    BY <1>7 DEF Replayed, Idle, TypeOK
  <2> QED
    BY <2>1, <2>2, <2>3, <2>4, <2>5, <2>6
<1>8. ASSUME NEW p \in Procs, CreateMarker(p) PROVE IInv'
  <2>0. job' \in [Procs -> Jobs]
    BY <1>8, JobTypes DEF CreateMarker
  <2>1. TypeOK'
    BY <1>8, <2>0 DEF CreateMarker, TypeOK, Jobs
  <2>2. LockOK' /\ LoadedOK'
    BY <1>8 DEF CreateMarker, Marker!Start, Idle, TypeOK
  <2>3. CallOK'
    BY <1>8 DEF CreateMarker, Marker!Start, Idle, TypeOK, Jobs, Marker!MarkerTypeOK
  <2>4. DrawnOK' /\ IssuedOK'
    BY <1>8 DEF CreateMarker, Marker!Start, Idle, TypeOK
  <2>5. RevocationNotOvertaken'
    BY <1>8 DEF CreateMarker, Marker!Start, Idle, TypeOK, LeaseRevoked, IsRevoked
  <2>6. WindowOK' /\ AtOK'
    BY <1>8 DEF CreateMarker, Marker!Start, Idle, TypeOK
  <2> QED
    BY <2>1, <2>2, <2>3, <2>4, <2>5, <2>6
<1>9. ASSUME NEW p \in Procs, Consumed(p) PROVE IInv'
  <2>0. job' \in [Procs -> Jobs]
    BY <1>9, JobTypes DEF Consumed
  <2>1. TypeOK'
    BY <1>9, <2>0 DEF Consumed, TypeOK, Jobs
  <2>2. LockOK' /\ LoadedOK'
    BY <1>9 DEF Consumed, Marker!Return, Marker!NoCall, Idle, TypeOK
  <2>3. CallOK'
    BY <1>9 DEF Consumed, Marker!Return, Marker!NoCall, Idle, TypeOK, Jobs, Marker!MarkerTypeOK
  <2>4. DrawnOK' /\ IssuedOK'
    BY <1>9 DEF Consumed, Marker!Return, Marker!NoCall, Idle, TypeOK
  <2>5. RevocationNotOvertaken'
    BY <1>9 DEF Consumed, Marker!Return, Marker!NoCall, Idle, TypeOK, LeaseRevoked, IsRevoked
  <2>6. WindowOK' /\ AtOK'
    BY <1>9 DEF Consumed, Marker!Return, Marker!NoCall, Idle, TypeOK
  <2> QED
    BY <2>1, <2>2, <2>3, <2>4, <2>5, <2>6
<1>10. ASSUME NEW p \in Procs, NEW r \in Revocations, Revoke(p, r) PROVE IInv'
  <2>0. job' \in [Procs -> Jobs]
    <3>1. [Idle EXCEPT !.pc = "lockRevoke", !.rec = {r}] \in Jobs
      BY DEF Jobs
    <3> QED
      BY <1>10, <3>1 DEF Revoke
  <2>1. TypeOK'
    BY <1>10, <2>0 DEF Revoke, TypeOK, Jobs
  <2>2. LockOK' /\ LoadedOK'
    BY <1>10 DEF Revoke, Idle, TypeOK
  <2>3. CallOK'
    BY <1>10 DEF Revoke, Idle, TypeOK, Jobs, Marker!MarkerTypeOK
  <2>4. DrawnOK' /\ IssuedOK'
    BY <1>10 DEF Revoke, Idle, TypeOK
  <2>5. RevocationNotOvertaken'
    BY <1>10 DEF Revoke, Idle, TypeOK, LeaseRevoked, IsRevoked
  <2>6. WindowOK' /\ AtOK'
    BY <1>10 DEF Revoke, Idle, TypeOK
  <2> QED
    BY <2>1, <2>2, <2>3, <2>4, <2>5, <2>6
<1>11. ASSUME NEW p \in Procs, LockRevoke(p) PROVE IInv'
  <2>0. job' \in [Procs -> Jobs]
    <3>1. [job[p] EXCEPT !.pc = "persist"] \in Jobs
      BY JobTypes
    <3>2. [[job[p] EXCEPT !.pc = "persist"] EXCEPT !.loaded = registry] \in Jobs
      BY <3>1, JobTypes DEF TypeOK
    <3>3. job' = [job EXCEPT ![p] = [[job[p] EXCEPT !.pc = "persist"] EXCEPT !.loaded = registry]]
      BY <1>11 DEF LockRevoke
    <3> QED
      BY <3>2, <3>3
  <2>1. TypeOK'
    BY <1>11, <2>0 DEF LockRevoke, TypeOK, Jobs
  <2>2. LockOK' /\ LoadedOK'
    BY <1>11 DEF LockRevoke, Idle, TypeOK
  <2>3. CallOK'
    BY <1>11 DEF LockRevoke, Idle, TypeOK, Jobs, Marker!MarkerTypeOK
  <2>4. DrawnOK' /\ IssuedOK'
    BY <1>11 DEF LockRevoke, Idle, TypeOK
  <2>5. RevocationNotOvertaken'
    BY <1>11 DEF LockRevoke, Idle, TypeOK, LeaseRevoked, IsRevoked
  <2>6. WindowOK' /\ AtOK'
    BY <1>11 DEF LockRevoke, Idle, TypeOK
  <2> QED
    BY <2>1, <2>2, <2>3, <2>4, <2>5, <2>6
<1>12. ASSUME NEW p \in Procs, Persist(p) PROVE IInv'
  <2>0. job' \in [Procs -> Jobs]
    BY <1>12, JobTypes DEF Persist
  <2>1. TypeOK'
    BY <1>12, <2>0 DEF Persist, TypeOK, Jobs
  <2>2. LockOK' /\ LoadedOK'
    BY <1>12 DEF Persist, Idle, TypeOK
  <2>3. CallOK'
    BY <1>12 DEF Persist, Idle, TypeOK, Jobs, Marker!MarkerTypeOK
  <2>4. DrawnOK' /\ IssuedOK'
    BY <1>12 DEF Persist, Idle, TypeOK
  <2>5. RevocationNotOvertaken'
    BY <1>12 DEF Persist, Idle, TypeOK, LeaseRevoked, IsRevoked
  <2>6. WindowOK' /\ AtOK'
    BY <1>12 DEF Persist, Idle, TypeOK
  <2> QED
    BY <2>1, <2>2, <2>3, <2>4, <2>5, <2>6
<1>13. ASSUME NEW p \in Procs, LockTimeout(p) PROVE IInv'
  <2>0. job' \in [Procs -> Jobs]
    BY <1>13, JobTypes DEF LockTimeout
  <2>1. TypeOK'
    BY <1>13, <2>0 DEF LockTimeout, TypeOK, Jobs
  <2>2. LockOK' /\ LoadedOK'
    BY <1>13 DEF LockTimeout, Idle, TypeOK
  <2>3. CallOK'
    BY <1>13 DEF LockTimeout, Idle, TypeOK, Jobs, Marker!MarkerTypeOK
  <2>4. DrawnOK' /\ IssuedOK'
    BY <1>13 DEF LockTimeout, Idle, TypeOK
  <2>5. RevocationNotOvertaken'
    BY <1>13 DEF LockTimeout, Idle, TypeOK, LeaseRevoked, IsRevoked
  <2>6. WindowOK' /\ AtOK'
    BY <1>13 DEF LockTimeout, Idle, TypeOK
  <2> QED
    BY <2>1, <2>2, <2>3, <2>4, <2>5, <2>6
<1>14. ASSUME NEW p \in Procs, Crash(p) PROVE IInv'
  <2>0. job' \in [Procs -> Jobs]
    BY <1>14, JobTypes DEF Crash
  <2>1. TypeOK'
    BY <1>14, <2>0 DEF Crash, TypeOK, Jobs
  <2>2. LockOK' /\ LoadedOK'
    BY <1>14 DEF Crash, Marker!Die, Marker!SetStep, Idle, TypeOK
  <2>3. CallOK'
    BY <1>14 DEF Crash, Marker!Die, Marker!SetStep, Idle, TypeOK, Jobs, Marker!MarkerTypeOK
  <2>4. DrawnOK' /\ IssuedOK'
    BY <1>14 DEF Crash, Marker!Die, Marker!SetStep, Idle, TypeOK
  <2>5. RevocationNotOvertaken'
    BY <1>14 DEF Crash, Marker!Die, Marker!SetStep, Idle, TypeOK, LeaseRevoked, IsRevoked
  <2>6. WindowOK' /\ AtOK'
    BY <1>14 DEF Crash, Marker!Die, Marker!SetStep, Idle, TypeOK
  <2> QED
    BY <2>1, <2>2, <2>3, <2>4, <2>5, <2>6
<1>15. ASSUME NEW p \in Procs, BreakLock(p) PROVE IInv'
  <2>0. job' \in [Procs -> Jobs]
    BY <1>15, JobTypes DEF BreakLock
  <2>1. TypeOK'
    BY <1>15, <2>0 DEF BreakLock, TypeOK, Jobs
  <2>2. LockOK' /\ LoadedOK'
    BY <1>15 DEF BreakLock, Idle, TypeOK
  <2>3. CallOK'
    BY <1>15 DEF BreakLock, Idle, TypeOK, Jobs, Marker!MarkerTypeOK
  <2>4. DrawnOK' /\ IssuedOK'
    BY <1>15 DEF BreakLock, Idle, TypeOK
  <2>5. RevocationNotOvertaken'
    BY <1>15 DEF BreakLock, Idle, TypeOK, LeaseRevoked, IsRevoked
  <2>6. WindowOK' /\ AtOK'
    BY <1>15 DEF BreakLock, Idle, TypeOK
  <2> QED
    BY <2>1, <2>2, <2>3, <2>4, <2>5, <2>6
<1>16. ASSUME NEW p \in Procs, CreateStep(p) PROVE IInv'
  <2>0. job' \in [Procs -> Jobs]
    BY <1>16, JobTypes DEF CreateStep
  <2>1. TypeOK'
    BY <1>16, <2>0 DEF CreateStep, TypeOK, Jobs
  <2>2. LockOK' /\ LoadedOK'
    BY <1>16 DEF CreateStep, Marker!CreateStep, Marker!OpenCreates, Marker!OpenExists,
       Marker!OpenFails, Marker!Write,
       Marker!Sync, Marker!WriteFails, Marker!Cleanup, Marker!SetStep, Idle, TypeOK
  <2>3. CallOK'
    BY <1>16 DEF CreateStep, Marker!CreateStep, Marker!OpenCreates, Marker!OpenExists,
       Marker!OpenFails, Marker!Write,
       Marker!Sync, Marker!WriteFails, Marker!Cleanup, Marker!SetStep, Idle, TypeOK, Jobs,
           Marker!MarkerTypeOK
  <2>4. DrawnOK' /\ IssuedOK'
    BY <1>16 DEF CreateStep, Marker!CreateStep, Marker!OpenCreates, Marker!OpenExists,
       Marker!OpenFails, Marker!Write,
       Marker!Sync, Marker!WriteFails, Marker!Cleanup, Marker!SetStep, Idle, TypeOK
  <2>5. RevocationNotOvertaken'
    BY <1>16 DEF CreateStep, Marker!CreateStep, Marker!OpenCreates, Marker!OpenExists,
       Marker!OpenFails, Marker!Write,
       Marker!Sync, Marker!WriteFails, Marker!Cleanup, Marker!SetStep, Idle, TypeOK, LeaseRevoked,
           IsRevoked
  <2>6. WindowOK' /\ AtOK'
    BY <1>16 DEF CreateStep, Marker!CreateStep, Marker!OpenCreates, Marker!OpenExists,
       Marker!OpenFails, Marker!Write,
       Marker!Sync, Marker!WriteFails, Marker!Cleanup, Marker!SetStep, Idle, TypeOK
  <2> QED
    BY <2>1, <2>2, <2>3, <2>4, <2>5, <2>6
<1>17. CASE Tick
  <2>1. TypeOK'
    BY <1>17, BoundsAssumption DEF Tick, TypeOK, Times
  <2> QED
    BY <1>17, <2>1 DEF Tick, LeaseRevoked, IsRevoked
<1>18. CASE UNCHANGED vars
  BY <1>18 DEF vars, TypeOK, LeaseRevoked, IsRevoked
<1>19. ASSUME NEW p \in Procs, Begin(p) PROVE IInv'
  <2>1. {TRUE, ~Unregistered} \subseteq BOOLEAN
    BY Zenon
  <2> HIDE DEF IInv
  <2> QED
    BY <1>1, <1>4, <1>10, <1>19, <2>1, Zenon DEF Begin
<1>20. ASSUME NEW p \in Procs, Step(p) PROVE IInv'
  <2> HIDE DEF IInv
  <2> QED
    BY <1>2, <1>3, <1>5, <1>6, <1>7, <1>8, <1>9, <1>11, <1>12, <1>13, <1>16, <1>20, Zenon DEF Step
<1> HIDE DEF IInv
<1> QED
  BY <1>14, <1>15, <1>17, <1>18, <1>19, <1>20, Zenon DEF Next

---------------------------------------------------------------------------
(* What the markers say about leases and approvals.                        *)

\* A marker call of p may still change or report its file.
Touching(p) == create[p].step \in {"open", "write", "sync", "cleanup"}

\* Where every consumer is checked, the registry lock also keeps consumers
\* of one lease apart: nobody touches a marker that was reported.
UseOK == ~Unregistered =>
    /\ \A p \in Procs : Using(p) => job[p].checked
    /\ \A p \in Procs : Pc(p) = "consume" /\ Touching(p) =>
          /\ wins[job[p].lease] = 0
          /\ create[p].step = "open" => marker[job[p].lease].state = "absent"
          /\ create[p].step \in {"write", "sync"} => marker[job[p].lease].state # "absent"
    /\ \A l \in Leases : wins[l] # 0 => wins[l] = 1 /\ marker[l].state # "absent"

\* A lease is built after its approval's marker was reported, and the marker
\* of an approval names the lease that was issued from it.
SpentOK ==
    /\ \A p \in Procs : create[p].step = "created" => wins[create[p].key] # 0
    /\ \A p \in Procs : Pc(p) = "build" /\ job[p].approval # NoKey => wins[job[p].approval] # 0
    /\ \A m \in Leases : lease[m].state = "issued"
       /\ lease[m].approval \in Approvals \ OpenErrors =>
          wins[lease[m].approval] # 0 /\ marker[lease[m].approval].data = m

\* The whole inductive invariant: MInv adds to IInv what DurableMarker_proofs
\* shows of markers, and what the markers say.
MInv == IInv /\ M!IInv /\ UseOK /\ SpentOK

\* What Issue leaves in the job of its process.
LEMMA IssueJob ==
    ASSUME job \in [Procs -> Jobs], NEW p \in Procs, NEW l \in Leases,
        NEW a \in Approvals \cup {NoKey}, NEW b \in Bases,
           Issue(p, l, a, b)
    PROVE  /\ job'[p].pc \in {"useApproval", "build"} /\ job'[p].lease = l /\ job'[p].approval = a
           /\ job'[p].pc = "build" => a = NoKey
           /\ \A q \in Procs \ {p} : job'[q] = job[q]
<1>1. CASE a = NoKey
  BY <1>1 DEF Issue, Idle
<1>2. CASE a # NoKey
  BY <1>2 DEF Issue, Idle
<1> QED
  BY <1>1, <1>2

\* Where every consumer is checked, a reported lease marker is left alone.
LEMMA UseStep == MInv /\ [Next]_vars => UseOK'
<1> SUFFICES ASSUME MInv, [Next]_vars, ~Unregistered
             PROVE  UseOK'
  BY DEF UseOK
<1>0. IInv' /\ UseOK /\ IInv
  BY StepInv DEF MInv
<1>1. /\ \A p \in Procs : Using(p) => job[p].checked /\ job[p].lease \in Leases
      /\ \A p \in Procs : Pc(p) = "consume" => create[p].key = job[p].lease
      /\ \A p, q \in Procs : Pc(p) = "consume" /\ Pc(q) = "consume" => p = q
      /\ job \in [Procs -> Jobs] /\ Marker!MarkerTypeOK
  BY <1>0, JobTypes DEF IInv, UseOK, LockOK, Critical, CallOK, IssuedOK, Using, TypeOK
<1> USE <1>1, MarkerAssumption, DisjointAssumption DEF Using, Pc, Touching
<1>2. ASSUME NEW p \in Procs, CreateStep(p) PROVE UseOK'
  <2> USE DEF Marker!SetStep, Marker!KeyOf, Marker!MarkerTypeOK
  <2>1. Pc(p) \in {"useApproval", "consume"} /\ UNCHANGED job
    BY <1>0, <1>2 DEF IInv, CallOK, CreateStep, Marker!CreateStep, Marker!OpenCreates,
       Marker!OpenExists,
       Marker!OpenFails, Marker!Write, Marker!Sync, Marker!WriteFails, Marker!Cleanup
  <2>2. PICK k \in Keys : create[p].key = k
    BY <1>0, <2>1 DEF IInv, CallOK, Keys
  <2>3. CASE Pc(p) = "useApproval"
    <3>1. k \notin Leases
      BY <1>0, <2>2, <2>3 DEF IInv, CallOK
    <3>2. \A l \in Leases : marker'[l] = marker[l] /\ wins'[l] = wins[l]
      BY <1>2, <2>2, <3>1 DEF CreateStep, Marker!CreateStep, Marker!OpenCreates, Marker!OpenExists,
         Marker!OpenFails, Marker!Write, Marker!Sync, Marker!WriteFails, Marker!Cleanup, Keys
    <3>3. \A q \in Procs \ {p} : create'[q] = create[q]
      BY <1>2 DEF CreateStep, Marker!CreateStep, Marker!OpenCreates, Marker!OpenExists,
         Marker!OpenFails, Marker!Write, Marker!Sync, Marker!WriteFails, Marker!Cleanup
    <3> QED
      BY <1>0, <2>1, <2>3, <3>2, <3>3 DEF UseOK
  <2>4. CASE Pc(p) = "consume"
    <3>1. k = job[p].lease /\ k \in Leases
      BY <2>2, <2>4
    <3>2. UNCHANGED job /\ \A q \in Procs : Pc(q) = "consume" => q = p
      BY <2>1, <2>4
    <3>3. CASE Marker!OpenCreates(p)
      BY <1>0, <2>2, <2>4, <3>1, <3>2, <3>3 DEF Marker!OpenCreates, UseOK
    <3>4. CASE Marker!OpenExists(p)
      BY <1>0, <2>2, <2>4, <3>1, <3>2, <3>4 DEF Marker!OpenExists, UseOK
    <3>5. CASE Marker!OpenFails(p) \/ Marker!WriteFails(p)
      BY <1>0, <2>2, <2>4, <3>1, <3>2, <3>5 DEF Marker!OpenFails, Marker!WriteFails, UseOK
    <3>6. CASE Marker!Write(p)
      <4>1. wins[k] = 0 /\ marker[k].state # "absent" /\ create[p].step = "write"
        BY <1>0, <2>4, <3>1, <3>6 DEF Marker!Write, UseOK
      <4>2. create' = [create EXCEPT ![p].step = "sync"] /\ wins' = wins
        BY <3>6 DEF Marker!Write
      <4>3. marker'[k].state # "absent" /\ \A l \in Leases \ {k} : marker'[l] = marker[l]
        BY <2>2, <3>6, <4>1 DEF Marker!Write, Keys
      <4>4. \A l \in Leases : wins'[l] # 0 => wins'[l] = 1 /\ marker'[l].state # "absent"
        BY <1>0, <4>1, <4>2, <4>3 DEF UseOK
      <4>5. \A q \in Procs : job'[q] = job[q]
        BY <3>2
      <4>6. create'[p].step = "sync"
        BY <4>2
      <4> QED
        BY <1>0, <3>1, <3>2, <4>1, <4>2, <4>3, <4>4, <4>5, <4>6 DEF UseOK
    <3>7. CASE Marker!Sync(p)
      <4>1. wins' = [wins EXCEPT ![k] = 1]
        BY <1>0, <2>2, <2>4, <3>1, <3>7 DEF Marker!Sync, Marker!CountedTo2, UseOK
      <4> QED
        BY <1>0, <2>2, <2>4, <3>1, <3>2, <3>7, <4>1 DEF Marker!Sync, UseOK
    <3>8. CASE Marker!Cleanup(p)
      BY <1>0, <2>2, <2>4, <3>1, <3>2, <3>8 DEF Marker!Cleanup, UseOK
    <3> QED
      BY <1>2, <3>3, <3>4, <3>5, <3>6, <3>7, <3>8 DEF CreateStep, Marker!CreateStep
  <2> QED
    BY <2>1, <2>3, <2>4
<1>3. ASSUME NEW p \in Procs, CreateMarker(p) PROVE UseOK'
  <2>1. wins[job[p].lease] = 0 /\ marker[job[p].lease].state = "absent"
    BY <1>0, <1>3 DEF CreateMarker, UseOK
  <2> QED
    BY <1>0, <1>3, <2>1 DEF CreateMarker, Job, Marker!Start, UseOK, Jobs, Marker!MarkerTypeOK
<1>4. ASSUME NEW p \in Procs, Consumed(p) \/ ApprovalUsed(p) PROVE UseOK'
  <2>1. /\ UNCHANGED <<marker, wins>> /\ job'[p].pc \in {"idle", "build"}
        /\ \A q \in Procs \ {p} : job'[q] = job[q] /\ create'[q] = create[q]
    BY <1>4 DEF Consumed, ApprovalUsed, Job, Done, Idle, Marker!Return, Jobs, Marker!MarkerTypeOK
  <2> QED
    BY <1>0, <2>1 DEF UseOK
<1>5. ASSUME NEW p \in Procs, Crash(p) PROVE UseOK'
  BY <1>0, <1>5 DEF Crash, Job, Marker!Die, Marker!SetStep, UseOK, Jobs, Marker!MarkerTypeOK
<1>6. ASSUME NEW p \in Procs, NEW l \in Leases, NEW a \in Approvals \cup {NoKey}, NEW b \in Bases,
      Issue(p, l, a, b)
      PROVE  UseOK'
  <2>1. UNCHANGED <<marker, wins>> /\ \A q \in Procs \ {p} : create'[q] = create[q]
    BY <1>6 DEF Issue, Marker!Start, Marker!MarkerTypeOK
  <2>2. job'[p].pc \in {"useApproval", "build"} /\ \A q \in Procs \ {p} : job'[q] = job[q]
    BY <1>6, IssueJob
  <2> QED
    BY <1>0, <2>1, <2>2 DEF UseOK
<1>7. ASSUME NEW p \in Procs, NEW l \in Leases, Consume(p, l, TRUE) PROVE UseOK'
  BY <1>0, <1>7 DEF Consume, Idle, UseOK, Jobs
<1>8. ASSUME NEW p \in Procs, NEW r \in Revocations, Revoke(p, r) PROVE UseOK'
  BY <1>0, <1>8 DEF Revoke, Idle, UseOK, Jobs
<1>9. ASSUME NEW p \in Procs,
      BuildLease(p) \/ LockConsume(p) \/ Verify(p) \/ Replayed(p) \/ LockRevoke(p)
                              \/ Persist(p) \/ LockTimeout(p)
      PROVE  UseOK'
  BY <1>0, <1>9 DEF BuildLease, LockConsume, Verify, Replayed, LockRevoke, Persist, LockTimeout,
     Job, Done, Idle, UseOK, Jobs
<1>10. CASE UNCHANGED vars \/ Tick \/ \E p \in Procs : BreakLock(p)
  BY <1>0, <1>10 DEF vars, Tick, BreakLock, UseOK
<1>11. ASSUME NEW p \in Procs, Begin(p) PROVE UseOK'
  <2>1. {TRUE, ~Unregistered} = {TRUE}
    BY CallersAssumption, Zenon
  <2> QED
    BY <1>6, <1>7, <1>8, <1>11, <2>1, Zenon DEF Begin
<1>12. ASSUME NEW p \in Procs, Step(p) PROVE UseOK'
  BY <1>2, <1>3, <1>4, <1>9, <1>12, Zenon DEF Step
<1> QED
  BY <1>5, <1>10, <1>11, <1>12, Zenon DEF Next

\* The marker of a spent approval keeps naming the lease it was spent for.
LEMMA SpentStep == MInv /\ [Next]_vars => SpentOK'
<1> SUFFICES ASSUME MInv, [Next]_vars
             PROVE  SpentOK'
  OBVIOUS
<1>0. IInv' /\ M!IInv /\ M!IInv' /\ SpentOK /\ IInv
  BY StepInv, MarkerSteps, M!MarkerStepInv, MarkerAssumption DEF MInv
<1>1. /\ job \in [Procs -> Jobs] /\ Marker!MarkerTypeOK
      /\ lease \in [Leases -> [state : {"undrawn", "drawn", "issued"}, basis : Bases \cup {NoKey},
                               approval : Approvals \cup {NoKey}, notBefore : Nat, expires : Nat]]
  BY <1>0, JobTypes DEF IInv, TypeOK
<1> USE <1>1, MarkerAssumption
<1>2. ASSUME NEW p \in Procs, CreateStep(p) PROVE SpentOK'
  <2> USE DEF Marker!SetStep, Marker!KeyOf, Marker!MarkerTypeOK
  <2>1. PICK k \in Keys : create[p].key = k
    BY <1>0, <1>2 DEF IInv, CallOK, Pc, Labels, Jobs, IssuedOK, Using, Keys, CreateStep,
       Marker!CreateStep,
       Marker!OpenCreates, Marker!OpenExists, Marker!OpenFails, Marker!Write, Marker!Sync,
           Marker!WriteFails, Marker!Cleanup
  <2>2. UNCHANGED <<job, lease>> /\ \A q \in Procs \ {p} : create'[q] = create[q]
    BY <1>2 DEF CreateStep, Marker!CreateStep, Marker!OpenCreates, Marker!OpenExists,
       Marker!OpenFails, Marker!Write, Marker!Sync, Marker!WriteFails, Marker!Cleanup
  <2>3. \A h \in Keys : wins[h] # 0 => wins'[h] # 0
    BY <1>2, <2>1 DEF CreateStep, Marker!CreateStep, Marker!OpenCreates, Marker!OpenExists,
       Marker!OpenFails, Marker!Write, Marker!Sync, Marker!WriteFails, Marker!Cleanup,
           Marker!CountedTo2
  <2>4. \A h \in Keys \ OpenErrors : wins[h] # 0 => marker'[h] = marker[h]
    BY <1>0, <1>2, <2>1 DEF CreateStep, Marker!CreateStep, Marker!OpenCreates, Marker!OpenExists,
       Marker!OpenFails,
       Marker!Write, Marker!Sync, Marker!WriteFails, Marker!Cleanup, M!IInv, M!HoldersOK, M!WinsOK,
           M!Steady, M!Holding, M!KeyOf
  <2>5. create'[p].step = "created" => wins'[create'[p].key] # 0
    <3>1. create'[p].key = k /\ (create'[p].step = "created" => Marker!Sync(p))
      BY <1>2, <2>1 DEF CreateStep, Marker!CreateStep, Marker!OpenCreates, Marker!OpenExists,
         Marker!OpenFails, Marker!Write, Marker!Sync, Marker!WriteFails, Marker!Cleanup
    <3>2. Marker!Sync(p) => wins'[k] # 0
      BY <2>1 DEF Marker!Sync, Marker!CountedTo2
    <3> QED
      BY <3>1, <3>2
  <2>6. \A q \in Procs \ {p} : create[q].step = "created" => create[q].key \in Keys
    BY <1>0 DEF M!IInv, M!KeysOK, M!InCall, M!KeyOf
  <2> QED
    <3>1. \A q \in Procs : create'[q].step = "created" => wins'[create'[q].key] # 0
      BY <1>0, <2>2, <2>3, <2>5, <2>6 DEF SpentOK
    <3>2. \A q \in Procs : job[q].pc = "build"
          /\ job[q].approval # NoKey => wins'[job[q].approval] # 0
      BY <1>0, <2>3 DEF SpentOK, Pc, Keys, Jobs
    <3>3. \A m \in Leases : lease[m].state = "issued"
          /\ lease[m].approval \in Approvals \ OpenErrors =>
              wins'[lease[m].approval] # 0 /\ marker'[lease[m].approval].data = m
      BY <1>0, <2>3, <2>4 DEF SpentOK, Keys
    <3> QED
      BY <2>2, <3>1, <3>2, <3>3 DEF SpentOK, Pc
<1>3. ASSUME NEW p \in Procs, BuildLease(p) PROVE SpentOK'
  <2> DEFINE l == job[p].lease
             a == job[p].approval
  <2>1. l \in Leases /\ Pc(p) = "build"
    BY <1>0, <1>3 DEF BuildLease, IInv, DrawnOK, Making, Pc
  <2>2. /\ UNCHANGED <<marker, wins, create>> /\ job'[p].pc = "idle"
        /\ \A q \in Procs \ {p} : job'[q] = job[q]
        /\ \A m \in Leases \ {l} : lease'[m] = lease[m]
    BY <1>3, <2>1 DEF BuildLease, Done, Idle
  <2>3. lease'[l] = lease[l] \/ (lease'[l].approval = a /\ (a # NoKey => marker[a].data = l))
    <3>1. CASE Buildable(p)
      BY <1>3, <2>1, <3>1 DEF BuildLease, Buildable
    <3>2. CASE ~Buildable(p)
      BY <1>3, <3>2 DEF BuildLease
    <3> QED
      BY <3>1, <3>2
  <2>4. a # NoKey => wins[a] # 0
    BY <1>0, <2>1 DEF SpentOK
  <2> QED
    BY <1>0, <2>1, <2>2, <2>3, <2>4, MarkerAssumption DEF SpentOK, Pc, Keys
<1>4. ASSUME NEW p \in Procs, ApprovalUsed(p) PROVE SpentOK'
  <2>1. /\ UNCHANGED <<marker, wins, lease>> /\ create'[p].step = "off"
        /\ job'[p].pc = "build" => create[p].step = "created" /\ job'[p].approval = job[p].approval
        /\ \A q \in Procs \ {p} : job'[q] = job[q] /\ create'[q] = create[q]
    BY <1>4 DEF ApprovalUsed, Job, Done, Idle, Marker!Return, Marker!NoCall, Jobs,
       Marker!MarkerTypeOK
  <2>2. create[p].key = job[p].approval
    BY <1>0, <1>4 DEF ApprovalUsed, IInv, CallOK, Pc
  <2> QED
    BY <1>0, <2>1, <2>2 DEF SpentOK, Pc
<1>5. ASSUME NEW p \in Procs, NEW l \in Leases, NEW a \in Approvals \cup {NoKey}, NEW b \in Bases,
      Issue(p, l, a, b)
      PROVE  SpentOK'
  <2>1. /\ UNCHANGED <<marker, wins>> /\ (create'[p] = create[p] \/ create'[p].step = "open")
        /\ \A q \in Procs \ {p} : create'[q] = create[q]
    BY <1>5 DEF Issue, Marker!Start, Marker!MarkerTypeOK
  <2>2. lease'[l].state = "drawn" /\ \A m \in Leases \ {l} : lease'[m] = lease[m]
    BY <1>5 DEF Issue
  <2>3. /\ job'[p].pc = "build" => job'[p].approval = NoKey
        /\ \A q \in Procs \ {p} : job'[q] = job[q]
    BY <1>5, IssueJob
  <2> QED
    BY <1>0, <2>1, <2>2, <2>3 DEF SpentOK, Pc
<1>6. ASSUME NEW p \in Procs, CreateMarker(p) \/ Consumed(p) \/ Crash(p) PROVE SpentOK'
  <2>1. /\ UNCHANGED <<marker, wins, lease>> /\ create'[p].step # "created"
        /\ job'[p].pc # "build"
        /\ \A q \in Procs \ {p} : job'[q] = job[q] /\ create'[q] = create[q]
    BY <1>6 DEF CreateMarker, Consumed, Crash, Job, Done, Idle, Marker!Start, Marker!Return,
       Marker!NoCall, Marker!Die,
       Marker!SetStep, Jobs, Marker!MarkerTypeOK
  <2> QED
    BY <1>0, <2>1 DEF SpentOK, Pc
<1>7. ASSUME NEW p \in Procs,
             \/ LockConsume(p) \/ Verify(p) \/ Replayed(p)
             \/ LockRevoke(p) \/ Persist(p) \/ LockTimeout(p)
             \/ \E r \in Revocations : Revoke(p, r)
             \/ \E l \in Leases, c \in {TRUE, ~Unregistered} : Consume(p, l, c)
      PROVE  SpentOK'
  <2>1. /\ UNCHANGED <<marker, wins, lease, create>> /\ job'[p].pc # "build"
        /\ \A q \in Procs \ {p} : job'[q] = job[q]
    <3>1. CASE LockConsume(p) \/ Replayed(p) \/ Persist(p) \/ LockTimeout(p)
      BY <3>1 DEF LockConsume, Replayed, Persist, LockTimeout, Job, Done, Idle, Jobs
    <3>2. CASE Verify(p) \/ LockRevoke(p)
      BY <3>2 DEF Verify, LockRevoke, Done, Idle, Jobs
    <3>3. ASSUME NEW r \in Revocations, Revoke(p, r)
          PROVE  /\ UNCHANGED <<marker, wins, lease, create>> /\ job'[p].pc # "build"
                 /\ \A q \in Procs \ {p} : job'[q] = job[q]
      BY <3>3 DEF Revoke, Idle
    <3>4. ASSUME NEW l \in Leases, NEW c \in {TRUE, ~Unregistered}, Consume(p, l, c)
          PROVE  /\ UNCHANGED <<marker, wins, lease, create>> /\ job'[p].pc # "build"
                 /\ \A q \in Procs \ {p} : job'[q] = job[q]
      <4>1. job'[p].pc \in {"lockConsume", "verify"}
        BY <3>4 DEF Consume, Idle
      <4> QED
        BY <3>4, <4>1 DEF Consume
    <3> QED
      BY <1>7, <3>1, <3>2, <3>3, <3>4
  <2> QED
    BY <1>0, <2>1 DEF SpentOK, Pc
<1>8. CASE UNCHANGED vars \/ Tick \/ \E p \in Procs : BreakLock(p)
  BY <1>0, <1>8 DEF vars, Tick, BreakLock, SpentOK, Pc
<1>9. ASSUME NEW p \in Procs, Begin(p) PROVE SpentOK'
  BY <1>5, <1>7, <1>9, Zenon DEF Begin
<1>10. ASSUME NEW p \in Procs, Step(p) PROVE SpentOK'
  BY <1>2, <1>3, <1>4, <1>6, <1>7, <1>10, Zenon DEF Step
<1> QED
  BY <1>6, <1>8, <1>9, <1>10, Zenon DEF Next

\* MInv holds initially, ...
LEMMA InitMInv == Init => MInv
  BY InitInv, SameMarkers, M!MarkerInitInv, MarkerAssumption
     DEF Init, MInv, UseOK, SpentOK, Using, Pc, Idle, Touching, Unissued, Keys, Marker!MarkerInit,
         Marker!NoCall

\* ... is preserved by every step, ...
LEMMA StepMInv == MInv /\ [Next]_vars => MInv'
  BY StepInv, UseStep, SpentStep, MarkerSteps, M!MarkerStepInv, MarkerAssumption DEF MInv

\* ... and so always holds.
LEMMA Invariance == Spec => []MInv
  BY InitMInv, StepMInv, PTL DEF Spec

---------------------------------------------------------------------------
(* The theorems.                                                           *)

\* The types of the lease protocol's state hold for any number of processes,
\* leases, approvals and revocations, crashes and errors.
THEOREM LeaseTypeCorrect == Spec => []TypeOK
<1>1. MInv => TypeOK
  BY DEF MInv, IInv
<1> QED
  BY <1>1, Invariance, PTL

\* consumeExecutionLease with a revocationRegistry never creates its marker
\* after a revocation its verification should have seen.
THEOREM RevocationHeeded == Spec => []RevocationNotOvertaken
<1>1. MInv => RevocationNotOvertaken
  BY DEF MInv, IInv
<1> QED
  BY <1>1, Invariance, PTL

\* RevocationRegistry.revoke never loses a record another process wrote.
THEOREM NoRevocationLost == Spec => RevocationsKept
<1>1. MInv /\ [Next]_vars => [registry \subseteq registry']_registry
  <2> SUFFICES ASSUME MInv, [Next]_vars
               PROVE  registry \subseteq registry'
    OBVIOUS
  <2>1. registry' = registry \/ \E p \in Procs : Persist(p)
    BY DEF Next, vars, Begin, Step, Issue, ApprovalUsed, BuildLease, Consume, LockConsume, Verify,
       Replayed, CreateMarker,
       Consumed, Revoke, LockRevoke, LockTimeout, Crash, BreakLock, Tick, CreateStep
  <2>2. ASSUME NEW p \in Procs, Persist(p) PROVE registry \subseteq registry'
    BY <2>2 DEF Persist, MInv, IInv, LoadedOK, Pc
  <2> QED
    BY <2>1, <2>2
<1> QED
  BY <1>1, Invariance, PTL DEF Spec, RevocationsKept

\* Whoever passes verifyExecutionLease does so while the authority and the
\* approval behind the lease are themselves within their windows.
THEOREM AuthorityActive == Spec => []UsedWhileAuthorityActive
<1>1. MInv => UsedWhileAuthorityActive
  <2> SUFFICES ASSUME MInv, NEW p \in Procs, Pc(p) \in {"exists", "consume"},
                      NEW x \in {lease[job[p].lease].basis, lease[job[p].lease].approval} \ {NoKey}
               PROVE  From[x] <= job[p].at /\ job[p].at < Until[x]
    BY DEF UsedWhileAuthorityActive, Pc
  <2> DEFINE l == job[p].lease
  <2>1. /\ l \in Leases /\ lease[l].state = "issued"
        /\ lease[l].notBefore <= job[p].at /\ job[p].at < lease[l].expires
    BY DEF MInv, IInv, IssuedOK, AtOK, Using
  <2>2. From[x] <= lease[l].notBefore /\ lease[l].expires <= Until[x]
    BY <2>1 DEF MInv, IInv, WindowOK
  <2>3. x \in Bases \cup Approvals
    BY <2>1 DEF MInv, IInv, TypeOK
  <2>4. From[x] \in Nat /\ Until[x] \in Nat
    BY <2>3, BasesAssumption
  <2>5. lease[l].notBefore \in Nat /\ lease[l].expires \in Nat /\ job[p].at \in Nat
    BY <2>1, BoundsAssumption DEF MInv, IInv, TypeOK, Times
  <2> QED
    BY <2>1, <2>2, <2>4, <2>5
<1> QED
  BY <1>1, Invariance, PTL

\* No open of a lease marker fails with another code than EEXIST, or every
\* consumer passes a revocationRegistry.
SafeUse == OpenErrors \cap Leases = {} \/ ~Unregistered

\* Either way no lease marker is reported twice.
LEMMA UsedOnce == ASSUME SafeUse, MInv
                  PROVE  \A l \in Leases : wins[l] \in {0, 1}
<1>1. wins \in [Keys -> 0 .. 2]
  BY DEF MInv, IInv, TypeOK, Marker!MarkerTypeOK
<1>2. CASE OpenErrors \cap Leases = {}
  BY <1>1, <1>2 DEF MInv, M!IInv, M!WinsOK, M!Steady, Keys
<1>3. CASE ~Unregistered
  BY <1>1, <1>3 DEF MInv, UseOK, Keys
<1> QED
  BY <1>2, <1>3 DEF SafeUse

\* consumeExecutionLease succeeds at most once for a lease, if no open of a
\* lease marker fails with another code than EEXIST or every consumer passes
\* a revocationRegistry.
THEOREM LeaseOnce == SafeUse => (Spec => []LeaseUsedOnce)
<1> SUFFICES ASSUME SafeUse
             PROVE  Spec => []LeaseUsedOnce
  OBVIOUS
<1>1. MInv => LeaseUsedOnce
  BY UsedOnce DEF LeaseUsedOnce
<1> QED
  BY <1>1, Invariance, PTL

\* No open of an approval marker fails with another code than EEXIST.
SafeIssue == OpenErrors \cap Approvals = {}

\* The marker of an approval names the one lease issued from it.
LEMMA OneIssued == ASSUME SafeIssue, MInv, NEW l \in Leases, NEW m \in Leases,
                          lease[l].state = "issued", lease[m].state = "issued",
                          lease[l].approval = lease[m].approval, lease[l].approval \in Approvals
                   PROVE  l = m
  BY DEF SafeIssue, MInv, SpentOK

\* issueExecutionLease issues at most one lease from an ApprovalResult, if no
\* open of an approval marker fails with another code than EEXIST.
THEOREM ApprovalOnce == SafeIssue => (Spec => []OneLeasePerApproval)
<1> SUFFICES ASSUME SafeIssue
             PROVE  Spec => []OneLeasePerApproval
  OBVIOUS
<1>1. MInv => OneLeasePerApproval
  <2> SUFFICES ASSUME MInv, NEW a \in Approvals
               PROVE  Cardinality({l \in Leases : lease[l].state = "issued"
                      /\ lease[l].approval = a}) <= 1
    BY DEF OneLeasePerApproval
  <2> DEFINE S == {l \in Leases : lease[l].state = "issued" /\ lease[l].approval = a}
  <2>1. \A l, m \in S : l = m
    BY OneIssued
  <2>2. CASE S = {}
    BY <2>2, FS_EmptySet
  <2>3. CASE S # {}
    <3>1. PICK l : S = {l}
      BY <2>1, <2>3
    <3> QED
      <4>1. Cardinality(S) = 1
        BY <3>1, FS_Singleton
      <4> QED
        BY <4>1
  <2> QED
    BY <2>2, <2>3
<1> QED
  BY <1>1, Invariance, PTL

\* buildExecutionLease, when it issues a lease, does OneUse's Issue.
LEMMA IssueRefines ==
    ASSUME SafeIssue, MInv, NEW p \in Procs, BuildLease(p), lease' # lease
    PROVE  Promise!Next
<1>0. PICK l \in Leases, a \in Approvals \cup {NoKey} : l = job[p].lease /\ a = job[p].approval
  BY DEF BuildLease, MInv, IInv, TypeOK, DrawnOK, Making, Pc
<1> DEFINE issued == {m \in Leases : lease[m].state = "issued"}
           behind == [m \in Leases |-> lease[m].approval]
<1>1. /\ lease[l].state = "drawn" /\ Buildable(p)
      /\ lease' = [lease EXCEPT ![l] = [state |-> "issued", basis |-> job[p].basis, approval |-> a,
                                        notBefore |-> WindowStart(job[p].basis),
                                            expires |-> WindowEnd(job[p].basis, a)]]
      /\ UNCHANGED wins
  BY <1>0 DEF BuildLease, MInv, IInv, DrawnOK, Making, Pc
<1>2. lease \in [Leases -> [state : {"undrawn", "drawn", "issued"}, basis : Bases \cup {NoKey},
                               approval : Approvals \cup {NoKey}, notBefore : Nat, expires : Nat]]
  BY DEF MInv, IInv, TypeOK
<1>3. a # NoKey => \A m \in issued : behind[m] # a
  BY <1>0, <1>1, <1>2 DEF Buildable, SafeIssue, MInv, SpentOK
<1>4. issued' = issued \cup {l}
  BY <1>1, <1>2
<1>5. behind' = [behind EXCEPT ![l] = a]
  BY <1>1, <1>2
<1>6. l \notin issued
  BY <1>1
<1>7. Promise!Issue(l, a)
  BY <1>1, <1>3, <1>4, <1>5, <1>6 DEF Promise!Issue
<1> QED
  BY <1>7 DEF Promise!Next

\* The report of a lease marker is OneUse's Use, that of an approval marker
\* a stutter.
LEMMA UseRefines ==
    ASSUME SafeUse, MInv, NEW p \in Procs, Marker!Sync(p), UNCHANGED lease
    PROVE  Promise!Next \/ UNCHANGED Promise!vars
<1>1. wins \in [Keys -> 0 .. 2] /\ create[p].step = "sync"
      /\ wins' = [wins EXCEPT ![create[p].key] = Marker!CountedTo2(@)]
  BY DEF MInv, IInv, TypeOK, Marker!MarkerTypeOK, Marker!Sync, Marker!KeyOf
<1>2. Pc(p) \in {"useApproval", "consume"}
  BY <1>1 DEF MInv, IInv, CallOK
<1>3. CASE Pc(p) = "useApproval"
  <2>1. create[p].key \in Approvals
    BY <1>3 DEF MInv, IInv, CallOK
  <2>2. \A l \in Leases : wins'[l] = wins[l]
    BY <1>1, <2>1, DisjointAssumption DEF Keys
  <2> QED
    BY <2>2 DEF Promise!vars
<1>4. CASE Pc(p) = "consume"
  <2>0. PICK l \in Leases : l = job[p].lease
    BY <1>4 DEF MInv, IInv, IssuedOK, Using
  <2> DEFINE issued == {m \in Leases : lease[m].state = "issued"}
             uses == [m \in Leases |-> wins[m]]
  <2>1. create[p].key = l /\ lease[l].state = "issued"
    BY <1>4, <2>0 DEF MInv, IInv, CallOK, IssuedOK, Using
  <2>2. wins[l] = 0
    <3>1. CASE OpenErrors \cap Leases = {}
      BY <1>1, <2>1, <3>1 DEF MInv, M!IInv, M!HoldersOK, M!Holding, M!KeyOf, M!Steady, Keys
    <3>2. CASE ~Unregistered
      BY <1>1, <1>4, <2>0, <3>2 DEF MInv, UseOK, Touching
    <3> QED
      BY <3>1, <3>2 DEF SafeUse
  <2>3. wins' = [wins EXCEPT ![l] = 1]
    BY <1>1, <2>1, <2>2 DEF Marker!CountedTo2
  <2>4. uses' = [uses EXCEPT ![l] = 1]
    BY <1>1, <2>1, <2>3 DEF Keys
  <2>5. Promise!Use(l)
    BY <2>1, <2>2, <2>4 DEF Promise!Use
  <2> QED
    BY <2>5 DEF Promise!Next
<1> QED
  BY <1>2, <1>3, <1>4

\* Issuance and consumption implement OneUse: a lease is issued once, from an
\* approval behind no other lease, and used once.
THEOREM LeasesRefineOneUse == SafeUse /\ SafeIssue => (Spec => ImplementsOneUse)
<1> SUFFICES ASSUME SafeUse, SafeIssue
             PROVE  Spec => Promise!Spec
  BY DEF ImplementsOneUse
<1>1. Init => Promise!Init
  BY DEF Init, Promise!Init, Unissued, Marker!MarkerInit, Keys
<1>2. MInv /\ [Next]_vars => [Promise!Next]_Promise!vars
  <2> SUFFICES ASSUME MInv, [Next]_vars
               PROVE  Promise!Next \/ UNCHANGED Promise!vars
    OBVIOUS
  <2>1. CASE UNCHANGED <<lease, wins>>
    BY <2>1 DEF Promise!vars
  <2>2. ASSUME NEW p \in Procs, BuildLease(p) PROVE Promise!Next \/ UNCHANGED Promise!vars
    BY <2>1, <2>2, IssueRefines DEF BuildLease
  <2>3. ASSUME NEW p \in Procs, CreateStep(p) PROVE Promise!Next \/ UNCHANGED Promise!vars
    BY <2>1, <2>3, UseRefines DEF CreateStep, Marker!CreateStep, Marker!OpenCreates,
       Marker!OpenExists, Marker!OpenFails,
       Marker!Write, Marker!WriteFails, Marker!Cleanup
  <2>4. ASSUME NEW p \in Procs, NEW l \in Leases, NEW a \in Approvals \cup {NoKey},
        NEW b \in Bases, Issue(p, l, a, b)
        PROVE UNCHANGED Promise!vars
    <3>1. lease[l].state = "undrawn" /\ lease' = [lease EXCEPT ![l].state = "drawn"] /\ wins' = wins
      BY <2>4 DEF Issue, Marker!Start
    <3>2. \A m \in Leases : lease'[m].approval = lease[m].approval
          /\ (lease'[m].state = "issued" <=> lease[m].state = "issued")
      BY <3>1 DEF MInv, IInv, TypeOK
    <3> QED
      BY <3>1, <3>2 DEF Promise!vars
  <2>5. ASSUME NEW p \in Procs, Begin(p) PROVE Promise!Next \/ UNCHANGED Promise!vars
    BY <2>1, <2>4, <2>5 DEF Begin, Consume, Revoke
  <2>6. ASSUME NEW p \in Procs, Step(p) PROVE Promise!Next \/ UNCHANGED Promise!vars
    BY <2>1, <2>2, <2>3, <2>6 DEF Step, ApprovalUsed, LockConsume, Verify, Replayed, CreateMarker,
       Consumed,
       LockRevoke, Persist, LockTimeout, Marker!Start, Marker!Return
  <2> QED
    BY <2>1, <2>5, <2>6 DEF Next, vars, Crash, BreakLock, Tick, Marker!Die
<1> QED
  BY <1>1, <1>2, Invariance, PTL DEF Spec, Promise!Spec
=============================================================================
