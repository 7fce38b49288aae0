-------------------------- MODULE FileLock_proofs --------------------------
(***************************************************************************)
(* Proofs about FileLock, for any number of processes, hosts and calls:    *)
(* while no lock file outlives staleMs, withFileLock is a mutex, whatever  *)
(* crashes and I/O errors happen.                                          *)
(***************************************************************************)
EXTENDS FileLock, TLAPS

Stale == {"judge", "holder", "recheck", "unlinkStale"}

\* From openSync to unlinkSync a call has its own file at the lock path.
Holding == {"write", "fn", "checkOwned", "unlinkOwned"}

\* Nobody judges a lock stale.
NeverStale == file.age = "young" /\ \A p \in Procs : pc[p] \notin Stale

HoldersOwn == \A p \in Procs : pc[p] \in Holding =>
                  file.owner = Token(p) /\ file.content # "absent"

\* The inductive invariant.
IInv == TypeOK /\ NeverStale /\ HoldersOwn

\* The state stays well formed, stale locks or not.
LEMMA TypeStep == TypeOK /\ [Next]_vars => TypeOK'
<1> SUFFICES ASSUME TypeOK, [Next]_vars PROVE TypeOK'
  OBVIOUS
<1> USE DEF TypeOK, Files, Labels, Goto, Tokens, Token
<1>1. CASE UNCHANGED vars
  BY <1>1 DEF vars
<1>2. CASE GrowOld
  BY <1>2 DEF GrowOld
<1>3. ASSUME NEW p \in Procs, Call(p) PROVE TypeOK'
  BY <1>3 DEF Call
<1>4. ASSUME NEW p \in Procs, OpenCreates(p) PROVE TypeOK'
  BY <1>4 DEF OpenCreates
<1>5. ASSUME NEW p \in Procs, WriteHolder(p) PROVE TypeOK'
  BY <1>5 DEF WriteHolder, Written
<1>6. ASSUME NEW p \in Procs, WriteFails(p) PROVE TypeOK'
  <2>1. Written(p) \in Files
    BY DEF Written
  <2>2. file' \in Files
    BY <1>6, <2>1 DEF WriteFails
  <2> QED
    BY <1>6, <2>2 DEF WriteFails
<1>7. ASSUME NEW p \in Procs, Holder(p) PROVE TypeOK'
  BY <1>7 DEF Holder, ReadHolder
<1>8. ASSUME NEW p \in Procs, UnlinkStale(p) \/ UnlinkOwned(p) PROVE TypeOK'
  BY <1>8 DEF UnlinkStale, UnlinkOwned, Absent
<1>9. ASSUME NEW p \in Procs,
             OpenExists(p) \/ Stat(p) \/ Judge(p) \/ Recheck(p) \/ Retry(p) \/ Timeout(p)
               \/ Fn(p) \/ CheckOwned(p) \/ Crash(p)
      PROVE  TypeOK'
  BY <1>9 DEF OpenExists, Stat, Judge, Recheck, Retry, Timeout, Fn, CheckOwned, Crash
<1>10. ASSUME NEW p \in Procs, UnlinkStaleFails(p) \/ UnlinkOwnedFails(p) \/ PidChanges(p)
       PROVE  TypeOK'
  BY <1>10 DEF UnlinkStaleFails, UnlinkOwnedFails, PidChanges
<1> QED
  BY <1>1, <1>2, <1>3, <1>4, <1>5, <1>6, <1>7, <1>8, <1>9, <1>10 DEF Next, Step

LEMMA InitInv == Init => IInv
  BY DEF Init, IInv, TypeOK, NeverStale, HoldersOwn, Files, Labels, Tokens, Absent, Stale, Holding

\* Without aging the stale branch is never entered, so a file leaves the
\* lock path only by the hand of the call that put it there.
LEMMA StepInv == ~Aging /\ IInv /\ [Next]_vars => IInv'
<1> SUFFICES ASSUME ~Aging, IInv, [Next]_vars PROVE IInv'
  OBVIOUS
<1>0. TypeOK'
  BY TypeStep DEF IInv
<1> SUFFICES NeverStale' /\ HoldersOwn'
  BY <1>0 DEF IInv
<1> USE DEF IInv, TypeOK, NeverStale, HoldersOwn, Files, Labels, Stale, Holding, Goto, Token, Tokens
<1>1. CASE UNCHANGED vars
  BY <1>1 DEF vars
<1>2. ASSUME NEW p \in Procs, Call(p) PROVE NeverStale' /\ HoldersOwn'
  BY <1>2 DEF Call
<1>3. ASSUME NEW p \in Procs, OpenCreates(p) PROVE NeverStale' /\ HoldersOwn'
  BY <1>3 DEF OpenCreates
<1>4. ASSUME NEW p \in Procs, WriteHolder(p) PROVE NeverStale' /\ HoldersOwn'
  BY <1>4 DEF WriteHolder, Written
<1>5. ASSUME NEW p \in Procs, WriteFails(p) PROVE NeverStale' /\ HoldersOwn'
  <2>1. /\ Written(p).age = "young" /\ Written(p).owner = file.owner
        /\ file.content # "absent" => Written(p).content # "absent"
    BY DEF Written
  <2>2. /\ file'.age = "young" /\ file'.owner = file.owner
        /\ file.content # "absent" => file'.content # "absent"
    BY <1>5, <2>1 DEF WriteFails
  <2>3. pc' = [pc EXCEPT ![p] = "idle"] /\ calls' = calls
    BY <1>5 DEF WriteFails
  <2> QED
    BY <2>2, <2>3
<1>6. ASSUME NEW p \in Procs, Stat(p) PROVE NeverStale' /\ HoldersOwn'
  BY <1>6 DEF Stat
<1>7. ASSUME NEW p \in Procs, CheckOwned(p) PROVE NeverStale' /\ HoldersOwn'
  BY <1>7 DEF CheckOwned
<1>8. ASSUME NEW p \in Procs, UnlinkOwned(p) PROVE NeverStale' /\ HoldersOwn'
  BY <1>8 DEF UnlinkOwned, Absent
<1>9. ASSUME NEW p \in Procs, OpenExists(p) \/ Retry(p) \/ Timeout(p) \/ Fn(p) \/ Crash(p)
      PROVE  NeverStale' /\ HoldersOwn'
  BY <1>9 DEF OpenExists, Retry, Timeout, Fn, Crash
<1>10. ASSUME NEW p \in Procs, UnlinkOwnedFails(p) \/ PidChanges(p)
       PROVE  NeverStale' /\ HoldersOwn'
  BY <1>10 DEF UnlinkOwnedFails, PidChanges, Gone
<1> QED
  BY <1>1, <1>2, <1>3, <1>4, <1>5, <1>6, <1>7, <1>8, <1>9, <1>10
     DEF Next, Step, GrowOld, Judge, Holder, Recheck, UnlinkStale, UnlinkStaleFails

LEMMA OneHolder == IInv => \A p, q \in Procs : pc[p] \in Holding /\ pc[q] \in Holding => p = q
  BY DEF IInv, HoldersOwn, Token

\* withFileLock keeps its state well formed, with stale locks and errors.
THEOREM TypeCorrect == Spec => []TypeOK
<1>1. Init => TypeOK
  BY InitInv DEF IInv
<1> QED
  BY <1>1, TypeStep, PTL DEF Spec

\* While no lock file outlives staleMs, no two processes run fn together.
THEOREM MutualExclusionHolds == ASSUME ~Aging PROVE Spec => []MutualExclusion
<1>1. IInv => MutualExclusion
  BY OneHolder DEF MutualExclusion, Holding
<1> QED
  BY <1>1, InitInv, StepInv, PTL DEF Spec

\* While no lock file outlives staleMs, a release removes its own file.
THEOREM RemovedByOwnerHolds == ASSUME ~Aging PROVE Spec => RemovedByOwner
<1>1. IInv /\ [Next]_vars => [\A p \in Procs : UnlinkOwned(p) => file.owner = Token(p)]_vars
  BY DEF IInv, HoldersOwn, Holding, UnlinkOwned
<1> QED
  BY <1>1, InitInv, StepInv, PTL DEF Spec, RemovedByOwner

\* While no lock file outlives staleMs, withFileLock implements the mutex
\* that the modules of its callers are built on.
THEOREM LockRefinesMutex == ASSUME ~Aging PROVE Spec => ImplementsMutex
<1>1. Init => Lock!Init
  BY DEF Init, Lock!Init, Inside
<1>2. IInv /\ [Next]_vars => [Lock!Next]_Inside
  <2> SUFFICES ASSUME IInv, [Next]_vars, Inside' # Inside
               PROVE  Lock!Next
    OBVIOUS
  <2> USE DEF Goto, IInv, TypeOK, NeverStale, Stale
  <2>1. ASSUME NEW p \in Procs, WriteHolder(p) PROVE Lock!Enter(p)
    <3>1. \A q \in Procs : pc[q] # "fn"
      BY <2>1, OneHolder DEF WriteHolder, Holding
    <3>2. pc' = [pc EXCEPT ![p] = "fn"]
      BY <2>1 DEF WriteHolder
    <3> QED
      BY <3>1, <3>2 DEF Lock!Enter, Inside
  <2>2. ASSUME NEW p \in Procs, pc[p] = "fn", NEW l \in Labels \ {"fn"}, Goto(p, l)
        PROVE  Lock!Leave(p)
    <3>1. \A q \in Procs : pc[q] = "fn" => q = p
      BY <2>2, OneHolder DEF Holding
    <3> QED
      BY <3>1, <2>2 DEF Lock!Leave, Inside
  <2>3. ASSUME NEW p \in Procs, NEW l \in Labels \ {"fn"}, Goto(p, l), pc[p] # "fn"
        PROVE  FALSE
    BY <2>3 DEF Inside
  <2>4. ASSUME NEW p \in Procs, Call(p) \/ Step(p) \/ Crash(p) \/ PidChanges(p),
               ~WriteHolder(p)
        PROVE  \E l \in Labels \ {"fn"} : Goto(p, l)
    BY <2>4 DEF Call, Step, Crash, PidChanges, UnlinkStaleFails, UnlinkOwnedFails, OpenCreates, OpenExists, WriteFails, Stat, Judge,
                Holder, Recheck, UnlinkStale, Retry, Timeout, Fn, CheckOwned, UnlinkOwned, Labels
  <2>5. CASE UNCHANGED vars \/ GrowOld
    BY <2>5 DEF vars, GrowOld, Inside
  <2> QED
    BY <2>1, <2>2, <2>3, <2>4, <2>5 DEF Next, Lock!Next
<1> QED
  BY <1>1, <1>2, InitInv, StepInv, PTL DEF Spec, ImplementsMutex, Lock!Spec
============================================================================
