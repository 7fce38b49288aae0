------------------------ MODULE DurableMarker_proofs ------------------------
(***************************************************************************)
(* Proofs about DurableMarker, for any number of processes and markers:    *)
(* a marker whose open fails with no other code than EEXIST is created     *)
(* once and stays, whatever crashes and write errors happen.               *)
(***************************************************************************)
EXTENDS DurableMarker, TLAPS

\* p has created the file at its path and has not reported the outcome.
Holding(p) == create[p].step \in {"write", "sync", "cleanup"}

InCall(p) == create[p].step \notin {"off", "dead"}

\* A call in progress is about some marker.
KeysOK == \A p \in Procs : InCall(p) => KeyOf(p) \in Keys

\* The file of a call that holds it is the call's own and was never reported.
HoldersOK == \A p \in Procs : Holding(p) /\ KeyOf(p) \in Steady =>
                /\ marker[KeyOf(p)].by = p
                /\ marker[KeyOf(p)].state # "absent"
                /\ wins[KeyOf(p)] = 0
                /\ create[p].step = "sync" => marker[KeyOf(p)].state = "full"

WinsOK == \A k \in Steady : wins[k] # 0 => wins[k] = 1 /\ marker[k].state = "full"

\* The inductive invariant.
IInv == MarkerTypeOK /\ KeysOK /\ HoldersOK /\ WinsOK

\* The type invariant and the key bookkeeping are inductive by themselves,
\* open errors included.
LEMMA MarkerTypeStep == MarkerTypeOK /\ KeysOK /\ [MarkerNext]_markerVars => MarkerTypeOK' /\ KeysOK'
<1> SUFFICES ASSUME MarkerTypeOK, KeysOK, [MarkerNext]_markerVars
             PROVE  MarkerTypeOK' /\ KeysOK'
  OBVIOUS
<1> USE NoneAssumption DEF MarkerTypeOK, KeysOK, InCall, KeyOf, SetStep, Steps
<1>1. CASE UNCHANGED markerVars
  BY <1>1 DEF markerVars
<1>2. ASSUME NEW p \in Procs, NEW k \in Keys, NEW d \in Data, Start(p, k, d)
      PROVE  MarkerTypeOK' /\ KeysOK'
  BY <1>2 DEF Start
<1>3. ASSUME NEW p \in Procs, OpenCreates(p) PROVE MarkerTypeOK' /\ KeysOK'
  BY <1>3 DEF OpenCreates
<1>4. ASSUME NEW p \in Procs, OpenExists(p) PROVE MarkerTypeOK' /\ KeysOK'
  BY <1>4 DEF OpenExists
<1>5. ASSUME NEW p \in Procs, OpenFails(p) PROVE MarkerTypeOK' /\ KeysOK'
  BY <1>5 DEF OpenFails
<1>6. ASSUME NEW p \in Procs, Write(p) PROVE MarkerTypeOK' /\ KeysOK'
  BY <1>6 DEF Write
<1>7. ASSUME NEW p \in Procs, Sync(p) PROVE MarkerTypeOK' /\ KeysOK'
  <2>1. PICK k \in Keys : k = create[p].key
    BY <1>7 DEF Sync
  <2>2. wins' = [wins EXCEPT ![k] = CountedTo2(wins[k])]
    BY <1>7, <2>1 DEF Sync
  <2>3. wins' \in [Keys -> 0 .. 2]
    BY <2>2 DEF CountedTo2
  <2>4. create' = [create EXCEPT ![p].step = "created"] /\ marker' = marker
    BY <1>7 DEF Sync
  <2> QED
    BY <2>1, <2>3, <2>4
<1>8. ASSUME NEW p \in Procs, WriteFails(p) PROVE MarkerTypeOK' /\ KeysOK'
  BY <1>8 DEF WriteFails
<1>9. ASSUME NEW p \in Procs, Cleanup(p) PROVE MarkerTypeOK' /\ KeysOK'
  BY <1>9 DEF Cleanup, Absent
<1>10. ASSUME NEW p \in Procs, Return(p) PROVE MarkerTypeOK' /\ KeysOK'
  BY <1>10 DEF Return, NoCall
<1>11. ASSUME NEW p \in Procs, Die(p) PROVE MarkerTypeOK' /\ KeysOK'
  BY <1>11 DEF Die
<1> QED
  BY <1>1, <1>2, <1>3, <1>4, <1>5, <1>6, <1>7, <1>8, <1>9, <1>10, <1>11
     DEF MarkerNext, CreateStep

LEMMA MarkerInitInv == MarkerInit => IInv
  BY NoneAssumption DEF MarkerInit, IInv, MarkerTypeOK, KeysOK, HoldersOK, WinsOK,
     Holding, InCall, KeyOf, Absent, NoCall, Steps, Steady

\* Each action preserves the ownership of files in the making and the
\* record of files reported.
LEMMA MarkerStepInv == IInv /\ [MarkerNext]_markerVars => IInv'
<1> SUFFICES ASSUME IInv, [MarkerNext]_markerVars
             PROVE  IInv'
  OBVIOUS
<1>0. MarkerTypeOK' /\ KeysOK'
  BY MarkerTypeStep DEF IInv
<1> SUFFICES HoldersOK' /\ WinsOK'
  BY <1>0 DEF IInv
<1> USE <1>0, NoneAssumption
    DEF IInv, MarkerTypeOK, KeysOK, HoldersOK, WinsOK, Holding, InCall, KeyOf, SetStep, Steps, Steady
<1>1. CASE UNCHANGED markerVars
  BY <1>1 DEF markerVars
<1>2. ASSUME NEW p \in Procs, NEW k \in Keys, NEW d \in Data, Start(p, k, d)
      PROVE  HoldersOK' /\ WinsOK'
  BY <1>2 DEF Start
<1>3. ASSUME NEW p \in Procs, OpenCreates(p) PROVE HoldersOK' /\ WinsOK'
  BY <1>3 DEF OpenCreates
<1>4. ASSUME NEW p \in Procs, OpenExists(p) PROVE HoldersOK' /\ WinsOK'
  BY <1>4 DEF OpenExists
<1>5. ASSUME NEW p \in Procs, Write(p) PROVE HoldersOK' /\ WinsOK'
  <2>1. PICK k \in Keys : k = create[p].key
    BY <1>5 DEF Write
  <2>2. create' = [create EXCEPT ![p].step = "sync"] /\ wins' = wins
    BY <1>5 DEF Write
  <2>3. k \in Steady => wins[k] = 0 /\ marker[k].by = p
    BY <1>5, <2>1 DEF Write
  <2>4. k \in Steady => marker' = [marker EXCEPT ![k].state = "full", ![k].data = create[p].data]
    BY <1>5, <2>1, <2>3 DEF Write
  <2>5. k \in Steady => marker'[k].by = p /\ marker'[k].state = "full"
    BY <2>3, <2>4
  <2>6. \A j \in Keys \ {k} : marker'[j] = marker[j]
    BY <1>5, <2>1 DEF Write
  <2>7. ASSUME NEW q \in Procs, Holding(q)', KeyOf(q)' \in Steady
        PROVE  /\ marker'[KeyOf(q)'].by = q /\ marker'[KeyOf(q)'].state # "absent"
               /\ wins'[KeyOf(q)'] = 0
               /\ create'[q].step = "sync" => marker'[KeyOf(q)'].state = "full"
    <3>1. create'[q].key = create[q].key /\ Holding(q) /\ KeyOf(q) \in Steady
      BY <1>5, <2>2, <2>7 DEF Write
    <3>2. CASE q = p
      BY <3>1, <3>2, <2>1, <2>2, <2>3, <2>5
    <3>3. CASE q # p
      <4>1. create'[q] = create[q] /\ create[q].key # k
        BY <3>1, <3>3, <2>1, <2>2, <2>3
      <4> QED
        BY <4>1, <3>1, <2>2, <2>6
    <3> QED
      BY <3>2, <3>3
  <2>8. WinsOK'
    BY <2>2, <2>3, <2>6
  <2> QED
    BY <2>7, <2>8
<1>6. ASSUME NEW p \in Procs, Sync(p) PROVE HoldersOK' /\ WinsOK'
  <2>1. PICK k \in Keys : k = create[p].key
    BY <1>6 DEF Sync
  <2>2. create' = [create EXCEPT ![p].step = "created"] /\ marker' = marker
    BY <1>6 DEF Sync
  <2>3. k \in Steady => wins[k] = 0 /\ marker[k].by = p /\ marker[k].state = "full"
    BY <1>6, <2>1 DEF Sync
  <2>4. k \in Steady => wins' = [wins EXCEPT ![k] = 1]
    BY <1>6, <2>1, <2>3 DEF Sync, CountedTo2
  <2>5. \A j \in Keys \ {k} : wins'[j] = wins[j]
    BY <1>6, <2>1 DEF Sync
  <2> QED
    BY <2>1, <2>2, <2>3, <2>4, <2>5
<1>7. ASSUME NEW p \in Procs, WriteFails(p) PROVE HoldersOK' /\ WinsOK'
  BY <1>7 DEF WriteFails
<1>8. ASSUME NEW p \in Procs, Cleanup(p) PROVE HoldersOK' /\ WinsOK'
  BY <1>8 DEF Cleanup, Absent
<1>9. ASSUME NEW p \in Procs, Return(p) PROVE HoldersOK' /\ WinsOK'
  BY <1>9 DEF Return, NoCall
<1>10. ASSUME NEW p \in Procs, Die(p) PROVE HoldersOK' /\ WinsOK'
  BY <1>10 DEF Die
<1>11. ASSUME NEW p \in Procs, OpenFails(p) PROVE HoldersOK' /\ WinsOK'
  BY <1>11 DEF OpenFails
<1> QED
  BY <1>1, <1>2, <1>3, <1>4, <1>5, <1>6, <1>7, <1>8, <1>9, <1>10, <1>11
     DEF MarkerNext, CreateStep

\* durableExclusiveCreateSync keeps its state well formed in every case.
THEOREM MarkerTypeCorrect == MarkerSpec => []MarkerTypeOK
<1>1. MarkerInit => MarkerTypeOK /\ KeysOK
  BY MarkerInitInv DEF IInv
<1> QED
  BY <1>1, MarkerTypeStep, PTL DEF MarkerSpec

\* At most one call of durableExclusiveCreateSync ever returns
\* { created: true } for a path whose open fails with EEXIST only.
THEOREM MarkerCreatedOnce == MarkerSpec => []CreatedOnce
<1>1. IInv => CreatedOnce
  BY DEF IInv, MarkerTypeOK, WinsOK, CreatedOnce
<1> QED
  BY <1>1, MarkerInitInv, MarkerStepInv, PTL DEF MarkerSpec

\* At such a path a marker reported as created is never removed.
THEOREM MarkerCreatedStays == MarkerSpec => []CreatedStays
<1>1. IInv => CreatedStays
  BY DEF IInv, MarkerTypeOK, WinsOK, CreatedStays
<1> QED
  BY <1>1, MarkerInitInv, MarkerStepInv, PTL DEF MarkerSpec

\* At such a path the unlink on the failure path removes the file its own
\* call created, and no other.
THEOREM MarkerCleanupOwn == MarkerSpec => CleanupOwnFile
<1>1. IInv /\ [MarkerNext]_markerVars
        => [\A p \in Procs : Cleanup(p) /\ KeyOf(p) \in Steady
                              => marker[KeyOf(p)].by = p]_markerVars
  BY DEF IInv, HoldersOK, Holding, Cleanup
<1> QED
  BY <1>1, MarkerInitInv, MarkerStepInv, PTL DEF MarkerSpec, CleanupOwnFile
=============================================================================
