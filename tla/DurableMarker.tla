--------------------------- MODULE DurableMarker ---------------------------
(***************************************************************************)
(* durableExclusiveCreateSync (packages/core/src/io/durable-file.js): the  *)
(* one-use markers of execution leases, execution grants and approval      *)
(* results.  A marker is claimed by open(path, 'wx'); its record is        *)
(* written and synced afterwards, and a failure on the way unlinks the     *)
(* path.  Each action is one system call of one process.                   *)
(***************************************************************************)
EXTENDS Naturals

CONSTANTS
    Procs,
    Keys,           \* marker paths
    Data,           \* the records callers write into markers
    NoProc, NoKey, NoData,
    OpenErrors,     \* the paths whose open may fail with another code than EEXIST
    WriteErrors     \* TRUE iff write, fsync or chmod may fail

ASSUME NoneAssumption == NoProc \notin Procs /\ NoKey \notin Keys /\ NoData \notin Data
ASSUME ErrorAssumption == OpenErrors \subseteq Keys /\ WriteErrors \in BOOLEAN

VARIABLES
    marker,     \* the file at each path: its state, creator and record
    create,     \* the call of durableExclusiveCreateSync each process is in
    wins        \* history: calls that returned { created: true }, per path, counted to 2

markerVars == <<marker, create, wins>>

Absent == [state |-> "absent", by |-> NoProc, data |-> NoData]

NoCall == [step |-> "off", key |-> NoKey, data |-> NoData]

Steps == {"off", "open", "write", "sync", "cleanup", "created", "exists", "failed", "dead"}

\* Type invariant.
MarkerTypeOK ==
    /\ marker \in [Keys -> [state : {"absent", "empty", "full"},
                            by : Procs \cup {NoProc},
                            data : Data \cup {NoData}]]
    /\ create \in [Procs -> [step : Steps, key : Keys \cup {NoKey}, data : Data \cup {NoData}]]
    /\ wins \in [Keys -> 0 .. 2]

MarkerInit == /\ marker = [k \in Keys |-> Absent]
              /\ create = [p \in Procs |-> NoCall]
              /\ wins = [k \in Keys |-> 0]

SetStep(p, s) == create' = [create EXCEPT ![p].step = s]

KeyOf(p) == create[p].key

CountedTo2(n) == IF n = 0 THEN 1 ELSE 2

---------------------------------------------------------------------------

Start(p, k, d) == /\ create[p].step = "off"
                  /\ create' = [create EXCEPT ![p] = [step |-> "open", key |-> k, data |-> d]]
                  /\ UNCHANGED <<marker, wins>>

\* Mutant of OpenCreates: open with 'w' instead of 'wx'.
OpenTruncates(p) == /\ create[p].step = "open"
                    /\ marker' = [marker EXCEPT ![KeyOf(p)] =
                                     [state |-> "empty", by |-> p, data |-> NoData]]
                    /\ SetStep(p, "write")
                    /\ UNCHANGED wins

OpenCreates(p) == /\ create[p].step = "open" /\ marker[KeyOf(p)].state = "absent"
                  /\ marker' = [marker EXCEPT ![KeyOf(p)] =
                                   [state |-> "empty", by |-> p, data |-> NoData]]
                  /\ SetStep(p, "write")
                  /\ UNCHANGED wins

\* EEXIST: { created: false }.
OpenExists(p) == /\ create[p].step = "open" /\ marker[KeyOf(p)].state # "absent"
                 /\ SetStep(p, "exists")
                 /\ UNCHANGED <<marker, wins>>

\* Any other code (EMFILE, EACCES, EIO) goes to the clean-up of the path.
OpenFails(p) == /\ create[p].step = "open" /\ KeyOf(p) \in OpenErrors
                /\ SetStep(p, "cleanup")
                /\ UNCHANGED <<marker, wins>>

\* The descriptor names the inode p created, if it is still at the path.
Write(p) == /\ create[p].step = "write"
            /\ marker' = IF marker[KeyOf(p)].by = p
                         THEN [marker EXCEPT ![KeyOf(p)].state = "full",
                                             ![KeyOf(p)].data = create[p].data]
                         ELSE marker
            /\ SetStep(p, "sync")
            /\ UNCHANGED wins

\* Mutant of Sync: success is reported before the record is written.
SyncTooEarly(p) == /\ create[p].step \in {"write", "sync"}
                   /\ SetStep(p, "created")
                   /\ wins' = [wins EXCEPT ![KeyOf(p)] = CountedTo2(@)]
                   /\ UNCHANGED marker

\* fsync, close, chmod and fsync of the directory: { created: true }.
Sync(p) == /\ create[p].step = "sync"
           /\ SetStep(p, "created")
           /\ wins' = [wins EXCEPT ![KeyOf(p)] = CountedTo2(@)]
           /\ UNCHANGED marker

WriteFails(p) == /\ WriteErrors /\ create[p].step \in {"write", "sync"}
                 /\ SetStep(p, "cleanup")
                 /\ UNCHANGED <<marker, wins>>

\* unlinkSync(target), then the error is thrown.
Cleanup(p) == /\ create[p].step = "cleanup"
              /\ marker' = [marker EXCEPT ![KeyOf(p)] = Absent]
              /\ SetStep(p, "failed")
              /\ UNCHANGED wins

\* The caller has the result.
Return(p) == /\ create[p].step \in {"created", "exists", "failed"}
             /\ create' = [create EXCEPT ![p] = NoCall]
             /\ UNCHANGED <<marker, wins>>

Die(p) == /\ create[p].step # "dead"
          /\ SetStep(p, "dead")
          /\ UNCHANGED <<marker, wins>>

CreateStep(p) == \/ OpenCreates(p) \/ OpenExists(p) \/ OpenFails(p)
                 \/ Write(p) \/ Sync(p) \/ WriteFails(p) \/ Cleanup(p)

MarkerNext == \E p \in Procs : \/ \E k \in Keys, d \in Data : Start(p, k, d)
                               \/ CreateStep(p) \/ Return(p) \/ Die(p)

MarkerSpec == MarkerInit /\ [][MarkerNext]_markerVars

---------------------------------------------------------------------------
(* Properties                                                              *)

\* The paths that are either openable or taken.
Steady == Keys \ OpenErrors

\* However many processes race for a marker, crash or fail on the way, at
\* most one call ever reports { created: true } for it.
CreatedOnce == \A k \in Steady : wins[k] <= 1

\* A marker whose creation was reported stays on disk with its record.
CreatedStays == \A k \in Steady : wins[k] > 0 => marker[k].state = "full"

\* An unlink on the failure path removes only a file its own call created.
CleanupOwnFile ==
    [][\A p \in Procs : Cleanup(p) /\ KeyOf(p) \in Steady
                           => marker[KeyOf(p)].by = p]_markerVars
===========================================================================
