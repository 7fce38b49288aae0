-------------------------- MODULE CapabilityHistory --------------------------
(***************************************************************************)
(* The capability history (core/src/inspector/capability-history.js) and   *)
(* the public index drawn from it (inspector/public-index.js).  Observers  *)
(* inspect an integration whose tools change under them, load the history  *)
(* under its file lock, compare, and append under the lock again; between  *)
(* the two another observer may have appended.  A locked operation is one  *)
(* step here (FileLock shows the exclusion).                               *)
(***************************************************************************)
EXTENDS Integers, Sequences, FiniteSets, SequencesExt, FiniteSetsExt

CONSTANTS
    Observers,
    Manifests,          \* [transport, tools, lineage]: the integration id is derived from the
                        \* transport; lineage is the transport of options.previousManifest;
                        \* a tool is a record [state, consequence, schema, source]
    MaxObservations,
    MaxClock            \* bounds the dates of the manifests

NoTool == [state |-> -1, consequence |-> -1, schema |-> 0, source |-> 0]

Tools == [state : Nat, consequence : Nat, schema : Nat, source : Nat]

ASSUME LimitsAssumption == MaxObservations \in Nat /\ MaxClock \in Nat
ASSUME ManifestsAssumption ==
    \A manifest \in Manifests : /\ IsFiniteSet(DOMAIN manifest.tools)
                                /\ \A name \in DOMAIN manifest.tools : manifest.tools[name] \in Tools

VARIABLES
    history,    \* the lines of the history file
    observer    \* what each observer holds in observe()

historyVars == <<history, observer>>

Nothing == [step |-> "idle", batch |-> {}]

HistoryInit == history = <<>> /\ observer = [o \in Observers |-> Nothing]

---------------------------------------------------------------------------
(* The comparison.  A capability is a tool of a transport; an observation  *)
(* is identified by its contents, its predecessor by its line.             *)

\* latestByCapability: the line of the latest observation, 0 if there is none.
latest(lines, cap) == Max({0} \cup {i \in DOMAIN lines : lines[i].cap = cap})

\* previousToolFromObservation
toolAt(lines, i) == IF i = 0 THEN NoTool ELSE lines[i].tool

escalation(before, after) == after.state > before.state \/ after.consequence > before.consequence

classifyCapabilityDrift(before, after, moved) ==
    {c \in {"capability_expansion"} : before = NoTool /\ after # NoTool}
    \cup {c \in {"capability_contraction"} : before # NoTool /\ after = NoTool}
    \cup {c \in {"schema_change"} : NoTool \notin {before, after} /\ before.schema # after.schema}
    \cup {c \in {"consequence_escalation"} : NoTool \notin {before, after} /\ escalation(before, after)}
    \cup {c \in {"consequence_reduction"} : NoTool \notin {before, after} /\ escalation(after, before)}
    \cup {c \in {"provenance_change"} : NoTool \notin {before, after} /\ before.source # after.source}
    \cup {c \in {"transport_change"} : moved}

\* buildCapabilityObservation; the snapshot of a removed tool has no state.
Observation(lines, cap, after, at, moved) ==
    LET i == latest(lines, cap) IN
    [cap |-> cap, at |-> at, previous |-> i, tool |-> after,
     lifecycle |-> CASE i = 0 -> "first_seen"
                     [] i # 0 /\ after = NoTool -> "removed"
                     [] OTHER -> IF lines[i].lifecycle = "removed" THEN "reintroduced" ELSE "present",
     drift |-> classifyCapabilityDrift(toolAt(lines, i), after, moved)]

\* observeCapabilityManifest: every tool of the manifest, and the tools of its
\* lineage that are gone.  They are observations of different capabilities, so
\* the order they are sorted in makes no difference.
observeCapabilityManifest(lines, manifest, at) ==
    LET moved == manifest.lineage \ {manifest.transport} # {}
        current == {<<manifest.transport, name>> : name \in DOMAIN manifest.tools}
        known == {lines[i].cap : i \in DOMAIN lines}
        gone == {cap \in known \ current : /\ cap[1] \in manifest.lineage \cup {manifest.transport}
                                           /\ lines[latest(lines, cap)].lifecycle # "removed"}
    IN {Observation(lines, cap, manifest.tools[cap[2]], at, moved) : cap \in current}
       \cup {Observation(lines, cap, NoTool, at, moved) : cap \in gone}

\* validateObservationChain
validateObservationChain(lines) ==
    \A i \in DOMAIN lines :
        LET o == lines[i]
            before == latest(SubSeq(lines, 1, i - 1), o.cap)
        IN /\ o.previous = before
           /\ before = 0 => o.lifecycle = "first_seen"
           /\ before # 0 => /\ o.at > lines[before].at
                            /\ lines[before].lifecycle = "removed" => o.lifecycle = "reintroduced"
                            /\ lines[before].lifecycle # "removed" => o.lifecycle \in {"present", "removed"}

---------------------------------------------------------------------------
(* The steps of observe()                                                  *)

\* observe: load, and observeCapabilityManifest on what it returns.  The
\* manifest may show any tools, for they change between inspections, and be of
\* any date, for it may have been kept for a while.
LoadHistory(o, manifest, at) ==
    /\ observer[o].step = "idle"
    /\ observer' = [observer EXCEPT ![o] = [step |-> "append", batch |-> observeCapabilityManifest(history, manifest, at)]]
    /\ UNCHANGED history

Fresh(batch) == {ob \in batch : \A i \in DOMAIN history : history[i] # ob}

\* Mutant of Appendable: the batch is only checked to be later than the file.
AppendableLater(pending) ==
    /\ \A i \in DOMAIN pending : LET j == latest(history, pending[i].cap) IN j # 0 => pending[i].at > history[j].at
    /\ Len(history) + Len(pending) <= MaxObservations

\* What append requires of the observations that are not there yet.
Appendable(pending) ==
    /\ \A i \in DOMAIN pending : LET j == latest(history, pending[i].cap) IN j # 0 => pending[i].at > history[j].at
    /\ Len(history) + Len(pending) <= MaxObservations
    /\ validateObservationChain(history \o pending)

\* append: all of the batch or, by an exception, nothing.
AppendObservations(o) ==
    /\ observer[o].step = "append"
    /\ LET pending == SetToSeq(Fresh(observer[o].batch)) IN
       history' = IF Appendable(pending) THEN history \o pending ELSE history
    /\ observer' = [observer EXCEPT ![o] = Nothing]

ObserverDies(o) == /\ observer[o].step # "idle" /\ observer' = [observer EXCEPT ![o] = Nothing]
                   /\ UNCHANGED history

HistoryNext == \/ \E o \in Observers, manifest \in Manifests, at \in 1 .. MaxClock : LoadHistory(o, manifest, at)
               \/ \E o \in Observers : AppendObservations(o) \/ ObserverDies(o)

HistorySpec == HistoryInit /\ [][HistoryNext]_historyVars

\* buildPublicCapabilityIndex: the lines it shows as events.
publicEvents == {i \in DOMAIN history : history[i].drift # {} \/ history[i].lifecycle \in {"removed", "reintroduced"}}

---------------------------------------------------------------------------
(* Properties                                                              *)

\* The file always loads: however the loads and appends of the observers
\* interleave, no append leaves a history that validateObservationChain would
\* refuse from then on.
HistoryLoads == validateObservationChain(history) /\ Len(history) <= MaxObservations

\* No escalation escapes: where a capability is more consequential than an
\* earlier line of the history showed it, an event of the public index in
\* between says so, as an escalation or as a new capability.
EscalationIsRecorded ==
    \A i, j \in DOMAIN history :
        (/\ i < j /\ history[i].cap = history[j].cap /\ NoTool \notin {history[i].tool, history[j].tool}
         /\ escalation(history[i].tool, history[j].tool)) =>
        \E k \in publicEvents : /\ k \in i + 1 .. j /\ history[k].cap = history[i].cap
                                  /\ history[k].drift \cap {"consequence_escalation", "capability_expansion"} # {}

\* However observers interleave, the history loads and no escalation escapes
\* the public index (capability-history.js).
HistoryIsSound == HistoryLoads /\ EscalationIsRecorded
=============================================================================
