--------------------------- MODULE EvidenceGraph ---------------------------
(***************************************************************************)
(* The graph of what authorised what (core/src/authority/graph.js), the    *)
(* graph of the evidence about it (core/src/evidence/graph.js), and the    *)
(* trace of one node.  A document (grant, envelope, decision, approval,    *)
(* lease, effect) is its node and the nodes it names; every relation runs  *)
(* from a named document to the one that names it.  A workspace may have   *)
(* lost any document.  Principals are left out: a document brings its own. *)
(***************************************************************************)
EXTENDS Cases, Naturals, Sequences, FiniteSets

NodesOf(docs) == {d.node : d \in docs}

---------------------------------------------------------------------------
(* buildAuthorityGraph                                                     *)

\* addNode: two documents under one id that say different things are refused.
\* (Copies of which one is silent where the other speaks are merged; there are
\* none here.)
Conflicting(docs) == \E c, d \in docs : c # d /\ c.node = d.node

\* Mutant of MissingSources: a reference to a document that is not there is dropped.
MissingDropped(docs) == {}

\* link: a source that is missing is an unresolved reference of its target.
MissingSources(docs) ==
    UNION {{[source |-> d.node, target |-> n] : n \in d.names \ NodesOf(docs)} : d \in docs}

AuthorityEdges(docs) == UNION {{<<n, d.node>> : n \in d.names \cap NodesOf(docs)} : d \in docs}

buildAuthorityGraph(docs) ==
    [nodes |-> NodesOf(docs),
     edges |-> AuthorityEdges(docs),
     unresolved |-> MissingSources(docs)]

---------------------------------------------------------------------------
(* buildEvidenceGraph: the events are numbered nodes that name documents;  *)
(* an event of a consumption has the lease.                                *)

EventNode(i) == <<"recorder_event", i>>

\* The adapter stands between the lease of an effect, if it is there, and the effect.
AdapterNode == <<"adapter", "unknown-adapter">>

EffectsOf(docs) == {d \in docs : d.node[1] = "effect"}

LeasesOf(effect) == {n \in effect.names : n[1] = "lease"}

ConsumedWithoutEffect(docs, events) ==
    {[source |-> l, target |-> <<"effect", l[2]>>] :
        l \in ({events[i].consumed : i \in DOMAIN events} \cap NodesOf(docs)) \ UNION {LeasesOf(e) : e \in EffectsOf(docs)}}

EventEdges(known, events) == UNION {{<<EventNode(i), n>> : n \in events[i].names \cap known} : i \in DOMAIN events}

AdapterEdges(known, docs) ==
    UNION {{<<l, AdapterNode>> : l \in LeasesOf(e) \cap known} \cup {<<AdapterNode, e.node>>} : e \in EffectsOf(docs)}

MissingOfEvents(known, events) ==
    UNION {{[source |-> EventNode(i), target |-> n] : n \in events[i].names \ known} : i \in DOMAIN events}

buildEvidenceGraph(docs, events) ==
    LET authority == buildAuthorityGraph(docs)
        known == authority.nodes IN
    [nodes |-> known \cup {EventNode(i) : i \in DOMAIN events} \cup {n \in {AdapterNode} : EffectsOf(docs) # {}},
     edges |-> authority.edges \cup EventEdges(known, events) \cup AdapterEdges(known, docs),
     unresolved |-> authority.unresolved \cup MissingOfEvents(known, events) \cup ConsumedWithoutEffect(docs, events)]

\* validateEvidenceGraph; buildEvidenceGraph throws if it fails.  The events of
\* a log have ids of their own, so that their nodes never conflict.
validateEvidenceGraph(graph) ==
    /\ \A e \in graph.edges : e[1] \in graph.nodes /\ e[2] \in graph.nodes
    /\ \A u \in graph.unresolved : u.source \in graph.nodes

---------------------------------------------------------------------------
(* traceEvidenceGraph: backwards along the edges, up to maxDepth of them.  *)

MaxDepthOfTrace == 16

Behind(graph, frontier) == {e[1] : e \in {f \in graph.edges : f[2] \in frontier}}

traceEvidenceGraph(graph, target, depth) ==
    LET run[i \in 0 .. depth] ==
            IF i = 0 THEN [keep |-> {target}, frontier |-> {target}]
            ELSE LET s == run[i - 1]
                     next == Behind(graph, s.frontier) IN
                 [keep |-> s.keep \cup next, frontier |-> next \ s.keep]
        kept == run[depth].keep
        open == {u \in graph.unresolved : u.source \in kept}
    IN [nodes |-> kept, unresolved |-> open, complete |-> open = {}]

AskTrace == Answer("trace",
    LET graph == buildEvidenceGraph(given.docs, given.events) IN
    [valid |-> ~Conflicting(given.docs) /\ validateEvidenceGraph(graph),
     trace |-> traceEvidenceGraph(graph, given.target, MaxDepthOfTrace)])

\* Every question that can be put: any workspace, any events of it, and any
\* document in it, when no chain of relations is longer than the limit.
DocumentKinds == {"grant", "envelope", "decision", "approval", "lease", "effect"}
DocumentNodes == DocumentKinds \X STRING
Documents == [node : DocumentNodes, names : SUBSET DocumentNodes]
EventRecords == [names : SUBSET DocumentNodes, consumed : {"lease", "none"} \X STRING]

Ranks(graph, rank) == \A e \in graph.edges : rank[e[1]] < rank[e[2]]
Shallow(graph) == \E rank \in [graph.nodes -> 0 .. MaxDepthOfTrace - 1] : Ranks(graph, rank)

TraceAsked == {q \in [docs : SUBSET Documents, events : Seq(EventRecords), target : DocumentNodes] :
                  q.target \in NodesOf(q.docs) /\ Shallow(buildEvidenceGraph(q.docs, q.events))}

TraceSpec == Ask("trace", TraceAsked) /\ [][AskTrace]_caseVars

---------------------------------------------------------------------------
(* Properties                                                              *)

\* A trace that calls itself complete leaves nothing out: some set of documents
\* that are all there holds the target and everything that any of them names,
\* and each of its leases that was consumed has an effect in the workspace.
\* (Traces deeper than the limit are out of reach of the documents asked about.)
CompleteIsComplete == Answered("trace") /\ answer.valid /\ answer.trace.complete =>
    \E S \in SUBSET given.docs :
        /\ given.target \in {d.node : d \in S}
        /\ \A d \in S : d.names \subseteq {c.node : c \in S}
        /\ \A d \in S, i \in DOMAIN given.events :
              d.node = given.events[i].consumed => \E e \in given.docs : e.node[1] = "effect" /\ d.node \in e.names

\* The graph of every workspace without two versions of one document can be
\* built (nothing in it refers to a node that is not there), and if it lost
\* nothing its traces are complete.
WholeIsComplete ==
    Answered("trace") /\ (\A c, d \in given.docs : c.node = d.node => c = d) =>
    /\ answer.valid
    /\ (/\ \A d \in given.docs : d.names \subseteq {c.node : c \in given.docs}
        /\ \A i \in DOMAIN given.events :
              /\ given.events[i].names \subseteq {c.node : c \in given.docs}
              /\ given.events[i].consumed[1] = "lease" =>
                    \E e \in given.docs : e.node[1] = "effect" /\ given.events[i].consumed \in e.names)
       => answer.trace.complete

\* A trace of an evidence graph that could be built (evidence/graph.js) calls
\* itself complete if the workspace lost nothing, and only if it left nothing out.
TracesAreComplete == CompleteIsComplete /\ WholeIsComplete
=============================================================================
