------------------------------ MODULE MCStores ------------------------------
(***************************************************************************)
(* What the processes of RuleOak share through files: the one-use markers, *)
(* the evidence log, the grants and their budgets, the capability history, *)
(* the approval queue, the consumed receipts and a git repository.  They   *)
(* do not depend on each other, so a behaviour is of one of them (store)   *)
(* and leaves the others as they were at the start: the state space is the *)
(* sum of theirs, not the product.                                         *)
(***************************************************************************)
EXTENDS DurableMarker, EvidenceLog, Delegation, CapabilityHistory, ApprovalQueue, DecisionReceipt, GitExecution, TLC

CONSTANTS
    Stores,                         \* the stores looked at
    p1, p2,                         \* processes
    root, g1, g2, g3, x, y, f       \* grants, things and a budget field

VARIABLE store

storeVars == <<store, markerVars, logVars, delegationVars, historyVars, queueVars, receiptVars, gitVars>>

---------------------------------------------------------------------------
(* Delegation: a root with a budget of 2 in either mode, to be delegated   *)
(* to depth 2, and requests that take all of it or a part, to be delegated *)
(* further or not, in either mode, and one that lasts too long.            *)

Request(caps, budget, expires, allowed, maxDepth, mode) ==
    [caps |-> caps, budget |-> budget, notBefore |-> 0, expires |-> expires,
     allowed |-> allowed, maxDepth |-> maxDepth, mode |-> mode]

MCRootGrants ==
    { [parent |-> NoGrant, ancestors |-> {}, depth |-> 0,
       caps |-> {{x, y}}, budget |-> (f :> 2), notBefore |-> 0, expires |-> 2,
       allowed |-> TRUE, maxDepth |-> 2, mode |-> m] : m \in Modes }

MCSpecs == { Request({{x, y}}, f :> Unlimited, 2, TRUE, 2, "partition"),
             Request({{x}}, f :> 1, 2, TRUE, 2, "inherit"),
             Request({{x}}, f :> 1, 2, FALSE, 2, "partition"),
             Request({{y}}, f :> 1, 3, FALSE, 2, "partition") }

MCRevocations == { [subject |-> root, cascade |-> TRUE, at |-> 1],
                   [subject |-> g1, cascade |-> TRUE, at |-> 0] }

---------------------------------------------------------------------------
(* CapabilityHistory: an integration with one tool or none, whose tool     *)
(* comes to write, and which moves to another transport.                   *)

Reads == [state |-> 0, consequence |-> 0, schema |-> 1, source |-> 1]
Writes == [Reads EXCEPT !.consequence = 2, !.schema = 2]

MCManifests ==
    {[transport |-> "stdio", lineage |-> {}, tools |-> t] : t \in {<<>>, [a |-> Reads], [a |-> Writes]}}
    \cup {[transport |-> "http", lineage |-> {"stdio"}, tools |-> [a |-> Reads]]}

---------------------------------------------------------------------------
(* DecisionReceipt: a call that may be denied, asked about or allowed, and *)
(* another.                                                                *)

Strict == [read |-> "allow", write |-> "needs_approval"]
MCRulebooks == {Strict, [Strict EXCEPT !.write = "deny"]}

Plain == [approved |-> FALSE, cap |-> 0, secret |-> 1, audience |-> "ruleoak-executor"]
MCIssueOptions == {Plain, [Plain EXCEPT !.secret = 0], [Plain EXCEPT !.secret = 2],
                   [Plain EXCEPT !.audience = "another"], [Plain EXCEPT !.approved = TRUE, !.cap = 1]}
MCExecOptions == {[secret |-> 1, allowUnsigned |-> FALSE], [secret |-> 0, allowUnsigned |-> TRUE]}

---------------------------------------------------------------------------

Init == /\ store \in Stores
        /\ MarkerInit /\ LogInit /\ DelegationInit /\ HistoryInit /\ QueueInit /\ ReceiptInit
        /\ GitInit
        /\ store # "grants" => grants[root].mode = "inherit"
        /\ store # "receipts" => callFile = "read" /\ rulebook = Strict
        /\ store # "git" => leaseHeld = [e \in GitExecutors |-> "l1"] /\ operationOf = [l \in GitLeases |-> "status"]

Next == \/ store = "marker" /\ MarkerNext
           /\ UNCHANGED <<store, logVars, delegationVars, historyVars, queueVars, receiptVars, gitVars>>
        \/ store = "log" /\ LogNext
           /\ UNCHANGED <<store, markerVars, delegationVars, historyVars, queueVars, receiptVars, gitVars>>
        \/ store = "grants" /\ DelegationNext
           /\ UNCHANGED <<store, markerVars, logVars, historyVars, queueVars, receiptVars, gitVars>>
        \/ store = "history" /\ HistoryNext
           /\ UNCHANGED <<store, markerVars, logVars, delegationVars, queueVars, receiptVars, gitVars>>
        \/ store = "queue" /\ QueueNext
           /\ UNCHANGED <<store, markerVars, logVars, delegationVars, historyVars, receiptVars, gitVars>>
        \/ store = "receipts" /\ ReceiptNext
           /\ UNCHANGED <<store, markerVars, logVars, delegationVars, historyVars, queueVars, gitVars>>
        \/ store = "git" /\ GitNext
           /\ UNCHANGED <<store, markerVars, logVars, delegationVars, historyVars, queueVars, receiptVars>>

Spec == Init /\ [][Next]_storeVars

\* Processes are interchangeable in every store; so are g2 and g3, which no
\* revocation names.
Symmetry == Permutations({p1, p2}) \cup Permutations({g2, g3})
=============================================================================
