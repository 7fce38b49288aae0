------------------------- MODULE Approvals_proofs -------------------------
(***************************************************************************)
(* Proofs about approvals: what becomes of a request for one and of what a *)
(* person permits (ApprovalQueue), for any number of people, calls and     *)
(* edits of the policy; and what an approval is worth later                *)
(* (DecisionReceipt), for any number of executors, receipts, policies and  *)
(* call files.                                                             *)
(***************************************************************************)
EXTENDS ApprovalQueue, DecisionReceipt, FiniteSetTheorems, TLAPS

---------------------------------------------------------------------------
(* Receipts: the inductive invariant.                                      *)

Verdicts == {"allow", "deny", "needs_approval"}
ReceiptRecords ==
    [job : Jobs, rules : Rulebooks, decision : Verdicts, from : Nat, until : Int,
     audience : {o.audience : o \in IssueOptions}, signature : {o.secret : o \in IssueOptions},
     approval : IssueOptions]
CommandSteps == {"verify", "mark", "granted", "spawn"}
CommandRecords ==
    [step : CommandSteps, receipt : Nat, job : Jobs, rules : Rulebooks, options : ExecOptions,
     at : Nat]
UseRecords ==
    [receipt : Nat, job : Jobs, rules : Rulebooks, options : ExecOptions, at : Nat]

ReceiptTypes ==
    /\ callFile \in Jobs /\ rulebook \in Rulebooks /\ hour \in Nat
    /\ issued \in Seq(ReceiptRecords)
    /\ consumed \subseteq Nat /\ journal \subseteq Nat
    /\ executor \in [Executors -> {AtRest, Refused} \cup CommandRecords]
    /\ uses \in Seq(UseRecords)

\* What a receipt says, it says of the policy and the call it was issued for.
IssuedRight(r) ==
    /\ r.until <= r.from + Ttl
    /\ r.signature = r.approval.secret
    /\ r.approval.approved => r.until <= r.approval.cap /\ r.rules[r.job] = "needs_approval"
    /\ ~r.approval.approved => r.decision = r.rules[r.job]
IssuedOK == \A n \in 1 .. Len(issued) : IssuedRight(issued[n])

\* The command e has been let through on its receipt.
Covered(e) ==
    LET r == issued[e.receipt] IN
    /\ e.receipt \in 1 .. Len(issued)
    /\ r.job = e.job /\ r.rules = e.rules /\ r.decision = "allow"
    /\ r.from <= e.at /\ e.at < r.until
    /\ e.options.secret # 0 => r.signature = e.options.secret

CommandsOK == \A p \in Executors :
    /\ executor[p].step \in CommandSteps => executor[p].receipt \in 1 .. Len(issued)
    /\ executor[p].step \in {"mark", "granted", "spawn"} => Covered(executor[p])

\* The marker of a receipt stands for one command that goes on with it.
Won(p) == executor[p].step \in {"granted", "spawn"}
MarkedOK ==
    /\ \A p \in Executors : Won(p) => executor[p].receipt \in consumed
    /\ \A p \in Executors : executor[p].step = "spawn" => executor[p].receipt \in journal
    /\ \A p, q \in Executors : Won(p) /\ Won(q)
       /\ executor[p].receipt = executor[q].receipt => p = q
    /\ \A i \in 1 .. Len(uses) : /\ uses[i].receipt \in consumed \cap journal
                                 /\ \A p \in Executors : Won(p)
                                    => executor[p].receipt # uses[i].receipt

UsesOK == /\ \A i \in 1 .. Len(uses) : Covered(uses[i])
          /\ \A i, k \in 1 .. Len(uses) : uses[i].receipt = uses[k].receipt => i = k

ReceiptInv == ReceiptTypes /\ IssuedOK /\ CommandsOK /\ MarkedOK /\ UsesOK

---------------------------------------------------------------------------
(* Receipts: the actions.                                                  *)

\* The records of commands.
LEMMA CommandShapes ==
    /\ AtRest.step = "idle" /\ Refused.step = "refused"
    /\ \A e \in CommandRecords : e.step \in CommandSteps /\ e.receipt \in Nat
BY DEF AtRest, Refused, CommandRecords

\* A command that is at one of its steps is a command record.
LEMMA CommandAtWork ==
    ASSUME ReceiptTypes, NEW p \in Executors, executor[p].step \in CommandSteps
    PROVE  executor[p] \in CommandRecords
BY CommandShapes DEF ReceiptTypes, CommandSteps

\* The command of p moves to e, and nothing is used or issued by it: what e
\* needs is that it is covered where it is past the check, and that it alone
\* goes on with its receipt.
LEMMA CommandMoves ==
    ASSUME ReceiptInv, NEW p \in Executors, NEW e \in {AtRest, Refused} \cup CommandRecords,
           executor' = [executor EXCEPT ![p] = e],
           consumed \subseteq consumed', consumed' \subseteq Nat,
           journal \subseteq journal', journal' \subseteq Nat,
           UNCHANGED <<callFile, rulebook, hour, issued, uses>>,
           e.step \in CommandSteps => e.receipt \in 1 .. Len(issued),
           e.step \in {"mark", "granted", "spawn"} => Covered(e),
           e.step \in {"granted", "spawn"} =>
               /\ e.receipt \in consumed'
               /\ \A q \in Executors \ {p} : Won(q) => executor[q].receipt # e.receipt
               /\ \A i \in 1 .. Len(uses) : uses[i].receipt # e.receipt,
           e.step = "spawn" => e.receipt \in journal'
    PROVE  ReceiptInv'
<1>1. /\ executor'[p] = e
      /\ \A q \in Executors \ {p} : executor'[q] = executor[q]
  BY DEF ReceiptInv, ReceiptTypes
<1>2. ReceiptTypes'
  BY DEF ReceiptInv, ReceiptTypes
<1>3. IssuedOK'
  BY DEF ReceiptInv, IssuedOK, IssuedRight
<1>4. CommandsOK'
  <2> SUFFICES ASSUME NEW q \in Executors
               PROVE  /\ executor'[q].step \in CommandSteps
                            => executor'[q].receipt \in 1 .. Len(issued)
                      /\ executor'[q].step \in {"mark", "granted", "spawn"} => Covered(executor'[q])
    BY DEF CommandsOK, Covered
  <2>1. CASE q = p
    BY <1>1, <2>1
  <2>2. CASE q # p
    BY <1>1, <2>2 DEF ReceiptInv, CommandsOK
  <2> QED
    BY <2>1, <2>2
<1>5. MarkedOK'
  <2>1. \A q \in Executors : Won(q)' => executor'[q].receipt \in consumed'
    BY <1>1 DEF ReceiptInv, MarkedOK, Won
  <2>2. \A q \in Executors : executor'[q].step = "spawn" => executor'[q].receipt \in journal'
    BY <1>1 DEF ReceiptInv, MarkedOK
  <2>3. ASSUME NEW q \in Executors, NEW r \in Executors, Won(q)', Won(r)',
               executor'[q].receipt = executor'[r].receipt
        PROVE  q = r
    <3>1. CASE q # p /\ r # p
      BY <1>1, <2>3, <3>1 DEF ReceiptInv, MarkedOK, Won
    <3>2. CASE q = p /\ r # p
      BY <1>1, <2>3, <3>2 DEF Won
    <3>3. CASE q # p /\ r = p
      BY <1>1, <2>3, <3>3 DEF Won
    <3> QED
      BY <3>1, <3>2, <3>3
  <2>4. ASSUME NEW i \in 1 .. Len(uses), NEW q \in Executors, Won(q)'
        PROVE  executor'[q].receipt # uses[i].receipt
    <3>1. CASE q = p
      BY <1>1, <2>4, <3>1 DEF Won
    <3>2. CASE q # p
      BY <1>1, <2>4, <3>2 DEF ReceiptInv, MarkedOK, Won
    <3> QED
      BY <3>1, <3>2
  <2>5. \A i \in 1 .. Len(uses) : uses[i].receipt \in consumed' \cap journal'
    BY DEF ReceiptInv, MarkedOK
  <2> QED
    BY <2>1, <2>2, <2>3, <2>4, <2>5 DEF MarkedOK
<1>6. UsesOK'
  BY DEF ReceiptInv, UsesOK, Covered
<1> QED
  BY <1>2, <1>3, <1>4, <1>5, <1>6 DEF ReceiptInv

\* A command that ends, or is refused.
LEMMA CommandStops ==
    ASSUME ReceiptInv, NEW p \in Executors, NEW e \in {AtRest, Refused},
           executor' = [executor EXCEPT ![p] = e],
           consumed \subseteq consumed', consumed' \subseteq Nat,
           UNCHANGED <<callFile, rulebook, hour, issued, journal, uses>>
    PROVE  ReceiptInv'
<1>1. e.step \notin CommandSteps /\ journal \subseteq Nat
  BY CommandShapes DEF CommandSteps, ReceiptInv, ReceiptTypes
<1> QED
  BY <1>1, CommandMoves DEF CommandSteps

\* The files are read.
LEMMA LoadReceiptStep ==
    ASSUME ReceiptInv, NEW p \in Executors, NEW n \in DOMAIN issued, NEW o \in ExecOptions,
           LoadReceipt(p, n, o)
    PROVE  ReceiptInv'
<1> DEFINE e == [step |-> "verify", receipt |-> n, job |-> callFile, rules |-> rulebook,
                 options |-> o, at |-> 0]
<1>1. n \in 1 .. Len(issued) /\ n \in Nat
  BY DEF ReceiptInv, ReceiptTypes
<1>2. e \in CommandRecords /\ e.step = "verify" /\ e.receipt = n
  BY <1>1 DEF ReceiptInv, ReceiptTypes, CommandRecords, CommandSteps
<1>3. /\ executor' = [executor EXCEPT ![p] = e]
      /\ UNCHANGED <<callFile, rulebook, hour, issued, consumed, journal, uses>>
  BY DEF LoadReceipt
<1>4. consumed \subseteq Nat /\ journal \subseteq Nat
  BY DEF ReceiptInv, ReceiptTypes
<1> HIDE DEF e
<1> QED
  BY <1>1, <1>2, <1>3, <1>4, CommandMoves DEF CommandSteps

\* The grant is verified against the files as they were read, at this hour.
LEMMA VerifyGrantStep == ASSUME ReceiptInv, NEW p \in Executors, VerifyGrant(p) PROVE ReceiptInv'
<1> DEFINE c == executor[p]
           ok == verifyExecutionGrant(issued[c.receipt], c.job, c.rules, c.options)
           e == [executor[p] EXCEPT !.step = "mark", !.at = hour]
<1>1. /\ executor[p].step = "verify"
      /\ executor' = [executor EXCEPT ![p] = IF ok THEN e ELSE Refused]
      /\ UNCHANGED <<callFile, rulebook, hour, issued, consumed, journal, uses>>
  BY DEF VerifyGrant
<1>2. executor[p] \in CommandRecords /\ executor[p].receipt \in 1 .. Len(issued)
  BY <1>1, CommandAtWork DEF ReceiptInv, CommandsOK, CommandSteps
<1>3. consumed \subseteq Nat /\ journal \subseteq Nat /\ hour \in Nat
  BY DEF ReceiptInv, ReceiptTypes
<1>4. CASE ok
  <2>1. /\ e \in CommandRecords /\ e.step = "mark" /\ e.receipt = executor[p].receipt
        /\ e.job = executor[p].job /\ e.rules = executor[p].rules
        /\ e.options = executor[p].options /\ e.at = hour
    BY <1>2, <1>3 DEF CommandRecords, CommandSteps
  <2>2. executor' = [executor EXCEPT ![p] = e]
    BY <1>1, <1>4
  <2> HIDE DEF e
  <2>3. Covered(e)
    BY <1>2, <1>4, <2>1 DEF Covered, verifyExecutionGrant, SignatureHolds
  <2> HIDE DEF ok
  <2> QED
    BY <1>1, <1>2, <1>3, <2>1, <2>2, <2>3, CommandMoves
<1>5. CASE ~ok
  <2>1. executor' = [executor EXCEPT ![p] = Refused]
    BY <1>1, <1>5
  <2> QED
    BY <1>1, <1>3, <2>1, CommandStops
<1> QED
  BY <1>4, <1>5

\* The marker decides between the commands that verified the same receipt.
LEMMA MarkConsumedStep == ASSUME ReceiptInv, NEW p \in Executors, MarkConsumed(p) PROVE ReceiptInv'
<1> DEFINE e == [executor[p] EXCEPT !.step = "granted"]
<1>1. /\ executor[p].step = "mark"
      /\ consumed' = consumed \cup {executor[p].receipt}
      /\ executor' = [executor EXCEPT ![p] = IF executor[p].receipt \in consumed THEN Refused ELSE e]
      /\ UNCHANGED <<callFile, rulebook, hour, issued, journal, uses>>
  BY DEF MarkConsumed
<1>2. executor[p] \in CommandRecords /\ Covered(executor[p])
  BY <1>1, CommandAtWork DEF ReceiptInv, CommandsOK, CommandSteps
<1>3. consumed \subseteq consumed' /\ consumed' \subseteq Nat /\ journal \subseteq Nat
  BY <1>1, <1>2, CommandShapes DEF ReceiptInv, ReceiptTypes
<1>4. CASE executor[p].receipt \in consumed
  BY <1>1, <1>3, <1>4, CommandStops
<1>5. CASE executor[p].receipt \notin consumed
  <2>1. /\ e \in CommandRecords /\ e.step = "granted" /\ e.receipt = executor[p].receipt
        /\ e.job = executor[p].job /\ e.rules = executor[p].rules
        /\ e.options = executor[p].options /\ e.at = executor[p].at
    BY <1>2 DEF CommandRecords, CommandSteps
  <2>2. executor' = [executor EXCEPT ![p] = e]
    BY <1>1, <1>5
  <2> HIDE DEF e
  <2>3. Covered(e) /\ e.receipt \in 1 .. Len(issued)
    BY <1>2, <2>1 DEF Covered
  <2>4. /\ e.receipt \in consumed'
        /\ \A q \in Executors \ {p} : Won(q) => executor[q].receipt # e.receipt
        /\ \A i \in 1 .. Len(uses) : uses[i].receipt # e.receipt
    BY <1>1, <1>5, <2>1 DEF ReceiptInv, MarkedOK
  <2> QED
    BY <1>1, <1>3, <2>1, <2>2, <2>3, <2>4, CommandMoves
<1> QED
  BY <1>4, <1>5

\* The consumption is recorded before the command goes on.
LEMMA RecordConsumptionStep ==
    ASSUME ReceiptInv, NEW p \in Executors, RecordConsumption(p) PROVE ReceiptInv'
<1> DEFINE e == [executor[p] EXCEPT !.step = "spawn"]
<1>1. /\ executor[p].step \in {"granted", "refused"}
      /\ journal' = IF executor[p].step = "granted" THEN journal \cup {executor[p].receipt} ELSE journal
      /\ executor' = [executor EXCEPT ![p] = IF executor[p].step = "granted" THEN e ELSE AtRest]
      /\ UNCHANGED <<callFile, rulebook, hour, issued, consumed, uses>>
  BY DEF RecordConsumption
<1>2. consumed \subseteq Nat /\ journal \subseteq Nat
  BY DEF ReceiptInv, ReceiptTypes
<1>3. CASE executor[p].step = "granted"
  <2>1. executor[p] \in CommandRecords /\ Covered(executor[p])
    BY <1>3, CommandAtWork DEF ReceiptInv, CommandsOK, CommandSteps
  <2>2. /\ e \in CommandRecords /\ e.step = "spawn" /\ e.receipt = executor[p].receipt
        /\ e.job = executor[p].job /\ e.rules = executor[p].rules
        /\ e.options = executor[p].options /\ e.at = executor[p].at
    BY <2>1 DEF CommandRecords, CommandSteps
  <2>3. /\ executor' = [executor EXCEPT ![p] = e]
        /\ journal' = journal \cup {executor[p].receipt}
    BY <1>1, <1>3
  <2> HIDE DEF e
  <2>4. Covered(e) /\ e.receipt \in 1 .. Len(issued)
    BY <2>1, <2>2 DEF Covered
  <2>5. /\ e.receipt \in consumed'
        /\ \A q \in Executors \ {p} : Won(q) => executor[q].receipt # e.receipt
        /\ \A i \in 1 .. Len(uses) : uses[i].receipt # e.receipt
    BY <1>1, <1>3, <2>2 DEF ReceiptInv, MarkedOK, Won
  <2>6. journal \subseteq journal' /\ journal' \subseteq Nat /\ e.receipt \in journal'
    BY <1>2, <2>1, <2>2, <2>3, CommandShapes
  <2> QED
    BY <1>1, <1>2, <2>2, <2>3, <2>4, <2>5, <2>6, CommandMoves
<1>4. CASE executor[p].step = "refused"
  <2>1. executor' = [executor EXCEPT ![p] = AtRest] /\ journal' = journal
    BY <1>1, <1>4
  <2> QED
    BY <1>1, <1>2, <2>1, CommandStops
<1> QED
  BY <1>1, <1>3, <1>4

\* The recorder throws, or the process dies.
LEMMA CommandLostStep ==
    ASSUME ReceiptInv, NEW p \in Executors, RecordFails(p) \/ ExecutorDies(p) PROVE ReceiptInv'
<1>1. /\ executor' = [executor EXCEPT ![p] = AtRest]
      /\ UNCHANGED <<callFile, rulebook, hour, issued, consumed, journal, uses>>
  BY DEF RecordFails, ExecutorDies
<1>2. consumed \subseteq Nat
  BY DEF ReceiptInv, ReceiptTypes
<1> QED
  BY <1>1, <1>2, CommandStops

\* The grant is used, by the one command that goes on with it.
LEMMA UseGrantStep == ASSUME ReceiptInv, NEW p \in Executors, UseGrant(p) PROVE ReceiptInv'
<1> DEFINE u == [receipt |-> executor[p].receipt, job |-> executor[p].job,
                 rules |-> executor[p].rules, options |-> executor[p].options,
                 at |-> executor[p].at]
<1>1. /\ executor[p].step = "spawn" /\ uses' = Append(uses, u)
      /\ executor' = [executor EXCEPT ![p] = AtRest]
      /\ UNCHANGED <<callFile, rulebook, hour, issued, consumed, journal>>
  BY DEF UseGrant
<1>2. executor[p] \in CommandRecords /\ Covered(executor[p])
  BY <1>1, CommandAtWork DEF ReceiptInv, CommandsOK, CommandSteps
<1>3. u \in UseRecords /\ u.receipt = executor[p].receipt /\ Covered(u)
  BY <1>2 DEF CommandRecords, UseRecords, Covered
<1>4. /\ u.receipt \in consumed \cap journal
      /\ \A q \in Executors \ {p} : Won(q) => executor[q].receipt # u.receipt
      /\ \A i \in 1 .. Len(uses) : uses[i].receipt # u.receipt
  BY <1>1, <1>3 DEF ReceiptInv, MarkedOK, Won
<1> HIDE DEF u
<1>5. /\ executor'[p] = AtRest
      /\ \A q \in Executors \ {p} : executor'[q] = executor[q]
      /\ AtRest.step = "idle"
  BY <1>1, CommandShapes DEF ReceiptInv, ReceiptTypes
<1>6. /\ uses' \in Seq(UseRecords) /\ Len(uses) \in Nat /\ Len(uses') = Len(uses) + 1
      /\ uses'[Len(uses) + 1] = u
      /\ \A i \in 1 .. Len(uses) : uses'[i] = uses[i]
  BY <1>1, <1>3 DEF ReceiptInv, ReceiptTypes
<1>7. \A i \in 1 .. Len(uses') : i \in 1 .. Len(uses) \/ i = Len(uses) + 1
  BY <1>6
<1>8. ReceiptTypes'
  BY <1>1, <1>6 DEF ReceiptInv, ReceiptTypes
<1>9. IssuedOK'
  BY <1>1 DEF ReceiptInv, IssuedOK, IssuedRight
<1>10. CommandsOK'
  <2> SUFFICES ASSUME NEW q \in Executors
               PROVE  /\ executor'[q].step \in CommandSteps
                            => executor'[q].receipt \in 1 .. Len(issued)
                      /\ executor'[q].step \in {"mark", "granted", "spawn"} => Covered(executor'[q])
    BY <1>1 DEF CommandsOK, Covered
  <2>1. CASE q = p
    BY <1>5, <2>1 DEF CommandSteps
  <2>2. CASE q # p
    BY <1>5, <2>2 DEF ReceiptInv, CommandsOK
  <2> QED
    BY <2>1, <2>2
<1>11. MarkedOK'
  <2>1. \A q \in Executors : Won(q)' => q # p /\ Won(q)
        /\ executor'[q].receipt = executor[q].receipt
    BY <1>5 DEF Won
  <2>2. \A q \in Executors : executor'[q].step = "spawn" => q # p /\ executor'[q] = executor[q]
    BY <1>5
  <2>3. \A i \in 1 .. Len(uses') : /\ uses'[i].receipt \in consumed \cap journal
                                   /\ \A q \in Executors : Won(q)'
                                      => executor'[q].receipt # uses'[i].receipt
    <3> SUFFICES ASSUME NEW i \in 1 .. Len(uses')
                 PROVE  /\ uses'[i].receipt \in consumed \cap journal
                        /\ \A q \in Executors : Won(q)' => executor'[q].receipt # uses'[i].receipt
      OBVIOUS
    <3>1. CASE i \in 1 .. Len(uses)
      BY <1>6, <2>1, <3>1 DEF ReceiptInv, MarkedOK
    <3>2. CASE i = Len(uses) + 1
      BY <1>4, <1>6, <2>1, <3>2
    <3> QED
      BY <1>7, <3>1, <3>2
  <2> QED
    BY <1>1, <2>1, <2>2, <2>3 DEF ReceiptInv, MarkedOK
<1>12. UsesOK'
  <2>1. ASSUME NEW i \in 1 .. Len(uses') PROVE Covered(uses'[i])
    <3>1. CASE i \in 1 .. Len(uses)
      BY <1>6, <3>1 DEF ReceiptInv, UsesOK
    <3>2. CASE i = Len(uses) + 1
      BY <1>3, <1>6, <3>2
    <3> QED
      BY <1>7, <3>1, <3>2
  <2>2. \A i, k \in 1 .. Len(uses') : uses'[i].receipt = uses'[k].receipt => i = k
    BY <1>4, <1>6, <1>7 DEF ReceiptInv, UsesOK
  <2> QED
    BY <1>1, <2>1, <2>2 DEF UsesOK, Covered
<1> QED
  BY <1>8, <1>9, <1>10, <1>11, <1>12 DEF ReceiptInv

\* A receipt is issued for the call and the policy of this moment.
LEMMA IssueReceiptStep == ASSUME ReceiptInv, NEW o \in IssueOptions,
    IssueReceipt(o) PROVE ReceiptInv'
<1> DEFINE r == buildDecisionReceipt(o)
<1>1. /\ o.approved => rulebook[callFile] = "needs_approval" /\ o.cap > hour
      /\ issued' = Append(issued, r)
      /\ UNCHANGED <<callFile, rulebook, hour, consumed, executor, journal, uses>>
  BY DEF IssueReceipt
<1>2. /\ callFile \in Jobs /\ rulebook \in Rulebooks /\ hour \in Nat /\ Ttl \in Nat
      /\ o.approved \in BOOLEAN /\ o.cap \in Int /\ rulebook[callFile] \in Verdicts
  BY ReceiptAssumption, RulebookAssumption, OptionsAssumption
     DEF ReceiptInv, ReceiptTypes, Verdicts
<1>3. /\ FinalDecision(o.approved) \in Verdicts
      /\ ~o.approved => FinalDecision(o.approved) = rulebook[callFile]
      /\ ExpiryOf(o.cap) \in Int /\ ExpiryOf(o.cap) <= o.cap /\ ExpiryOf(o.cap) <= hour + Ttl
  BY <1>2 DEF FinalDecision, ExpiryOf, Verdicts
<1>4. /\ r.job = callFile /\ r.rules = rulebook /\ r.from = hour /\ r.signature = o.secret
      /\ r.approval = o /\ r.decision = FinalDecision(o.approved)
      /\ r.until = IF o.approved THEN ExpiryOf(o.cap) ELSE hour + Ttl
  BY DEF buildDecisionReceipt
<1>5. r \in ReceiptRecords
  <2>1. (IF o.approved THEN ExpiryOf(o.cap) ELSE hour + Ttl) \in Int
    BY <1>2, <1>3
  <2> QED
    BY <1>2, <1>3, <2>1 DEF buildDecisionReceipt, ReceiptRecords
<1> HIDE DEF r
<1>6. IssuedRight(r)
  BY <1>1, <1>2, <1>3, <1>4 DEF IssuedRight
<1>7. /\ issued' \in Seq(ReceiptRecords) /\ Len(issued) \in Nat /\ Len(issued') = Len(issued) + 1
      /\ issued'[Len(issued) + 1] = r
      /\ \A n \in 1 .. Len(issued) : issued'[n] = issued[n]
  BY <1>1, <1>5 DEF ReceiptInv, ReceiptTypes
<1>8. /\ \A n \in 1 .. Len(issued) : n \in 1 .. Len(issued')
      /\ \A n \in 1 .. Len(issued') : n \in 1 .. Len(issued) \/ n = Len(issued) + 1
  BY <1>7
<1>9. ReceiptTypes'
  BY <1>1, <1>7 DEF ReceiptInv, ReceiptTypes
<1>10. IssuedOK'
  <2> SUFFICES ASSUME NEW n \in 1 .. Len(issued') PROVE IssuedRight(issued'[n])
    BY DEF IssuedOK, IssuedRight
  <2>1. CASE n \in 1 .. Len(issued)
    BY <1>7, <2>1 DEF ReceiptInv, IssuedOK
  <2>2. CASE n = Len(issued) + 1
    BY <1>6, <1>7, <2>2
  <2> QED
    BY <1>8, <2>1, <2>2
<1>11. CommandsOK'
  <2> SUFFICES ASSUME NEW q \in Executors
               PROVE  /\ executor[q].step \in CommandSteps
                            => executor[q].receipt \in 1 .. Len(issued')
                      /\ executor[q].step \in {"mark", "granted", "spawn"} => Covered(executor[q])'
    BY <1>1 DEF CommandsOK
  <2>1. executor[q].step \in {"mark", "granted", "spawn"} => Covered(executor[q])
    BY DEF ReceiptInv, CommandsOK
  <2> QED
    BY <1>1, <1>7, <1>8, <2>1 DEF ReceiptInv, CommandsOK, Covered
<1>12. MarkedOK'
  BY <1>1 DEF ReceiptInv, MarkedOK, Won
<1>13. UsesOK'
  BY <1>1, <1>7, <1>8 DEF ReceiptInv, UsesOK, Covered
<1> QED
  BY <1>9, <1>10, <1>11, <1>12, <1>13 DEF ReceiptInv

\* The files are rewritten, or time passes: no receipt and no command changes.
LEMMA WorldStep ==
    ASSUME ReceiptInv, callFile' \in Jobs, rulebook' \in Rulebooks, hour' \in Nat,
           UNCHANGED <<issued, consumed, executor, journal, uses>>
    PROVE  ReceiptInv'
<1>1. ReceiptTypes' /\ IssuedOK'
  BY DEF ReceiptInv, ReceiptTypes, IssuedOK, IssuedRight
<1>2. CommandsOK' /\ UsesOK'
  BY DEF ReceiptInv, CommandsOK, UsesOK, Covered
<1>3. MarkedOK'
  BY DEF ReceiptInv, MarkedOK, Won
<1> QED
  BY <1>1, <1>2, <1>3 DEF ReceiptInv

---------------------------------------------------------------------------
(* Receipts: the theorem.                                                  *)

\* A covered use is one that the run's property accepts.
LEMMA CoveredUse ==
    ASSUME ReceiptInv, NEW i \in 1 .. Len(uses)
    PROVE  LET use == uses[i]
               receipt == issued[use.receipt]
               verdict == use.rules[use.job] IN
           /\ use.job = receipt.job /\ use.rules = receipt.rules
           /\ verdict = "allow" \/ (verdict = "needs_approval" /\ receipt.approval.approved)
           /\ receipt.approval.approved => use.at < receipt.approval.cap
           /\ use.at - receipt.from \in 0 .. Ttl - 1
           /\ use.options.secret # 0 => receipt.approval.secret = use.options.secret
<1> DEFINE use == uses[i]
           r == issued[use.receipt]
<1>1. Covered(use) /\ use.at \in Nat
  <2>1. Covered(use)
    BY DEF ReceiptInv, UsesOK
  <2>2. use \in UseRecords
    BY DEF ReceiptInv, ReceiptTypes
  <2> QED
    BY <2>1, <2>2 DEF UseRecords
<1>2. r \in ReceiptRecords /\ IssuedRight(r)
  BY <1>1 DEF ReceiptInv, ReceiptTypes, IssuedOK, Covered
<1>3. /\ r.from \in Nat /\ r.until \in Int /\ Ttl \in Nat
      /\ r.approval.approved \in BOOLEAN /\ r.approval.cap \in Int
  BY <1>2, ReceiptAssumption, OptionsAssumption DEF ReceiptRecords
<1>4. /\ r.job = use.job /\ r.rules = use.rules /\ r.decision = "allow"
      /\ r.from <= use.at /\ use.at < r.until
      /\ use.options.secret # 0 => r.signature = use.options.secret
  BY <1>1 DEF Covered
<1> HIDE DEF use, r
<1>5. /\ use.at - r.from \in 0 .. Ttl - 1
      /\ r.approval.approved => use.at < r.approval.cap
  BY <1>1, <1>2, <1>3, <1>4 DEF IssuedRight
<1>6. /\ use.rules[use.job] = "allow"
            \/ (use.rules[use.job] = "needs_approval" /\ r.approval.approved)
      /\ use.options.secret # 0 => r.approval.secret = use.options.secret
  BY <1>2, <1>3, <1>4 DEF IssuedRight
<1> QED
  BY <1>4, <1>5, <1>6 DEF use, r

\* However commands race and die, a receipt is used once at most, for the
\* call and under the policy it was issued for, before it and its approval
\* expire, by a holder of the secret it was signed with, and on record.
THEOREM ReceiptHonoured == ReceiptSpec => []ReceiptIsHonoured
<1>1. ReceiptInit => ReceiptInv
  BY ReceiptAssumption, CommandShapes DEF ReceiptInit, ReceiptInv, ReceiptTypes, IssuedOK,
     CommandsOK, MarkedOK, UsesOK, Won, CommandSteps
<1>2. ReceiptInv /\ [ReceiptNext]_receiptVars => ReceiptInv'
  <2> SUFFICES ASSUME ReceiptInv, [ReceiptNext]_receiptVars PROVE ReceiptInv'
    OBVIOUS
  <2>1. callFile \in Jobs /\ rulebook \in Rulebooks /\ hour \in Nat /\ hour + 1 \in Nat
    BY DEF ReceiptInv, ReceiptTypes
  <2>2. CASE UNCHANGED receiptVars
    BY <2>1, <2>2, WorldStep DEF receiptVars
  <2>3. CASE \/ \E j \in Jobs : RewriteCall(j)
             \/ \E r \in Rulebooks : RewritePolicy(r)
             \/ HourPasses
    BY <2>1, <2>3, WorldStep DEF RewriteCall, RewritePolicy, HourPasses
  <2>4. CASE \E o \in IssueOptions : IssueReceipt(o)
    BY <2>4, IssueReceiptStep
  <2>5. CASE \E p \in Executors : ExecutorStep(p)
    BY <2>5, LoadReceiptStep, VerifyGrantStep, MarkConsumedStep, RecordConsumptionStep,
       CommandLostStep, UseGrantStep, Zenon DEF ExecutorStep
  <2> QED
    BY <2>2, <2>3, <2>4, <2>5 DEF ReceiptNext
<1>3. ReceiptInv => ReceiptIsHonoured
  <2> SUFFICES ASSUME ReceiptInv PROVE ReceiptIsHonoured
    OBVIOUS
  <2>1. DOMAIN uses = 1 .. Len(uses)
    BY DEF ReceiptInv, ReceiptTypes
  <2>2. GrantUsedOnce /\ UseIsRecorded
    BY <2>1 DEF ReceiptInv, UsesOK, MarkedOK, GrantUsedOnce, UseIsRecorded
  <2>3. GrantCoversUse
    BY <2>1, CoveredUse DEF GrantCoversUse
  <2> QED
    BY <2>2, <2>3 DEF ReceiptIsHonoured
<1> QED
  BY <1>1, <1>2, <1>3, PTL DEF ReceiptSpec

---------------------------------------------------------------------------
(* The approval queue: the inductive invariant.                            *)

RequestIds == Calls \X Slots
Choices == {"allow_once", "deny_once", "allow_session", "always_ask", "always_allow",
            "always_block"}
Permissions == {"allow_once", "allow_session", "always_allow"}
Rules == [Calls -> [effect : {"none", "allow", "needs_approval", "block"}, off : BOOLEAN]]
Policies == [rules : Rules, edition : Nat]
Suggestions == [id : RequestIds, effect : {"allow", "needs_approval", "block"}, applied : BOOLEAN]
RulingRecords == [serial : Nat, by : People, call : Calls, choice : Choices]

\* What a process may be doing: a command holds a request until its ruling is
\* on record, and then writes what follows from it; others edit the policy.
HoldSteps == {"claimed", "checked", "refused", "returning"}
Holding == [step : HoldSteps, id : RequestIds, choice : Choices, request : RequestFiles]
Remembering == [step : {"session"}, id : RequestIds, choice : Choices, request : RequestFiles]
Rewriting == [step : {"sessionRead"}, id : RequestIds, choice : Choices, request : RequestFiles,
              read : SUBSET Calls]
Finishing == [step : {"suggest", "finish"}, id : RequestIds, choice : Choices]
Over == [step : {"decided", "failed"}, choice : Choices]
Edits == [step : {"editing", "written"}, rules : Rules, suggestion : Suggestions \cup {NoRequest}]
Doings == {Resting} \cup Holding \cup Remembering \cup Rewriting \cup Finishing \cup Over \cup Edits

\* What the gate may be doing.
Unasked == [step : {"ready"}, mode : ApprovalModes, policy : Policies]
Letting == [step : {"granted", "forwarded"}, mode : ApprovalModes, policy : Policies, call : Calls,
            via : {"policy", "session", "approval"}]
Asking == [step : {"prompt", "deciding"}, mode : ApprovalModes, policy : Policies, call : Calls,
           id : RequestIds]
Gates == {Resting, [step |-> "broken"]} \cup Unasked \cup Letting \cup Asking

QueueTypes ==
    /\ policyFile \in Policies
    /\ pending \in [RequestIds -> RequestFiles \cup {NoRequest}]
    /\ claims \subseteq [by : People \cup {NoRequest}, id : RequestIds, serial : Nat]
    /\ sessions \in [SessionIds -> SUBSET Calls]
    /\ suggestions \subseteq Suggestions
    /\ decider \in [People -> Doings]
    /\ gate \in Gates
    /\ rulings \subseteq RulingRecords /\ IsFiniteSet(rulings)
    /\ requests \in Seq(RequestIds)
    /\ spent \in [Calls -> Nat]

\* The request number n was ruled on; it is a request for i.
RuledOn(n) == \E r \in rulings : r.serial = n
IsFor(n, i) == n \in 1 .. Len(requests) /\ requests[n] = i

\* A pending request is under its own id and not yet ruled on.
PendingOK == \A i \in RequestIds : pending[i] # NoRequest =>
    IsFor(pending[i].serial, i) /\ ~RuledOn(pending[i].serial)

\* p has a request in its hands and has not ruled on it.
Holds(p) == decider[p].step \in HoldSteps

\* Whoever holds a request holds it alone, and it is not pending any more.
HoldersOK == \A p \in People : Holds(p) =>
    /\ IsFor(decider[p].request.serial, decider[p].id)
    /\ ~RuledOn(decider[p].request.serial)
    /\ \A i \in RequestIds : pending[i] # NoRequest => pending[i].serial # decider[p].request.serial
    /\ \A q \in People : Holds(q) /\ decider[q].request.serial = decider[p].request.serial => q = p

\* p has ruled on a request and has yet to unlink its claim.
RuledSteps == {"session", "sessionRead", "suggest", "finish"}
HasRuled(p) == decider[p].step \in RuledSteps

\* The claim that a process will unlink is of the request it holds, or of one
\* that was ruled on.
ClaimsOK == \A k \in claims :
    /\ IsFor(k.serial, k.id)
    /\ \A p \in People :
          /\ Holds(p) /\ k.by = p /\ k.id = decider[p].id => k.serial = decider[p].request.serial
          /\ HasRuled(p) /\ k.by = p /\ k.id = decider[p].id => RuledOn(k.serial)

RulingsOK == \A r \in rulings : r.serial \in 1 .. Len(requests)

SettledInv == QueueTypes /\ PendingOK /\ HoldersOK /\ ClaimsOK /\ RulingsOK /\ RequestSettledOnce

---------------------------------------------------------------------------
\* Rules and suggestions that somebody asked for.
Warranted(rules) == \A c \in Calls : rules[c].effect = "allow" => Ruled(c, {"always_allow"})
Backed(g) == g.effect = "allow" => Ruled(g.id[1], {"always_allow"})

\* What a process is about to write goes back to a ruling.
IntentOK(d) ==
    /\ d.step = "suggest" => Ruled(d.id[1], {d.choice})
    /\ d.step \in {"session", "sessionRead"} => Ruled(d.id[1], {"allow_session"})
    /\ d.step = "sessionRead" => \A c \in d.read : Ruled(c, {"allow_session"})
    /\ d.step \in {"editing", "written"} =>
          Warranted(d.rules) /\ (d.suggestion # NoRequest => Backed(d.suggestion))
IntentsOK == /\ \A p \in People : IntentOK(decider[p])
             /\ \A g \in suggestions : Backed(g)

\* The gate's own decision is about the call it asked for, and what it lets
\* through it has a reason for.
GateOK ==
    /\ gate.step \in {"prompt", "deciding"} => gate.id[1] = gate.call
    /\ decider[GateProc].step # "idle" =>
          /\ gate.step = "deciding" /\ decider[GateProc].step \notin {"editing", "written"}
          /\ Holds(GateProc) \/ HasRuled(GateProc) => decider[GateProc].id = gate.id
    /\ gate.step \in {"granted", "forwarded"} =>
          /\ gate.via = "policy" => ExactVerdict(gate.policy.rules, gate.call) = "allow"
          /\ gate.via = "session" => Ruled(gate.call, {"allow_session"})

\* A permission given at the prompt that is yet to be used for c.
Due(c) ==
    \/ gate.step = "granted" /\ gate.via = "approval" /\ gate.call = c
    \/ /\ gate.step = "deciding" /\ gate.call = c
       /\ HasRuled(GateProc) \/ decider[GateProc].step = "decided"
       /\ GatePermits(decider[GateProc].choice)

\* The rulings at the prompt that permit c.
Given(c) == {r \in rulings : r.call = c /\ r.by = GateProc /\ r.choice \in Permissions}

SpentOK == \A c \in Calls : spent[c] + (IF Due(c) THEN 1 ELSE 0) <= Cardinality(Given(c))

PermitInv == IntentsOK /\ PermissionHasRuling /\ GateOK /\ SpentOK

---------------------------------------------------------------------------
(* The approval queue: shapes.                                             *)

\* A process is what its step says it is.
LEMMA Shapes ==
    ASSUME QueueTypes, NEW p \in People
    PROVE  /\ decider[p].step = "idle" => decider[p] = Resting
           /\ Holds(p) => decider[p] \in Holding
           /\ decider[p].step = "session" => decider[p] \in Remembering
           /\ decider[p].step = "sessionRead" => decider[p] \in Rewriting
           /\ decider[p].step \in {"suggest", "finish"} => decider[p] \in Finishing
           /\ decider[p].step \in {"decided", "failed"} => decider[p] \in Over
           /\ decider[p].step \in {"editing", "written"} => decider[p] \in Edits
<1>1. decider[p] \in Doings
  BY DEF QueueTypes
<1>2. Resting.step = "idle"
  BY DEF Resting
<1>3. CASE decider[p] \in Holding
  BY <1>3 DEF Holding, HoldSteps, Holds
<1>4. CASE decider[p] \in Remembering
  BY <1>4 DEF Remembering, HoldSteps, Holds
<1>5. CASE decider[p] \in Rewriting
  BY <1>5 DEF Rewriting, HoldSteps, Holds
<1>6. CASE decider[p] \in Finishing
  BY <1>6 DEF Finishing, HoldSteps, Holds
<1>7. CASE decider[p] \in Over
  BY <1>7 DEF Over, HoldSteps, Holds
<1>8. CASE decider[p] \in Edits
  BY <1>8 DEF Edits, HoldSteps, Holds
<1>9. CASE decider[p] = Resting
  BY <1>9, <1>2 DEF HoldSteps, Holds
<1> QED
  BY <1>1, <1>3, <1>4, <1>5, <1>6, <1>7, <1>8, <1>9 DEF Doings

\* So is the gate.
LEMMA GateShapes ==
    ASSUME QueueTypes
    PROVE  /\ gate.step \notin {"idle", "broken"} => gate.mode \in ApprovalModes
                                                     /\ gate.policy \in Policies
           /\ gate.step \in {"granted", "forwarded"} => gate \in Letting
           /\ gate.step \in {"prompt", "deciding"} => gate \in Asking
<1>1. gate \in Gates
  BY DEF QueueTypes
<1>2. Resting.step = "idle" /\ [step |-> "broken"].step = "broken"
  BY DEF Resting
<1>3. CASE gate \in Unasked
  BY <1>3 DEF Unasked
<1>4. CASE gate \in Letting
  BY <1>4 DEF Letting
<1>5. CASE gate \in Asking
  BY <1>5 DEF Asking
<1> QED
  BY <1>1, <1>2, <1>3, <1>4, <1>5 DEF Gates

\* A ruling keeps its shape from step to step.
LEMMA NextShapes ==
    /\ \A d \in Holding, s \in HoldSteps : [d EXCEPT !.step = s] \in Holding
    /\ \A d \in Holding : [d EXCEPT !.step = "session"] \in Remembering
    /\ \A d \in Finishing : [d EXCEPT !.step = "finish"] \in Finishing
    /\ \A d \in Edits : [d EXCEPT !.step = "written"] \in Edits
<1>1. \A d \in Holding, s \in HoldSteps : [d EXCEPT !.step = s] \in Holding
  BY DEF Holding
<1>2. \A d \in Holding : [d EXCEPT !.step = "session"] \in Remembering
  BY DEF Holding, Remembering
<1>3. \A d \in Finishing : [d EXCEPT !.step = "finish"] \in Finishing
  BY DEF Finishing
<1>4. \A d \in Edits : [d EXCEPT !.step = "written"] \in Edits
  BY DEF Edits
<1> QED
  BY <1>1, <1>2, <1>3, <1>4

\* A process does one of these things next.
LEMMA DoingTypes ==
    ASSUME QueueTypes, NEW p \in People, NEW d \in Doings
    PROVE  [decider EXCEPT ![p] = d] \in [People -> Doings]
BY DEF QueueTypes

---------------------------------------------------------------------------
(* The approval queue: types.                                              *)

LEMMA QueueTypesStep == ASSUME QueueTypes, QueueNext PROVE QueueTypes'
<1>0. Resting \in Doings /\ Resting \in Gates /\ [step |-> "broken"] \in Gates
  BY DEF Doings, Gates
<1>1. ASSUME NEW c \in Calls, NEW i \in Slots, NEW s \in SessionIds, NEW e \in Nat,
             NewRequest(c, i, s, e)
      PROVE  /\ requests' \in Seq(RequestIds)
             /\ pending' \in [RequestIds -> RequestFiles \cup {NoRequest}]
  <2>1. <<c, i>> \in RequestIds
    BY DEF RequestIds
  <2>2. requests \in Seq(RequestIds) /\ Len(requests) + 1 \in Nat
    BY DEF QueueTypes
  <2>3. [serial |-> Len(requests) + 1, session |-> s, edition |-> e, fresh |-> TRUE]
            \in RequestFiles
    BY <2>2 DEF RequestFiles
  <2>4. requests' \in Seq(RequestIds)
    BY <1>1, <2>1, <2>2 DEF NewRequest
  <2>5. pending' \in [RequestIds -> RequestFiles \cup {NoRequest}]
    BY <1>1, <2>1, <2>3 DEF NewRequest, QueueTypes
  <2> QED
    BY <2>4, <2>5
<1>2. ASSUME NEW c \in Calls, NEW i \in Slots, GateAsk(c, i)
      PROVE  QueueTypes'
  <2>1. /\ gate.step \in {"ready", "forwarded"} /\ gate.mode \in ApprovalModes
        /\ gate.policy \in Policies
    BY <1>2, GateShapes DEF GateAsk
  <2>2. gate.policy.edition \in Nat /\ CallSession \in SessionIds
    BY <2>1 DEF Policies, CallSession, SessionIds
  <2>3. /\ requests' \in Seq(RequestIds)
        /\ pending' \in [RequestIds -> RequestFiles \cup {NoRequest}]
    BY <1>1, <1>2, <2>2 DEF GateAsk
  <2>4. gate' \in Gates
    <3>1. <<c, i>> \in RequestIds
      BY DEF RequestIds
    <3>2. CASE Answered
      BY <2>1, <3>2 DEF Answered, Gates, Unasked
    <3>3. CASE /\ gate.mode = "tui"
               /\ gate' = [step |-> "prompt", mode |-> "tui", policy |-> gate.policy,
                           call |-> c, id |-> <<c, i>>]
      BY <2>1, <3>1, <3>3 DEF Gates, Asking
    <3> QED
      BY <1>2, <3>2, <3>3 DEF GateAsk
  <2> QED
    BY <1>2, <2>3, <2>4 DEF GateAsk, QueueTypes
<1>3. ASSUME NEW c \in Calls, NEW i \in Slots, NEW s \in {"ruleoak-check", GateSession},
             CheckCall(c, i, s)
      PROVE  QueueTypes'
  <2>1. policyFile.edition \in Nat /\ s \in SessionIds
    BY DEF QueueTypes, Policies, GateSession, SessionIds
  <2>2. /\ requests' \in Seq(RequestIds)
        /\ pending' \in [RequestIds -> RequestFiles \cup {NoRequest}]
    BY <1>1, <1>3, <2>1 DEF CheckCall
  <2> QED
    BY <1>3, <2>2 DEF CheckCall, QueueTypes
<1>4. ASSUME NEW i \in RequestIds, Expire(i)
      PROVE  QueueTypes'
  <2>1. pending[i] \in RequestFiles
    BY <1>4 DEF Expire, QueueTypes
  <2>2. [pending[i] EXCEPT !.fresh = FALSE] \in RequestFiles
    BY <2>1 DEF RequestFiles
  <2>3. pending' = [pending EXCEPT ![i] = [pending[i] EXCEPT !.fresh = FALSE]]
    BY <1>4 DEF Expire
  <2>4. pending' \in [RequestIds -> RequestFiles \cup {NoRequest}]
    BY <2>2, <2>3 DEF QueueTypes
  <2> QED
    BY <1>4, <2>4 DEF Expire, QueueTypes
<1>5. ASSUME NEW p \in People, NEW i \in RequestIds, NEW choice \in ChoicesMade, Claim(p, i, choice)
      PROVE  /\ pending' \in [RequestIds -> RequestFiles \cup {NoRequest}]
             /\ claims' \subseteq [by : People \cup {NoRequest}, id : RequestIds, serial : Nat]
             /\ decider' \in [People -> Doings]
  <2>1. pending[i] \in RequestFiles
    BY <1>5 DEF Claim, QueueTypes
  <2>2. pending[i].serial \in Nat /\ choice \in Choices
    BY <2>1, ChoicesAssumption DEF RequestFiles, Choices
  <2>3. [step |-> "claimed", id |-> i, choice |-> choice, request |-> pending[i]] \in Doings
    BY <2>1, <2>2 DEF Doings, Holding, HoldSteps
  <2>4. decider' \in [People -> Doings]
    BY <1>5, <2>3, DoingTypes DEF Claim
  <2>5. pending' \in [RequestIds -> RequestFiles \cup {NoRequest}]
    BY <1>5 DEF Claim, QueueTypes
  <2>6. claims' \subseteq [by : People \cup {NoRequest}, id : RequestIds, serial : Nat]
    BY <1>5, <2>2 DEF Claim, QueueTypes
  <2> QED
    BY <2>4, <2>5, <2>6
<1>6. ASSUME NEW p \in Deciders, NEW i \in RequestIds, NEW choice \in ChoicesMade,
             Decide(p, i, choice)
      PROVE  QueueTypes'
  <2>1. p \in People
    BY DEF People
  <2> QED
    BY <1>5, <1>6, <2>1 DEF Decide, QueueTypes
<1>7. ASSUME NEW choice \in ChoicesMade, GatePrompt(choice)
      PROVE  QueueTypes'
  <2>1. gate \in Asking /\ gate.id \in RequestIds /\ GateProc \in People
    BY <1>7, GateShapes DEF GatePrompt, Asking, People
  <2>2. CASE Claim(GateProc, gate.id, choice) /\ gate' = [gate EXCEPT !.step = "deciding"]
    <3>1. gate' \in Gates
      BY <2>1, <2>2 DEF Asking, Gates
    <3> QED
      BY <1>5, <1>7, <2>1, <2>2, <3>1 DEF GatePrompt, QueueTypes
  <2>3. CASE gate' = [step |-> "broken"] /\ UNCHANGED <<pending, claims, decider>>
    BY <1>0, <1>7, <2>3 DEF GatePrompt, QueueTypes
  <2> QED
    BY <1>7, <2>2, <2>3 DEF GatePrompt
<1>8. ASSUME NEW p \in People, NEW s \in {"decided", "failed"}, Ends(p, s),
             Holds(p) \/ decider[p] \in Remembering \cup Rewriting \cup Finishing
      PROVE  decider' \in [People -> Doings]
  <2>1. decider[p].choice \in Choices
    BY <1>8, Shapes DEF Holding, Remembering, Rewriting, Finishing
  <2>2. (IF p = GateProc THEN [step |-> s, choice |-> decider[p].choice] ELSE Resting) \in Doings
    BY <1>0, <2>1 DEF Doings, Over
  <2> QED
    BY <1>8, <2>2, DoingTypes DEF Ends
<1>9. ASSUME NEW p \in People, CheckClaim(p) PROVE QueueTypes'
  <2>1. decider[p] \in Holding
    BY <1>9, Shapes DEF CheckClaim, Holds, HoldSteps
  <2>2. PICK s \in HoldSteps : decider' = [decider EXCEPT ![p] = [decider[p] EXCEPT !.step = s]]
    BY <1>9 DEF CheckClaim, StepTo, HoldSteps
  <2>3. [decider[p] EXCEPT !.step = s] \in Doings
    BY <2>1, NextShapes DEF Doings
  <2> QED
    BY <1>9, <2>2, <2>3, DoingTypes DEF CheckClaim, QueueTypes
<1>10. ASSUME NEW p \in People, Refuse(p) PROVE QueueTypes'
  <2>1. decider[p] \in Holding /\ Holds(p)
    BY <1>10, Shapes DEF Refuse, Holds, HoldSteps
  <2>2. CASE StepTo(p, "returning")
    <3>1. [decider[p] EXCEPT !.step = "returning"] \in Doings
      BY <2>1, NextShapes DEF Doings, HoldSteps
    <3> QED
      BY <1>10, <2>2, <3>1, DoingTypes DEF StepTo, Refuse, QueueTypes
  <2>3. CASE Ends(p, "failed")
    BY <1>8, <1>10, <2>1, <2>3 DEF Refuse, QueueTypes
  <2> QED
    BY <1>10, <2>2, <2>3 DEF Refuse
<1>11. ASSUME NEW p \in People, ReturnClaim(p) PROVE QueueTypes'
  <2>1. decider[p] \in Holding /\ Holds(p)
    BY <1>11, Shapes DEF ReturnClaim, Holds, HoldSteps
  <2>2. decider[p].id \in RequestIds /\ decider[p].request \in RequestFiles
    BY <2>1 DEF Holding
  <2>3. decider' \in [People -> Doings]
    BY <1>8, <1>11, <2>1 DEF ReturnClaim
  <2>4. pending' \in [RequestIds -> RequestFiles \cup {NoRequest}]
    BY <1>11, <2>2 DEF ReturnClaim, Returned, QueueTypes
  <2>5. claims' \subseteq claims
    BY <1>11 DEF ReturnClaim, Returned
  <2> QED
    BY <1>11, <2>3, <2>4, <2>5 DEF ReturnClaim, QueueTypes
<1>12. ASSUME NEW p \in People, RecordRuling(p) PROVE QueueTypes'
  <2>1. decider[p] \in Holding /\ Holds(p)
    BY <1>12, Shapes DEF RecordRuling, Holds, HoldSteps
  <2>2. /\ decider[p].id \in RequestIds /\ decider[p].request \in RequestFiles
        /\ decider[p].choice \in Choices
    BY <2>1 DEF Holding
  <2>3. CASE Ends(p, "failed") /\ UNCHANGED rulings
    BY <1>8, <1>12, <2>1, <2>3 DEF RecordRuling, QueueTypes
  <2> DEFINE r == [serial |-> decider[p].request.serial, by |-> p, call |-> decider[p].id[1],
                   choice |-> decider[p].choice]
  <2>4. ASSUME rulings' = rulings \cup {r}
        PROVE  rulings' \subseteq RulingRecords /\ IsFiniteSet(rulings')
    <3>1. r \in RulingRecords
      BY <2>2 DEF RulingRecords, RequestFiles, RequestIds
    <3>2. \A x : IsFiniteSet(rulings \cup {x})
      BY FS_AddElement DEF QueueTypes
    <3> QED
      BY <2>4, <3>1, <3>2 DEF QueueTypes
  <2>5. CASE rulings' = rulings \cup {r} /\ StepTo(p, "session")
    <3>1. [decider[p] EXCEPT !.step = "session"] \in Doings
      BY <2>1, NextShapes DEF Doings
    <3>2. decider' \in [People -> Doings]
      BY <2>5, <3>1, DoingTypes DEF StepTo
    <3> QED
      BY <1>12, <2>4, <2>5, <3>2 DEF RecordRuling, QueueTypes
  <2>6. ASSUME rulings' = rulings \cup {r}, NEW s \in {"suggest", "finish"},
               decider' = [decider EXCEPT ![p] =
                   [step |-> s, id |-> decider[p].id, choice |-> decider[p].choice]]
        PROVE  QueueTypes'
    <3>1. [step |-> s, id |-> decider[p].id, choice |-> decider[p].choice] \in Doings
      BY <2>2 DEF Doings, Finishing
    <3>2. decider' \in [People -> Doings]
      BY <2>6, <3>1, DoingTypes
    <3> QED
      BY <1>12, <2>4, <2>6, <3>2 DEF RecordRuling, QueueTypes
  <2> QED
    BY <1>12, <2>3, <2>5, <2>6 DEF RecordRuling
<1>13. ASSUME NEW p \in People, ReadSession(p) PROVE QueueTypes'
  <2>1. decider[p] \in Remembering
    BY <1>13, Shapes DEF ReadSession
  <2>2. decider[p].request.session \in SessionIds
    BY <2>1 DEF Remembering, RequestFiles
  <2>3. [step |-> "sessionRead", id |-> decider[p].id, choice |-> decider[p].choice,
         request |-> decider[p].request, read |-> sessions[decider[p].request.session]]
             \in Rewriting
    BY <2>1, <2>2 DEF Remembering, Rewriting, QueueTypes
  <2>4. decider' \in [People -> Doings]
    BY <1>13, <2>3, DoingTypes DEF ReadSession, Doings
  <2> QED
    BY <1>13, <2>4 DEF ReadSession, QueueTypes
<1>14. ASSUME NEW p \in People, WriteSession(p) PROVE QueueTypes'
  <2>1. decider[p] \in Rewriting
    BY <1>14, Shapes DEF WriteSession
  <2>2. /\ decider[p].request.session \in SessionIds /\ decider[p].id[1] \in Calls
        /\ decider[p].read \subseteq Calls
    BY <2>1 DEF Rewriting, RequestFiles, RequestIds
  <2>3. [step |-> "finish", id |-> decider[p].id, choice |-> decider[p].choice] \in Finishing
    BY <2>1 DEF Rewriting, Finishing
  <2>4. decider' \in [People -> Doings]
    BY <1>14, <2>3, DoingTypes DEF WriteSession, Doings
  <2>5. sessions' \in [SessionIds -> SUBSET Calls]
    BY <1>14, <2>2 DEF WriteSession, QueueTypes
  <2> QED
    BY <1>14, <2>4, <2>5 DEF WriteSession, QueueTypes
<1>15. ASSUME NEW p \in People, Suggest(p) PROVE QueueTypes'
  <2>1. decider[p] \in Finishing
    BY <1>15, Shapes DEF Suggest
  <2>2. [id |-> decider[p].id, effect |-> SuggestedEffect(decider[p].choice), applied |-> FALSE]
            \in Suggestions
    BY <2>1 DEF Finishing, Suggestions, SuggestedEffect
  <2>3. suggestions' \subseteq Suggestions
    BY <1>15, <2>2 DEF Suggest, QueueTypes
  <2>4. [decider[p] EXCEPT !.step = "finish"] \in Doings
    BY <2>1, NextShapes DEF Doings
  <2>5. decider' \in [People -> Doings]
    BY <1>15, <2>4, DoingTypes DEF Suggest, StepTo
  <2> QED
    BY <1>15, <2>3, <2>5 DEF Suggest, QueueTypes
<1>16. ASSUME NEW p \in People, FinishRuling(p) PROVE QueueTypes'
  <2>1. decider[p] \in Finishing
    BY <1>16, Shapes DEF FinishRuling
  <2>2. decider' \in [People -> Doings]
    BY <1>8, <1>16, <2>1 DEF FinishRuling
  <2> QED
    BY <1>16, <2>2 DEF FinishRuling, QueueTypes
<1>30. ASSUME NEW p \in People, RulingCutShort(p) PROVE QueueTypes'
  <2>1. decider[p] \in Remembering \cup Rewriting \cup Finishing
    BY <1>30, Shapes DEF RulingCutShort
  <2>2. decider' \in [People -> Doings]
    BY <1>8, <1>30, <2>1 DEF RulingCutShort
  <2> QED
    BY <1>30, <2>2 DEF RulingCutShort, QueueTypes
<1>17. ASSUME NEW p \in People, decider' = [decider EXCEPT ![p] = Resting],
              claims' = {IF k.by = p THEN [k EXCEPT !.by = NoRequest] ELSE k : k \in claims}
       PROVE  /\ decider' \in [People -> Doings]
              /\ claims' \subseteq [by : People \cup {NoRequest}, id : RequestIds, serial : Nat]
  <2>1. \A k \in claims : [k EXCEPT !.by = NoRequest] \in
                             [by : People \cup {NoRequest}, id : RequestIds, serial : Nat]
    BY DEF QueueTypes
  <2> QED
    BY <1>0, <1>17, <2>1, DoingTypes DEF QueueTypes
<1>18. ASSUME NEW p \in People, Dies(p) PROVE QueueTypes'
  BY <1>17, <1>18 DEF Dies, QueueTypes
<1>19. CASE GateStops
  <2>1. GateProc \in People
    BY DEF People
  <2> QED
    BY <1>0, <1>17, <1>19, <2>1 DEF GateStops, QueueTypes
<1>20. ASSUME NEW p \in People, NEW rules \in Rules, NEW g \in Suggestions \cup {NoRequest},
              Editing(p, rules, g)
       PROVE  decider' \in [People -> Doings]
  <2>1. [step |-> "editing", rules |-> rules, suggestion |-> g] \in Doings
    BY DEF Doings, Edits
  <2> QED
    BY <1>20, <2>1, DoingTypes DEF Editing
<1>21. ASSUME NEW p \in Deciders, NEW g \in suggestions, ReadToApply(p, g) PROVE QueueTypes'
  <2>1. g \in Suggestions /\ g.id[1] \in Calls /\ p \in People
    BY DEF QueueTypes, Suggestions, RequestIds, People
  <2>2. [effect |-> g.effect, off |-> FALSE] \in
            [effect : {"none", "allow", "needs_approval", "block"}, off : BOOLEAN]
    BY <2>1 DEF Suggestions
  <2>3. [policyFile.rules EXCEPT ![g.id[1]] = [effect |-> g.effect, off |-> FALSE]] \in Rules
    BY <2>1, <2>2 DEF Rules, QueueTypes, Policies
  <2> QED
    BY <1>20, <1>21, <2>1, <2>3 DEF ReadToApply, QueueTypes
<1>22. ASSUME NEW p \in Deciders, NEW c \in Calls, NEW off \in BOOLEAN, ReadToSwitch(p, c, off)
       PROVE  QueueTypes'
  <2>1. policyFile.rules \in Rules
    BY DEF QueueTypes, Policies
  <2>2. [policyFile.rules EXCEPT ![c] = [policyFile.rules[c] EXCEPT !.off = off]] \in Rules
    BY <2>1 DEF Rules
  <2>3. p \in People /\ [policyFile.rules EXCEPT ![c].off = off] \in Rules
    BY <2>2 DEF People
  <2> QED
    BY <1>20, <1>22, <2>3 DEF ReadToSwitch, QueueTypes
<1>23. ASSUME NEW p \in People, WritePolicy(p) PROVE QueueTypes'
  <2>1. decider[p] \in Edits
    BY <1>23, Shapes DEF WritePolicy
  <2>2. policyFile' \in Policies
    BY <1>23, <2>1 DEF WritePolicy, Edits, QueueTypes, Policies
  <2>3. [decider[p] EXCEPT !.step = "written"] \in Doings
    BY <2>1, NextShapes DEF Doings
  <2>4. decider' \in [People -> Doings]
    BY <1>23, <2>3, DoingTypes DEF WritePolicy, StepTo
  <2> QED
    BY <1>23, <2>2, <2>4 DEF WritePolicy, QueueTypes
<1>24. ASSUME NEW p \in People, MarkApplied(p) PROVE QueueTypes'
  <2>1. decider[p] \in Edits
    BY <1>24, Shapes DEF MarkApplied
  <2>2. decider[p].suggestion # NoRequest =>
            [decider[p].suggestion EXCEPT !.applied = TRUE] \in Suggestions
    BY <2>1 DEF Edits, Suggestions
  <2>3. suggestions' \subseteq Suggestions
    BY <1>24, <2>2 DEF MarkApplied, QueueTypes
  <2>4. decider' \in [People -> Doings]
    BY <1>0, <1>24, DoingTypes DEF MarkApplied
  <2> QED
    BY <1>24, <2>3, <2>4 DEF MarkApplied, QueueTypes
<1>25. ASSUME NEW mode \in ApprovalModes, GateStart(mode) PROVE QueueTypes'
  <2>1. gate' \in Gates
    BY <1>25 DEF GateStart, Gates, Unasked, QueueTypes
  <2> QED
    BY <1>25, <2>1 DEF GateStart, QueueTypes
<1>26. ASSUME gate.step \notin {"idle", "broken"}
       PROVE  /\ Answered => gate' \in Gates
              /\ \A c \in Calls, via \in {"policy", "session", "approval"} :
                    Granted(c, via) => gate' \in Gates
  BY <1>26, GateShapes DEF Answered, Granted, Gates, Unasked, Letting
<1>27. ASSUME NEW c \in Calls, GateEvaluate(c) PROVE QueueTypes'
  <2>1. gate' \in Gates
    BY <1>26, <1>27 DEF GateEvaluate
  <2> QED
    BY <1>27, <2>1 DEF GateEvaluate, QueueTypes
<1>28. CASE GateResumes
  <2>1. gate \in Asking /\ gate.call \in Calls
    BY <1>28, GateShapes DEF GateResumes, Asking
  <2>2. gate' \in Gates
    BY <1>0, <1>26, <1>28, <2>1 DEF GateResumes
  <2>3. decider' \in [People -> Doings]
    BY <1>0, <1>28, DoingTypes DEF GateResumes, People
  <2> QED
    BY <1>28, <2>2, <2>3 DEF GateResumes, QueueTypes
<1>29. CASE GateForward
  <2>1. gate \in Letting /\ gate.call \in Calls
    BY <1>29, GateShapes DEF GateForward, Letting
  <2>2. [gate EXCEPT !.step = "forwarded"] \in Gates
    BY <2>1 DEF Letting, Gates
  <2>3. gate' \in Gates
    BY <1>0, <1>29, <2>2 DEF GateForward
  <2>4. spent \in [Calls -> Nat]
    BY DEF QueueTypes
  <2>5. spent' = spent \/ spent' = [spent EXCEPT ![gate.call] = spent[gate.call]]
        \/ spent' = [spent EXCEPT ![gate.call] = spent[gate.call] + 1]
    BY <1>29 DEF GateForward
  <2>6. spent' \in [Calls -> Nat]
    BY <2>1, <2>4, <2>5
  <2> QED
    BY <1>29, <2>3, <2>6 DEF GateForward, QueueTypes
<1> QED
  BY <1>2, <1>3, <1>4, <1>6, <1>7, <1>9, <1>10, <1>11, <1>12, <1>13, <1>14, <1>15, <1>16, <1>18,
     <1>19, <1>21, <1>22, <1>23, <1>24, <1>25, <1>27, <1>28, <1>29, <1>30 DEF QueueNext, RequestIds

---------------------------------------------------------------------------
(* The approval queue: every request is settled once.                      *)

\* The parts of SettledInv beside the types.
Settled == PendingOK /\ HoldersOK /\ ClaimsOK /\ RulingsOK /\ RequestSettledOnce

\* A process goes on without touching the queue: it holds nothing that it did
\* not hold, and only claims of requests that were ruled on are unlinked.
LEMMA GoesOn ==
    ASSUME SettledInv, NEW p \in People, NEW d, decider' = [decider EXCEPT ![p] = d],
           UNCHANGED <<pending, requests, rulings>>,
           claims' \subseteq claims, \A k \in claims \ claims' : RuledOn(k.serial),
           d.step \in HoldSteps => /\ Holds(p) /\ d.id = decider[p].id
                                   /\ d.request = decider[p].request,
           d.step \in RuledSteps => HasRuled(p) /\ d.id = decider[p].id
    PROVE  Settled'
<1>1. decider'[p] = d /\ \A q \in People \ {p} : decider'[q] = decider[q]
  BY DEF SettledInv, QueueTypes
<1>2. \A q \in People : Holds(q)' =>
          Holds(q) /\ decider'[q].id = decider[q].id /\ decider'[q].request = decider[q].request
  BY <1>1 DEF Holds
<1>3. \A q \in People : HasRuled(q)' => HasRuled(q) /\ decider'[q].id = decider[q].id
  BY <1>1 DEF HasRuled
<1>4. PendingOK' /\ RulingsOK' /\ RuledOnce'
  BY DEF SettledInv, PendingOK, RulingsOK, RequestSettledOnce, RuledOnce, IsFor, RuledOn
<1>5. HoldersOK'
  BY <1>2 DEF SettledInv, HoldersOK, IsFor, RuledOn
<1>6. ClaimsOK'
  BY <1>2, <1>3 DEF SettledInv, ClaimsOK, IsFor, RuledOn
<1>7. RequestAccounted'
  BY DEF SettledInv, RequestSettledOnce, RequestAccounted, RuledOn
<1> QED
  BY <1>4, <1>5, <1>6, <1>7 DEF Settled, RequestSettledOnce

\* p takes a pending request in its hands.
LEMMA Takes ==
    ASSUME SettledInv, NEW p \in People, NEW i \in RequestIds, NEW choice, Claim(p, i, choice),
           UNCHANGED <<requests, rulings>>
    PROVE  Settled'
<1> DEFINE n == pending[i].serial
           k0 == [by |-> p, id |-> i, serial |-> n]
<1>0. pending[i] # NoRequest /\ IsFor(n, i) /\ ~RuledOn(n)
  BY DEF Claim, SettledInv, PendingOK
<1>1. /\ decider'[p].step = "claimed" /\ decider'[p].id = i /\ decider'[p].request.serial = n
      /\ \A q \in People \ {p} : decider'[q] = decider[q]
  BY DEF Claim, SettledInv, QueueTypes
<1>2. pending'[i] = NoRequest /\ \A j \in RequestIds \ {i} : pending'[j] = pending[j]
  BY DEF Claim, SettledInv, QueueTypes
<1>3. /\ k0 \in claims' /\ k0.serial = n
      /\ \A k \in claims' : k = k0 \/ (k \in claims /\ ~(k.by = p /\ k.id = i))
      /\ \A k \in claims : k \in claims' \/ (k.by = p /\ k.id = i)
  <2>1. claims' = {k \in claims : ~(k.by = p /\ k.id = i)} \cup {k0}
    BY Zenon DEF Claim
  <2>2. k0.serial = n
    OBVIOUS
  <2>3. /\ k0 \in claims'
        /\ \A k : k \in claims' <=> k = k0 \/ (k \in claims /\ ~(k.by = p /\ k.id = i))
    BY <2>1, Zenon
  <2>4. \A k \in claims' : k = k0 \/ (k \in claims /\ ~(k.by = p /\ k.id = i))
    BY <2>3, Zenon
  <2>5. \A k \in claims : k \in claims' \/ (k.by = p /\ k.id = i)
    BY <2>3, Zenon
  <2> QED
    BY <2>2, <2>3, <2>4, <2>5, Zenon
<1>4. PendingOK' /\ RulingsOK' /\ RuledOnce'
  BY <1>2 DEF SettledInv, PendingOK, RulingsOK, RequestSettledOnce, RuledOnce, IsFor, RuledOn
<1>5. HoldersOK'
  <2> SUFFICES ASSUME NEW q \in People, Holds(q)'
               PROVE  /\ IsFor(decider[q].request.serial, decider[q].id)'
                      /\ ~RuledOn(decider[q].request.serial)'
                      /\ \A j \in RequestIds : pending'[j] # NoRequest =>
                            pending'[j].serial # decider'[q].request.serial
                      /\ \A o \in People :
                            Holds(o)' /\ decider'[o].request.serial = decider'[q].request.serial
                                => o = q
    BY DEF HoldersOK
  <2>1. \A o \in People \ {p} : Holds(o)' =>
            Holds(o) /\ decider'[o] = decider[o] /\ decider[o].request.serial # n
    BY <1>0, <1>1 DEF Holds, SettledInv, HoldersOK
  <2>2. \A j \in RequestIds : pending'[j] # NoRequest =>
            pending[j] # NoRequest /\ pending'[j] = pending[j]
                                /\ pending[j].serial # n
    BY <1>0, <1>2 DEF SettledInv, PendingOK, IsFor
  <2>3. CASE q = p
    BY <1>0, <1>1, <2>1, <2>2, <2>3 DEF IsFor, RuledOn
  <2>4. CASE q # p
    BY <1>1, <2>1, <2>2, <2>4 DEF IsFor, RuledOn, SettledInv, HoldersOK
  <2> QED
    BY <2>3, <2>4
<1>6. ClaimsOK'
  <2> SUFFICES ASSUME NEW k \in claims'
               PROVE  /\ IsFor(k.serial, k.id)'
                      /\ \A q \in People :
                            /\ Holds(q)' /\ k.by = q /\ k.id = decider'[q].id =>
                                   k.serial = decider'[q].request.serial
                            /\ HasRuled(q)' /\ k.by = q /\ k.id = decider'[q].id =>
                                   RuledOn(k.serial)'
    BY DEF ClaimsOK
  <2>1. ~HasRuled(p)'
    BY <1>1 DEF HasRuled, RuledSteps
  <2>2. \A q \in People \ {p} : Holds(q)' = Holds(q) /\ HasRuled(q)' = HasRuled(q)
    BY <1>1 DEF Holds, HasRuled
  <2>3. CASE k = k0
    BY <1>0, <1>1, <2>1, <2>3 DEF IsFor
  <2>4. CASE k \in claims /\ ~(k.by = p /\ k.id = i)
    <3>1. IsFor(k.serial, k.id)'
      BY <2>4 DEF SettledInv, ClaimsOK, IsFor
    <3>2. ASSUME NEW q \in People \ {p}
          PROVE  /\ Holds(q)' /\ k.by = q /\ k.id = decider'[q].id =>
                        k.serial = decider'[q].request.serial
                 /\ HasRuled(q)' /\ k.by = q /\ k.id = decider'[q].id => RuledOn(k.serial)'
      BY <1>1, <2>2, <2>4 DEF SettledInv, ClaimsOK, RuledOn
    <3> QED
      BY <1>1, <2>1, <2>4, <3>1, <3>2
  <2> QED
    BY <1>3, <2>3, <2>4
<1>7. RequestAccounted'
  <2> SUFFICES ASSUME NEW m \in DOMAIN requests,
                      ~\E j \in RequestIds : pending'[j] # NoRequest /\ pending'[j].serial = m,
                      ~\E k \in claims' : k.serial = m,
                      ~RuledOn(m)
               PROVE  \E o \in DOMAIN requests : o # m /\ requests[o] = requests[m]
    BY DEF RequestAccounted, RuledOn, RequestIds
  <2>1. CASE \E j \in RequestIds : pending[j] # NoRequest /\ pending[j].serial = m
    BY <1>2, <1>3, <2>1
  <2>2. CASE \E k \in claims : k.serial = m
    <3>1. m # n /\ requests[m] = i
      BY <1>3, <2>2 DEF SettledInv, ClaimsOK, IsFor
    <3>2. n \in DOMAIN requests /\ requests[n] = i
      BY <1>0 DEF IsFor, SettledInv, QueueTypes
    <3> QED
      BY <3>1, <3>2
  <2> QED
    BY <2>1, <2>2 DEF SettledInv, RequestSettledOnce, RequestAccounted, RuledOn, RequestIds
<1> QED
  BY <1>4, <1>5, <1>6, <1>7 DEF Settled, RequestSettledOnce

\* p puts the request it holds back; whatever is under its id by then is
\* another request for the same.
LEMMA PutsBack ==
    ASSUME SettledInv, NEW p \in People, Holds(p), Returned(p), UNCHANGED <<requests, rulings>>,
           NEW d, decider' = [decider EXCEPT ![p] = d], d.step \notin HoldSteps \cup RuledSteps
    PROVE  Settled'
<1> DEFINE i == decider[p].id
           n == decider[p].request.serial
<1>0. /\ decider[p].id \in RequestIds /\ decider[p].request \in RequestFiles
      /\ decider[p].request # NoRequest
  BY Shapes, NoRequestAssumption DEF SettledInv, Holding
<1>1. /\ ~Holds(p)' /\ ~HasRuled(p)'
      /\ \A q \in People \ {p} : decider'[q] = decider[q]
  BY DEF SettledInv, QueueTypes, Holds, HasRuled
<1>2. pending'[i] = decider[p].request /\ \A j \in RequestIds \ {i} : pending'[j] = pending[j]
  BY <1>0 DEF Returned, SettledInv, QueueTypes
<1>3. IsFor(n, i) /\ ~RuledOn(n) /\ \A q \in People \ {p} : Holds(q) =>
          decider[q].request.serial # n
  BY DEF SettledInv, HoldersOK
<1>4. PendingOK' /\ RulingsOK' /\ RuledOnce'
  BY <1>2, <1>3 DEF SettledInv, PendingOK, RulingsOK, RequestSettledOnce, RuledOnce, IsFor, RuledOn
<1>5. HoldersOK'
  <2>1. \A q \in People : Holds(q)' => q # p /\ Holds(q) /\ decider'[q] = decider[q]
    BY <1>1 DEF Holds
  <2> QED
    BY <1>2, <1>3, <2>1 DEF SettledInv, HoldersOK, IsFor, RuledOn
<1>6. ClaimsOK'
  <2>1. \A q \in People : Holds(q)' => q # p /\ Holds(q) /\ decider'[q] = decider[q]
    BY <1>1 DEF Holds
  <2>2. \A q \in People : HasRuled(q)' => q # p /\ HasRuled(q) /\ decider'[q] = decider[q]
    BY <1>1 DEF HasRuled
  <2>3. claims' \subseteq claims
    BY DEF Returned
  <2> QED
    BY <2>1, <2>2, <2>3 DEF SettledInv, ClaimsOK, IsFor, RuledOn
<1>7. RequestAccounted'
  <2> SUFFICES ASSUME NEW m \in DOMAIN requests,
                      ~\E j \in RequestIds : pending'[j] # NoRequest /\ pending'[j].serial = m,
                      ~\E k \in claims' : k.serial = m,
                      ~RuledOn(m)
               PROVE  \E o \in DOMAIN requests : o # m /\ requests[o] = requests[m]
    BY DEF RequestAccounted, RuledOn, RequestIds
  <2>0. n \in DOMAIN requests /\ requests[n] = i /\ m # n
    BY <1>0, <1>2, <1>3 DEF IsFor, SettledInv, QueueTypes
  <2>1. CASE \E j \in RequestIds : pending[j] # NoRequest /\ pending[j].serial = m
    <3>1. requests[m] = i
      BY <1>2, <2>1 DEF SettledInv, PendingOK, IsFor
    <3> QED
      BY <2>0, <3>1
  <2>2. CASE \E k \in claims : k.serial = m
    BY <2>0, <2>2 DEF Returned, SettledInv, ClaimsOK
  <2> QED
    BY <2>1, <2>2 DEF SettledInv, RequestSettledOnce, RequestAccounted, RuledOn, RequestIds
<1> QED
  BY <1>4, <1>5, <1>6, <1>7 DEF Settled, RequestSettledOnce

\* p rules on the request it holds, which nobody has ruled on.
LEMMA RulesOnce ==
    ASSUME SettledInv, NEW p \in People, Holds(p), UNCHANGED <<pending, claims, requests>>,
           NEW r, r.serial = decider[p].request.serial, rulings' = rulings \cup {r},
           NEW d, decider' = [decider EXCEPT ![p] = d], d.step \in RuledSteps, d.id = decider[p].id
    PROVE  Settled'
<1> DEFINE n == decider[p].request.serial
<1>1. /\ decider'[p] = d /\ ~Holds(p)' /\ \A q \in People \ {p} : decider'[q] = decider[q]
  BY DEF SettledInv, QueueTypes, Holds, HoldSteps, RuledSteps
<1>2. \A m : RuledOn(m)' <=> RuledOn(m) \/ m = n
  BY DEF RuledOn
<1>3. ~RuledOn(n) /\ n \in 1 .. Len(requests)
  BY DEF SettledInv, HoldersOK, IsFor
<1>4. PendingOK'
  BY <1>2 DEF SettledInv, PendingOK, HoldersOK, IsFor
<1>5. RulingsOK' /\ RuledOnce'
  BY <1>3 DEF SettledInv, RulingsOK, RequestSettledOnce, RuledOnce, RuledOn
<1>6. \A q \in People : Holds(q)' => q # p /\ Holds(q) /\ decider'[q] = decider[q]
  BY <1>1 DEF Holds
<1>7. HoldersOK'
  BY <1>2, <1>6 DEF SettledInv, HoldersOK, IsFor
<1>8. ClaimsOK'
  <2>1. \A q \in People \ {p} : HasRuled(q)' => HasRuled(q) /\ decider'[q] = decider[q]
    BY <1>1 DEF HasRuled
  <2> QED
    BY <1>1, <1>2, <1>6, <2>1 DEF SettledInv, ClaimsOK, IsFor
<1>9. RequestAccounted'
  BY DEF SettledInv, RequestSettledOnce, RequestAccounted
<1> QED
  BY <1>4, <1>5, <1>7, <1>8, <1>9 DEF Settled, RequestSettledOnce

\* A new request; the one whose place it takes is another for the same.
LEMMA Requested ==
    ASSUME SettledInv, NEW c \in Calls, NEW i \in Slots, NEW session \in SessionIds,
           NEW edition \in Nat,
           NewRequest(c, i, session, edition), UNCHANGED <<claims, decider, rulings>>
    PROVE  Settled'
<1> DEFINE n == Len(requests) + 1
           x == <<c, i>>
<1>0. x \in RequestIds /\ requests \in Seq(RequestIds) /\ Len(requests) \in Nat
  BY DEF RequestIds, SettledInv, QueueTypes
<1>1. /\ Len(requests') = n /\ requests'[n] = x /\ DOMAIN requests' = 1 .. n
      /\ DOMAIN requests = 1 .. Len(requests)
      /\ \A m \in 1 .. Len(requests) : requests'[m] = requests[m]
  BY <1>0 DEF NewRequest
<1>2. pending'[x].serial = n /\ \A j \in RequestIds \ {x} : pending'[j] = pending[j]
  BY <1>0 DEF NewRequest, SettledInv, QueueTypes
<1>3. pending'[x] # NoRequest
  <2>1. [serial |-> n, session |-> session, edition |-> edition, fresh |-> TRUE] = pending'[x]
    BY <1>0 DEF NewRequest, SettledInv, QueueTypes
  <2>2. [serial |-> n, session |-> session, edition |-> edition, fresh |-> TRUE] \in RequestFiles
    BY <1>0 DEF RequestFiles
  <2> QED
    BY <2>1, <2>2, NoRequestAssumption
<1>4. ~RuledOn(n) /\ \A m, j : IsFor(m, j) => m # n /\ IsFor(m, j)'
  BY <1>0, <1>1 DEF SettledInv, RulingsOK, RuledOn, IsFor
<1>5. PendingOK'
  BY <1>0, <1>1, <1>2, <1>4 DEF SettledInv, PendingOK, IsFor, RuledOn
<1>6. RulingsOK' /\ RuledOnce'
  BY <1>0, <1>1 DEF SettledInv, RulingsOK, RequestSettledOnce, RuledOnce
<1>7. HoldersOK'
  BY <1>2, <1>4 DEF SettledInv, HoldersOK, Holds, RuledOn
<1>8. ClaimsOK'
  BY <1>4 DEF SettledInv, ClaimsOK, Holds, HasRuled, RuledOn
<1>9. RequestAccounted'
  <2> SUFFICES ASSUME NEW m \in 1 .. n
               PROVE  \/ \E j \in RequestIds : pending'[j] # NoRequest /\ pending'[j].serial = m
                      \/ \E k \in claims' : k.serial = m
                      \/ \E r \in rulings' : r.serial = m
                      \/ \E o \in DOMAIN requests' : o # m /\ requests'[o] = requests'[m]
    BY <1>1 DEF RequestAccounted, RequestIds
  <2>1. CASE m = n
    BY <1>0, <1>2, <1>3, <2>1
  <2>2. CASE m # n
    <3>1. m \in DOMAIN requests /\ requests'[m] = requests[m]
      BY <1>0, <1>1, <2>2
    <3>2. CASE \E j \in RequestIds : pending[j] # NoRequest /\ pending[j].serial = m
      <4>1. PICK j \in RequestIds : pending[j] # NoRequest /\ pending[j].serial = m
        BY <3>2
      <4>2. CASE j = x
        <5>1. requests[m] = x
          BY <4>1, <4>2 DEF SettledInv, PendingOK, IsFor
        <5> QED
          BY <1>0, <1>1, <2>2, <3>1, <5>1
      <4> QED
        BY <1>2, <4>1, <4>2
    <3>3. CASE \E o \in DOMAIN requests : o # m /\ requests[o] = requests[m]
      BY <1>0, <1>1, <3>1, <3>3
    <3> QED
      BY <3>1, <3>2, <3>3 DEF SettledInv, RequestSettledOnce, RequestAccounted, RequestIds
  <2> QED
    BY <2>1, <2>2
<1> QED
  BY <1>5, <1>6, <1>7, <1>8, <1>9 DEF Settled, RequestSettledOnce

\* A process dies, and its claims belong to nobody.
LEMMA LeavesClaims ==
    ASSUME SettledInv, NEW p \in People, UNCHANGED <<pending, requests, rulings>>,
           decider' = [decider EXCEPT ![p] = Resting],
           claims' = {IF k.by = p THEN [k EXCEPT !.by = NoRequest] ELSE k : k \in claims}
    PROVE  Settled'
<1>1. ~Holds(p)' /\ ~HasRuled(p)' /\ \A q \in People \ {p} : decider'[q] = decider[q]
  BY DEF SettledInv, QueueTypes, Holds, HasRuled, Resting, HoldSteps, RuledSteps
<1>2. \A q \in People : Holds(q)' => q # p /\ Holds(q) /\ decider'[q] = decider[q]
  BY <1>1 DEF Holds
<1>3. \A q \in People : HasRuled(q)' => q # p /\ HasRuled(q) /\ decider'[q] = decider[q]
  BY <1>1 DEF HasRuled
<1>4. \A k \in claims : /\ [k EXCEPT !.by = NoRequest].id = k.id
                        /\ [k EXCEPT !.by = NoRequest].serial = k.serial
                        /\ [k EXCEPT !.by = NoRequest].by = NoRequest
  BY DEF SettledInv, QueueTypes
<1>5. \A l \in claims' : \E k \in claims : /\ l.id = k.id /\ l.serial = k.serial
                                           /\ l.by = k.by \/ l.by = NoRequest
  BY <1>4
<1>6. \A k \in claims : \E l \in claims' : l.serial = k.serial
  BY <1>4
<1>7. PendingOK' /\ RulingsOK' /\ RuledOnce'
  BY DEF SettledInv, PendingOK, RulingsOK, RequestSettledOnce, RuledOnce, IsFor, RuledOn
<1>8. HoldersOK'
  BY <1>2 DEF SettledInv, HoldersOK, IsFor, RuledOn
<1>9. ClaimsOK'
  BY <1>2, <1>3, <1>5, NoRequestAssumption DEF SettledInv, ClaimsOK, IsFor, RuledOn
<1>10. RequestAccounted'
  <2> SUFFICES ASSUME NEW m \in DOMAIN requests, ~\E k \in claims' : k.serial = m
               PROVE  \/ \E j \in RequestIds : pending[j] # NoRequest /\ pending[j].serial = m
                      \/ \E r \in rulings : r.serial = m
                      \/ \E o \in DOMAIN requests : o # m /\ requests[o] = requests[m]
    BY DEF RequestAccounted, RequestIds
  <2>1. ~\E k \in claims : k.serial = m
    BY <1>6, Zenon
  <2>2. RequestAccounted
    BY Zenon DEF SettledInv, RequestSettledOnce
  <2> QED
    BY <2>1, <2>2, Zenon DEF RequestAccounted, RequestIds
<1> QED
  BY <1>7, <1>8, <1>9, <1>10 DEF Settled, RequestSettledOnce

\* A request that gets old is the same request.
LEMMA GetsOld ==
    ASSUME SettledInv, NEW i \in RequestIds, Expire(i)
    PROVE  Settled'
<1>1. pending[i] \in RequestFiles /\ pending[i] # NoRequest
  BY DEF Expire, SettledInv, QueueTypes
<1>2. pending' = [pending EXCEPT ![i] = [pending[i] EXCEPT !.fresh = FALSE]]
  BY DEF Expire
<1>3. [pending[i] EXCEPT !.fresh = FALSE] \in RequestFiles
      /\ [pending[i] EXCEPT !.fresh = FALSE].serial = pending[i].serial
  BY <1>1 DEF RequestFiles
<1>4. \A j \in RequestIds : /\ pending'[j].serial = pending[j].serial
                            /\ pending'[j] # NoRequest <=> pending[j] # NoRequest
  BY <1>1, <1>2, <1>3, NoRequestAssumption DEF SettledInv, QueueTypes
<1>5. UNCHANGED <<claims, decider, requests, rulings>>
  BY DEF Expire
<1>6. PendingOK' /\ RulingsOK' /\ RuledOnce'
  BY <1>4, <1>5 DEF SettledInv, PendingOK, RulingsOK, RequestSettledOnce, RuledOnce, IsFor, RuledOn
<1>7. HoldersOK'
  BY <1>4, <1>5 DEF SettledInv, HoldersOK, IsFor, RuledOn, Holds
<1>8. ClaimsOK'
  BY <1>5 DEF SettledInv, ClaimsOK, IsFor, RuledOn, Holds, HasRuled
<1>9. RequestAccounted'
  BY <1>4, <1>5 DEF SettledInv, RequestSettledOnce, RequestAccounted, RequestIds
<1> QED
  BY <1>6, <1>7, <1>8, <1>9 DEF Settled, RequestSettledOnce

\* The other files and the gate have no part in it.
LEMMA QueueAlone ==
    ASSUME SettledInv, UNCHANGED <<pending, claims, decider, requests, rulings>>
    PROVE  Settled'
BY DEF SettledInv, Settled, PendingOK, HoldersOK, ClaimsOK, RulingsOK, RequestSettledOnce,
       RuledOnce, RequestAccounted, IsFor, RuledOn, Holds, HasRuled

LEMMA SettledStep == ASSUME SettledInv, QueueNext PROVE Settled'
<1>0. QueueTypes
  BY DEF SettledInv
<1>1. ASSUME NEW p \in People, NEW s, s \notin HoldSteps \cup RuledSteps, Ends(p, s)
      PROVE  \E d : decider' = [decider EXCEPT ![p] = d] /\ d.step \notin HoldSteps \cup RuledSteps
  <2>1. Resting.step \notin HoldSteps \cup RuledSteps
    BY DEF Resting, HoldSteps, RuledSteps
  <2>2. [step |-> s, choice |-> decider[p].choice].step \notin HoldSteps \cup RuledSteps
    BY <1>1
  <2> DEFINE d == IF p = GateProc THEN [step |-> s, choice |-> decider[p].choice] ELSE Resting
  <2>3. decider' = [decider EXCEPT ![p] = d] /\ d.step \notin HoldSteps \cup RuledSteps
    BY <1>1, <2>1, <2>2 DEF Ends
  <2> QED
    BY <2>3, Zenon
<1>2. "failed" \notin HoldSteps \cup RuledSteps /\ "decided" \notin HoldSteps \cup RuledSteps
      /\ HoldSteps \cap RuledSteps = {}
  BY DEF HoldSteps, RuledSteps
<1>3. ASSUME NEW c \in Calls, NEW i \in Slots, GateAsk(c, i) PROVE Settled'
  <2>1. gate.policy.edition \in Nat /\ CallSession \in SessionIds
    BY <1>0, <1>3, GateShapes DEF GateAsk, Policies, CallSession, SessionIds
  <2>2. NewRequest(c, i, CallSession, gate.policy.edition) /\ UNCHANGED <<claims, decider, rulings>>
    BY <1>3 DEF GateAsk
  <2> QED
    BY <2>1, <2>2, Requested
<1>4. ASSUME NEW c \in Calls, NEW i \in Slots, NEW s \in {"ruleoak-check", GateSession},
             CheckCall(c, i, s)
      PROVE  Settled'
  <2>1. policyFile.edition \in Nat /\ s \in SessionIds
    BY <1>0 DEF QueueTypes, Policies, GateSession, SessionIds
  <2>2. NewRequest(c, i, s, policyFile.edition) /\ UNCHANGED <<claims, decider, rulings>>
    BY <1>4 DEF CheckCall
  <2> QED
    BY <2>1, <2>2, Requested
<1>5. ASSUME NEW i \in RequestIds, Expire(i) PROVE Settled'
  BY <1>5, GetsOld
<1>6. ASSUME NEW p \in Deciders, NEW i \in RequestIds, NEW choice \in ChoicesMade,
             Decide(p, i, choice)
      PROVE  Settled'
  BY <1>6, Takes DEF Decide, People
<1>7. ASSUME NEW choice \in ChoicesMade, GatePrompt(choice) PROVE Settled'
  <2>1. gate.id \in RequestIds /\ GateProc \in People
    BY <1>0, <1>7, GateShapes DEF GatePrompt, Asking, People
  <2>2. CASE Claim(GateProc, gate.id, choice)
    BY <1>7, <2>1, <2>2, Takes DEF GatePrompt
  <2>3. CASE UNCHANGED <<pending, claims, decider>>
    BY <1>7, <2>3, QueueAlone DEF GatePrompt
  <2> QED
    BY <1>7, <2>2, <2>3 DEF GatePrompt
<1>8. ASSUME NEW p \in People, NEW d, decider' = [decider EXCEPT ![p] = d],
             UNCHANGED <<pending, claims, requests, rulings>>,
             \/ d.step \notin HoldSteps \cup RuledSteps
             \/ /\ d.step \in HoldSteps /\ Holds(p) /\ d.id = decider[p].id
                /\ d.request = decider[p].request
             \/ d.step \in RuledSteps /\ HasRuled(p) /\ d.id = decider[p].id
      PROVE  Settled'
  <2>1. /\ d.step \in HoldSteps => /\ Holds(p) /\ d.id = decider[p].id
                                   /\ d.request = decider[p].request
        /\ d.step \in RuledSteps => HasRuled(p) /\ d.id = decider[p].id
    BY <1>2, <1>8
  <2>2. claims' \subseteq claims /\ \A k \in claims \ claims' : RuledOn(k.serial)
    BY <1>8
  <2> QED
    BY <1>8, <2>1, <2>2, GoesOn
<1>9. ASSUME NEW p \in People, CheckClaim(p) PROVE Settled'
  <2>1. Holds(p) /\ decider[p] \in Holding
    BY <1>0, <1>9, Shapes DEF CheckClaim, Holds, HoldSteps
  <2>2. PICK s \in HoldSteps : decider' = [decider EXCEPT ![p] = [decider[p] EXCEPT !.step = s]]
    BY <1>9 DEF CheckClaim, StepTo, HoldSteps
  <2>3. /\ [decider[p] EXCEPT !.step = s].step = s
        /\ [decider[p] EXCEPT !.step = s].id = decider[p].id
        /\ [decider[p] EXCEPT !.step = s].request = decider[p].request
    BY <2>1 DEF Holding
  <2> QED
    BY <1>8, <1>9, <2>1, <2>2, <2>3 DEF CheckClaim
<1>10. ASSUME NEW p \in People, Refuse(p) PROVE Settled'
  <2>1. Holds(p) /\ decider[p] \in Holding
    BY <1>0, <1>10, Shapes DEF Refuse, Holds, HoldSteps
  <2>2. CASE StepTo(p, "returning")
    <3> DEFINE d == [decider[p] EXCEPT !.step = "returning"]
    <3>1. d.step = "returning" /\ d.id = decider[p].id /\ d.request = decider[p].request
      BY <2>1 DEF Holding
    <3>2. decider' = [decider EXCEPT ![p] = d] /\ d.step \in HoldSteps
      BY <2>2, <3>1 DEF StepTo, HoldSteps
    <3> QED
      BY <1>8, <1>10, <2>1, <3>1, <3>2 DEF Refuse
  <2>3. CASE Ends(p, "failed")
    BY <1>1, <1>2, <1>8, <1>10, <2>3 DEF Refuse
  <2> QED
    BY <1>10, <2>2, <2>3 DEF Refuse
<1>11. ASSUME NEW p \in People, ReturnClaim(p) PROVE Settled'
  <2>1. Holds(p)
    BY <1>11 DEF ReturnClaim, Holds, HoldSteps
  <2>2. PICK d : decider' = [decider EXCEPT ![p] = d] /\ d.step \notin HoldSteps \cup RuledSteps
    BY <1>1, <1>2, <1>11 DEF ReturnClaim
  <2>3. Returned(p) /\ UNCHANGED <<requests, rulings>>
    BY <1>11 DEF ReturnClaim
  <2> QED
    BY <2>1, <2>2, <2>3, PutsBack
<1>12. ASSUME NEW p \in People, RecordRuling(p) PROVE Settled'
  <2>1. Holds(p) /\ decider[p] \in Holding
    BY <1>0, <1>12, Shapes DEF RecordRuling, Holds, HoldSteps
  <2>2. CASE Ends(p, "failed") /\ UNCHANGED rulings
    BY <1>1, <1>2, <1>8, <1>12, <2>2 DEF RecordRuling
  <2> DEFINE r == [serial |-> decider[p].request.serial, by |-> p, call |-> decider[p].id[1],
                   choice |-> decider[p].choice]
  <2>3. ASSUME rulings' = rulings \cup {r}, NEW d, decider' = [decider EXCEPT ![p] = d],
               d.step \in RuledSteps, d.id = decider[p].id
        PROVE  Settled'
    <3>1. r.serial = decider[p].request.serial
      OBVIOUS
    <3>2. UNCHANGED <<pending, claims, requests>>
      BY <1>12 DEF RecordRuling
    <3> HIDE DEF r
    <3> QED
      BY <2>1, <2>3, <3>1, <3>2, RulesOnce
  <2>4. CASE rulings' = rulings \cup {r} /\ StepTo(p, "session")
    <3> DEFINE d == [decider[p] EXCEPT !.step = "session"]
    <3>1. d.step \in RuledSteps /\ d.id = decider[p].id
      BY <2>1 DEF Holding, RuledSteps
    <3>2. decider' = [decider EXCEPT ![p] = d]
      BY <2>4 DEF StepTo
    <3> HIDE DEF d
    <3> QED
      BY <2>3, <2>4, <3>1, <3>2
  <2>5. ASSUME rulings' = rulings \cup {r}, NEW s \in {"suggest", "finish"},
               decider' = [decider EXCEPT ![p] =
                   [step |-> s, id |-> decider[p].id, choice |-> decider[p].choice]]
        PROVE  Settled'
    <3> DEFINE d == [step |-> s, id |-> decider[p].id, choice |-> decider[p].choice]
    <3>1. d.step \in RuledSteps /\ d.id = decider[p].id /\ decider' = [decider EXCEPT ![p] = d]
      BY <2>5 DEF RuledSteps
    <3> HIDE DEF d
    <3> QED
      BY <2>3, <2>5, <3>1
  <2> QED
    BY <1>12, <2>2, <2>4, <2>5 DEF RecordRuling
<1>13. ASSUME NEW p \in People, ReadSession(p) PROVE Settled'
  <2> DEFINE d == [step |-> "sessionRead", id |-> decider[p].id, choice |-> decider[p].choice,
                   request |-> decider[p].request, read |-> sessions[decider[p].request.session]]
  <2>1. d.step \in RuledSteps /\ d.id = decider[p].id /\ HasRuled(p)
    BY <1>13 DEF ReadSession, RuledSteps, HasRuled
  <2>2. decider' = [decider EXCEPT ![p] = d] /\ UNCHANGED <<pending, claims, requests, rulings>>
    BY <1>13 DEF ReadSession
  <2> HIDE DEF d
  <2> QED
    BY <1>8, <2>1, <2>2
<1>14. ASSUME NEW p \in People, WriteSession(p) PROVE Settled'
  <2> DEFINE d == [step |-> "finish", id |-> decider[p].id, choice |-> decider[p].choice]
  <2>1. d.step \in RuledSteps /\ d.id = decider[p].id /\ HasRuled(p)
    BY <1>14 DEF WriteSession, RuledSteps, HasRuled
  <2>2. decider' = [decider EXCEPT ![p] = d] /\ UNCHANGED <<pending, claims, requests, rulings>>
    BY <1>14 DEF WriteSession
  <2> HIDE DEF d
  <2> QED
    BY <1>8, <2>1, <2>2
<1>15. ASSUME NEW p \in People, Suggest(p) PROVE Settled'
  <2> DEFINE d == [decider[p] EXCEPT !.step = "finish"]
  <2>1. decider[p] \in Finishing
    BY <1>0, <1>15, Shapes DEF Suggest
  <2>2. d.step \in RuledSteps /\ d.id = decider[p].id /\ HasRuled(p)
    BY <1>15, <2>1 DEF Suggest, RuledSteps, HasRuled, Finishing
  <2>3. decider' = [decider EXCEPT ![p] = d] /\ UNCHANGED <<pending, claims, requests, rulings>>
    BY <1>15 DEF Suggest, StepTo
  <2> HIDE DEF d
  <2> QED
    BY <1>8, <2>2, <2>3
<1>16. ASSUME NEW p \in People, FinishRuling(p) PROVE Settled'
  <2>1. HasRuled(p) /\ UNCHANGED <<pending, requests, rulings>>
    BY <1>16 DEF FinishRuling, HasRuled, RuledSteps
  <2>2. claims' \subseteq claims /\ \A k \in claims \ claims' : k.by = p /\ k.id = decider[p].id
    BY <1>16 DEF FinishRuling
  <2>3. \A k \in claims \ claims' : RuledOn(k.serial)
    BY <2>1, <2>2 DEF SettledInv, ClaimsOK
  <2>4. PICK d : decider' = [decider EXCEPT ![p] = d] /\ d.step \notin HoldSteps \cup RuledSteps
    BY <1>1, <1>2, <1>16 DEF FinishRuling
  <2>5. /\ d.step \in HoldSteps =>
               Holds(p) /\ d.id = decider[p].id /\ d.request = decider[p].request
        /\ d.step \in RuledSteps => HasRuled(p) /\ d.id = decider[p].id
    BY <2>4
  <2> QED
    BY <2>1, <2>2, <2>3, <2>4, <2>5, GoesOn
<1>27. ASSUME NEW p \in People, RulingCutShort(p) PROVE Settled'
  <2>1. PICK d : decider' = [decider EXCEPT ![p] = d] /\ d.step \notin HoldSteps \cup RuledSteps
    BY <1>1, <1>2, <1>27 DEF RulingCutShort
  <2>2. UNCHANGED <<pending, claims, requests, rulings>>
    BY <1>27 DEF RulingCutShort
  <2> QED
    BY <1>8, <2>1, <2>2
<1>17. ASSUME NEW p \in People, Dies(p) PROVE Settled'
  BY <1>17, LeavesClaims DEF Dies
<1>18. CASE GateStops
  BY <1>18, LeavesClaims DEF GateStops, People
<1>19. ASSUME NEW p \in Deciders, NEW rules, NEW g, Editing(p, rules, g),
              UNCHANGED <<pending, claims, requests, rulings>>
       PROVE  Settled'
  <2> DEFINE d == [step |-> "editing", rules |-> rules, suggestion |-> g]
  <2>1. /\ d.step \notin HoldSteps \cup RuledSteps /\ decider' = [decider EXCEPT ![p] = d]
        /\ p \in People
    BY <1>19 DEF Editing, HoldSteps, RuledSteps, People
  <2> HIDE DEF d
  <2> QED
    BY <1>8, <1>19, <2>1
<1>20. ASSUME NEW p \in Deciders, NEW g \in suggestions, ReadToApply(p, g) PROVE Settled'
  BY <1>19, <1>20 DEF ReadToApply
<1>21. ASSUME NEW p \in Deciders, NEW c \in Calls, NEW off \in BOOLEAN, ReadToSwitch(p, c, off)
       PROVE  Settled'
  BY <1>19, <1>21 DEF ReadToSwitch
<1>22. ASSUME NEW p \in People, WritePolicy(p) PROVE Settled'
  <2> DEFINE d == [decider[p] EXCEPT !.step = "written"]
  <2>1. decider[p] \in Edits
    BY <1>0, <1>22, Shapes DEF WritePolicy
  <2>2. d.step \notin HoldSteps \cup RuledSteps
    BY <2>1 DEF Edits, HoldSteps, RuledSteps
  <2>3. decider' = [decider EXCEPT ![p] = d] /\ UNCHANGED <<pending, claims, requests, rulings>>
    BY <1>22 DEF WritePolicy, StepTo
  <2> HIDE DEF d
  <2> QED
    BY <1>8, <2>2, <2>3
<1>23. Resting.step \notin HoldSteps \cup RuledSteps
  BY DEF Resting, HoldSteps, RuledSteps
<1>24. ASSUME NEW p \in People, MarkApplied(p) PROVE Settled'
  BY <1>8, <1>23, <1>24 DEF MarkApplied
<1>25. CASE GateResumes
  BY <1>8, <1>23, <1>25 DEF GateResumes, People
<1>26. ASSUME \/ \E mode \in ApprovalModes : GateStart(mode)
              \/ \E c \in Calls : GateEvaluate(c)
              \/ GateForward
       PROVE  Settled'
  BY <1>26, QueueAlone DEF GateStart, GateEvaluate, GateForward
<1> QED
  BY <1>3, <1>4, <1>5, <1>6, <1>7, <1>9, <1>10, <1>11, <1>12, <1>13, <1>14, <1>15, <1>16, <1>17,
     <1>18, <1>20, <1>21, <1>22, <1>24, <1>25, <1>26, <1>27 DEF QueueNext, RequestIds

\* It holds at the start and after every step.
LEMMA SettledInvariance == QueueSpec => []SettledInv
<1>1. QueueInit => SettledInv
  <2> SUFFICES ASSUME QueueInit PROVE SettledInv
    OBVIOUS
  <2>1. policyFile \in Policies
    BY DEF QueueInit, Policies, Rules
  <2>2. IsFiniteSet(rulings)
    BY FS_EmptySet DEF QueueInit
  <2>3. decider \in [People -> Doings] /\ gate \in Gates
    BY DEF QueueInit, Doings, Gates
  <2>4. requests \in Seq(RequestIds) /\ requests = <<>> /\ DOMAIN requests = {}
    BY DEF QueueInit
  <2>5. QueueTypes
    BY <2>1, <2>2, <2>3, <2>4 DEF QueueInit, QueueTypes, RequestIds
  <2>6. \A p \in People : ~Holds(p) /\ ~HasRuled(p)
    BY DEF QueueInit, Holds, HasRuled, Resting, HoldSteps, RuledSteps
  <2>7. PendingOK /\ HoldersOK /\ ClaimsOK /\ RulingsOK
    BY <2>6 DEF QueueInit, PendingOK, HoldersOK, ClaimsOK, RulingsOK, RequestIds
  <2>8. RequestSettledOnce
    BY <2>4 DEF QueueInit, RequestSettledOnce, RuledOnce, RequestAccounted
  <2> QED
    BY <2>5, <2>7, <2>8 DEF SettledInv
<1>2. SettledInv /\ [QueueNext]_queueVars => SettledInv'
  <2> SUFFICES ASSUME SettledInv, [QueueNext]_queueVars PROVE SettledInv'
    OBVIOUS
  <2>1. CASE QueueNext
    BY <2>1, QueueTypesStep, SettledStep DEF SettledInv, Settled
  <2>2. CASE UNCHANGED queueVars
    <3>1. QueueTypes'
      BY <2>2 DEF queueVars, SettledInv, QueueTypes
    <3> QED
      BY <2>2, <3>1, QueueAlone DEF queueVars, SettledInv, Settled
  <2> QED
    BY <2>1, <2>2
<1> QED
  BY <1>1, <1>2, PTL DEF QueueSpec

\* A request for approval is ruled on at most once and never disappears: it is
\* pending, claimed, ruled on or overwritten by another for the same call,
\* whoever claims it, dies or puts it back (decidePendingApproval).
THEOREM RequestsSettledOnce == QueueSpec => []RequestSettledOnce
<1>1. SettledInv => RequestSettledOnce
  BY DEF SettledInv
<1> QED
  BY <1>1, SettledInvariance, PTL

---------------------------------------------------------------------------
(* The approval queue: every permission goes back to a rule or a ruling.   *)

\* What somebody has ruled stays ruled.
LEMMA RulingsGrow ==
    ASSUME rulings \subseteq rulings'
    PROVE  /\ \A c, choices : Ruled(c, choices) => Ruled(c, choices)'
           /\ \A g : Backed(g) => Backed(g)'
           /\ \A rules : Warranted(rules) => Warranted(rules)'
           /\ \A d : IntentOK(d) => IntentOK(d)'
<1>1. \A c, choices : Ruled(c, choices) => Ruled(c, choices)'
  BY DEF Ruled
<1>2. \A g : Backed(g) => Backed(g)'
  BY <1>1 DEF Backed
<1>3. \A rules : Warranted(rules) => Warranted(rules)'
  BY <1>1 DEF Warranted
<1>4. ASSUME NEW d, IntentOK(d) PROVE IntentOK(d)'
  BY <1>1, <1>2, <1>3, <1>4 DEF IntentOK
<1> QED
  BY <1>1, <1>2, <1>3, <1>4

\* A permission that stands keeps its ruling.
LEMMA Standing ==
    ASSUME PermissionHasRuling, rulings \subseteq rulings', UNCHANGED <<policyFile, sessions>>
    PROVE  PermissionHasRuling'
BY RulingsGrow DEF PermissionHasRuling

\* Most steps are about to write nothing that needs a ruling.
IntentSteps == {"suggest", "session", "sessionRead", "editing", "written"}
LEMMA Harmless == ASSUME NEW d, d.step \notin IntentSteps PROVE IntentOK(d)
BY DEF IntentOK, IntentSteps

\* One process goes on, with a ruling for what it is about to write.
LEMMA IntentsKeep ==
    ASSUME QueueTypes, IntentsOK, rulings \subseteq rulings',
           NEW p \in People, NEW d, decider' = [decider EXCEPT ![p] = d],
           IntentOK(d) \/ IntentOK(d)',
           \A g \in suggestions' : g \in suggestions \/ Backed(g) \/ Backed(g)'
    PROVE  IntentsOK'
<1>1. \A q \in People : decider'[q] = d \/ decider'[q] = decider[q]
  BY DEF QueueTypes
<1>2. IntentOK(d)'
  BY RulingsGrow
<1>3. ASSUME NEW q \in People PROVE IntentOK(decider[q])'
  <2>1. PICK e : e = decider'[q]
    OBVIOUS
  <2>2. IntentOK(decider[q])
    BY DEF IntentsOK
  <2>3. PICK f : f = decider[q]
    OBVIOUS
  <2>4. IntentOK(f)'
    BY <2>2, <2>3, RulingsGrow
  <2>5. IntentOK(e)'
    BY <1>1, <1>2, <2>1, <2>3, <2>4
  <2> QED
    BY <2>1, <2>5
<1>4. \A g \in suggestions' : Backed(g)'
  BY RulingsGrow DEF IntentsOK
<1> QED
  BY <1>3, <1>4 DEF IntentsOK

\* Nobody goes on.
LEMMA IntentsAlone ==
    ASSUME IntentsOK, UNCHANGED <<decider, suggestions, rulings>>
    PROVE  IntentsOK'
BY DEF IntentsOK, IntentOK, Warranted, Backed, Ruled

\* The permissions given at the prompt can be counted.
LEMMA GivenCount ==
    ASSUME QueueTypes, NEW c
    PROVE  IsFiniteSet(Given(c)) /\ Cardinality(Given(c)) \in Nat
<1>1. IsFiniteSet(rulings) /\ Given(c) \subseteq rulings
  BY DEF QueueTypes, Given
<1>2. IsFiniteSet(Given(c))
  BY <1>1, FS_Subset
<1> QED
  BY <1>2, FS_CardinalityType

LEMMA GivenGrows ==
    ASSUME QueueTypes, QueueTypes', rulings \subseteq rulings', NEW c
    PROVE  /\ Cardinality(Given(c)) \in Nat /\ Cardinality(Given(c)') \in Nat
           /\ Cardinality(Given(c)) <= Cardinality(Given(c)')
<1>1. Given(c) \subseteq Given(c)'
  BY DEF Given
<1>2. IsFiniteSet(Given(c)')
  <2>1. IsFiniteSet(rulings') /\ Given(c)' \subseteq rulings'
    BY DEF QueueTypes, Given
  <2> QED
    BY <2>1, FS_Subset
<1>3. Cardinality(Given(c)) <= Cardinality(Given(c)')
  BY <1>1, <1>2, FS_Subset
<1> QED
  BY <1>2, <1>3, GivenCount, FS_CardinalityType

\* The count keeps up when no forward is due that was not due before.
LEMMA SpentKeeps ==
    ASSUME QueueTypes, QueueTypes', SpentOK, rulings \subseteq rulings', spent' = spent,
           \A c \in Calls : Due(c)' => Due(c)
    PROVE  SpentOK'
<1> SUFFICES ASSUME NEW c \in Calls
             PROVE  spent'[c] + (IF Due(c)' THEN 1 ELSE 0) <= Cardinality(Given(c)')
  BY DEF SpentOK
<1>1. spent[c] \in Nat /\ spent[c] + (IF Due(c) THEN 1 ELSE 0) <= Cardinality(Given(c))
  BY DEF QueueTypes, SpentOK
<1> HIDE DEF Due
<1> QED
  BY <1>1, GivenGrows

\* A process goes on while the gate waits: if it is the gate's own, it stays
\* with its request and gives no permission that it has not recorded.
LEMMA GateKeeps ==
    ASSUME QueueTypes, QueueTypes', GateOK, SpentOK, rulings \subseteq rulings',
           UNCHANGED <<gate, spent>>,
           NEW p \in People, NEW d, decider' = [decider EXCEPT ![p] = d],
           p = GateProc =>
               /\ decider[p].step # "idle" /\ d.step \notin {"editing", "written"}
               /\ d.step \in HoldSteps \cup RuledSteps =>
                     (Holds(p) \/ HasRuled(p)) /\ d.id = decider[p].id
               /\ d.step \in RuledSteps \cup {"decided"} =>
                     HasRuled(p) /\ d.choice = decider[p].choice
    PROVE  GateOK' /\ SpentOK'
<1>1. GateProc \in People
  BY DEF People
<1>2. \A c, choices : Ruled(c, choices) => Ruled(c, choices)'
  BY RulingsGrow
<1>3. \/ decider'[GateProc] = decider[GateProc]
      \/ p = GateProc /\ decider'[GateProc] = d
  BY <1>1 DEF QueueTypes
<1>4. /\ decider'[GateProc].step # "idle" =>
            gate.step = "deciding" /\ decider'[GateProc].step \notin {"editing", "written"}
      /\ decider'[GateProc].step \in HoldSteps \cup RuledSteps => decider'[GateProc].id = gate.id
  BY <1>3 DEF GateOK, Holds, HasRuled, HoldSteps, RuledSteps
<1>5. GateOK'
  BY <1>2, <1>4 DEF GateOK, Holds, HasRuled
<1>6. ASSUME NEW c \in Calls, Due(c)' PROVE Due(c)
  BY <1>3, <1>6 DEF Due, HasRuled
<1> QED
  BY <1>5, <1>6, SpentKeeps

\* A step of one process that rules on nothing and changes no permission.
LEMMA Proceeds ==
    ASSUME QueueTypes, QueueTypes', PermitInv,
           UNCHANGED <<gate, spent, rulings, policyFile, sessions, suggestions>>,
           NEW p \in People, NEW d, decider' = [decider EXCEPT ![p] = d], IntentOK(d),
           p = GateProc =>
               /\ decider[p].step # "idle" /\ d.step \notin {"editing", "written"}
               /\ d.step \in HoldSteps \cup RuledSteps =>
                     (Holds(p) \/ HasRuled(p)) /\ d.id = decider[p].id
               /\ d.step \in RuledSteps \cup {"decided"} =>
                     HasRuled(p) /\ d.choice = decider[p].choice
    PROVE  PermitInv'
<1>1. rulings \subseteq rulings'
  OBVIOUS
<1>2. GateOK' /\ SpentOK'
  BY <1>1, GateKeeps DEF PermitInv
<1>3. PermissionHasRuling'
  BY <1>1, Standing DEF PermitInv
<1>4. \A g \in suggestions' : g \in suggestions \/ Backed(g) \/ Backed(g)'
  OBVIOUS
<1>5. IntentsOK'
  BY <1>1, <1>4, IntentsKeep DEF PermitInv
<1> QED
  BY <1>2, <1>3, <1>5 DEF PermitInv

\* A call of decidePendingApproval ends: the gate hears of its own ruling.
LEMMA EndsProceeds ==
    ASSUME QueueTypes, QueueTypes', PermitInv,
           UNCHANGED <<gate, spent, rulings, policyFile, sessions, suggestions>>,
           NEW p \in People, NEW s \in {"decided", "failed"}, Ends(p, s),
           decider[p].step # "idle", s = "decided" => HasRuled(p)
    PROVE  PermitInv'
<1> DEFINE d == IF p = GateProc THEN [step |-> s, choice |-> decider[p].choice] ELSE Resting
<1>1. decider' = [decider EXCEPT ![p] = d]
  BY DEF Ends
<1>2. d.step \in {"idle", s} /\ (p = GateProc => d.step = s /\ d.choice = decider[p].choice)
  BY DEF Resting
<1>3. /\ d.step \notin IntentSteps /\ d.step \notin {"editing", "written"}
      /\ d.step \notin HoldSteps \cup RuledSteps
  BY <1>2 DEF IntentSteps, HoldSteps, RuledSteps
<1>4. p = GateProc /\ d.step \in RuledSteps \cup {"decided"} =>
          HasRuled(p) /\ d.choice = decider[p].choice
  BY <1>2, <1>3
<1> HIDE DEF d
<1>5. IntentOK(d)
  BY <1>3, Harmless
<1> QED
  BY <1>1, <1>3, <1>4, <1>5, Proceeds

\* A ruling is recorded: what follows from it may be written, and if it is the
\* gate's it permits one forward.
LEMMA RulingPermits ==
    ASSUME SettledInv, QueueTypes', PermitInv, NEW p \in People, RecordRuling(p)
    PROVE  PermitInv'
<1>0. QueueTypes
  BY DEF SettledInv
<1>1. Holds(p) /\ decider[p] \in Holding /\ decider[p].step = "checked"
  BY <1>0, Shapes DEF RecordRuling, Holds, HoldSteps
<1>2. CASE Ends(p, "failed") /\ UNCHANGED rulings
  BY <1>0, <1>1, <1>2, EndsProceeds DEF RecordRuling
<1>3. PICK r : r = [serial |-> decider[p].request.serial, by |-> p, call |-> decider[p].id[1],
                    choice |-> decider[p].choice]
  OBVIOUS
<1>4. /\ r.serial = decider[p].request.serial /\ r.by = p /\ r.call = decider[p].id[1]
      /\ r.choice = decider[p].choice
  BY <1>3
<1>5. CASE rulings' = rulings \cup {r}
  <2>1. PICK d : /\ decider' = [decider EXCEPT ![p] = d] /\ d.step \in RuledSteps \ {"sessionRead"}
                 /\ d.id = decider[p].id /\ d.choice = decider[p].choice
                 /\ d.step = "session" => d.choice = "allow_session"
    <3>1. CASE decider[p].choice \in SessionChoices /\ StepTo(p, "session")
      <4>1. [decider[p] EXCEPT !.step = "session"].step = "session"
            /\ [decider[p] EXCEPT !.step = "session"].id = decider[p].id
            /\ [decider[p] EXCEPT !.step = "session"].choice = decider[p].choice
        BY <1>1 DEF Holding
      <4>2. decider' = [decider EXCEPT ![p] = [decider[p] EXCEPT !.step = "session"]]
        BY <3>1 DEF StepTo
      <4> QED
        BY <3>1, <4>1, <4>2 DEF SessionChoices, RuledSteps
    <3>2. ASSUME NEW s \in {"suggest", "finish"},
                 decider' = [decider EXCEPT ![p] =
                     [step |-> s, id |-> decider[p].id, choice |-> decider[p].choice]]
          PROVE  \E d : /\ decider' = [decider EXCEPT ![p] = d]
                        /\ d.step \in RuledSteps \ {"sessionRead"}
                        /\ d.id = decider[p].id /\ d.choice = decider[p].choice
                        /\ d.step = "session" => d.choice = "allow_session"
      <4> DEFINE d == [step |-> s, id |-> decider[p].id, choice |-> decider[p].choice]
      <4>1. d.step = s /\ d.id = decider[p].id /\ d.choice = decider[p].choice
        OBVIOUS
      <4>2. decider' = [decider EXCEPT ![p] = d]
        BY <3>2
      <4> HIDE DEF d
      <4> QED
        BY <4>1, <4>2 DEF RuledSteps
    <3>3. CASE Ends(p, "failed") /\ UNCHANGED rulings
      <4>1. r \in rulings
        BY <1>5, <3>3
      <4>2. ~RuledOn(r.serial)
        BY <1>1, <1>4 DEF SettledInv, HoldersOK
      <4> QED
        BY <4>1, <4>2 DEF RuledOn
    <3> QED
      BY <3>1, <3>2, <3>3 DEF RecordRuling
  <2>2. /\ rulings \subseteq rulings' /\ r \in rulings'
        /\ UNCHANGED <<gate, spent, policyFile, sessions, suggestions>>
    BY <1>5 DEF RecordRuling
  <2>3. Ruled(d.id[1], {d.choice})'
    BY <1>4, <2>1, <2>2 DEF Ruled
  <2>4. IntentOK(d)'
    BY <2>1, <2>3 DEF IntentOK, RuledSteps
  <2>5. IntentsOK'
    BY <1>0, <2>1, <2>2, <2>4, IntentsKeep DEF PermitInv
  <2>6. PermissionHasRuling'
    BY <2>2, Standing DEF PermitInv
  <2>7. CASE p # GateProc
    BY <1>0, <2>1, <2>2, <2>5, <2>6, <2>7, GateKeeps DEF PermitInv
  <2>8. CASE p = GateProc
    <3>1. gate.step = "deciding" /\ decider[GateProc].id = gate.id /\ gate.id[1] = gate.call
      BY <1>1, <2>8 DEF PermitInv, GateOK
    <3>2. decider'[GateProc] = d
      BY <1>0, <2>1, <2>8 DEF QueueTypes
    <3>3. GateOK'
      BY <2>1, <2>2, <2>8, <3>1, <3>2 DEF GateOK, Holds, HasRuled, RuledSteps
    <3>4. ASSUME NEW c \in Calls
          PROVE  spent'[c] + (IF Due(c)' THEN 1 ELSE 0) <= Cardinality(Given(c)')
      <4>1. ~Due(c)
        BY <1>1, <2>8, <3>1 DEF Due, HasRuled, RuledSteps
      <4>2. spent[c] \in Nat /\ spent[c] <= Cardinality(Given(c))
        BY <1>0, <4>1 DEF QueueTypes, PermitInv, SpentOK
      <4>3. CASE Due(c)'
        <5>1. gate.call = c /\ GatePermits(d.choice)
          BY <2>2, <3>1, <3>2, <4>3 DEF Due
        <5>2. d.choice \in Permissions
          <6>1. d.choice \in Choices
            BY <1>1, <2>1 DEF Holding
          <6> QED
            BY <5>1, <6>1 DEF GatePermits, Choices, Permissions
        <5>3. r.call = c /\ r.by = GateProc /\ r.choice \in Permissions
          BY <1>4, <2>1, <2>8, <3>1, <5>1, <5>2
        <5>4. r \notin rulings
          BY <1>1, <1>4 DEF SettledInv, HoldersOK, RuledOn
        <5>5. Given(c)' = Given(c) \cup {r} /\ r \notin Given(c)
          BY <1>5, <5>3, <5>4 DEF Given
        <5>6. Cardinality(Given(c) \cup {r}) = Cardinality(Given(c)) + 1
          BY <1>0, <5>5, GivenCount, FS_AddElement
        <5>7. Cardinality(Given(c)) \in Nat
          BY <1>0, GivenCount
        <5> QED
          BY <2>2, <4>2, <4>3, <5>5, <5>6, <5>7
      <4>4. CASE ~Due(c)'
        BY <1>0, <2>2, <4>2, <4>4, GivenGrows
      <4> QED
        BY <4>3, <4>4
    <3> QED
      BY <2>5, <2>6, <3>3, <3>4 DEF PermitInv, SpentOK
  <2> QED
    BY <2>7, <2>8
<1> QED
  BY <1>2, <1>3, <1>5 DEF RecordRuling

\* The gate goes on, and no process does: it needs its reason for what it
\* lets through, and takes no permission that was not due.
LEMMA GateMoves ==
    ASSUME QueueTypes, QueueTypes', PermitInv,
           UNCHANGED <<policyFile, sessions, suggestions, decider, rulings, spent>>,
           gate.step # "deciding", gate'.step # "deciding",
           gate'.step = "prompt" => gate'.id[1] = gate'.call,
           gate'.step = "granted" => /\ gate'.via # "approval"
                                     /\ gate'.via = "policy" =>
                                            ExactVerdict(gate'.policy.rules, gate'.call) = "allow"
                                     /\ gate'.via = "session" =>
                                            Ruled(gate'.call, {"allow_session"}),
           gate'.step # "forwarded"
    PROVE  PermitInv'
<1>1. rulings \subseteq rulings'
  OBVIOUS
<1>2. decider[GateProc].step = "idle"
  BY DEF PermitInv, GateOK
<1>3. PermissionHasRuling' /\ IntentsOK'
  BY <1>1, Standing, IntentsAlone DEF PermitInv
<1>4. GateOK'
  BY <1>2 DEF GateOK, Ruled, ExactVerdict
<1>5. \A c \in Calls : ~Due(c)'
  BY DEF Due
<1> QED
  BY <1>1, <1>3, <1>4, <1>5, SpentKeeps DEF PermitInv

\* The gate and its own process go on together, at the prompt, when the
\* decision is back, and when it stops.
LEMMA GateWithProcess ==
    ASSUME QueueTypes, QueueTypes', PermitInv,
           UNCHANGED <<policyFile, sessions, suggestions, rulings, spent>>,
           NEW d, decider' = [decider EXCEPT ![GateProc] = d], d.step \in {"idle", "claimed"},
           d.step = "claimed" => /\ gate'.step = "deciding" /\ d.id = gate'.id
                                 /\ gate'.id[1] = gate'.call,
           gate'.step \notin {"prompt", "forwarded"},
           gate'.step = "deciding" => d.step = "claimed",
           gate'.step = "granted" => gate'.via = "approval" /\ Due(gate'.call)
    PROVE  PermitInv'
<1>1. rulings \subseteq rulings' /\ GateProc \in People
  BY DEF People
<1>2. decider'[GateProc] = d
  BY <1>1 DEF QueueTypes
<1>3. IntentOK(d)
  BY Harmless DEF IntentSteps
<1>4. IntentsOK'
  <2>1. \A g \in suggestions' : g \in suggestions \/ Backed(g) \/ Backed(g)'
    OBVIOUS
  <2> QED
    BY <1>1, <1>3, <2>1, IntentsKeep DEF PermitInv
<1>5. PermissionHasRuling'
  BY <1>1, Standing DEF PermitInv
<1>6. GateOK'
  BY <1>2 DEF GateOK, Holds, HasRuled, HoldSteps, RuledSteps
<1>7. ASSUME NEW c \in Calls, Due(c)' PROVE Due(c)
  <2>1. gate'.step = "granted" /\ gate'.call = c
    BY <1>2, <1>7 DEF Due, HasRuled, RuledSteps
  <2> QED
    BY <2>1
<1> QED
  BY <1>1, <1>4, <1>5, <1>6, <1>7, SpentKeeps DEF PermitInv

LEMMA PermitStep == ASSUME SettledInv, QueueTypes', PermitInv, QueueNext PROVE PermitInv'
<1>0. QueueTypes
  BY DEF SettledInv
<1>1. ASSUME UNCHANGED <<policyFile, sessions, suggestions, decider, gate, rulings, spent>>
      PROVE  PermitInv'
  BY <1>1 DEF PermitInv, IntentsOK, IntentOK, Warranted, Backed, PermissionHasRuling, Ruled, GateOK,
              SpentOK, Due, Given, Holds, HasRuled
<1>2. ASSUME NEW c \in Calls, NEW i \in Slots, GateAsk(c, i) PROVE PermitInv'
  <2>1. /\ gate'.step \in {"ready", "prompt"} /\ (gate'.step = "prompt" => gate'.id[1] = gate'.call)
    BY <1>2 DEF GateAsk, Answered
  <2>2. /\ UNCHANGED <<policyFile, sessions, suggestions, decider, rulings, spent>>
        /\ gate.step # "deciding"
    BY <1>2 DEF GateAsk
  <2> QED
    BY <1>0, <2>1, <2>2, GateMoves
<1>3. ASSUME NEW c \in Calls, NEW i \in Slots, NEW s \in {"ruleoak-check", GateSession},
             CheckCall(c, i, s)
      PROVE  PermitInv'
  BY <1>1, <1>3 DEF CheckCall
<1>4. ASSUME NEW i \in RequestIds, Expire(i) PROVE PermitInv'
  BY <1>1, <1>4 DEF Expire
<1>5. ASSUME NEW p \in Deciders, NEW i \in RequestIds, NEW choice \in ChoicesMade,
             Decide(p, i, choice)
      PROVE  PermitInv'
  <2> DEFINE d == [step |-> "claimed", id |-> i, choice |-> choice, request |-> pending[i]]
  <2>1. d.step = "claimed" /\ decider' = [decider EXCEPT ![p] = d]
    BY <1>5 DEF Decide, Claim
  <2> HIDE DEF d
  <2>2. IntentOK(d)
    BY <2>1, Harmless DEF IntentSteps
  <2>3. p \in People /\ p # GateProc
    BY GateAssumption DEF People
  <2>4. UNCHANGED <<gate, spent, rulings, policyFile, sessions, suggestions>>
    BY <1>5 DEF Decide
  <2> QED
    BY <1>0, <2>1, <2>2, <2>3, <2>4, Proceeds
<1>6. ASSUME NEW choice \in ChoicesMade, GatePrompt(choice) PROVE PermitInv'
  <2>1. gate \in Asking /\ gate.step = "prompt" /\ gate.id[1] = gate.call
    BY <1>0, <1>6, GateShapes DEF GatePrompt, PermitInv, GateOK
  <2>2. CASE Claim(GateProc, gate.id, choice) /\ gate' = [gate EXCEPT !.step = "deciding"]
    <3> DEFINE d == [step |-> "claimed", id |-> gate.id, choice |-> choice,
                     request |-> pending[gate.id]]
    <3>1. d.step = "claimed" /\ d.id = gate.id /\ decider' = [decider EXCEPT ![GateProc] = d]
      BY <2>2 DEF Claim
    <3>2. gate'.step = "deciding" /\ gate'.id = gate.id /\ gate'.call = gate.call
      BY <2>1, <2>2 DEF Asking
    <3>3. UNCHANGED <<policyFile, sessions, suggestions, rulings, spent>>
      BY <1>6 DEF GatePrompt
    <3> HIDE DEF d
    <3> QED
      BY <1>0, <2>1, <3>1, <3>2, <3>3, GateWithProcess
  <2>3. CASE gate' = [step |-> "broken"] /\ UNCHANGED <<pending, claims, decider>>
    <3>1. /\ gate'.step = "broken"
          /\ UNCHANGED <<policyFile, sessions, suggestions, decider, rulings, spent>>
      BY <1>6, <2>3 DEF GatePrompt
    <3> QED
      BY <1>0, <2>1, <3>1, GateMoves
  <2> QED
    BY <1>6, <2>2, <2>3 DEF GatePrompt
<1>7. ASSUME NEW p \in People, CheckClaim(p) PROVE PermitInv'
  <2>1. Holds(p) /\ decider[p] \in Holding /\ decider[p].step = "claimed"
    BY <1>0, <1>7, Shapes DEF CheckClaim, Holds, HoldSteps
  <2>2. PICK s \in {"checked", "refused"} :
          decider' = [decider EXCEPT ![p] = [decider[p] EXCEPT !.step = s]]
    BY <1>7 DEF CheckClaim, StepTo
  <2> DEFINE d == [decider[p] EXCEPT !.step = s]
  <2>3. d.step = s /\ d.id = decider[p].id
    BY <2>1 DEF Holding
  <2>4. decider' = [decider EXCEPT ![p] = d]
    BY <2>2
  <2>5. UNCHANGED <<gate, spent, rulings, policyFile, sessions, suggestions>>
    BY <1>7 DEF CheckClaim
  <2>6. IntentOK(d)
    BY <2>3, Harmless DEF IntentSteps
  <2> HIDE DEF d
  <2>7. d.step \notin RuledSteps \cup {"decided"}
    BY <2>3 DEF RuledSteps
  <2> QED
    BY <1>0, <2>1, <2>3, <2>4, <2>5, <2>6, <2>7, Proceeds
<1>8. ASSUME NEW p \in People, Refuse(p) PROVE PermitInv'
  <2>1. Holds(p) /\ decider[p] \in Holding /\ decider[p].step = "refused"
    BY <1>0, <1>8, Shapes DEF Refuse, Holds, HoldSteps
  <2>2. UNCHANGED <<gate, spent, rulings, policyFile, sessions, suggestions>>
    BY <1>8 DEF Refuse
  <2>3. CASE StepTo(p, "returning")
    <3> DEFINE d == [decider[p] EXCEPT !.step = "returning"]
    <3>1. d.step = "returning" /\ d.id = decider[p].id
      BY <2>1 DEF Holding
    <3>2. decider' = [decider EXCEPT ![p] = d]
      BY <2>3 DEF StepTo
    <3>3. IntentOK(d)
      BY <3>1, Harmless DEF IntentSteps
    <3> HIDE DEF d
    <3>4. d.step \notin RuledSteps \cup {"decided"}
      BY <3>1 DEF RuledSteps
    <3> QED
      BY <1>0, <2>1, <2>2, <3>1, <3>2, <3>3, <3>4, Proceeds
  <2>4. CASE Ends(p, "failed")
    BY <1>0, <2>1, <2>2, <2>4, EndsProceeds
  <2> QED
    BY <1>8, <2>3, <2>4 DEF Refuse
<1>9. ASSUME NEW p \in People, ReturnClaim(p) PROVE PermitInv'
  BY <1>0, <1>9, EndsProceeds DEF ReturnClaim
<1>10. ASSUME NEW p \in People, RecordRuling(p) PROVE PermitInv'
  BY <1>10, RulingPermits
<1>11. ASSUME NEW p \in People, ReadSession(p) PROVE PermitInv'
  <2>1. decider[p] \in Remembering /\ decider[p].step = "session" /\ HasRuled(p)
    BY <1>0, <1>11, Shapes DEF ReadSession, HasRuled, RuledSteps
  <2> DEFINE d == [step |-> "sessionRead", id |-> decider[p].id, choice |-> decider[p].choice,
                   request |-> decider[p].request, read |-> sessions[decider[p].request.session]]
  <2>2. /\ d.step = "sessionRead" /\ d.id = decider[p].id /\ d.choice = decider[p].choice
        /\ d.read = sessions[decider[p].request.session]
    OBVIOUS
  <2>3. /\ decider' = [decider EXCEPT ![p] = d]
        /\ UNCHANGED <<gate, spent, rulings, policyFile, sessions, suggestions>>
    BY <1>11 DEF ReadSession
  <2> HIDE DEF d
  <2>4. Ruled(d.id[1], {"allow_session"})
    BY <2>1, <2>2 DEF PermitInv, IntentsOK, IntentOK
  <2>5. \A c \in d.read : Ruled(c, {"allow_session"})
    <3>1. decider[p].request.session \in SessionIds
      BY <2>1 DEF Remembering, RequestFiles
    <3>2. d.read \subseteq Calls
      BY <1>0, <2>2, <3>1 DEF QueueTypes
    <3> QED
      BY <2>2, <3>1, <3>2 DEF PermitInv, PermissionHasRuling
  <2>6. IntentOK(d)
    BY <2>2, <2>4, <2>5 DEF IntentOK
  <2> QED
    BY <1>0, <2>1, <2>2, <2>3, <2>6, Proceeds
<1>12. ASSUME NEW p \in People, NEW d, decider' = [decider EXCEPT ![p] = d], d.step = "finish",
              d.id = decider[p].id, d.choice = decider[p].choice, HasRuled(p),
              UNCHANGED <<gate, spent, rulings>>,
              \A g \in suggestions' : g \in suggestions \/ Backed(g)
       PROVE  IntentsOK' /\ GateOK' /\ SpentOK'
  <2>1. IntentOK(d)
    BY <1>12, Harmless DEF IntentSteps
  <2>2. decider[p].step # "idle" /\ d.step \notin {"editing", "written"}
    BY <1>12 DEF HasRuled, RuledSteps
  <2>3. rulings \subseteq rulings'
    BY <1>12
  <2>4. GateOK' /\ SpentOK'
    BY <1>0, <1>12, <2>2, <2>3, GateKeeps DEF PermitInv
  <2>5. IntentsOK'
    BY <1>0, <1>12, <2>1, <2>3, IntentsKeep DEF PermitInv
  <2> QED
    BY <2>4, <2>5
<1>13. ASSUME NEW p \in People, WriteSession(p) PROVE PermitInv'
  <2>1. decider[p] \in Rewriting /\ HasRuled(p) /\ decider[p].step = "sessionRead"
    BY <1>0, <1>13, Shapes DEF WriteSession, HasRuled, RuledSteps
  <2>2. decider[p].request.session \in SessionIds /\ decider[p].id[1] \in Calls
    BY <2>1 DEF Rewriting, RequestFiles, RequestIds
  <2> DEFINE d == [step |-> "finish", id |-> decider[p].id, choice |-> decider[p].choice]
  <2>3. d.step = "finish" /\ d.id = decider[p].id /\ d.choice = decider[p].choice
    OBVIOUS
  <2>4. /\ decider' = [decider EXCEPT ![p] = d]
        /\ UNCHANGED <<gate, spent, rulings, policyFile, suggestions>>
    BY <1>13 DEF WriteSession
  <2> HIDE DEF d
  <2>5. IntentsOK' /\ GateOK' /\ SpentOK'
    BY <1>12, <2>1, <2>3, <2>4
  <2>6. \A c \in decider[p].read \cup {decider[p].id[1]} : Ruled(c, {"allow_session"})
    BY <2>1 DEF PermitInv, IntentsOK, IntentOK
  <2>7. \A s \in SessionIds : \/ sessions'[s] = sessions[s]
                              \/ sessions'[s] = decider[p].read \cup {decider[p].id[1]}
    BY <1>0, <1>13, <2>2 DEF WriteSession, QueueTypes
  <2>8. PermissionHasRuling'
    BY <2>4, <2>6, <2>7 DEF PermitInv, PermissionHasRuling, Ruled
  <2> QED
    BY <2>5, <2>8 DEF PermitInv
<1>14. ASSUME NEW p \in People, Suggest(p) PROVE PermitInv'
  <2>1. decider[p] \in Finishing /\ HasRuled(p) /\ decider[p].step = "suggest"
    BY <1>0, <1>14, Shapes DEF Suggest, HasRuled, RuledSteps
  <2> DEFINE d == [decider[p] EXCEPT !.step = "finish"]
  <2>2. d.step = "finish" /\ d.id = decider[p].id /\ d.choice = decider[p].choice
    BY <2>1 DEF Finishing
  <2>3. /\ decider' = [decider EXCEPT ![p] = d]
        /\ UNCHANGED <<gate, spent, rulings, policyFile, sessions>>
    BY <1>14 DEF Suggest, StepTo
  <2> HIDE DEF d
  <2>4. Ruled(decider[p].id[1], {decider[p].choice})
    BY <2>1 DEF PermitInv, IntentsOK, IntentOK
  <2>5. SuggestedEffect(decider[p].choice) = "allow" => decider[p].choice = "always_allow"
    BY DEF SuggestedEffect
  <2>6. Backed([id |-> decider[p].id, effect |-> SuggestedEffect(decider[p].choice),
                applied |-> FALSE])
    BY <2>4, <2>5 DEF Backed
  <2>7. \A g \in suggestions' : g \in suggestions \/ Backed(g)
    BY <1>14, <2>6 DEF Suggest
  <2>8. IntentsOK' /\ GateOK' /\ SpentOK'
    BY <1>12, <2>1, <2>2, <2>3, <2>7
  <2> QED
    BY <2>3, <2>8, Standing DEF PermitInv
<1>15. ASSUME NEW p \in People, FinishRuling(p) PROVE PermitInv'
  <2>1. HasRuled(p) /\ decider[p].step # "idle"
    BY <1>15 DEF FinishRuling, HasRuled, RuledSteps
  <2> QED
    BY <1>0, <1>15, <2>1, EndsProceeds DEF FinishRuling
<1>30. ASSUME NEW p \in People, RulingCutShort(p) PROVE PermitInv'
  <2>1. decider[p].step # "idle"
    BY <1>30 DEF RulingCutShort
  <2> QED
    BY <1>0, <1>30, <2>1, EndsProceeds DEF RulingCutShort
<1>16. Resting.step = "idle" /\ IntentOK(Resting)
  BY Harmless DEF Resting, IntentSteps
<1>17. ASSUME NEW p \in People, Dies(p) PROVE PermitInv'
  BY <1>0, <1>16, <1>17, Proceeds DEF Dies
<1>18. ASSUME NEW p \in Deciders, NEW rules, NEW g, Editing(p, rules, g), Warranted(rules),
              g # NoRequest => Backed(g),
              UNCHANGED <<gate, spent, rulings, policyFile, sessions, suggestions>>
       PROVE  PermitInv'
  <2> DEFINE d == [step |-> "editing", rules |-> rules, suggestion |-> g]
  <2>1. d.step = "editing" /\ d.rules = rules /\ d.suggestion = g
    OBVIOUS
  <2>2. decider' = [decider EXCEPT ![p] = d] /\ p \in People /\ p # GateProc
    BY <1>18, GateAssumption DEF Editing, People
  <2> HIDE DEF d
  <2>3. IntentOK(d)
    BY <1>18, <2>1 DEF IntentOK
  <2> QED
    BY <1>0, <1>18, <2>2, <2>3, Proceeds
<1>19. policyFile.rules \in Rules /\ Warranted(policyFile.rules)
  BY <1>0 DEF QueueTypes, Policies, PermitInv, PermissionHasRuling, Warranted
<1>20. ASSUME NEW p \in Deciders, NEW g \in suggestions, ReadToApply(p, g) PROVE PermitInv'
  <2> DEFINE rules == [policyFile.rules EXCEPT ![g.id[1]] = [effect |-> g.effect, off |-> FALSE]]
  <2>1. Backed(g) /\ g.id[1] \in Calls
    BY <1>0 DEF PermitInv, IntentsOK, QueueTypes, Suggestions, RequestIds
  <2>2. \A c \in Calls : rules[c].effect =
            IF c = g.id[1] THEN g.effect ELSE policyFile.rules[c].effect
    BY <1>19, <2>1 DEF Rules
  <2>3. Warranted(rules)
    BY <1>19, <2>1, <2>2 DEF Warranted, Backed
  <2> QED
    BY <1>18, <1>20, <2>1, <2>3 DEF ReadToApply
<1>21. ASSUME NEW p \in Deciders, NEW c \in Calls, NEW off \in BOOLEAN, ReadToSwitch(p, c, off)
       PROVE  PermitInv'
  <2> DEFINE rules == [policyFile.rules EXCEPT ![c].off = off]
  <2>1. \A b \in Calls : rules[b].effect = policyFile.rules[b].effect
    BY <1>19 DEF Rules
  <2>2. Warranted(rules)
    BY <1>19, <2>1 DEF Warranted
  <2> QED
    BY <1>18, <1>21, <2>2 DEF ReadToSwitch
<1>22. ASSUME NEW p \in People, decider[p].step \in {"editing", "written"},
              NEW d, decider' = [decider EXCEPT ![p] = d], IntentOK(d),
              UNCHANGED <<gate, spent, rulings>>,
              \A g \in suggestions' : g \in suggestions \/ Backed(g)
       PROVE  IntentsOK' /\ GateOK' /\ SpentOK'
  <2>1. p # GateProc /\ rulings \subseteq rulings'
    BY <1>22 DEF PermitInv, GateOK
  <2>2. GateOK' /\ SpentOK'
    BY <1>0, <1>22, <2>1, GateKeeps DEF PermitInv
  <2> QED
    BY <1>0, <1>22, <2>1, <2>2, IntentsKeep DEF PermitInv
<1>23. ASSUME NEW p \in People, WritePolicy(p) PROVE PermitInv'
  <2>1. decider[p] \in Edits /\ decider[p].step = "editing"
    BY <1>0, <1>23, Shapes DEF WritePolicy
  <2> DEFINE d == [decider[p] EXCEPT !.step = "written"]
  <2>2. d.step = "written" /\ d.rules = decider[p].rules /\ d.suggestion = decider[p].suggestion
    BY <2>1 DEF Edits
  <2>3. /\ decider' = [decider EXCEPT ![p] = d]
        /\ UNCHANGED <<gate, spent, rulings, sessions, suggestions>>
    BY <1>23 DEF WritePolicy, StepTo
  <2>4. /\ Warranted(decider[p].rules)
        /\ decider[p].suggestion # NoRequest => Backed(decider[p].suggestion)
    BY <2>1 DEF PermitInv, IntentsOK, IntentOK
  <2> HIDE DEF d
  <2>5. IntentOK(d)
    BY <2>2, <2>4 DEF IntentOK
  <2>6. IntentsOK' /\ GateOK' /\ SpentOK'
    BY <1>22, <2>1, <2>3, <2>5
  <2>7. policyFile'.rules = decider[p].rules
    BY <1>23 DEF WritePolicy
  <2>8. PermissionHasRuling'
    BY <2>3, <2>4, <2>7 DEF PermitInv, PermissionHasRuling, Warranted, Ruled
  <2> QED
    BY <2>6, <2>8 DEF PermitInv
<1>24. ASSUME NEW p \in People, MarkApplied(p) PROVE PermitInv'
  <2>1. decider[p] \in Edits /\ decider[p].step = "written"
    BY <1>0, <1>24, Shapes DEF MarkApplied
  <2> DEFINE g == decider[p].suggestion
  <2>2. g # NoRequest => Backed(g) /\ g \in Suggestions
    BY <2>1 DEF PermitInv, IntentsOK, IntentOK, Edits
  <2>3. g # NoRequest => Backed([g EXCEPT !.applied = TRUE])
    BY <2>2 DEF Backed, Suggestions
  <2>4. \A x \in suggestions' : x \in suggestions \/ Backed(x)
    BY <1>24, <2>3 DEF MarkApplied
  <2>5. /\ decider' = [decider EXCEPT ![p] = Resting]
        /\ UNCHANGED <<gate, spent, rulings, policyFile, sessions>>
    BY <1>24 DEF MarkApplied
  <2>6. IntentsOK' /\ GateOK' /\ SpentOK'
    BY <1>16, <1>22, <2>1, <2>4, <2>5
  <2> QED
    BY <2>5, <2>6, Standing DEF PermitInv
<1>25. ASSUME NEW mode \in ApprovalModes, GateStart(mode) PROVE PermitInv'
  <2>1. gate'.step = "ready" /\ gate.step = "idle"
    BY <1>25 DEF GateStart
  <2> QED
    BY <1>0, <1>25, <2>1, GateMoves DEF GateStart
<1>26. ASSUME NEW c \in Calls, GateEvaluate(c) PROVE PermitInv'
  <2>1. /\ UNCHANGED <<policyFile, sessions, suggestions, decider, rulings, spent>>
        /\ gate.step # "deciding"
    BY <1>26 DEF GateEvaluate
  <2> DEFINE verdict == ExactVerdict(gate.policy.rules, c)
             final == WithSession(verdict, sessions[GateSession], c)
  <2>2. CASE Answered
    <3>1. gate'.step = "ready"
      BY <2>2 DEF Answered
    <3> QED
      BY <1>0, <2>1, <3>1, GateMoves
  <2>3. CASE final = "allow" /\ Granted(c, IF final = verdict THEN "policy" ELSE "session")
    <3>1. /\ gate'.step = "granted" /\ gate'.call = c /\ gate'.policy = gate.policy
          /\ gate'.via = IF final = verdict THEN "policy" ELSE "session"
      BY <2>3 DEF Granted
    <3>2. final # verdict => c \in sessions[GateSession]
      BY DEF WithSession
    <3>3. final # verdict => Ruled(c, {"allow_session"})
      BY <3>2 DEF PermitInv, PermissionHasRuling, GateSession, SessionIds
    <3> HIDE DEF final
    <3> QED
      BY <1>0, <2>1, <2>3, <3>1, <3>3, GateMoves
  <2> QED
    BY <1>26, <2>2, <2>3 DEF GateEvaluate
<1>27. CASE GateResumes
  <2>1. gate \in Asking /\ gate.step = "deciding"
    BY <1>0, <1>27, GateShapes DEF GateResumes
  <2>2. /\ decider' = [decider EXCEPT ![GateProc] = Resting]
        /\ UNCHANGED <<policyFile, sessions, suggestions, rulings, spent>>
    BY <1>27 DEF GateResumes
  <2>3. gate'.step \in {"broken", "ready", "granted"}
    BY <1>27 DEF GateResumes, Granted, Answered
  <2>4. ASSUME gate'.step = "granted" PROVE gate'.via = "approval" /\ Due(gate'.call)
    <3>1. /\ decider[GateProc].step = "decided" /\ GatePermits(decider[GateProc].choice)
          /\ Granted(gate.call, "approval")
      BY <1>27, <2>4 DEF GateResumes, Answered
    <3>2. gate'.via = "approval" /\ gate'.call = gate.call
      BY <3>1 DEF Granted
    <3> QED
      BY <2>1, <3>1, <3>2 DEF Due
  <2> QED
    BY <1>0, <1>16, <2>2, <2>3, <2>4, GateWithProcess
<1>28. CASE GateStops
  <2>1. gate'.step = "idle" /\ decider' = [decider EXCEPT ![GateProc] = Resting]
        /\ UNCHANGED <<policyFile, sessions, suggestions, rulings, spent>>
    BY <1>16, <1>28 DEF GateStops
  <2> QED
    BY <1>0, <1>16, <2>1, GateWithProcess
<1>29. CASE GateForward
  <2>1. gate \in Letting /\ gate.step = "granted" /\ gate.call \in Calls
    BY <1>0, <1>29, GateShapes DEF GateForward, Letting
  <2>2. UNCHANGED <<policyFile, sessions, suggestions, decider, rulings>>
    BY <1>29 DEF GateForward
  <2>3. CASE gate' = [step |-> "broken"] /\ UNCHANGED spent
    <3>1. gate'.step = "broken"
      BY <2>3
    <3> QED
      BY <1>0, <2>1, <2>2, <2>3, <3>1, GateMoves
  <2>4. CASE /\ gate' = [gate EXCEPT !.step = "forwarded"]
             /\ spent' = [spent EXCEPT ![gate.call] = IF gate.via = "approval" THEN @ + 1 ELSE @]
    <3>1. /\ gate'.step = "forwarded" /\ gate'.via = gate.via /\ gate'.call = gate.call
          /\ gate'.policy = gate.policy
      BY <2>1, <2>4 DEF Letting
    <3>2. PermissionHasRuling' /\ IntentsOK'
      BY <2>2, Standing, IntentsAlone DEF PermitInv
    <3>3. GateOK'
      BY <2>1, <2>2, <3>1 DEF PermitInv, GateOK, Ruled, ExactVerdict
    <3>4. ASSUME NEW c \in Calls
          PROVE  spent'[c] + (IF Due(c)' THEN 1 ELSE 0) <= Cardinality(Given(c)')
      <4>1. ~Due(c)' /\ Given(c)' = Given(c)
        BY <2>2, <3>1 DEF Due, Given
      <4>2. spent[c] \in Nat /\ spent[c] + (IF Due(c) THEN 1 ELSE 0) <= Cardinality(Given(c))
        BY <1>0 DEF QueueTypes, PermitInv, SpentOK
      <4>3. spent'[c] = IF c = gate.call /\ gate.via = "approval" THEN spent[c] + 1 ELSE spent[c]
        BY <1>0, <2>1, <2>4 DEF QueueTypes
      <4>4. c = gate.call /\ gate.via = "approval" => Due(c)
        BY <2>1 DEF Due
      <4>5. Cardinality(Given(c)) \in Nat
        BY <1>0, GivenCount
      <4> HIDE DEF Due
      <4> QED
        BY <4>1, <4>2, <4>3, <4>4, <4>5
    <3> QED
      BY <3>2, <3>3, <3>4 DEF PermitInv, SpentOK
  <2> QED
    BY <1>29, <2>3, <2>4 DEF GateForward
<1> QED
  BY <1>2, <1>3, <1>4, <1>5, <1>6, <1>7, <1>8, <1>9, <1>10, <1>11, <1>13, <1>14, <1>15, <1>17,
     <1>20, <1>21, <1>23, <1>24, <1>25, <1>26, <1>27, <1>28, <1>29, <1>30 DEF QueueNext, RequestIds

\* A forwarded call is allowed by a rule of the policy the gate loaded, by a
\* person for the session or by a person at the prompt, each such ruling is
\* used once at most, and every standing permission in policy.json or a session
\* file goes back to a person who asked for it, across suggestions, edits that
\* overwrite each other, restarts and deaths.
THEOREM PermissionsGiven == QueueSpec => []PermissionsAreGiven
<1>1. QueueInit => PermitInv
  <2> SUFFICES ASSUME QueueInit PROVE PermitInv
    OBVIOUS
  <2>1. GateProc \in People /\ gate.step = "idle" /\ \A p \in People : decider[p].step = "idle"
    BY DEF QueueInit, People, Resting
  <2>2. IntentsOK
    BY <2>1 DEF QueueInit, IntentsOK, IntentOK
  <2>3. PermissionHasRuling
    BY DEF QueueInit, PermissionHasRuling
  <2>4. GateOK /\ \A c \in Calls : ~Due(c)
    BY <2>1 DEF GateOK, Due
  <2>5. SpentOK
    <3>1. \A c : Given(c) = {}
      BY DEF QueueInit, Given
    <3>2. Cardinality({}) = 0
      BY FS_EmptySet
    <3>3. ASSUME NEW c \in Calls
          PROVE  spent[c] + (IF Due(c) THEN 1 ELSE 0) <= Cardinality(Given(c))
      <4>1. ~Due(c) /\ spent[c] = 0 /\ Cardinality(Given(c)) = 0
        BY <2>4, <3>1, <3>2 DEF QueueInit
      <4> QED
        BY <4>1
    <3> QED
      BY <3>3 DEF SpentOK
  <2> QED
    BY <2>2, <2>3, <2>4, <2>5 DEF PermitInv
<1>2. SettledInv /\ SettledInv' /\ PermitInv /\ [QueueNext]_queueVars => PermitInv'
  <2> SUFFICES ASSUME SettledInv, SettledInv', PermitInv, [QueueNext]_queueVars PROVE PermitInv'
    OBVIOUS
  <2>1. CASE QueueNext
    BY <2>1, PermitStep DEF SettledInv
  <2>2. CASE UNCHANGED queueVars
    BY <2>2 DEF queueVars, PermitInv, IntentsOK, IntentOK, Warranted, Backed, PermissionHasRuling,
                Ruled, GateOK, SpentOK, Due, Given, Holds, HasRuled
  <2> QED
    BY <2>1, <2>2
<1>3. SettledInv /\ PermitInv => PermissionsAreGiven
  <2> SUFFICES ASSUME SettledInv, PermitInv PROVE PermissionsAreGiven
    OBVIOUS
  <2>0. QueueTypes
    BY DEF SettledInv
  <2>1. gate.step = "forwarded" => gate.via \in {"policy", "session", "approval"}
    BY <2>0, GateShapes DEF Letting
  <2>2. ASSUME NEW c \in Calls PROVE spent[c] <= Cardinality(Given(c))
    <3>1. spent[c] \in Nat /\ Cardinality(Given(c)) \in Nat
          /\ spent[c] + (IF Due(c) THEN 1 ELSE 0) <= Cardinality(Given(c))
      BY <2>0, GivenCount DEF QueueTypes, PermitInv, SpentOK
    <3> HIDE DEF Due
    <3> QED
      BY <3>1
  <2>3. \A c : Given(c) =
            {r \in rulings : r.call = c /\ r.by = GateProc
                               /\ r.choice \in {"allow_once", "allow_session", "always_allow"}}
    BY DEF Given, Permissions
  <2>4. ForwardedIsAuthorized
    BY <2>1, <2>2, <2>3 DEF ForwardedIsAuthorized, PermitInv, GateOK
  <2> QED
    BY <2>4 DEF PermissionsAreGiven, PermitInv
<1> QED
  BY <1>1, <1>2, <1>3, SettledInvariance, PTL DEF QueueSpec
=============================================================================
