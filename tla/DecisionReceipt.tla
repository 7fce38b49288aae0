-------------------------- MODULE DecisionReceipt --------------------------
(***************************************************************************)
(* Decision receipts as one-time execution grants: issued for a call under *)
(* a policy (core/src/decision/receipt.js), consumed by `ruleoak receipt   *)
(* consume` or by `ruleoak exec`, which then starts the command            *)
(* (core/src/decision/consumer.js, cli/src/cli.js).  The call file and the *)
(* policy file may be rewritten at any time, time passes, and a process    *)
(* may die between any two steps.  DurableMarker shows the exclusive       *)
(* creation of a marker: here it is one step.                              *)
(*                                                                         *)
(* A digest is the content it is the digest of; a signature is the secret  *)
(* it was made with, 0 for none.                                           *)
(***************************************************************************)
EXTENDS Integers, Sequences, FiniteSets

CONSTANTS
    Executors,
    Jobs,               \* contents of the call file
    Rulebooks,          \* contents of the policy file: a verdict for every job
    IssueOptions,       \* [approved, cap, secret, audience]: an approval, when it expires, the signer
    ExecOptions,        \* [secret, allowUnsigned]: of one command
    Ttl,
    MaxReceipts,        \* bound: receipts issued
    LastHour            \* bound: the clock

ASSUME ReceiptAssumption == Ttl \in Nat \ {0} /\ MaxReceipts \in Nat /\ LastHour \in Nat
ASSUME RulebookAssumption == Rulebooks \subseteq [Jobs -> {"allow", "deny", "needs_approval"}]
ASSUME OptionsAssumption == \A o \in IssueOptions : o.approved \in BOOLEAN /\ o.cap \in Int

VARIABLES
    callFile,       \* call.json
    rulebook,       \* the policy the commands load
    hour,
    issued,         \* the receipts written
    consumed,       \* consumed-receipts/: the receipts with a marker, by their number
    executor,       \* the command each process is in
    journal,        \* evidence: receipts whose consumption was recorded
    uses            \* history: what was granted to whom

receiptVars == <<callFile, rulebook, hour, issued, consumed, executor, journal, uses>>

AtRest == [step |-> "idle"]
Refused == [step |-> "refused"]

ReceiptInit == /\ callFile \in Jobs /\ rulebook \in Rulebooks /\ hour = 0
               /\ issued = <<>> /\ consumed = {}
               /\ executor = [p \in Executors |-> AtRest]
               /\ journal = {} /\ uses = <<>>

---------------------------------------------------------------------------
(* Issuing                                                                 *)

\* An approval turns a call that needs one into an allowed one.
FinalDecision(approved) == IF approved THEN "allow" ELSE rulebook[callFile]

ExpiryOf(cap) == IF cap < hour + Ttl THEN cap ELSE hour + Ttl

buildDecisionReceipt(o) ==
    [job |-> callFile, rules |-> rulebook, decision |-> FinalDecision(o.approved),
     from |-> hour, until |-> IF o.approved THEN ExpiryOf(o.cap) ELSE hour + Ttl,
     audience |-> o.audience, signature |-> o.secret, approval |-> o]

IssueReceipt(o) == /\ Len(issued) < MaxReceipts
                   /\ o.approved => rulebook[callFile] = "needs_approval" /\ o.cap > hour
                   /\ issued' = Append(issued, buildDecisionReceipt(o))
                   /\ UNCHANGED <<callFile, rulebook, hour, consumed, executor, journal, uses>>

\* Somebody rewrites the call file, or the policy; time passes.
RewriteCall(j) == /\ callFile' = j
                  /\ UNCHANGED <<rulebook, hour, issued, consumed, executor, journal, uses>>

RewritePolicy(r) == /\ rulebook' = r
                    /\ UNCHANGED <<callFile, hour, issued, consumed, executor, journal, uses>>

HourPasses == /\ hour < LastHour /\ hour' = hour + 1
              /\ UNCHANGED <<callFile, rulebook, issued, consumed, executor, journal, uses>>

---------------------------------------------------------------------------
(* consumeReceiptFile and executeWithReceipt                               *)

\* The files are read.  (Nothing relates the call file to the policy file, so
\* that the order of the reads does not matter.)
LoadReceipt(p, n, o) ==
    /\ executor[p].step = "idle"
    /\ executor' = [executor EXCEPT ![p] = [step |-> "verify", receipt |-> n, job |-> callFile, rules |-> rulebook,
                                            options |-> o, at |-> 0]]
    /\ UNCHANGED <<callFile, rulebook, hour, issued, consumed, journal, uses>>

\* A secret asks for a signature made with it, even where none is required.
SignatureHolds(receipt, o) ==
    IF o.secret = 0 THEN o.allowUnsigned ELSE receipt.signature = o.secret

\* Mutant of verifyExecutionGrant: the policy may have been edited since.
verifyGrantOfAnyPolicy(receipt, job, rules, o) ==
    /\ receipt.from <= hour /\ hour < receipt.until
    /\ receipt.job = job
    /\ receipt.audience = "ruleoak-executor"
    /\ SignatureHolds(receipt, o)
    /\ receipt.decision = "allow"

verifyExecutionGrant(receipt, job, rules, o) ==
    /\ receipt.from <= hour /\ hour < receipt.until
    /\ receipt.job = job /\ receipt.rules = rules
    /\ receipt.audience = "ruleoak-executor"
    /\ SignatureHolds(receipt, o)
    /\ receipt.decision = "allow"

VerifyGrant(p) ==
    /\ executor[p].step = "verify"
    /\ LET e == executor[p]
           ok == verifyExecutionGrant(issued[e.receipt], e.job, e.rules, e.options) IN
       executor' = [executor EXCEPT ![p] = IF ok THEN [@ EXCEPT !.step = "mark", !.at = hour] ELSE Refused]
    /\ UNCHANGED <<callFile, rulebook, hour, issued, consumed, journal, uses>>

\* consumeExecutionGrant: the marker is created, or there is one already.
MarkConsumed(p) ==
    /\ executor[p].step = "mark"
    /\ consumed' = consumed \cup {executor[p].receipt}
    /\ executor' = [executor EXCEPT ![p] = IF @.receipt \in consumed THEN Refused ELSE [@ EXCEPT !.step = "granted"]]
    /\ UNCHANGED <<callFile, rulebook, hour, issued, journal, uses>>

\* recorder.writeEvent, for a refusal too; then the command returns, or goes on.
RecordConsumption(p) ==
    /\ executor[p].step \in {"granted", "refused"}
    /\ LET e == executor[p] IN
       /\ journal' = IF e.step = "granted" THEN journal \cup {e.receipt} ELSE journal
       /\ executor' = [executor EXCEPT ![p] = IF e.step = "granted" THEN [e EXCEPT !.step = "spawn"] ELSE AtRest]
    /\ UNCHANGED <<callFile, rulebook, hour, issued, consumed, uses>>

\* It throws: the receipt is used up and nothing was started.
RecordFails(p) ==
    /\ executor[p].step \in {"granted", "refused"}
    /\ executor' = [executor EXCEPT ![p] = AtRest]
    /\ UNCHANGED <<callFile, rulebook, hour, issued, consumed, journal, uses>>

\* The grant is the caller's: `receipt consume` reports it, `exec` spawns.
UseGrant(p) ==
    /\ executor[p].step = "spawn"
    /\ uses' = Append(uses, [receipt |-> executor[p].receipt, job |-> executor[p].job, rules |-> executor[p].rules,
                             options |-> executor[p].options, at |-> executor[p].at])
    /\ executor' = [executor EXCEPT ![p] = AtRest]
    /\ UNCHANGED <<callFile, rulebook, hour, issued, consumed, journal>>

ExecutorDies(p) ==
    /\ executor[p].step # "idle"
    /\ executor' = [executor EXCEPT ![p] = AtRest]
    /\ UNCHANGED <<callFile, rulebook, hour, issued, consumed, journal, uses>>

ExecutorStep(p) == \/ \E n \in DOMAIN issued, o \in ExecOptions : LoadReceipt(p, n, o)
                   \/ VerifyGrant(p) \/ MarkConsumed(p) \/ RecordConsumption(p) \/ RecordFails(p)
                   \/ UseGrant(p) \/ ExecutorDies(p)

ReceiptNext == \/ \E o \in IssueOptions : IssueReceipt(o)
               \/ \E j \in Jobs : RewriteCall(j)
               \/ \E r \in Rulebooks : RewritePolicy(r)
               \/ HourPasses
               \/ \E p \in Executors : ExecutorStep(p)

ReceiptSpec == ReceiptInit /\ [][ReceiptNext]_receiptVars

---------------------------------------------------------------------------
(* Properties                                                              *)

\* However many commands race for a receipt, and wherever they die, it is
\* granted to one of them at most.
GrantUsedOnce == \A i, k \in DOMAIN uses : uses[i].receipt = uses[k].receipt => i = k

\* What is granted is what the policy that the command found allows, or asks
\* about and a person approved: for the call that was decided, while neither
\* the receipt nor the approval had expired, and to a holder of the secret only
\* if it was issued with it.  A policy edited or a call rewritten between the
\* decision and the command voids the receipt.
GrantCoversUse ==
    \A i \in DOMAIN uses :
        LET use == uses[i]
            receipt == issued[use.receipt]
            verdict == use.rules[use.job] IN
        /\ use.job = receipt.job /\ use.rules = receipt.rules
        /\ verdict = "allow" \/ (verdict = "needs_approval" /\ receipt.approval.approved)
        /\ receipt.approval.approved => use.at < receipt.approval.cap
        /\ use.at - receipt.from \in 0 .. Ttl - 1
        /\ use.options.secret # 0 => receipt.approval.secret = use.options.secret

\* Evidence of the consumption is there before the command is started.
UseIsRecorded == \A i \in DOMAIN uses : uses[i].receipt \in journal

\* A receipt is used at most once, for what was decided and under the policy
\* that decided it, and its use is on record (decision/consumer.js, cli.js).
ReceiptIsHonoured == GrantUsedOnce /\ GrantCoversUse /\ UseIsRecorded
=============================================================================
