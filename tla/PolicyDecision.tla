-------------------------- MODULE PolicyDecision --------------------------
(***************************************************************************)
(* evaluatePermissionRequest (core/src/permission/gateway.js): how a tool  *)
(* call is normalised, classified, matched against the policy and turned   *)
(* into allow, deny, needs_approval or dry_run_only; with lintPolicy and   *)
(* diffPolicies, which reason about a policy without running it.           *)
(*                                                                         *)
(* A policy is a default and a set of entries: exact-action rules,         *)
(* structured rules and the patterns of the three legacy lists.  The code  *)
(* keeps arrays; where their order could matter, the operators here return *)
(* the set of outcomes over every order.  A resource is named by its       *)
(* sensitivity, and the regular expressions for secrets and injected       *)
(* instructions are two attributes of the call.  The name of a tool, as    *)
(* the agent spelled it, is split at its first dot; only the patterns of a *)
(* policy and the fingerprint look at it, everything else at the category  *)
(* and operation it was normalised to.  A name holds no wildcard.          *)
(***************************************************************************)
EXTENDS Cases, Integers, FiniteSets

CONSTANT Calls      \* the normalised calls asked about

NameRecords == [category : STRING \ {"*"}, operation : STRING \ {"*"}]

CallRecords == [name : NameRecords, category : STRING, operation : STRING, scope : STRING, sensitivity : STRING,
                secrets : BOOLEAN, injection : {"none", "arguments", "context"}]

ASSUME CallsAssumption == Calls \subseteq CallRecords

Decisions == {"allow", "deny", "needs_approval", "dry_run_only"}

normalizeDecisionAction(effect) == IF effect = "block" THEN "deny" ELSE effect

RiskRank == [safe |-> 0, low |-> 1, medium |-> 2, high |-> 3, critical |-> 4]

maxRisk(levels) ==
    CHOOSE r \in levels \cup {"safe"} : \A q \in levels : RiskRank[q] <= RiskRank[r]

---------------------------------------------------------------------------
(* normalizeToolCall: an action such as filesystem.run becomes a call.     *)

categoryFromActionType(name) == CASE name.category = "filesystem" -> "file"
                                  [] name.category = "" -> "custom"
                                  [] OTHER -> name.category

operationFromActionType(name) == IF name.operation \in {"run", ""} THEN "execute" ELSE name.operation

\* A raw input: a normalised call (returned as it is), or an action whose
\* missing metadata is filled in, from its name or with a default, or neither
\* (the code throws).  The name stays as it is spelled.
normalizeToolCall(raw) ==
    IF raw.form = "call" THEN raw.call
    ELSE [raw.call EXCEPT
            !.category = IF @ = "" THEN categoryFromActionType(raw.call.name) ELSE @,
            !.operation = IF @ = "" THEN operationFromActionType(raw.call.name) ELSE @,
            !.scope = IF @ = "" THEN "local" ELSE @,
            !.sensitivity = IF @ = "" THEN "unknown" ELSE @]

---------------------------------------------------------------------------
(* classifyRisk                                                            *)

classifyDataFlow(c) ==
    CASE \/ c.operation = "send"
         \/ c.category \in {"email", "web", "payment", "calendar"}
         \/ c.scope = "external" -> "external"
      [] OTHER -> IF \/ c.category \in {"file", "filesystem", "shell", "memory"}
                     \/ c.scope = "local"
                  THEN "local" ELSE "unknown"

classifySideEffect(c) ==
    CASE c.operation \in {"read", "search", "list", "get"} -> "read_only"
      [] c.operation \in {"delete", "remove", "destroy"} -> "destructive"
      [] c.operation \in {"write", "update", "create", "send", "execute", "run"} -> "mutating"
      [] OTHER -> "unknown"

Injected(c) == c.injection # "none"

ExfiltrationRisk(c) == c.secrets /\ classifyDataFlow(c) = "external"

InjectionSideEffectRisk(c) == /\ Injected(c)
                              /\ \/ classifySideEffect(c) # "read_only"
                                 \/ classifyDataFlow(c) = "external"

\* What raises the risk of a call, and to which level.
Raises(c) ==
    LET file == c.category \in {"file", "filesystem"}
        guarded == c.sensitivity \in {"private", "secret"}
        external == classifyDataFlow(c) = "external" IN
    { <<file /\ c.operation = "read" /\ ~guarded,
        IF c.sensitivity = "public" THEN "safe" ELSE "low">>,
      <<file /\ c.operation = "read" /\ guarded, "medium">>,
      <<file /\ c.operation \in {"write", "update", "create"}, "medium">>,
      <<file /\ c.operation = "delete", IF guarded THEN "critical" ELSE "high">>,
      <<c.category = "email" \/ c.operation = "send", "high">>,
      <<c.category = "shell" \/ c.operation \in {"execute", "run"}, "high">>,
      <<c.category = "payment", "critical">>,
      <<c.sensitivity = "private", "medium">>,
      <<c.sensitivity = "secret", IF external THEN "critical" ELSE "high">>,
      <<c.secrets, IF ExfiltrationRisk(c) THEN "critical" ELSE "high">>,
      <<Injected(c), IF InjectionSideEffectRisk(c) THEN "critical" ELSE "high">>,
      <<classifyDataFlow(c) = "unknown" /\ classifySideEffect(c) # "read_only", "medium">> }

\* A call that gives no reason at all is an unknown action of medium risk.
classifyRisk(c) ==
    LET raised == {r[2] : r \in {x \in Raises(c) : x[1]}}
    IN IF raised = {} THEN "medium" ELSE maxRisk(raised)

---------------------------------------------------------------------------
(* evaluatePolicy                                                          *)

\* Exact rules may not be dry_run_only (validateExactActionRules), and a
\* structured rule has some effect (validateStructuredRules).
validatePolicy(pol) ==
    /\ normalizeDecisionAction(pol.default) \in Decisions
    /\ \A e \in pol.entries :
          CASE e.kind = "exact" -> normalizeDecisionAction(e.effect) \in Decisions \ {"dry_run_only"}
            [] e.kind = "rule"  -> normalizeDecisionAction(e.effect) \in Decisions
            [] OTHER -> TRUE

\* approvalFingerprint: tool, target and arguments, but not the context.
approvalFingerprint(c) == [c EXCEPT !.injection = IF @ = "arguments" THEN @ ELSE "none"]

\* A pattern is the first part of a name or "*", and the rest of it or "*".
matchesPattern(p, c) == /\ p.category \in {"*", c.name.category}
                        /\ p.operation \in {"*", c.name.operation}

patternSpecificity(p) == CASE p.category = "*" -> 0
                           [] p.operation = "*" -> 1
                           [] OTHER -> 2

\* A resource pattern: "*" (rank 0), a glob (rank 1) or a name (rank 2).
matchesResourcePattern(p, c) == p.under \in {"*", c.sensitivity}

\* The metadata a rule's conditions look at.
Metadata(c) == [category |-> c.category, operation |-> c.operation,
                sensitivity |-> c.sensitivity, scope |-> c.scope,
                data_flow |-> classifyDataFlow(c), side_effect |-> classifySideEffect(c)]

Top(ranks) == CHOOSE n \in ranks : \A m \in ranks : m <= n

structuredRuleMatches(e, c) ==
    /\ e.kind = "rule" /\ e.enabled
    /\ \E p \in e.actions : matchesPattern(p, c)
    /\ \E p \in e.resources : matchesResourcePattern(p, c)
    /\ \A k \in e.conditions : Metadata(c)[k.field] \in k.values
    /\ RiskRank[classifyRisk(c)] \in RiskRank[e.atLeast] .. RiskRank[e.atMost]

Specificity(e, c) ==
      Top({patternSpecificity(p) : p \in {q \in e.actions : matchesPattern(q, c)}})
    + Top({p.rank : p \in {q \in e.resources : matchesResourcePattern(q, c)}})
    + Cardinality(e.conditions)

TieBreak == [deny |-> 4, needs_approval |-> 3, dry_run_only |-> 2, allow |-> 1]

\* The sort of chooseStructuredMatch: a goes before b.
Before(a, b, c) ==
    LET left  == <<a.priority, Specificity(a, c), TieBreak[normalizeDecisionAction(a.effect)], -a.id>>
        right == <<b.priority, Specificity(b, c), TieBreak[normalizeDecisionAction(b.effect)], -b.id>>
    IN \E i \in 1 .. 4 : left[i] > right[i] /\ \A j \in 1 .. i - 1 : left[j] = right[j]

\* Rules of one id compare equal: the array's order decides, so either may win.
chooseStructuredMatch(matches, c) == {m \in matches : \A n \in matches : ~Before(n, m, c)}

Decision(action, by, critical) == [action |-> action, by |-> by, allowCritical |-> critical]

\* exactDecision and structuredDecision
ByRules(entries, by) == {Decision(normalizeDecisionAction(e.effect), by, e.allowCritical) : e \in entries}

\* bestMatch over one of the legacy lists, by specificity; -1 when none matches.
bestMatch(pol, list, c) ==
    Top({-1} \cup {patternSpecificity(e.pattern) :
                     e \in {x \in pol.entries : x.kind = list /\ matchesPattern(x.pattern, c)}})

\* Mutant of evaluatePolicy: the best structured match is taken before the
\* denials of the other stages are looked at.
evaluateByPriority(c, pol) ==
    LET matches == {e \in pol.entries : structuredRuleMatches(e, c)} IN
    IF matches # {} THEN ByRules(chooseStructuredMatch(matches, c), "rules")
    ELSE {Decision(normalizeDecisionAction(pol.default), "default", FALSE)}

When(condition, decision) == IF condition THEN {decision} ELSE {}

\* Every decision evaluatePolicy can return, over the orders of the arrays:
\* the stages are tried in turn, and the first that matches decides.
evaluatePolicy(c, pol) ==
    LET exact(a) == {e \in pol.entries : /\ e.kind = "exact" /\ e.enabled
                                         /\ e.key = approvalFingerprint(c)
                                         /\ normalizeDecisionAction(e.effect) = a}
        matches == {e \in pol.entries : structuredRuleMatches(e, c)}
        denies == {e \in matches : normalizeDecisionAction(e.effect) = "deny"}
        allowed == bestMatch(pol, "allowed", c)
        approval == bestMatch(pol, "approval", c)
        stages == << When(~validatePolicy(pol), Decision("throws", "validation", FALSE)),
                     ByRules(exact("deny"), "exact"),
                     ByRules(chooseStructuredMatch(denies, c), "rules"),
                     When(bestMatch(pol, "blocked", c) >= 0, Decision("deny", "legacy", FALSE)),
                     ByRules(exact("needs_approval"), "exact"),
                     ByRules(exact("allow"), "exact"),
                     ByRules(chooseStructuredMatch(matches, c), "rules"),
                     When(allowed > approval, Decision("allow", "legacy", FALSE)),
                     When(approval >= 0, Decision("needs_approval", "legacy", FALSE)),
                     {Decision(normalizeDecisionAction(pol.default), "default", FALSE)} >>
    IN stages[CHOOSE i \in 1 .. 10 : stages[i] # {} /\ \A j \in 1 .. i - 1 : stages[j] = {}]

---------------------------------------------------------------------------
(* evaluatePermissionRequest                                               *)

\* applySessionDecision: an answer remembered for this session.
applySessionDecision(action, c, session) ==
    IF action # "needs_approval" \/ session.key # approvalFingerprint(c) THEN action
    ELSE CASE session.decision = "allow_session" -> "allow"
           [] session.decision = "deny_session" -> "deny"
           [] OTHER -> action

isExplicitAllow(d) == d.action = "allow" /\ d.by \in {"exact", "rules"}

\* What the risk guards make of one decision of the policy.
RiskGuard(c, d) ==
    LET risk == classifyRisk(c) IN
    IF d.action = "throws" THEN "throws"
    ELSE IF Injected(c) /\ classifySideEffect(c) = "read_only" /\ d.action # "deny"
    THEN "needs_approval"
    ELSE IF risk = "critical"
    THEN IF isExplicitAllow(d) /\ d.allowCritical THEN "allow" ELSE "deny"
    ELSE IF d.action = "allow" /\ risk \in {"medium", "high"} /\ ~isExplicitAllow(d)
    THEN "needs_approval"
    ELSE d.action

evaluatePermissionRequest(c, pol, session, authorityOk) ==
    IF ~authorityOk \/ ExfiltrationRisk(c) \/ InjectionSideEffectRisk(c) THEN {"deny"}
    ELSE {IF classifyRisk(c) = "critical" THEN RiskGuard(c, d)
          ELSE applySessionDecision(RiskGuard(c, d), c, session) : d \in evaluatePolicy(c, pol)}

---------------------------------------------------------------------------
(* lintPolicy and diffPolicies                                             *)

\* Mutant of lintPolicy: duplicate rule ids are not an error.
lintWithoutIds(pol) ==
    /\ validatePolicy(pol)
    /\ \A e \in pol.entries : e.kind = "rule" => RiskRank[e.atLeast] <= RiskRank[e.atMost]

\* lintPolicy's errors: a policy that does not validate, one key or one id
\* twice, or a risk range that is empty.
lintPolicy(pol) ==
    /\ validatePolicy(pol)
    /\ \A e, f \in pol.entries :
          /\ e # f /\ e.kind = "exact" /\ f.kind = "exact" => e.key # f.key
          /\ e # f /\ e.kind = "rule" /\ f.kind = "rule" => e.id # f.id
    /\ \A e \in pol.entries : e.kind = "rule" => RiskRank[e.atLeast] <= RiskRank[e.atMost]

\* changed.  Rules are compared by id (byId keeps one rule for each id), the
\* default and the legacy lists as a whole.
diffPolicies(before, after) ==
    LET list(pol) == {e \in pol.entries : e.kind \in {"allowed", "approval", "blocked"}}
        ids(pol, kind) == {e.id : e \in {x \in pol.entries : x.kind = kind}}
        named(pol, kind, i) == CHOOSE e \in pol.entries : e.kind = kind /\ e.id = i
    IN \/ before.default # after.default
       \/ list(before) # list(after)
       \/ \E kind \in {"exact", "rule"} :
             \/ ids(before, kind) # ids(after, kind)
             \/ \E i \in ids(after, kind) : named(before, kind, i) # named(after, kind, i)

---------------------------------------------------------------------------
(* The questions: a policy, an edit of it, a remembered session answer     *)

Finite(S) == {T \in SUBSET S : IsFiniteSet(T)}

\* Every policy that parses, whether it validates or not.  The key of an exact
\* rule is a fingerprint.
ActionPatterns == [category : STRING, operation : STRING]
Conditions == [field : {"category", "operation", "sensitivity", "scope", "data_flow", "side_effect"},
               values : SUBSET STRING]
ExactRules == [kind : {"exact"}, id : Int, effect : STRING, allowCritical : BOOLEAN, enabled : BOOLEAN,
               key : {k \in CallRecords : k = approvalFingerprint(k)}]
StructuredRules == [kind : {"rule"}, id : Int, effect : STRING, allowCritical : BOOLEAN, enabled : BOOLEAN,
                    priority : Int, actions : SUBSET ActionPatterns,
                    resources : SUBSET [under : STRING, rank : 0 .. 2], conditions : Finite(Conditions),
                    atLeast : DOMAIN RiskRank, atMost : DOMAIN RiskRank]
LegacyPatterns == [kind : {"allowed", "approval", "blocked"}, effect : STRING, pattern : ActionPatterns]

PolicyRecords == [default : STRING, entries : Finite(ExactRules \cup StructuredRules \cup LegacyPatterns)]

PolicyAsked == [policy : PolicyRecords, edited : PolicyRecords, authorityOk : BOOLEAN,
                session : [key : CallRecords, decision : STRING]]

\* A call, and a way of writing it down: with other names for a file and for
\* running, and as an action whose name says what its metadata leaves out.
Spelt(written, meant, aliases) == written = meant \/ {written, meant} = aliases

Spells(raw, c) ==
    /\ Spelt(IF raw.form = "action" /\ raw.call.category = "" THEN raw.call.name.category ELSE raw.call.category,
             c.category, {"file", "filesystem"})
    /\ Spelt(IF raw.form = "action" /\ raw.call.operation = "" THEN raw.call.name.operation ELSE raw.call.operation,
             c.operation, {"run", "execute"})
    /\ raw.call.scope = c.scope \/ (raw.form = "action" /\ raw.call.scope = "" /\ c.scope = "local")
    /\ \/ raw.call.sensitivity = c.sensitivity
       \/ raw.form = "action" /\ raw.call.sensitivity = "" /\ c.sensitivity = "unknown"
    /\ raw.call.secrets = c.secrets /\ raw.call.injection = c.injection

SpellingAsked == {q \in [raw : [form : {"call", "action"}, call : CallRecords], call : CallRecords] :
                    "" \notin {q.call.category, q.call.operation, q.call.scope} /\ Spells(q.raw, q.call)}

Verdicts(pol) == [c \in Calls |-> evaluatePermissionRequest(c, pol, given.session, given.authorityOk)]

AskPolicy == Answer("policy",
    [before  |-> Verdicts(given.policy),
     after   |-> Verdicts(given.edited),
     linted  |-> lintPolicy(given.policy) /\ lintPolicy(given.edited),
     changed |-> diffPolicies(given.policy, given.edited)])

\* What is decided of a call by its classification alone, whatever its name:
\* the hard denials, and what the guards make of anything a policy can say.
PolicyDecisions == [action : Decisions \cup {"throws"}, by : {"exact", "rules", "legacy", "default", "validation"},
                    allowCritical : BOOLEAN]
ByClass(c) == [risk |-> classifyRisk(c), flow |-> classifyDataFlow(c), sideEffect |-> classifySideEffect(c),
               denied |-> ExfiltrationRisk(c) \/ InjectionSideEffectRisk(c),
               guard |-> [d \in PolicyDecisions |-> RiskGuard(c, d)]]

\* Two spellings of one call: an action, and the call it should become.
AskSpelling == Answer("spelling",
    [as |-> ByClass(normalizeToolCall(given.raw)), meant |-> ByClass(given.call)])

PolicySpec == /\ Ask("policy", PolicyAsked) \/ Ask("spelling", SpellingAsked)
              /\ [][AskPolicy \/ AskSpelling]_caseVars

---------------------------------------------------------------------------
(* Properties                                                              *)

Leaves(c) == c.operation = "send" \/ c.category \in {"email", "web", "payment"} \/ c.scope = "external"

\* Whatever the policy, the session and the authority say, a call that carries
\* a credential out of the machine is denied: no rule, exact rule, remembered
\* approval or allowCritical flag reaches the secret-exfiltration guard of
\* gateway.js (nor can an unsound policy bring the evaluation down first).
SecretsStayInside == Answered("policy") =>
    \A c \in Calls : c.secrets /\ Leaves(c) => answer.before[c] = {"deny"}

\* The denials of a policy and the calls they are written for.
Denial(e) == e.kind = "blocked" \/ (e.kind \in {"exact", "rule"} /\ e.enabled /\ e.effect \in {"deny", "block"})

Covers(e, c) ==
    CASE e.kind = "blocked" -> /\ e.pattern.category \in {"*", c.name.category}
                               /\ e.pattern.operation \in {"*", c.name.operation}
      [] e.kind = "exact" -> e.key = c
      [] e.kind = "rule" -> /\ e.conditions = {} /\ e.atLeast = "safe" /\ e.atMost = "critical"
                            /\ \E p \in e.actions : /\ p.category \in {"*", c.name.category}
                                                    /\ p.operation \in {"*", c.name.operation}
                            /\ \E p \in e.resources : p.under \in {"*", c.sensitivity}

\* A denial (an exact rule, a structured rule of any priority and specificity,
\* or a blocked pattern) wins over everything else the policy, the session or
\* an allowCritical rule says of a call it covers; and adding one never loosens
\* the verdict on any other call.  It covers the calls whose name, as spelled,
\* its pattern names: file.delete does not cover filesystem.delete.
DenialWins == Answered("policy") =>
    \A e \in given.edited.entries : Denial(e) =>
       /\ \A c \in Calls : Covers(e, c) => answer.after[c] \subseteq {"deny", "throws"}
       /\ given.edited = [given.policy EXCEPT !.entries = @ \cup {e}]
             => \A c \in Calls : answer.after[c] \subseteq answer.before[c] \cup {"deny"}

\* A payment, the deletion of a guarded file and a secret resource used across
\* the boundary are critical: they are never put to a human, are not allowed by
\* a remembered session answer, and need an enabled rule that opts in.
CriticalNeedsOptIn == Answered("policy") =>
    \A c \in Calls :
       \/ c.category = "payment"
       \/ c.category = "file" /\ c.operation = "delete" /\ c.sensitivity \in {"private", "secret"}
       \/ c.sensitivity = "secret" /\ Leaves(c)
       => /\ "needs_approval" \notin answer.before[c]
          /\ "allow" \in answer.before[c] =>
                \E e \in given.policy.entries : /\ e.kind \in {"exact", "rule"} /\ e.enabled
                                                /\ e.effect = "allow" /\ e.allowCritical

\* A policy without lint errors has one verdict for each call: the order in
\* which rules were appended to policy.json does not matter.
LintedPolicyHasOneVerdict == Answered("policy") /\ answer.linted =>
    \A c \in Calls : Cardinality(answer.before[c]) = 1

\* Exact rules have ids of their own; lintPolicy does not ask for it.
NamedApart(pol) == \A e, f \in pol.entries : e.kind = "exact" /\ f.kind = "exact" /\ e.id = f.id => e = f

\* When policy diff reports nothing changed between two policies without lint
\* errors, no call is decided differently.  (Of exact rules that share an id
\* policy diff sees only the last, hence the second conjunct.)
QuietDiffChangesNothing ==
    (/\ Answered("policy") /\ answer.linted /\ ~answer.changed
     /\ NamedApart(given.policy) /\ NamedApart(given.edited))
    => answer.before = answer.after

\* The classification of an action, the hard denials, and what the risk guards
\* make of whatever the policy says of it do not depend on whether it is spelled
\* filesystem or file, run or execute, with its metadata or its defaults left
\* out, or under a name of any kind.  What the policy itself says does depend on
\* the name: its patterns are matched against it as it is spelled.
GuardsIgnoreSpelling == Answered("spelling") => answer.as = answer.meant

\* What no policy, session or flag can override in evaluatePermissionRequest:
\* credentials stay inside, denials win, and critical calls need a rule that
\* opts in.
GuardsCannotBeOverridden == SecretsStayInside /\ DenialWins /\ CriticalNeedsOptIn

\* A policy means one thing: lintPolicy and diffPolicies see every difference
\* that evaluation sees, the order of the rules does not decide, and spelling
\* reaches the patterns of the policy only, never the guards above it
\* (engine/evaluator.js, permission/normalizer.js).
PolicyHasOneMeaning == LintedPolicyHasOneVerdict /\ QuietDiffChangesNothing /\ GuardsIgnoreSpelling
=============================================================================
