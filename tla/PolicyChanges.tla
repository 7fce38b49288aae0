--------------------------- MODULE PolicyChanges ---------------------------
(***************************************************************************)
(* The three ways RuleOak itself rewrites a policy: suggestions of         *)
(* learning mode (cli/src/learning.js), guided rules (cli/src/             *)
(* workstation.js) and the migration of a legacy policy                    *)
(* (core/src/migration/policy.js).  Each is judged by what the policy      *)
(* engine decides before and after.                                        *)
(*                                                                         *)
(* Learning looks at resources, which PolicyDecision leaves out: here an   *)
(* observed call has a path, and an entry of a policy a place where it     *)
(* holds (everywhere, at one path, or below a directory).                  *)
(***************************************************************************)
EXTENDS PolicyDecision, Sequences

NoMemory(c) == [key |-> c, decision |-> "none"]

Everywhere == [kind |-> "everywhere", path |-> <<>>]
ExactlyAt(path) == [kind |-> "exact", path |-> path]
Below(dir) == [kind |-> "below", path |-> dir]

LiesBelow(path, dir) == Len(dir) < Len(path) /\ SubSeq(path, 1, Len(dir)) = dir

HoldsAt(place, path) ==
    CASE place.kind = "everywhere" -> TRUE
      [] place.kind = "exact" -> path = place.path
      [] place.kind = "below" -> LiesBelow(path, place.path)

\* The policy as it stands at one path; a glob is more specific than *.
SeenFrom(pol, path) ==
    [default |-> pol.default,
     entries |-> {IF p.place.kind = "below" THEN [p.entry EXCEPT !.resources = {[under |-> "*", rank |-> 1]}] ELSE p.entry
                     : p \in {q \in pol.placed : HoldsAt(q.place, path)}}]

VerdictAt(o, pol) == evaluatePermissionRequest(o.call, SeenFrom(pol, o.path), NoMemory(o.call), TRUE)

---------------------------------------------------------------------------
(* LearningSession: observe, finalize                                      *)

generalizedKey(c) == <<c.name, c.category, c.operation, classifyDataFlow(c), classifySideEffect(c), c.sensitivity>>

observe(o, pol) == [of |-> o, decision |-> CHOOSE v \in VerdictAt(o, pol) : TRUE, critical |-> classifyRisk(o.call) = "critical"]

effectForObservation(group) ==
    IF \E b \in group : b.critical \/ b.decision = "deny" THEN "deny"
    ELSE IF \E b \in group : b.decision = "needs_approval" THEN "needs_approval"
    ELSE "allow"

\* The directory all the paths share; none: every resource.
commonResourcePattern(paths) ==
    LET shared == {d \in UNION {{SubSeq(p, 1, n) : n \in 1 .. Len(p) - 1} : p \in paths} : \A p \in paths : LiesBelow(p, d)}
    IN IF shared = {} THEN Everywhere
       ELSE Below(CHOOSE d \in shared : \A e \in shared : Len(e) <= Len(d))

\* A suggestion is a rule for the exact action, or one for the whole group when
\* it was seen at two paths.  The id of the second names the tool and the
\* pattern, not the conditions.
ExactSuggestion(b, effect) ==
    [name |-> <<"exact", approvalFingerprint(b.of.call), b.of.path>>, place |-> ExactlyAt(b.of.path),
     entry |-> [kind |-> "exact", id |-> 0, effect |-> effect, key |-> approvalFingerprint(b.of.call),
                allowCritical |-> FALSE, enabled |-> TRUE]]

GeneralSuggestion(key, place, effect) ==
    [name |-> <<"learned", key[1], place>>, place |-> place,
     entry |-> [kind |-> "rule", id |-> 0, effect |-> effect,
                priority |-> CASE effect = "deny" -> 120 [] effect = "needs_approval" -> 70 [] OTHER -> 30,
                actions |-> {key[1]},
                resources |-> {[under |-> "*", rank |-> 0]},
                conditions |-> {[field |-> "category", values |-> {key[2]}], [field |-> "operation", values |-> {key[3]}],
                                [field |-> "data_flow", values |-> {key[4]}], [field |-> "side_effect", values |-> {key[5]}],
                                [field |-> "sensitivity", values |-> {key[6]}]},
                atLeast |-> "safe", atMost |-> "critical", allowCritical |-> FALSE, enabled |-> TRUE]]

finalize(observations) ==
    UNION {LET group == {b \in observations : generalizedKey(b.of.call) = key}
               effect == effectForObservation(group)
               paths == {b.of.path : b \in group} IN
           {ExactSuggestion(b, effect) : b \in group}
           \cup IF Cardinality(paths) >= 2 THEN {GeneralSuggestion(key, commonResourcePattern(paths), effect)} ELSE {}
             : key \in {generalizedKey(b.of.call) : b \in observations}}

\* applyLearningSuggestion, confirmed with --yes: a rule of the same id, or for
\* the same action, is replaced.
applyLearningSuggestion(pol, s) ==
    [pol EXCEPT !.placed =
        {p \in @ : /\ p.name # s.name
                   /\ ~(p.entry.kind = "exact" /\ s.entry.kind = "exact" /\ p.place = s.place /\ p.entry.key = s.entry.key)}
        \cup {s}]

\* The session's suggestions, one applied or two in either order.
AskLearning == Answer("learning",
    LET observations == {observe(o, given.policy) : o \in given.seen}
        suggestions == finalize(observations)
        once == {applyLearningSuggestion(given.policy, s) : s \in suggestions}
        twice == UNION {{applyLearningSuggestion(p, s) : s \in suggestions} : p \in once} IN
    [observed |-> observations,
     before |-> [o \in given.unseen |-> VerdictAt(o, given.policy)],
     after |-> [o \in given.seen |-> UNION {VerdictAt(o, p) : p \in once \cup twice}],
     elsewhere |-> [o \in given.unseen |-> UNION {VerdictAt(o, p) : p \in once \cup twice}]])

---------------------------------------------------------------------------
(* migratePolicyToV2                                                       *)

MigratedRule(pattern, effect, priority) ==
    [kind |-> "rule", id |-> 0, effect |-> effect, priority |-> priority, actions |-> {pattern},
     resources |-> {[under |-> "*", rank |-> 0]}, conditions |-> {}, atLeast |-> "safe", atMost |-> "critical",
     allowCritical |-> FALSE, enabled |-> TRUE]

\* A policy says its version, or has structured rules.
detectPolicyVersion(pol, declared) == IF declared = 2 \/ \E e \in pol.entries : e.kind = "rule" THEN 2 ELSE 1

\* Mutant of migratePolicyToV2: what needs approval is tried after what is allowed.
migrateApprovalsLast(pol, declared) ==
    [default |-> normalizeDecisionAction(pol.default),
     entries |-> {CASE e.kind = "blocked" -> MigratedRule(e.pattern, "deny", 300)
                    [] e.kind = "approval" -> MigratedRule(e.pattern, "needs_approval", 50)
                    [] e.kind = "allowed" -> MigratedRule(e.pattern, "allow", 100)
                    [] OTHER -> e : e \in pol.entries}]

migratePolicyToV2(pol, declared) ==
    IF detectPolicyVersion(pol, declared) = 2 THEN pol
    ELSE [default |-> normalizeDecisionAction(pol.default),
          entries |-> {CASE e.kind = "blocked" -> MigratedRule(e.pattern, "deny", 300)
                         [] e.kind = "approval" -> MigratedRule(e.pattern, "needs_approval", 200)
                         [] e.kind = "allowed" -> MigratedRule(e.pattern, "allow", 100)
                         [] OTHER -> e : e \in pol.entries}]

AskMigration == Answer("migration",
    LET migrated == migratePolicyToV2(given.policy, given.declared) IN
    [c \in Calls |-> [before |-> evaluatePermissionRequest(c, given.policy, NoMemory(c), TRUE),
                      after |-> evaluatePermissionRequest(c, migrated, NoMemory(c), TRUE)]])

---------------------------------------------------------------------------
(* buildGuidedPolicyRule, previewGuidedPolicyRule, authorPolicyRule        *)

\* Without an id (0) the rule is named after its effect and its first action:
\* a numbering of those names.
GuidedId(options) == IF options.id # 0 THEN options.id
                     ELSE 10 * TieBreak[normalizeDecisionAction(options.effect)]
                          + patternSpecificity(options.action)

buildGuidedPolicyRule(options) ==
    LET effect == normalizeDecisionAction(options.effect) IN
    [kind |-> "rule", id |-> GuidedId(options), effect |-> effect,
     priority |-> CASE effect = "deny" -> 100 [] effect = "needs_approval" -> 50 [] OTHER -> 20,
     actions |-> {options.action},
     resources |-> IF options.resources = {} THEN {[under |-> "*", rank |-> 0]} ELSE options.resources,
     conditions |-> options.conditions, atLeast |-> "safe", atMost |-> options.atMost,
     allowCritical |-> options.allowCritical, enabled |-> TRUE]

previewGuidedPolicyRule(pol, rule) ==
    [pol EXCEPT !.entries = {e \in @ : ~(e.kind = "rule" /\ e.id = rule.id)} \cup {rule}]

AskGuided == Answer("guided",
    LET next == previewGuidedPolicyRule(given.policy, buildGuidedPolicyRule(given.options)) IN
    [c \in Calls |-> [before |-> evaluatePermissionRequest(c, given.policy, NoMemory(c), TRUE),
                      after |-> evaluatePermissionRequest(c, next, NoMemory(c), TRUE)]])

---------------------------------------------------------------------------
(* The questions                                                           *)

\* The entries of a policy, with ids that are not those of a suggestion; an
\* exact rule or a legacy pattern has no directory.
EntryRecords == ExactRules \cup StructuredRules \cup LegacyPatterns
EntryPlaces == [kind : {"everywhere", "exact", "below"}, path : Seq(STRING)]
PlacedRecords == {p \in [name : {"policy"} \X EntryRecords, place : EntryPlaces, entry : EntryRecords] :
                     p.place.kind = "below" => p.entry.kind = "rule"}
SeenRecords == [path : Seq(STRING), call : CallRecords]

\* A session under a policy that has one verdict on each call it saw (the order
\* of an array decides between rules of one id), and critical calls elsewhere.
LearningRecords == [policy : [default : STRING, placed : Finite(PlacedRecords)],
                    seen : Finite(SeenRecords) \ {{}}, unseen : SUBSET SeenRecords]
LearningAsked == {q \in LearningRecords :
                     /\ \A o \in q.seen : VerdictAt(o, q.policy) = {CHOOSE v \in VerdictAt(o, q.policy) : TRUE}
                     /\ \A o \in q.unseen : classifyRisk(o.call) = "critical"}

\* migratePolicyToV2 throws on a policy that does not validate, and
\* buildGuidedPolicyRule on an effect that is none.
ValidPolicies == {pol \in PolicyRecords : validatePolicy(pol)}
MigrationAsked == [policy : ValidPolicies, declared : 1 .. 2]
GuidedOptions == {o \in [id : Int, effect : STRING, action : ActionPatterns,
                         resources : SUBSET [under : STRING, rank : 0 .. 2], conditions : Finite(Conditions),
                         atMost : DOMAIN RiskRank, allowCritical : BOOLEAN] :
                     normalizeDecisionAction(o.effect) \in Decisions}
GuidedAsked == [policy : ValidPolicies, options : GuidedOptions]

ChangesSpec == /\ Ask("learning", LearningAsked) \/ Ask("migration", MigrationAsked) \/ Ask("guided", GuidedAsked)
               /\ [][AskLearning \/ AskMigration \/ AskGuided]_caseVars

---------------------------------------------------------------------------
(* Properties                                                              *)

\* Applying suggestions of a learning session never allows a call that the
\* session saw denied or put to a human, nor a critical call elsewhere that
\* the policy blocked: critical hard blocks never become allow suggestions.
\* It holds as long as the policy has no rule that a session placed before.
LearningDoesNotLoosen == Answered("learning") =>
    /\ \A b \in answer.observed : b.decision \in {"deny", "needs_approval"} =>
          answer.after[b.of] \subseteq {"deny", "needs_approval"}
    /\ \A o \in given.unseen : answer.before[o] = {"deny"} => answer.elsewhere[o] = {"deny"}

Names(e, c) == e.pattern.category \in {"*", c.name.category} /\ e.pattern.operation \in {"*", c.name.operation}

\* The migration to structured rules keeps every denial, and a call named by an
\* approvalRequired pattern is still not allowed without an answer (unless an
\* exact rule allows it, or the policy says it is of version 2 or has structured
\* rules already, and is left as it is); what it does allow anew was named by allowedActions, whose
\* patterns become explicit rules.
MigrationKeepsGuards == Answered("migration") =>
    \A c \in Calls :
       /\ answer[c].before = {"deny"} => answer[c].after = {"deny"}
       /\ given.declared = 1 /\ (\E e \in given.policy.entries : e.kind = "approval" /\ Names(e, c))
             /\ ~(\E e \in given.policy.entries : e.kind \in {"exact", "rule"})
             => answer[c].after \subseteq {"deny", "needs_approval"}
       /\ "allow" \in answer[c].after \ answer[c].before =>
             \E e \in given.policy.entries : e.kind = "allowed" /\ Names(e, c)

\* Authoring a guided rule changes the verdict of no call but those the new
\* rule, or the rule of the same id that it replaces, was written for.
AuthoringIsLocal == Answered("guided") =>
    \A c \in Calls :
       \/ answer[c].before = answer[c].after
       \/ /\ given.options.action.category \in {"*", c.name.category}
          /\ given.options.action.operation \in {"*", c.name.operation}
       \/ \E e \in given.policy.entries : /\ e.kind = "rule" /\ e.id = GuidedId(given.options)
                                          /\ \E p \in e.actions : /\ p.category \in {"*", c.name.category}
                                                                  /\ p.operation \in {"*", c.name.operation}

\* Whichever way RuleOak rewrites a policy (learning.js, migration/policy.js,
\* workstation.js), nothing is allowed that the rewriting was not to allow.
RewritesDoNotLoosen == LearningDoesNotLoosen /\ MigrationKeepsGuards /\ AuthoringIsLocal
=============================================================================
