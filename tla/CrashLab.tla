------------------------------ MODULE CrashLab ------------------------------
(***************************************************************************)
(* The CrashLab runners (core/src/crashlab/index.js): a scenario injects a *)
(* fault into a phase of an action and drives it to its end through        *)
(* retries, revocation, contending actors, stale state or late visibility, *)
(* and the report says what was observed.  One action is one attempt, or   *)
(* one actor's turn.  Scenarios of version "1" run in the legacy runner.   *)
(***************************************************************************)
EXTENDS Naturals, Sequences, FiniteSets

CONSTANTS
    Scenarios,      \* the scenarios asked about
    Unkeyed           \* a request without idempotency key

\* A scenario revokes from some attempt on, 0 for never.
ASSUME ScenariosAssumption == \A s \in Scenarios : s.revokeAt \in Nat

VARIABLES
    scenario,
    lab             \* the runner: its counters, the target's effects, the trace

labVars == <<scenario, lab>>

---------------------------------------------------------------------------
(* The scenario contract                                                   *)

Stale == {"stale_capability", "stale_policy", "stale_approved_baseline"}
Races == {"concurrent_race", "revocation_race"}
Only21 == Stale \cup Races \cup {"token_expiry", "eventual_consistency"}

Phases == {"before_authorization", "after_authorization_before_effect", "before_effect",
           "partial_effect", "after_effect_before_response", "before_response"}
NothingDone == {"before_authorization", "after_authorization_before_effect", "before_effect"}
EffectDone == {"after_effect_before_response", "before_response"}

\* CRASHLAB_FAILURE_CLASS_PHASES
PhasesOf(class) ==
    CASE class \in Stale \cup {"token_expiry"} -> NothingDone
      [] class = "revocation_race" -> NothingDone \ {"before_authorization"}
      [] class = "concurrent_race" -> {"before_effect", "partial_effect", "after_effect_before_response"}
      [] class \in {"response_loss", "eventual_consistency", "duplicate_retry"} -> EffectDone
      [] class = "transport_failure" -> EffectDone \cup {"before_effect"}
      [] OTHER -> Phases

\* validateCrashLabScenario, and the classes runCrashScenario refuses for
\* version 2.0; revokeAt 0 is no revocation.
validateCrashLabScenario(s) ==
    /\ s.phase \in Phases
    /\ s.version # "1" =>
         /\ s.phase \in PhasesOf(s.class)
         /\ (s.idempotency = "none") => s.key = Unkeyed
         /\ (s.idempotency = "required") => s.key # Unkeyed /\ s.preserve
         /\ s.maxAttempts >= 1 /\ s.onAttempt \in 1 .. s.maxAttempts
         /\ ~s.retry => s.maxAttempts = 1
         /\ s.expect.min <= s.expect.max
         /\ s.expect.authority = "allow" => s.initial = "valid"
         /\ s.expect.authority = "deny_after_revoke" => s.revokeAt \in 1 .. s.maxAttempts
         /\ s.expect.authority = "one_winner" => s.version = "2.1"
    /\ s.version # "2.1" => s.class \notin Only21
    /\ s.class \in Races => s.actors \in 2 .. 16
    /\ s.class = "concurrent_race" => s.expect.authority = "one_winner"
    /\ s.class = "revocation_race" => s.revokeAt \in 1 .. s.actors
    /\ s.class = "eventual_consistency" => s.once /\ s.visibleOn \in s.onAttempt + 1 .. s.maxAttempts

Unstarted == [attempts |-> 0, effects |-> <<>>, keys |-> {}, trace |-> <<>>, responses |-> 0,
              ambiguous |-> 0, partial |-> 0, denials |-> 0, consumed |-> FALSE, contenders |-> {},
              step |-> "running", evidence |-> "none", status |-> "none"]

LabInit == /\ scenario \in {s \in Scenarios : validateCrashLabScenario(s)}
           /\ lab = Unstarted

---------------------------------------------------------------------------
(* The synthetic target and the trace                                      *)

Entry(attempt, stage, ok) == [attempt |-> attempt, stage |-> stage, ok |-> ok]

\* SyntheticEffectTarget.apply and applyPartial
Apply(l, key, partial) ==
    IF scenario.idempotency # "none" /\ key # Unkeyed /\ key \in l.keys THEN l
    ELSE [l EXCEPT !.effects = Append(@, [key |-> key, partial |-> partial]),
                   !.keys = @ \cup ({key} \ {Unkeyed})]

\* tracePush, under the number of an attempt or of an actor; mostly the current one.
TracedFor(l, number, stage, ok) == [l EXCEPT !.trace = Append(@, Entry(number, stage, ok))]
Traced(l, stage, ok) == TracedFor(l, l.attempts, stage, ok)

EffectFor(l, number, key, partial) ==
    TracedFor(Apply(l, key, partial), number, IF partial THEN "effect.partial_observed" ELSE "effect.observed", TRUE)
Effect(l, key, partial) == EffectFor(l, l.attempts, key, partial)

Key == IF scenario.version = "1" \/ scenario.preserve \/ scenario.key = Unkeyed THEN scenario.key
       ELSE <<scenario.key, lab.attempts + 1>>

\* v2FaultActive; a legacy fault is there on every attempt.
FaultActive == \/ scenario.version = "1"
               \/ lab.attempts + 1 = scenario.onAttempt
               \/ ~scenario.once /\ lab.attempts + 1 > scenario.onAttempt

FaultAt(phases) == FaultActive /\ scenario.phase \in phases

\* The scenario's authority and options.authorize, which says what it likes.
Denied(says) == \/ scenario.version # "1" /\ scenario.initial \in {"denied", "revoked"}
                \/ scenario.revokeAt # 0 /\ lab.attempts + 1 >= scenario.revokeAt
                \/ ~says

Begun == [lab EXCEPT !.attempts = @ + 1]
Authorized(l) == Traced(l, "authorization.checked", TRUE)
Refused(l) == [Traced(l, "authorization.checked", FALSE) EXCEPT !.denials = @ + 1, !.step = "ended"]

\* The catch block: another attempt, unless retries are off or used up.
Failed(l, partial, ambiguous) ==
    [l EXCEPT !.ambiguous = IF ambiguous THEN @ + 1 ELSE @, !.partial = IF partial THEN @ + 1 ELSE @,
              !.step = IF (scenario.retry \/ scenario.version = "1") /\ l.attempts < scenario.maxAttempts THEN "running" ELSE "ended"]

Responded(l) == [l EXCEPT !.responses = @ + 1, !.step = "ended"]

Running(classes) == lab.step = "running" /\ scenario.class \in classes /\ UNCHANGED scenario

---------------------------------------------------------------------------
(* The runners                                                             *)

Driven == lab.step = "running" /\ scenario.class \notin Stale \cup Races \cup {"eventual_consistency"} /\ UNCHANGED scenario

\* runV2CrashScenario, one attempt
Attempt(says) ==
    /\ Driven /\ scenario.version # "1"
    /\ lab' = CASE FaultAt({"before_authorization"}) -> Failed(Begun, FALSE, FALSE)
                [] ~FaultAt({"before_authorization"}) /\ Denied(says) -> Refused(Begun)
                [] OTHER ->
                   CASE FaultAt(NothingDone) -> Failed(Authorized(Begun), FALSE, FALSE)
                     [] FaultAt({"partial_effect"}) -> Failed(Effect(Authorized(Begun), Key, TRUE), TRUE, TRUE)
                     [] FaultAt(EffectDone) -> Failed(Effect(Authorized(Begun), Key, FALSE), FALSE, TRUE)
                     [] OTHER -> Responded(Effect(Authorized(Begun), Key, FALSE))

\* runLegacyCrashScenario, one attempt.  Its target has no partial effect, and
\* losing the response before it is sent does not count as ambiguous.
LegacyAttempt(says) ==
    /\ Driven /\ scenario.version = "1"
    /\ lab' = CASE FaultAt({"before_authorization"}) -> Failed(Begun, FALSE, FALSE)
                [] ~FaultAt({"before_authorization"}) /\ Denied(says) -> Refused(Begun)
                [] OTHER ->
                   CASE FaultAt(NothingDone) -> Failed(Authorized(Begun), FALSE, FALSE)
                     [] FaultAt(EffectDone \cup {"partial_effect"}) ->
                          Failed(Effect(Authorized(Begun), Key, FALSE), FALSE, scenario.phase # "before_response")
                     [] OTHER -> Responded(Effect(Authorized(Begun), Key, FALSE))

\* runV21StaleScenario: the stale state is found and nothing is done.
StaleAttempt(says) ==
    /\ Running(Stale)
    /\ lab' = IF scenario.phase # "before_authorization" /\ (~says \/ scenario.initial # "valid")
              THEN Refused(Begun)
              ELSE Failed(Traced(IF scenario.phase = "before_authorization" THEN Begun ELSE Authorized(Begun),
                                 "state.stale_detected", TRUE), FALSE, FALSE)

\* runV21EventualConsistencyScenario: the effect is applied on every attempt
\* and seen from visibleOn on.  A scripted revocation is not read here.
EventualAttempt(says) ==
    /\ Running({"eventual_consistency"})
    /\ LET done == Effect(Authorized(Begun), Key, FALSE) IN
       lab' = CASE ~says \/ scenario.initial # "valid" -> Refused(Begun)
                [] says /\ scenario.initial = "valid" /\ done.attempts < scenario.visibleOn ->
                      Failed(Traced(done, "consistency.not_visible", TRUE), FALSE, TRUE)
                [] OTHER -> Responded(Traced(done, "consistency.visible", TRUE))

\* runV21ConcurrentScenario: every contender is authorised before the first
\* consumes the shared authority; then they take their turns, each traced under
\* the number of the actor.  A scripted revocation is not read here.
Contend(says) ==
    /\ Running({"concurrent_race"}) /\ lab.attempts < scenario.actors
    /\ lab' = IF says THEN [Authorized(Begun) EXCEPT !.contenders = @ \cup {lab.attempts + 1}]
              ELSE [Traced(Begun, "authorization.checked", FALSE) EXCEPT !.denials = @ + 1]

Consume(actor) ==
    /\ Running({"concurrent_race"}) /\ lab.attempts = scenario.actors
    /\ actor \in lab.contenders /\ \A other \in lab.contenders : actor <= other
    /\ LET turn == [lab EXCEPT !.contenders = @ \ {actor}] IN
       lab' = IF lab.consumed THEN TracedFor(turn, actor, "lease.replayed", TRUE)
              ELSE [EffectFor(TracedFor(turn, actor, "lease.consumed", TRUE), actor, scenario.key, FALSE)
                      EXCEPT !.consumed = TRUE, !.responses = @ + 1]

RevocableTurn ==
    /\ Running({"revocation_race"}) /\ lab.attempts < scenario.actors
    /\ lab' = IF lab.attempts + 1 >= scenario.revokeAt
              THEN [Traced(Begun, "authorization.checked", FALSE) EXCEPT !.denials = @ + 1]
              ELSE [Effect(Authorized(Begun), scenario.key, FALSE) EXCEPT !.responses = @ + 1]

RacesEnd ==
    /\ Running(Races) /\ lab.attempts = scenario.actors /\ lab.contenders = {}
    /\ lab' = [lab EXCEPT !.step = "ended"]

---------------------------------------------------------------------------
(* The report                                                              *)

\* Mutant of Evidence: an effect is a success, as in finalizeV21.
EvidenceOfEffects(l) ==
    [status |-> IF l.effects # <<>> THEN "success" ELSE "unknown",
     ambiguity |-> IF l.ambiguous > 0 THEN "preserve" ELSE "none"]

\* v2Evidence and finalizeV21
Evidence(l) ==
    [status |-> CASE l.effects # <<>> /\ l.partial > 0 -> "partial"
                  [] l.effects # <<>> /\ l.partial = 0 -> "success"
                  [] OTHER -> "unknown",
     ambiguity |-> IF l.ambiguous > 0 THEN "preserve" ELSE "none"]

Count(l, stage, ok) == Len(SelectSeq(l.trace, LAMBDA e : e.stage = stage /\ e.ok = ok))
EffectStages == {"effect.observed", "effect.partial_observed"}
EffectsFrom(l, attempt) ==
    \E i \in DOMAIN l.trace : l.trace[i].stage \in EffectStages /\ l.trace[i].attempt >= attempt

\* v2AuthorityExpectation
AuthorityAsExpected(l) ==
    LET behavior == scenario.expect.authority IN
    CASE behavior = "unchanged" -> TRUE
      [] behavior = "allow" -> l.denials = 0 /\ Count(l, "authorization.checked", TRUE) > 0
      [] behavior = "deny" -> l.denials > 0 /\ ~EffectsFrom(l, 0)
      [] behavior = "one_winner" -> /\ Count(l, "authorization.checked", TRUE) = scenario.actors
                                    /\ Count(l, "lease.consumed", TRUE) = 1
                                    /\ Count(l, "lease.replayed", TRUE) = scenario.actors - 1
      [] OTHER -> /\ \E i \in DOMAIN l.trace : l.trace[i].stage = "authorization.checked" /\ ~l.trace[i].ok
                                                /\ l.trace[i].attempt >= scenario.revokeAt
                  /\ ~EffectsFrom(l, scenario.revokeAt)

\* checkV2Invariant: the invariants the class of a scenario requires.
InvariantsHold(l) ==
    /\ scenario.class \in Races \/ l.attempts <= scenario.maxAttempts
    /\ scenario.class = "concurrent_race" => Count(l, "lease.consumed", TRUE) = 1 /\ Len(l.effects) <= 1
    /\ scenario.class \in Stale => Count(l, "state.stale_detected", TRUE) > 0 /\ ~EffectsFrom(l, 0)
    /\ scenario.class = "eventual_consistency" =>
          Count(l, "consistency.not_visible", TRUE) > 0 /\ Count(l, "consistency.visible", TRUE) > 0

\* What the legacy report expects
LegacyPasses(l) == /\ Len(l.effects) <= scenario.expect.max /\ l.attempts <= scenario.maxAttempts
                   /\ scenario.expect.authority = "deny_after_revoke" => l.denials > 0 /\ l.attempts >= scenario.revokeAt

Passes(l) == /\ Len(l.effects) \in scenario.expect.min .. scenario.expect.max
             /\ AuthorityAsExpected(l) /\ InvariantsHold(l)
             /\ Evidence(l) = scenario.expect.evidence

Report ==
    /\ lab.step = "ended" /\ UNCHANGED scenario
    /\ lab' = [lab EXCEPT !.step = "reported", !.evidence = Evidence(lab),
                          !.status = IF IF scenario.version = "1" THEN LegacyPasses(lab) ELSE Passes(lab)
                                     THEN "PASS" ELSE "FAIL"]

LabNext == \/ \E says \in BOOLEAN : \/ Attempt(says) \/ LegacyAttempt(says) \/ StaleAttempt(says)
                                    \/ EventualAttempt(says) \/ Contend(says)
           \/ \E actor \in lab.contenders : Consume(actor)
           \/ RevocableTurn \/ RacesEnd \/ Report

LabSpec == LabInit /\ [][LabNext]_labVars

---------------------------------------------------------------------------
(* Properties                                                              *)

\* A target that honours idempotency keys takes effect once, whatever fault is
\* injected where and however often the runner retries with the same key, a
\* partial effect followed by a retry included.
KeyedEffectHappensOnce ==
    scenario.idempotency # "none" /\ scenario.key # Unkeyed /\ (scenario.preserve \/ scenario.version = "1") =>
       Len(lab.effects) <= 1

\* The runners that end an authority where the scenario revokes it:
\* runV21ConcurrentScenario reads authority.revoke_on_attempt in a
\* revocation_race only and runV21EventualConsistencyScenario never, although
\* validateCrashLabScenario admits it in both.
HeedsRevocation == scenario.class \notin {"concurrent_race", "eventual_consistency"}

DenialAttested == lab.step = "reported" /\ lab.status = "PASS" /\ scenario.expect.authority = "deny_after_revoke"

\* Nothing takes effect on an attempt, or for an actor, whose authorisation was
\* refused, in any runner.  Nothing takes effect from the revocation on in the
\* runners that read it; in the two that do not, effects go on, but no report
\* passes that expects a denial after the revocation.
RevocationHolds ==
    /\ \A i, j \in DOMAIN lab.trace :
          lab.trace[i].stage = "authorization.checked" /\ ~lab.trace[i].ok /\ lab.trace[j].stage \in EffectStages =>
             lab.trace[i].attempt # lab.trace[j].attempt
    /\ scenario.revokeAt # 0 /\ (HeedsRevocation \/ DenialAttested) => ~EffectsFrom(lab, scenario.revokeAt)

\* Of several contenders for one shared authority, at most one gets to use it.
OneWinner == scenario.class = "concurrent_race" => Cardinality({i \in DOMAIN lab.trace :
                                                       lab.trace[i].stage = "lease.consumed"}) <= 1

\* The report does not overstate: success means that effects are there and none
\* of them is partial, and a PASS says "no ambiguity" only where every attempt
\* that took effect was answered.
ReportIsHonest == lab.step = "reported" =>
    /\ lab.evidence.status = "success" => /\ Len(lab.effects) > 0
                                          /\ \A i \in DOMAIN lab.effects : ~lab.effects[i].partial
    /\ scenario.version # "1" /\ lab.status = "PASS" /\ scenario.expect.evidence.ambiguity = "none" =>
          Cardinality({lab.trace[i].attempt : i \in {j \in DOMAIN lab.trace : lab.trace[j].stage \in EffectStages}})
             <= lab.responses

\* The runners of crashlab/index.js keep the guarantees they are to test,
\* across retries and races, and a revocation where they read it, and their
\* reports do not overstate them.
LabIsHonest == KeyedEffectHappensOnce /\ RevocationHolds /\ OneWinner /\ ReportIsHonest
=============================================================================
