---------------------------- MODULE ReleaseRules ----------------------------
(***************************************************************************)
(* What a release is judged by: the classification of an integration's     *)
(* tools and the diff of two capability manifests                          *)
(* (core/src/inspector/index.js), the reliability scorecard over CrashLab  *)
(* results (crashlab/scorecard.js), the release snapshot collected from    *)
(* the evidence (cli/src/release-collector.js) and the gate                *)
(* (release/agent-release-gate.js).                                        *)
(***************************************************************************)
EXTENDS Cases, Integers, FiniteSets

CONSTANT ToolIds        \* the capability ids that integrations declare

---------------------------------------------------------------------------
(* Capabilities.  A tool is declared with the classes of words its name    *)
(* has, its hints, and versions of its schema and description.             *)

Consequential == {"destructive", "high_consequence"}

\* classifyToolCapability
classifyToolCapability(tool) ==
    LET state == CASE tool.hint = "read" -> "read_only"
                   [] tool.hint = "write" -> "state_changing"
                   [] tool.hint = "none" /\ "read" \in tool.words -> "read_only"
                   [] tool.hint = "none" /\ "read" \notin tool.words /\ tool.words \cap {"write", "high"} # {} -> "state_changing"
                   [] OTHER -> "unknown"
    IN [state |-> state,
        consequence |-> CASE tool.destructiveHint \/ "destructive" \in tool.words -> "destructive"
                          [] OTHER -> CASE tool.secret \/ "high" \in tool.words \/ state = "state_changing" -> "high_consequence"
                                        [] ~tool.secret /\ state = "read_only" /\ "high" \notin tool.words -> "read_only"
                                        [] OTHER -> "unknown",
        schema |-> <<tool.schema, tool.secret>>,
        annotations |-> <<tool.hint, tool.destructiveHint>>,
        description |-> tool.description]

\* buildCapabilityManifest: the classified tools by capability id, and the
\* transport the integration is identified by.
buildCapabilityManifest(server) ==
    [transport |-> server.transport,
     tools |-> [id \in DOMAIN server.tools |-> classifyToolCapability(server.tools[id])]]

\* capabilitySurfaceFingerprint: the description is not part of the surface;
\* the hints are, as the basis of the classification.
Fingerprint(manifest) ==
    [transport |-> manifest.transport,
     tools |-> [id \in DOMAIN manifest.tools |-> [manifest.tools[id] EXCEPT !.description = 0]]]

Acts(tool) == tool.state = "state_changing" \/ tool.consequence \in Consequential

\* Mutant of Broadened: only the tools that both manifests have are compared.
BroadenedKept(previous, current) ==
    {id \in DOMAIN previous.tools \cap DOMAIN current.tools : Acts(current.tools[id]) /\ ~Acts(previous.tools[id])}

\* The tools that gained a consequence between two manifests.
Broadened(previous, current) ==
    {id \in DOMAIN current.tools :
        LET after == current.tools[id] IN
        IF id \notin DOMAIN previous.tools THEN Acts(after)
        ELSE LET before == previous.tools[id] IN
             \/ after.state = "state_changing" /\ before.state # "state_changing"
             \/ after.consequence \in Consequential /\ before.consequence \notin Consequential}

Kept(previous, current) == DOMAIN previous.tools \cap DOMAIN current.tools

\* diffCapabilityManifests(...).requires_policy_review
diffRequiresReview(previous, current) ==
    \/ Broadened(previous, current) # {}
    \/ \E id \in Kept(previous, current) : previous.tools[id].schema # current.tools[id].schema /\ Acts(current.tools[id])
    \/ \E id \in Kept(previous, current) : \/ previous.tools[id].annotations # current.tools[id].annotations
                                           \/ previous.tools[id].description # current.tools[id].description
    \/ previous.transport # current.transport

\* recommendCapabilityPolicy
recommendCapabilityPolicy(tool, secret) ==
    CASE tool.consequence = "destructive" \/ secret -> "deny"
      [] tool.consequence # "destructive" /\ ~secret /\ tool.state = "read_only" -> "allow"
      [] OTHER -> "needs_approval"

---------------------------------------------------------------------------
(* The scorecard                                                           *)

Dimensions == {"duplicate_effect_resistance", "revocation_compliance", "ambiguity_handling",
               "retry_boundedness", "evidence_completeness", "recovery_correctness"}

\* dimensionForCheck and dimensionForInvariant
dimensionFor(id, result) ==
    CASE id \in {"duplicate_effect_resistance", "one_use_authority"} -> "duplicate_effect_resistance"
      [] \/ id = "revocation_compliance"
         \/ id = "authority_behavior" /\ result.class = "revocation_race" -> "revocation_compliance"
      [] id \in {"ambiguity_preservation", "eventual_consistency_handling"} -> "ambiguity_handling"
      [] id = "retry_boundedness" -> "retry_boundedness"
      [] id \in {"evidence_completeness", "evidence_expectation"} -> "evidence_completeness"
      [] id = "effect_count_range" /\ result.excess -> "duplicate_effect_resistance"
      [] OTHER -> "recovery_correctness"

\* The checks of a result, those derived from its invariants and its status.
ScoredChecks(result) ==
    {[dimension |-> dimensionFor(c.id, result), pass |-> c.pass] : c \in result.checks}
    \cup {[dimension |-> dimensionFor(id, result), pass |-> FALSE] : id \in {i \in result.falseInvariants : \A c \in result.checks : c.id # i}}
    \cup {[dimension |-> "recovery_correctness", pass |-> FALSE] :
             f \in {s \in {"FAIL"} : /\ result.status = s /\ result.falseInvariants = {}
                                     /\ \A c \in result.checks : c.pass}}

\* buildReliabilityScorecard, and what the JUnit and SARIF exports show of it.
buildReliabilityScorecard(results) ==
    LET scored == UNION {ScoredChecks(r) : r \in results}
        dimension == [d \in Dimensions |-> CASE \A c \in scored : c.dimension # d -> "NOT_APPLICABLE"
                                             [] \E c \in scored : c.dimension = d /\ ~c.pass -> "FAIL"
                                             [] OTHER -> "PASS"]
    IN [dimensions |-> dimension,
        status |-> IF (\A r \in results : r.status = "PASS") /\ (\A d \in Dimensions : dimension[d] # "FAIL")
                   THEN "PASS" ELSE "FAIL"]

---------------------------------------------------------------------------
(* The release gate.  Numbers are Missing where there are none; rates are   *)
(* in hundredths.                                                          *)

Missing == -1

UnresolvedStates == {"partial_or_ambiguous", "unknown", "invalid"}

Uncertain == {"ambiguous", "partial", "requested_only", "remote_response_observed", "process_return_observed"}

VerifiedEffects(effects) == {e \in effects : e.verified # "none"}

\* An effect is [id, lease, quality, status, verified]: its last receipt, whose
\* lease may be missing (0), and its last verification.
AmbiguousEffects(effects) == {e \in effects : IF e.verified # "none" THEN e.verified \in UnresolvedStates
                                       ELSE e.status = "unknown" \/ e.quality \in Uncertain}

deriveEffects(effects) ==
    LET leased == {e \in effects : e.lease # 0} IN
    [total |-> Cardinality(effects), verified |-> Cardinality(VerifiedEffects(effects)),
     ambiguous |-> Cardinality(AmbiguousEffects(effects)), duplicates |-> Cardinality(leased) - Cardinality({e.lease : e \in leased})]

\* collectAgentReleaseSnapshot, of an evidence log that verifies: tests is what
\* the test evidence says; reviewed binds the review to the fingerprint of the
\* capabilities at hand.
collectAgentReleaseSnapshot(effects, capability, baselineCapability, reviewed, crashlab, tests) ==
    [tests EXCEPT !.effects = deriveEffects(effects), !.capability = Fingerprint(capability),
                  !.review = IF reviewed THEN Fingerprint(capability) ELSE [transport |-> "none"],
                  !.driftReview = diffRequiresReview(baselineCapability, capability),
                  !.crashlab = crashlab]

\* DEFAULT_AGENT_RELEASE_POLICY: 95 in a hundred effects are verified, and the
\* rate of success drops by no more than two hundredths.  (A drop of exactly two
\* is refused where the difference of the doubles is rounded up.)
Covered(effects) == effects.total > 0 /\ 100 * effects.verified >= 95 * effects.total
MaxDrop == 2

\* The reasons evaluateAgentReleaseGate gathers.
Blocking(base, c) ==
    \/ c.critical \ base.critical # {}
    \/ c.unsafe > 0 \/ c.effects.duplicates > 0 \/ c.effects.ambiguous > 0
    \/ base.capability # c.capability /\ c.review # c.capability /\ c.driftReview
    \/ c.success # Missing /\ base.success # Missing /\ base.success - c.success > MaxDrop
    \/ c.verdict \in {"BLOCKED", "INCOMPARABLE", "INSUFFICIENT_EVIDENCE"}

Gaps(base, c) ==
    \/ ~base.identified \/ ~c.identified \/ 0 \in {base.suite, c.suite}
    \/ c.unsafe = Missing \/ ~Covered(c.effects)
    \/ c.review # c.capability /\ (base.capability # c.capability => ~c.driftReview)
    \/ c.crashlab # "PASS"
    \/ c.success = Missing \/ base.success = Missing

Warns(base, c) == \/ c.verdict = "SAFE_WITH_CONDITIONS" \/ c.slower
                  \/ base.capability # c.capability /\ c.driftReview

\* evaluateAgentReleaseGate under the default policy; suite 0 is none.
evaluateAgentReleaseGate(base, c) ==
    LET comparable == 0 \in {base.suite, c.suite} \/ base.suite = c.suite IN
    CASE ~comparable -> "INCOMPARABLE"
      [] comparable /\ Blocking(base, c) -> "BLOCK"
      [] comparable /\ ~Blocking(base, c) /\ Gaps(base, c) -> "INSUFFICIENT_EVIDENCE"
      [] OTHER -> IF Warns(base, c) THEN "PASS_WITH_CONDITIONS" ELSE "PASS"

\* The states with exit code 0 (AGENT_RELEASE_EXIT_CODES).
Released == {"PASS", "PASS_WITH_CONDITIONS"}

---------------------------------------------------------------------------
(* The questions                                                           *)

AskDrift == Answer("drift",
    LET m == [i \in 1 .. 3 |-> buildCapabilityManifest(given[i])] IN
    [review |-> [p \in (1 .. 3) \X (1 .. 3) |-> diffRequiresReview(m[p[1]], m[p[2]])],
     advice |-> [id \in DOMAIN m[3].tools |-> recommendCapabilityPolicy(m[3].tools[id], given[3].tools[id].secret)]])

AskScorecard == Answer("scorecard", buildReliabilityScorecard(given))

AskGate == Answer("gate",
    LET snapshot == collectAgentReleaseSnapshot(given.effects, buildCapabilityManifest(given.server),
                        buildCapabilityManifest(given.baseServer), given.reviewed, given.crashlab, given.tests)
        base == [given.base EXCEPT !.capability = Fingerprint(buildCapabilityManifest(given.baseServer))]
    IN evaluateAgentReleaseGate(base, snapshot))

\* Every question that can be put: any three manifests of an integration, any
\* set of results in which an invariant with a failing status agrees with the
\* check of its own, and any log, review and measurements.
ToolRecords == [words : SUBSET STRING, hint : STRING, destructiveHint : BOOLEAN, secret : BOOLEAN,
                schema : Nat, description : Nat]
ServerRecords == [transport : STRING, tools : UNION {[ids -> ToolRecords] : ids \in SUBSET ToolIds}]
DriftAsked == [1 .. 3 -> ServerRecords]

ResultRecords == {r \in [status : {"PASS", "FAIL"}, class : STRING, excess : BOOLEAN,
                         checks : SUBSET [id : STRING, pass : BOOLEAN], falseInvariants : SUBSET STRING] :
                    \A c \in r.checks : c.id \in r.falseInvariants => ~c.pass}
ScorecardAsked == SUBSET ResultRecords

EffectRecords == [id : Nat, lease : Nat, quality : STRING, status : STRING,
                  verified : {"none", "confirmed_success", "confirmed_failure"} \cup UnresolvedStates]
TestRecords == [identified : BOOLEAN, suite : Nat, critical : SUBSET STRING, unsafe : {Missing} \cup Nat,
                success : {Missing} \cup Nat, slower : BOOLEAN, verdict : STRING, effects : {0}, capability : {0},
                review : {0}, driftReview : {FALSE}, crashlab : {"none"}]
OneOfEachId(E) == IsFiniteSet(E) /\ \A e, f \in E : e.id = f.id => e = f
GateAsked ==
    [effects : {E \in SUBSET EffectRecords : OneOfEachId(E)}, server : ServerRecords, baseServer : ServerRecords,
     reviewed : BOOLEAN, crashlab : STRING, base : TestRecords, tests : TestRecords]

ReleaseSpec == /\ Ask("drift", DriftAsked) \/ Ask("scorecard", ScorecardAsked) \/ Ask("gate", GateAsked)
               /\ [][AskDrift \/ AskScorecard \/ AskGate]_caseVars

---------------------------------------------------------------------------
(* Properties                                                              *)

\* Policy review cannot be evaded by slicing a change into steps.  If neither of
\* two steps asks for review, then every tool of consequence there is in the end
\* was there in the beginning, of consequence and with the same schema, hints and
\* description.  Where the whole change would have asked for review all the same,
\* a tool without consequence was withdrawn in between and brought back changed:
\* of that the code notices nothing, as it compares two manifests at a time.
ReviewCannotBeSliced == Answered("drift") /\ ~answer.review[<<1, 2>>] /\ ~answer.review[<<2, 3>>] =>
    LET tool(i, id) == classifyToolCapability(given[i].tools[id])
        has(i) == DOMAIN given[i].tools IN
    /\ \A id \in has(3) : Acts(tool(3, id)) =>
          /\ id \in has(1) /\ Acts(tool(1, id)) /\ tool(3, id).schema = tool(1, id).schema
          /\ tool(3, id).annotations = tool(1, id).annotations /\ tool(3, id).description = tool(1, id).description
    /\ answer.review[<<1, 3>>] => \E id \in (has(1) \cap has(3)) \ has(2) : ~Acts(tool(3, id))

\* The scorecard's verdict (the exit code of CI) and its dimensions (what JUnit
\* and SARIF show) agree: it fails if and only if some dimension fails, and it
\* passes only if no result failed, in status, check or invariant.
ScorecardAgrees == Answered("scorecard") =>
    /\ answer.status = "FAIL" <=> \E d \in Dimensions : answer.dimensions[d] = "FAIL"
    /\ answer.status = "PASS" => \A r \in given : /\ r.status = "PASS" /\ r.falseInvariants = {}
                                                  /\ \A c \in r.checks : c.pass

\* A candidate is released only on clean evidence: there are effects and at least
\* 95 in a hundred of them are verified; none of them is in doubt, each having a
\* confirmed outcome or, unverified, a receipt that claims to know; no lease bought
\* two effects; no critical case fails that did not before, no call was unsafe,
\* success dropped by two hundredths at most, CrashLab passed, and the capabilities
\* were reviewed as they are now.
ReleasedOnCleanEvidence == Answered("gate") /\ answer \in Released =>
    /\ given.effects # {} /\ 100 * Cardinality(VerifiedEffects(given.effects)) >= 95 * Cardinality(given.effects)
    /\ \A e \in given.effects :
          \/ e.verified \in {"confirmed_success", "confirmed_failure"}
          \/ e.verified = "none" /\ e.status # "unknown" /\ e.quality \notin Uncertain
    /\ \A e, f \in given.effects : e.lease # 0 /\ e.lease = f.lease => e = f
    /\ given.tests.critical \subseteq given.base.critical /\ given.tests.unsafe = 0
    /\ given.tests.success # Missing /\ given.tests.success >= given.base.success - MaxDrop
    /\ given.crashlab = "PASS" /\ given.reviewed

\* A release goes ahead only on reviewed capabilities, a scorecard that
\* agrees with its results, and clean evidence (agent-release-gate.js).
ReleaseIsEarned == ReviewCannotBeSliced /\ ScorecardAgrees /\ ReleasedOnCleanEvidence
=============================================================================
