----------------------------- MODULE MCProcess -----------------------------
(***************************************************************************)
(* What RuleOak does inside one process: the decision procedures, asked    *)
(* every question of MCRules, the scenarios of CrashLab, the calls that    *)
(* the SDK guards, the requests that the HTTP gateway interleaves and the  *)
(* review of a candidate.  The parts do not depend on each other; a        *)
(* behaviour is of one of them.                                            *)
(***************************************************************************)
EXTENDS MCRules, CrashLab, HttpGateway, GuardedCall, ProtectedQualification, TLC

CONSTANTS ga, gb        \* guarded functions: one the policy allows, one it asks about

---------------------------------------------------------------------------
(* CrashLab: every phase, with and without keys, retries, revocation       *)
(* before either attempt and up to three contending actors; revocations    *)
(* too in the classes whose runners do not read them.                      *)

BaseScenario == [version |-> "2.1", class |-> "synthetic_error", phase |-> "before_effect", onAttempt |-> 1, once |-> TRUE,
         idempotency |-> "none", key |-> Unkeyed, preserve |-> TRUE, initial |-> "valid", revokeAt |-> 0,
         maxAttempts |-> 3, retry |-> TRUE, actors |-> 1, visibleOn |-> 0,
         expect |-> [min |-> 0, max |-> 1, authority |-> "unchanged", evidence |-> [status |-> "success", ambiguity |-> "none"]]]
MCScenarios ==
    {[BaseScenario EXCEPT !.version = v, !.phase = p, !.onAttempt = n, !.once = o, !.idempotency = m, !.key = k,
                  !.preserve = pr, !.revokeAt = r, !.expect = [@ EXCEPT !.evidence = [status |-> st, ambiguity |-> am], !.authority = IF r = 0 THEN "allow" ELSE "deny_after_revoke"]] :
        v \in {"1", "2.0"}, p \in Phases, n \in 1 .. 2, o \in BOOLEAN, m \in {"none", "supported"}, k \in {Unkeyed, "k"},
        pr \in BOOLEAN, r \in {0, 2}, am \in {"none", "preserve"},
        st \in {"success", "partial"}}
    \cup {[BaseScenario EXCEPT !.class = c, !.phase = p, !.initial = i] : c \in Stale, p \in NothingDone, i \in {"valid", "revoked"}}
    \cup {[BaseScenario EXCEPT !.class = "eventual_consistency", !.phase = "before_response", !.visibleOn = n, !.idempotency = m,
                       !.key = k, !.preserve = pr, !.revokeAt = r,
                       !.expect = [@ EXCEPT !.evidence.ambiguity = "preserve", !.authority = IF d THEN "deny_after_revoke" ELSE "unchanged"]] :
             n \in 2 .. 3, m \in {"none", "supported"}, k \in {Unkeyed, "k"}, pr \in BOOLEAN, r \in {0, 2}, d \in BOOLEAN}
    \cup {[BaseScenario EXCEPT !.class = c, !.actors = a, !.revokeAt = r, !.phase = "before_effect", !.idempotency = m, !.key = k,
                       !.expect = [@ EXCEPT !.authority = IF c = "concurrent_race" THEN "one_winner" ELSE "deny_after_revoke"]] :
             c \in Races, a \in 2 .. 3, r \in 0 .. 3, m \in {"none", "supported"}, k \in {Unkeyed, "k"}}

---------------------------------------------------------------------------
(* HttpGateway and GuardedCall                                             *)

MCBatches == {<<"allowed", "deniedNotice", "other">>, <<"unpinned", "ask">>, <<"corrupt", "other">>,
              <<"denied", "other", "other", "other">>}

MCPolicySays == ga :> "allow" @@ gb :> "needs_approval"

---------------------------------------------------------------------------
(* ProtectedQualification: the policy of the baseline has two checks, any  *)
(* other one.                                                              *)

MCOraclesOf == [old |-> <<"unit", "build">>, new |-> <<"unit">>]

---------------------------------------------------------------------------

processVars == <<caseVars, labVars, httpVars, guardVars, qualificationVars>>

NoQuestion == given = 0 /\ answers = <<>>

Init == /\ HttpInit /\ GuardInit /\ QualificationInit
        /\ \/ QuestionInit /\ scenario = BaseScenario /\ lab = Unstarted
           \/ part = "lab" /\ NoQuestion /\ LabInit
           \/ part \in {"http", "sdk", "candidate"} /\ NoQuestion /\ scenario = BaseScenario /\ lab = Unstarted
        /\ part # "candidate" => ~review.injected /\ ~review.zipped

Next == \/ QuestionNext /\ UNCHANGED <<labVars, httpVars, guardVars, qualificationVars>>
        \/ part = "lab" /\ LabNext /\ UNCHANGED <<caseVars, httpVars, guardVars, qualificationVars>>
        \/ part = "http" /\ HttpNext /\ UNCHANGED <<caseVars, labVars, guardVars, qualificationVars>>
        \/ part = "sdk" /\ GuardNext /\ UNCHANGED <<caseVars, labVars, httpVars, qualificationVars>>
        \/ part = "candidate" /\ QualificationNext /\ UNCHANGED <<caseVars, labVars, httpVars, guardVars>>

Spec == Init /\ [][Next]_processVars

Symmetry == Permutations(Posts)
=============================================================================
