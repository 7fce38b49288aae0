---------------------------- MODULE GuardedCall ----------------------------
(***************************************************************************)
(* guardFunction of the Node SDK: a tool of the agent, wrapped so that a   *)
(* call is authorized (by the policy, or through an approval provider that *)
(* has a deadline), gets an execution lease that is consumed, is executed, *)
(* verified and recorded before it returns.  The agent may call again      *)
(* after an exception; the provider may answer late, with the result of an *)
(* earlier request, in the legacy form, or never; the verifier of the tool *)
(* and every write may throw; the process may die between any two steps.   *)
(***************************************************************************)
EXTENDS Naturals, FiniteSets

CONSTANTS
    Guards,             \* guarded functions
    Automatic,          \* those of a runtime whose receiptMode is automatic
    PolicySays,         \* the decision of the policy for each: allow, deny, needs_approval
    LegacyProvider,     \* is the provider's apiVersion 1.0
    MaxAttempts         \* bound: calls of each function

ASSUME GuardAssumption ==
    /\ Automatic \subseteq Guards
    /\ PolicySays \in [Guards -> {"allow", "deny", "needs_approval"}]
    /\ LegacyProvider \in BOOLEAN
    /\ MaxAttempts \in Nat

VARIABLES
    guarded,            \* the call of each function in progress
    results,            \* ApprovalResults that the provider has made
    uses,               \* approval-uses: results bound to a lease
    legacyAllowed,      \* attempts that a legacy provider allowed in time
    executed,           \* attempts whose function was run
    recorded,           \* attempts with an effect event in the evidence
    persisted           \* effects/: the bucket of an attempt

guardVars == <<guarded, results, uses, legacyAllowed, executed, recorded, persisted>>

\* An attempt stands for its approval request and for its lease.
Attempts == Guards \X (1..MaxAttempts)

GuardInit ==
    /\ guarded = [g \in Guards |-> [step |-> "idle", attempt |-> 0, via |-> "none"]]
    /\ results = {} /\ uses = {} /\ legacyAllowed = {}
    /\ executed = {} /\ recorded = {} /\ persisted = [a \in Attempts |-> "none"]

This(g) == <<g, guarded[g].attempt>>

In(g, step) == guarded[g].step = step

Goes(g, step) == guarded' = [guarded EXCEPT ![g].step = step]

\* No call is in progress; "unrecorded" is the end of one without a lease.
AtRest == {"idle", "threw", "returned", "unrecorded"}

\* The agent calls: the policy is evaluated and the decision recorded.
Invoke(g) ==
    /\ guarded[g].step \in AtRest
    /\ guarded[g].attempt < MaxAttempts
    /\ guarded' = [guarded EXCEPT ![g] =
            [step |-> CASE PolicySays[g] = "allow" -> "lease"
                        [] PolicySays[g] = "deny" -> "threw"
                        [] OTHER -> "waiting",
             attempt |-> @.attempt + 1,
             via |-> IF PolicySays[g] = "allow" THEN "policy" ELSE "none"]]
    /\ UNCHANGED <<results, uses, legacyAllowed, executed, recorded, persisted>>

-----------------------------------------------------------------------------
(***************************************************************************)
(* The approval provider.                                                  *)
(***************************************************************************)

\* It decides a request it has received, once, at any time.
ProviderDecides(a, decision) ==
    /\ guarded[a[1]].attempt >= a[2]
    /\ PolicySays[a[1]] = "needs_approval"
    /\ \A r \in results : r.request # a
    /\ results' = results \cup {[request |-> a, decision |-> decision]}
    /\ UNCHANGED <<guarded, uses, legacyAllowed, executed, recorded, persisted>>

\* Mutant of ResultApplies: only the guarded function is compared.
BindsAction(r, a) == r.request[1] = a[1]

\* applyApprovalResult: the result must be about the request of this call.
ResultApplies(r, a) == r.request = a

\* The provider returns an ApprovalResult before the deadline.
AnswerResult(g, r) ==
    /\ In(g, "waiting")
    /\ r \in results
    /\ guarded' = [guarded EXCEPT ![g] =
            [@ EXCEPT !.step = IF ResultApplies(r, This(g)) /\ r.decision = "allow"
                               THEN "lease" ELSE "threw",
                      !.via = "result"]]
    /\ UNCHANGED <<results, uses, legacyAllowed, executed, recorded, persisted>>

\* approvalAction of an answer in the legacy form; a provider of version 1.1
\* must not decide in it.
AnswerLegacy(g, action) ==
    /\ In(g, "waiting")
    /\ IF LegacyProvider /\ action = "allow"
       THEN /\ guarded' = [guarded EXCEPT ![g] = [@ EXCEPT !.step = "lease", !.via = "legacy"]]
            /\ legacyAllowed' = legacyAllowed \cup {This(g)}
       ELSE Goes(g, "threw") /\ UNCHANGED legacyAllowed
    /\ UNCHANGED <<results, uses, executed, recorded, persisted>>

\* withProviderDeadline: the race is lost; what comes later is not looked at.
ProviderDeadline(g) ==
    /\ In(g, "waiting")
    /\ Goes(g, "threw")
    /\ UNCHANGED <<results, uses, legacyAllowed, executed, recorded, persisted>>

-----------------------------------------------------------------------------
(***************************************************************************)
(* Lease, execution and evidence.                                          *)
(***************************************************************************)

\* A lease on approval first binds the result, which can be done once; then
\* the lease, whose id is fresh, is consumed.  Either may fail.  The modes
\* manual and off take no lease; the contract of the effect may still throw.
TakeLease(g) ==
    /\ In(g, "lease")
    /\ LET binds == g \in Automatic /\ guarded[g].via = "result"
       IN  \/ /\ binds => This(g) \notin uses
              /\ uses' = IF binds THEN uses \cup {This(g)} ELSE uses
              /\ Goes(g, "execute")
           \/ /\ Goes(g, "threw")
              /\ uses' \in IF binds THEN {uses, uses \cup {This(g)}} ELSE {uses}
    /\ UNCHANGED <<results, legacyAllowed, executed, recorded, persisted>>

\* The function of the tool runs; it returns or throws.  Without a lease
\* nothing follows.
Execute(g) ==
    /\ In(g, "execute")
    /\ executed' = executed \cup {This(g)}
    /\ Goes(g, IF g \in Automatic THEN "verify" ELSE "unrecorded")
    /\ UNCHANGED <<results, uses, legacyAllowed, recorded, persisted>>

\* verifyGuardedEffect and decideEffectRetry.  An exception of the tool's own
\* verifier or probe leaves the call without a trace of its effect.
VerifyEffect(g) ==
    /\ In(g, "verify")
    /\ \E next \in {"record", "threw"} : Goes(g, next)
    /\ UNCHANGED <<results, uses, legacyAllowed, executed, recorded, persisted>>

\* The effect event is appended to the evidence before the state is written.
RecordEffect(g) ==
    /\ In(g, "record")
    /\ \/ recorded' = recorded \cup {This(g)} /\ Goes(g, "persist")
       \/ UNCHANGED recorded /\ Goes(g, "threw")
    /\ UNCHANGED <<results, uses, legacyAllowed, executed, persisted>>

\* The verdicts that leave an effect to be reconciled.
Unresolved == {"partial_or_ambiguous", "unknown", "invalid"}

\* persistEffectState picks the bucket by the verdict.
Bucket(state) == IF state \in Unresolved THEN "pending" ELSE "resolved"

PersistEffect(g, state) ==
    /\ In(g, "persist")
    /\ \/ /\ persisted' = [persisted EXCEPT ![This(g)] = Bucket(state)]
          /\ guarded' = [guarded EXCEPT ![g] = [@ EXCEPT !.step = "returned", !.via = state]]
       \/ UNCHANGED persisted /\ Goes(g, "threw")
    /\ UNCHANGED <<results, uses, legacyAllowed, executed, recorded>>

\* The process dies: the promises of all calls are gone.
SdkDies ==
    /\ \E g \in Guards : guarded[g].step \notin AtRest
    /\ guarded' = [g \in Guards |-> [guarded[g] EXCEPT !.step = "idle"]]
    /\ UNCHANGED <<results, uses, legacyAllowed, executed, recorded, persisted>>

GuardNext ==
    \/ SdkDies
    \/ \E g \in Guards :
          \/ Invoke(g) \/ ProviderDeadline(g) \/ TakeLease(g) \/ Execute(g)
          \/ VerifyEffect(g) \/ RecordEffect(g)
          \/ \E r \in results : AnswerResult(g, r)
          \/ \E action \in {"allow", "deny", "needs_approval"} : AnswerLegacy(g, action)
          \/ \E state \in Unresolved \cup {"confirmed_success", "confirmed_failure"} :
                PersistEffect(g, state)
    \/ \E a \in Attempts, decision \in {"allow", "deny"} : ProviderDecides(a, decision)

GuardSpec == GuardInit /\ [][GuardNext]_guardVars

-----------------------------------------------------------------------------
\* A guarded function runs only when the policy allows it, when the provider
\* decided to allow this very request, or when a legacy provider allowed it
\* before the deadline: neither a late answer nor the answer to an earlier
\* attempt is enough (provider.js:18, contract.js:63).
ExecutedWasAllowed ==
    \A a \in executed :
        \/ PolicySays[a[1]] = "allow"
        \/ [request |-> a, decision |-> "allow"] \in results
        \/ LegacyProvider /\ a \in legacyAllowed

\* When a call guarded in the automatic mode returns, its effect is in the evidence and its state is
\* on disk, pending as long as the effect is not settled; a state on disk has
\* its event in the evidence (client.js:296-303).
ReturnedIsPersisted ==
    /\ \A g \in Guards : In(g, "returned") =>
          /\ This(g) \in recorded
          /\ persisted[This(g)] = IF guarded[g].via \in {"confirmed_success", "confirmed_failure"}
                                  THEN "resolved" ELSE "pending"
    /\ \A a \in Attempts : persisted[a] # "none" => a \in recorded \cap executed

\* A guarded function runs only on a permission for this very call, in every
\* receiptMode, and in the automatic one its caller hears of it only after it
\* is recorded (runtime/client.js).
CallsAreAllowedAndRecorded == ExecutedWasAllowed /\ ReturnedIsPersisted
=============================================================================
