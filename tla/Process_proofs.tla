-------------------------- MODULE Process_proofs --------------------------
(***************************************************************************)
(* Proofs about four components of one process: GuardedCall, for any       *)
(* number of guarded functions and of attempts, whatever the policy says   *)
(* and of whichever version the provider is; HttpGateway, for any number   *)
(* of requests, any batches and any refresh interval; CrashLab, for any    *)
(* scenarios, number of attempts and of actors; and                        *)
(* ProtectedQualification, for any checks, allowed paths and number of     *)
(* changes by others.                                                      *)
(***************************************************************************)
EXTENDS GuardedCall, HttpGateway, CrashLab, ProtectedQualification, FiniteSetTheorems, TLAPS

---------------------------------------------------------------------------
(* Guarded calls: the inductive invariant.                                 *)

Steps == AtRest \cup {"waiting", "lease", "execute", "verify", "record", "persist"}
Definite == {"confirmed_success", "confirmed_failure"}
Ways == {"none", "policy", "result", "legacy"} \cup Unresolved \cup Definite

CallRecords == [step : Steps, attempt : 0 .. MaxAttempts, via : Ways]
ResultRecords == [request : Attempts, decision : {"allow", "deny"}]

TypeOK ==
    /\ guarded \in [Guards -> CallRecords]
    /\ results \subseteq ResultRecords
    /\ uses \subseteq Attempts /\ legacyAllowed \subseteq Attempts
    /\ executed \subseteq Attempts /\ recorded \subseteq Attempts
    /\ persisted \in [Attempts -> {"none", "pending", "resolved"}]

\* A call that is not idle has its attempt.
BegunOK == \A g \in Guards : guarded[g].step # "idle" => guarded[g].attempt # 0

\* The permission for an attempt, from one of the three sources.
Grants(a, legacy) ==
    \/ PolicySays[a[1]] = "allow"
    \/ [request |-> a, decision |-> "allow"] \in results
    \/ LegacyProvider /\ a \in legacy
Permitted(a) == Grants(a, legacyAllowed)

\* A call on its way to the function is permitted; one past it was executed,
\* and is recorded before its state is written.
PermitOK == \A g \in Guards : guarded[g].step \in {"lease", "execute"} => Permitted(This(g))
DoneOK == \A g \in Guards :
    /\ guarded[g].step \in {"verify", "record", "persist", "returned"} => This(g) \in executed
    /\ guarded[g].step \in {"persist", "returned"} => This(g) \in recorded

\* A returned call has its verdict, and the state written is that verdict's.
ReturnedOK == \A g \in Guards : guarded[g].step = "returned" =>
    /\ guarded[g].via \in Unresolved \cup Definite
    /\ persisted[This(g)] = Bucket(guarded[g].via)

PersistedOK == \A a \in Attempts : persisted[a] # "none" => a \in recorded \cap executed

IInv == /\ TypeOK /\ BegunOK /\ PermitOK /\ DoneOK /\ ReturnedOK /\ PersistedOK
        /\ ExecutedWasAllowed

---------------------------------------------------------------------------
(* Guarded calls: the actions.                                             *)

\* A returned call's bucket is the one ReturnedIsPersisted asks for.
LEMMA BucketOfVerdict ==
    ASSUME NEW v \in Unresolved \cup Definite
    PROVE  Bucket(v) = IF v \in {"confirmed_success", "confirmed_failure"}
                       THEN "resolved" ELSE "pending"
BY DEF Bucket, Unresolved, Definite

\* The property of the run is part of the invariant.
LEMMA InvariantImplies == IInv => CallsAreAllowedAndRecorded
<1> SUFFICES ASSUME IInv PROVE CallsAreAllowedAndRecorded
    OBVIOUS
<1>1. ASSUME NEW g \in Guards, In(g, "returned")
      PROVE  /\ This(g) \in recorded
             /\ persisted[This(g)] = IF guarded[g].via \in {"confirmed_success",
                "confirmed_failure"}
                                     THEN "resolved" ELSE "pending"
  BY <1>1, BucketOfVerdict DEF IInv, DoneOK, ReturnedOK, In
<1> QED
  BY <1>1 DEF IInv, PersistedOK, ReturnedIsPersisted, CallsAreAllowedAndRecorded

\* What an action must establish that moves the call of g to c and only adds
\* to what is known: the permission of a call on its way, and the traces of
\* one that is past its function.
LEMMA CallMoves ==
    ASSUME IInv, NEW g \in Guards, NEW c \in CallRecords,
           guarded' = [guarded EXCEPT ![g] = c],
           c.step # "idle" => c.attempt # 0,
           results' = results, uses' \subseteq Attempts,
           legacyAllowed \subseteq legacyAllowed', legacyAllowed' \subseteq Attempts,
           executed' = executed \/ (executed' = executed \cup {This(g)} /\ Permitted(This(g))),
           recorded \subseteq recorded', recorded' \subseteq Attempts,
           \/ persisted' = persisted
           \/ /\ persisted' = [persisted EXCEPT ![This(g)] = Bucket(c.via)]
              /\ This(g) \in recorded \cap executed,
           This(g) \in Attempts \/ executed' = executed,
           c.step \in {"lease", "execute"} => Grants(<<g, c.attempt>>, legacyAllowed'),
           c.step \in {"verify", "record", "persist", "returned"} => <<g, c.attempt>> \in executed',
           c.step \in {"persist", "returned"} => <<g, c.attempt>> \in recorded',
           c.step = "returned" => /\ c.via \in Unresolved \cup Definite
                                  /\ persisted'[<<g, c.attempt>>] = Bucket(c.via)
    PROVE  IInv'
<1>1. TypeOK'
  <2>1. guarded' \in [Guards -> CallRecords]
    BY DEF IInv, TypeOK
  <2>2. executed \subseteq executed' /\ executed' \subseteq Attempts
    BY DEF IInv, TypeOK
  <2>3. persisted' \in [Attempts -> {"none", "pending", "resolved"}]
    BY DEF IInv, TypeOK, Bucket
  <2> QED
    BY <2>1, <2>2, <2>3 DEF IInv, TypeOK
<1>2. /\ guarded'[g] = c
      /\ This(g)' = <<g, c.attempt>>
      /\ \A h \in Guards \ {g} : guarded'[h] = guarded[h] /\ This(h)' = This(h) /\ This(h) # This(g)
  BY DEF IInv, TypeOK, This
<1>3. BegunOK'
  BY <1>2 DEF IInv, BegunOK
<1>4. executed \subseteq executed'
  OBVIOUS
<1>5. \A a : Permitted(a) => Permitted(a)'
  BY DEF Permitted, Grants
<1>6. PermitOK'
  <2> SUFFICES ASSUME NEW h \in Guards, guarded'[h].step \in {"lease", "execute"}
               PROVE  Permitted(This(h))'
    BY DEF PermitOK
  <2>1. CASE h = g
    BY <2>1, <1>2 DEF Permitted, Grants
  <2>2. CASE h # g
    <3>1. Permitted(This(h))
      BY <2>2, <1>2 DEF IInv, PermitOK
    <3> QED
      BY <2>2, <3>1, <1>2 DEF Permitted, Grants
  <2> QED
    BY <2>1, <2>2
<1>7. DoneOK'
  BY <1>2, <1>4 DEF IInv, DoneOK
<1>8. ReturnedOK'
  <2> SUFFICES ASSUME NEW h \in Guards, guarded'[h].step = "returned"
               PROVE  /\ guarded'[h].via \in Unresolved \cup Definite
                      /\ persisted'[This(h)'] = Bucket(guarded'[h].via)
    BY DEF ReturnedOK, Bucket
  <2>1. CASE h = g
    BY <2>1, <1>2
  <2>2. CASE h # g
    <3>1. This(h) \in Attempts
      BY <2>2, <1>2 DEF IInv, DoneOK, TypeOK
    <3> QED
      BY <2>2, <1>2, <3>1 DEF IInv, TypeOK, ReturnedOK
  <2> QED
    BY <2>1, <2>2
<1>9. PersistedOK'
  BY <1>4 DEF IInv, TypeOK, PersistedOK
<1>10. ExecutedWasAllowed'
  <2> SUFFICES ASSUME NEW a \in executed' PROVE Permitted(a)'
    BY DEF ExecutedWasAllowed, Permitted, Grants
  <2>1. Permitted(a)
    BY DEF IInv, ExecutedWasAllowed, Permitted, Grants
  <2> QED
    BY <2>1, <1>5
<1> QED
  BY <1>1, <1>3, <1>6, <1>7, <1>8, <1>9, <1>10 DEF IInv

\* A call that moves to a step stays a call record of the same attempt.
LEMMA StepTo ==
    ASSUME TypeOK, NEW g \in Guards, NEW s \in Steps
    PROVE  /\ [guarded[g] EXCEPT !.step = s] \in CallRecords
           /\ [guarded[g] EXCEPT !.step = s].step = s
           /\ [guarded[g] EXCEPT !.step = s].attempt = guarded[g].attempt
BY DEF TypeOK, CallRecords

\* A begun call's attempt is one.
LEMMA BegunAttempt ==
    ASSUME IInv, NEW g \in Guards, guarded[g].step # "idle"
    PROVE  This(g) \in Attempts /\ guarded[g].attempt # 0
<1>1. guarded[g].attempt \in 0 .. MaxAttempts /\ guarded[g].attempt # 0
  BY DEF IInv, TypeOK, BegunOK, CallRecords
<1> QED
  BY <1>1, GuardAssumption DEF This, Attempts

\* The agent calls, and the policy decides whether the call waits.
LEMMA InvokeStep == ASSUME IInv, NEW g \in Guards, Invoke(g) PROVE IInv'
<1> DEFINE c == [step |-> CASE PolicySays[g] = "allow" -> "lease"
                            [] PolicySays[g] = "deny" -> "threw"
                            [] OTHER -> "waiting",
                 attempt |-> guarded[g].attempt + 1,
                 via |-> IF PolicySays[g] = "allow" THEN "policy" ELSE "none"]
<1>1. /\ guarded[g].attempt \in 0 .. MaxAttempts
      /\ guarded[g].attempt < MaxAttempts
  BY DEF Invoke, IInv, TypeOK, CallRecords
<1>2. c.step \in {"lease", "threw", "waiting"} /\ (c.step = "lease" => PolicySays[g] = "allow")
  BY GuardAssumption
<1>3. c \in CallRecords /\ c.attempt # 0
  BY <1>1, <1>2, GuardAssumption DEF CallRecords, Steps, Ways, AtRest
<1>4. guarded' = [guarded EXCEPT ![g] = c]
  BY DEF Invoke, IInv, TypeOK
<1>5. UNCHANGED <<results, uses, legacyAllowed, executed, recorded, persisted>>
  BY DEF Invoke
<1>6. c.step = "lease" => Grants(<<g, c.attempt>>, legacyAllowed')
  BY <1>2 DEF Permitted, Grants
<1>7. /\ uses \subseteq Attempts /\ legacyAllowed \subseteq Attempts /\ recorded \subseteq Attempts
  BY DEF IInv, TypeOK
<1> HIDE DEF c
<1> QED
  BY <1>2, <1>3, <1>4, <1>5, <1>6, <1>7, CallMoves

\* A call that only moves, to a step that asks nothing of the call.
LEMMA ThrowStep ==
    ASSUME IInv, NEW g \in Guards, guarded[g].step # "idle", Goes(g, "threw"),
           uses' \subseteq Attempts,
           UNCHANGED <<results, legacyAllowed, executed, recorded, persisted>>
    PROVE  IInv'
<1> DEFINE c == [guarded[g] EXCEPT !.step = "threw"]
<1>1. c \in CallRecords /\ c.step = "threw" /\ c.attempt = guarded[g].attempt
  BY StepTo DEF IInv, Steps, AtRest, Ways
<1>2. guarded' = [guarded EXCEPT ![g] = c]
  BY DEF Goes
<1>3. /\ legacyAllowed \subseteq Attempts /\ recorded \subseteq Attempts /\ c.attempt # 0
  BY <1>1, BegunAttempt DEF IInv, TypeOK
<1> HIDE DEF c
<1> QED
  BY <1>1, <1>2, <1>3, CallMoves

\* An ApprovalResult counts only when it is about the request of this call.
LEMMA AnswerResultStep ==
    ASSUME IInv, NEW g \in Guards, NEW r \in results, AnswerResult(g, r) PROVE IInv'
<1> DEFINE s == IF ResultApplies(r, This(g)) /\ r.decision = "allow" THEN "lease" ELSE "threw"
           c == [guarded[g] EXCEPT !.step = s, !.via = "result"]
<1>1. /\ In(g, "waiting")
      /\ guarded' = [guarded EXCEPT ![g] = c]
      /\ UNCHANGED <<results, uses, legacyAllowed, executed, recorded, persisted>>
  BY DEF AnswerResult
<1>2. s \in {"lease", "threw"} /\ (s = "lease" => r.request = This(g) /\ r.decision = "allow")
  BY DEF ResultApplies
<1>3. s = "lease" => [request |-> This(g), decision |-> "allow"] \in results
  <2>1. r \in ResultRecords
    BY DEF IInv, TypeOK
  <2>2. r = [request |-> r.request, decision |-> r.decision]
    BY <2>1 DEF ResultRecords
  <2> QED
    BY <1>2, <2>2
<1> HIDE DEF s
<1>4. c \in CallRecords /\ c.step = s /\ c.attempt = guarded[g].attempt
  <2>1. s \in Steps /\ "result" \in Ways /\ TypeOK
    BY <1>2 DEF Steps, AtRest, Ways, IInv
  <2> QED
    BY <2>1 DEF TypeOK, CallRecords
<1>5. /\ uses \subseteq Attempts /\ legacyAllowed \subseteq Attempts /\ recorded \subseteq Attempts
      /\ c.attempt # 0
  BY <1>1, <1>4, BegunAttempt DEF IInv, TypeOK, In
<1> HIDE DEF c
<1>6. c.step = "lease" => Grants(<<g, c.attempt>>, legacyAllowed')
  BY <1>1, <1>3, <1>4 DEF Permitted, Grants, This
<1> QED
  BY <1>1, <1>2, <1>4, <1>5, <1>6, CallMoves

\* An answer in the legacy form counts for a provider of version 1.0 only.
LEMMA AnswerLegacyStep ==
    ASSUME IInv, NEW g \in Guards, NEW action, AnswerLegacy(g, action) PROVE IInv'
<1> DEFINE c == [guarded[g] EXCEPT !.step = "lease", !.via = "legacy"]
<1>1. /\ In(g, "waiting")
      /\ UNCHANGED <<results, uses, executed, recorded, persisted>>
  BY DEF AnswerLegacy
<1>2. /\ uses \subseteq Attempts /\ legacyAllowed \subseteq Attempts /\ recorded \subseteq Attempts
      /\ guarded[g].attempt # 0 /\ This(g) \in Attempts
  BY <1>1, BegunAttempt DEF IInv, TypeOK, In
<1>3. CASE LegacyProvider /\ action = "allow"
  <2>1. /\ guarded' = [guarded EXCEPT ![g] = c]
        /\ legacyAllowed' = legacyAllowed \cup {This(g)}
    BY <1>3 DEF AnswerLegacy
  <2>2. c \in CallRecords /\ c.step = "lease" /\ c.attempt = guarded[g].attempt
    <3>1. "lease" \in Steps /\ "legacy" \in Ways /\ TypeOK
      BY DEF Steps, AtRest, Ways, IInv
    <3> QED
      BY <3>1 DEF TypeOK, CallRecords
  <2> HIDE DEF c
  <2>3. Grants(<<g, c.attempt>>, legacyAllowed')
    BY <1>3, <2>1, <2>2 DEF Permitted, Grants, This
  <2> QED
    BY <1>1, <1>2, <2>1, <2>2, <2>3, CallMoves
<1>4. CASE ~(LegacyProvider /\ action = "allow")
  <2>1. Goes(g, "threw") /\ UNCHANGED legacyAllowed
    BY <1>4 DEF AnswerLegacy
  <2> QED
    BY <1>1, <1>2, <2>1, ThrowStep DEF In
<1> QED
  BY <1>3, <1>4

\* The deadline of the provider passes.
LEMMA ProviderDeadlineStep == ASSUME IInv, NEW g \in Guards, ProviderDeadline(g) PROVE IInv'
BY ThrowStep DEF ProviderDeadline, In, IInv, TypeOK

\* The lease is consumed, or the call fails.
LEMMA TakeLeaseStep == ASSUME IInv, NEW g \in Guards, TakeLease(g) PROVE IInv'
<1> DEFINE c == [guarded[g] EXCEPT !.step = "execute"]
<1>1. /\ In(g, "lease")
      /\ UNCHANGED <<results, legacyAllowed, executed, recorded, persisted>>
      /\ Goes(g, "execute") \/ Goes(g, "threw")
  BY DEF TakeLease
<1>2. /\ legacyAllowed \subseteq Attempts /\ recorded \subseteq Attempts
      /\ guarded[g].attempt # 0 /\ This(g) \in Attempts
  BY <1>1, BegunAttempt DEF IInv, TypeOK, In
<1>3. uses' \subseteq Attempts
  BY <1>2 DEF TakeLease, IInv, TypeOK
<1>4. CASE Goes(g, "execute")
  <2>1. c \in CallRecords /\ c.step = "execute" /\ c.attempt = guarded[g].attempt
    BY StepTo DEF IInv, Steps, AtRest, Ways
  <2>2. guarded' = [guarded EXCEPT ![g] = c]
    BY <1>4 DEF Goes
  <2> HIDE DEF c
  <2>3. Permitted(<<g, c.attempt>>)
    BY <1>1, <2>1 DEF IInv, PermitOK, In, This
  <2>4. Grants(<<g, c.attempt>>, legacyAllowed')
    BY <1>1, <2>3 DEF Permitted
  <2> QED
    BY <1>1, <1>2, <1>3, <2>1, <2>2, <2>4, CallMoves
<1>5. CASE Goes(g, "threw")
  BY <1>1, <1>3, <1>5, ThrowStep DEF In
<1> QED
  BY <1>1, <1>4, <1>5

\* The function runs, on the permission that the lease was taken on.
LEMMA ExecuteStep == ASSUME IInv, NEW g \in Guards, Execute(g) PROVE IInv'
<1> DEFINE s == IF g \in Automatic THEN "verify" ELSE "unrecorded"
           c == [guarded[g] EXCEPT !.step = s]
<1>1. /\ In(g, "execute")
      /\ executed' = executed \cup {This(g)}
      /\ guarded' = [guarded EXCEPT ![g] = c]
      /\ UNCHANGED <<results, uses, legacyAllowed, recorded, persisted>>
  BY DEF Execute, Goes
<1>2. /\ uses \subseteq Attempts /\ legacyAllowed \subseteq Attempts /\ recorded \subseteq Attempts
      /\ guarded[g].attempt # 0 /\ This(g) \in Attempts
  BY <1>1, BegunAttempt DEF IInv, TypeOK, In
<1>3. s \in {"verify", "unrecorded"} /\ s \in Steps
  BY DEF Steps, AtRest
<1> HIDE DEF s
<1>4. c \in CallRecords /\ c.step = s /\ c.attempt = guarded[g].attempt
  BY <1>3, StepTo DEF IInv, Ways
<1>5. Permitted(This(g))
  BY <1>1 DEF IInv, PermitOK, In
<1> HIDE DEF c
<1>6. <<g, c.attempt>> \in executed'
  BY <1>1, <1>4 DEF This
<1> QED
  BY <1>1, <1>2, <1>3, <1>4, <1>5, <1>6, CallMoves

\* The effect is verified, or the verifier throws.
LEMMA VerifyEffectStep == ASSUME IInv, NEW g \in Guards, VerifyEffect(g) PROVE IInv'
<1> DEFINE c == [guarded[g] EXCEPT !.step = "record"]
<1>1. /\ In(g, "verify")
      /\ Goes(g, "record") \/ Goes(g, "threw")
      /\ UNCHANGED <<results, uses, legacyAllowed, executed, recorded, persisted>>
  BY DEF VerifyEffect
<1>2. /\ uses \subseteq Attempts /\ legacyAllowed \subseteq Attempts /\ recorded \subseteq Attempts
      /\ guarded[g].attempt # 0 /\ This(g) \in executed
  BY <1>1, BegunAttempt DEF IInv, TypeOK, In, DoneOK
<1>3. CASE Goes(g, "record")
  <2>1. c \in CallRecords /\ c.step = "record" /\ c.attempt = guarded[g].attempt
    BY StepTo DEF IInv, Steps, AtRest, Ways
  <2>2. guarded' = [guarded EXCEPT ![g] = c]
    BY <1>3 DEF Goes
  <2> HIDE DEF c
  <2>3. <<g, c.attempt>> \in executed'
    BY <1>1, <1>2, <2>1 DEF This
  <2> QED
    BY <1>1, <1>2, <2>1, <2>2, <2>3, CallMoves
<1>4. CASE Goes(g, "threw")
  BY <1>1, <1>2, <1>4, ThrowStep DEF In
<1> QED
  BY <1>1, <1>3, <1>4

\* The event is appended, or the recorder throws.
LEMMA RecordEffectStep == ASSUME IInv, NEW g \in Guards, RecordEffect(g) PROVE IInv'
<1> DEFINE c == [guarded[g] EXCEPT !.step = "persist"]
<1>1. /\ In(g, "record")
      /\ \/ recorded' = recorded \cup {This(g)} /\ Goes(g, "persist")
         \/ UNCHANGED recorded /\ Goes(g, "threw")
      /\ UNCHANGED <<results, uses, legacyAllowed, executed, persisted>>
  BY DEF RecordEffect
<1>2. /\ uses \subseteq Attempts /\ legacyAllowed \subseteq Attempts /\ recorded \subseteq Attempts
      /\ guarded[g].attempt # 0 /\ This(g) \in executed /\ This(g) \in Attempts
  BY <1>1, BegunAttempt DEF IInv, TypeOK, In, DoneOK
<1>3. CASE recorded' = recorded \cup {This(g)} /\ Goes(g, "persist")
  <2>1. c \in CallRecords /\ c.step = "persist" /\ c.attempt = guarded[g].attempt
    BY StepTo DEF IInv, Steps, AtRest, Ways
  <2>2. guarded' = [guarded EXCEPT ![g] = c]
    BY <1>3 DEF Goes
  <2> HIDE DEF c
  <2>3. <<g, c.attempt>> \in executed' /\ <<g, c.attempt>> \in recorded'
    BY <1>1, <1>2, <1>3, <2>1 DEF This
  <2> QED
    BY <1>1, <1>2, <1>3, <2>1, <2>2, <2>3, CallMoves
<1>4. CASE UNCHANGED recorded /\ Goes(g, "threw")
  BY <1>1, <1>2, <1>4, ThrowStep DEF In
<1> QED
  BY <1>1, <1>3, <1>4

\* The state is written to the bucket of its verdict, or the write throws.
LEMMA PersistEffectStep ==
    ASSUME IInv, NEW g \in Guards, NEW state \in Unresolved \cup Definite, PersistEffect(g, state)
    PROVE  IInv'
<1> DEFINE c == [guarded[g] EXCEPT !.step = "returned", !.via = state]
<1>1. /\ In(g, "persist")
      /\ \/ /\ persisted' = [persisted EXCEPT ![This(g)] = Bucket(state)]
            /\ guarded' = [guarded EXCEPT ![g] = c]
         \/ UNCHANGED persisted /\ Goes(g, "threw")
      /\ UNCHANGED <<results, uses, legacyAllowed, executed, recorded>>
  BY DEF PersistEffect
<1>2. /\ uses \subseteq Attempts /\ legacyAllowed \subseteq Attempts /\ recorded \subseteq Attempts
      /\ guarded[g].attempt # 0 /\ This(g) \in executed /\ This(g) \in recorded
      /\ This(g) \in Attempts
  BY <1>1, BegunAttempt DEF IInv, TypeOK, In, DoneOK
<1>3. CASE /\ persisted' = [persisted EXCEPT ![This(g)] = Bucket(state)]
           /\ guarded' = [guarded EXCEPT ![g] = c]
  <2>1. c \in CallRecords /\ c.step = "returned" /\ c.attempt = guarded[g].attempt /\ c.via = state
    <3>1. "returned" \in Steps /\ state \in Ways /\ TypeOK
      BY DEF Steps, AtRest, Ways, IInv
    <3> QED
      BY <3>1 DEF TypeOK, CallRecords
  <2> HIDE DEF c
  <2>2. <<g, c.attempt>> = This(g)
    BY <2>1 DEF This
  <2>3. persisted'[This(g)] = Bucket(c.via)
    BY <1>2, <1>3, <2>1 DEF IInv, TypeOK
  <2> QED
    BY <1>1, <1>2, <1>3, <2>1, <2>2, <2>3, CallMoves
<1>4. CASE UNCHANGED persisted /\ Goes(g, "threw")
  BY <1>1, <1>2, <1>4, ThrowStep DEF In
<1> QED
  BY <1>1, <1>3, <1>4

\* The provider decides a request: what was permitted stays permitted.
LEMMA ProviderDecidesStep ==
    ASSUME IInv, NEW a \in Attempts, NEW decision \in {"allow", "deny"},
           ProviderDecides(a, decision)
    PROVE  IInv'
<1>1. /\ results \subseteq results'
      /\ results' = results \cup {[request |-> a, decision |-> decision]}
      /\ UNCHANGED <<guarded, uses, legacyAllowed, executed, recorded, persisted>>
  BY DEF ProviderDecides
<1>2. TypeOK'
  BY <1>1 DEF IInv, TypeOK, ResultRecords
<1>3. \A b : Permitted(b) => Permitted(b)'
  BY <1>1 DEF Permitted, Grants
<1>4. BegunOK' /\ DoneOK' /\ ReturnedOK' /\ PersistedOK'
  BY <1>1 DEF IInv, BegunOK, DoneOK, ReturnedOK, PersistedOK, This
<1>5. PermitOK' /\ ExecutedWasAllowed'
  BY <1>1 DEF IInv, PermitOK, ExecutedWasAllowed, Permitted, Grants, This
<1> QED
  BY <1>2, <1>4, <1>5 DEF IInv

\* The process dies: nothing that is on disk changes.
LEMMA SdkDiesStep == ASSUME IInv, SdkDies PROVE IInv'
<1>1. /\ guarded' = [g \in Guards |-> [guarded[g] EXCEPT !.step = "idle"]]
      /\ UNCHANGED <<results, uses, legacyAllowed, executed, recorded, persisted>>
  BY DEF SdkDies
<1>2. \A g \in Guards : guarded'[g] \in CallRecords /\ guarded'[g].step = "idle"
  <2> SUFFICES ASSUME NEW g \in Guards
               PROVE  guarded'[g] \in CallRecords /\ guarded'[g].step = "idle"
    OBVIOUS
  <2>1. guarded'[g] = [guarded[g] EXCEPT !.step = "idle"]
    BY <1>1
  <2>2. "idle" \in Steps /\ TypeOK
    BY DEF Steps, AtRest, IInv
  <2> QED
    BY <2>1, <2>2, StepTo
<1>3. TypeOK'
  BY <1>1, <1>2 DEF IInv, TypeOK
<1>4. BegunOK' /\ PermitOK' /\ DoneOK' /\ ReturnedOK'
  BY <1>2 DEF BegunOK, PermitOK, DoneOK, ReturnedOK
<1>5. PersistedOK' /\ ExecutedWasAllowed'
  BY <1>1 DEF IInv, PersistedOK, ExecutedWasAllowed
<1> QED
  BY <1>3, <1>4, <1>5 DEF IInv

---------------------------------------------------------------------------
(* Guarded calls: the theorem.                                             *)

\* A guarded function runs only when the policy allows it, or the provider
\* allowed this very attempt, and in time where the answer is a legacy one; a
\* call that returns is in the evidence and its state in the bucket of its
\* verdict, and no state is on disk without its event.  This holds for every
\* policy and provider, however many attempts are made after exceptions,
\* late answers and deaths of the process.
THEOREM GuardedCallsAccountable == GuardSpec => []CallsAreAllowedAndRecorded
<1>1. GuardInit => IInv
  BY GuardAssumption DEF GuardInit, IInv, TypeOK, BegunOK, PermitOK, DoneOK, ReturnedOK,
     PersistedOK,
     ExecutedWasAllowed, CallRecords, Steps, AtRest, Ways
<1>2. IInv /\ [GuardNext]_guardVars => IInv'
  <2> SUFFICES ASSUME IInv, [GuardNext]_guardVars PROVE IInv'
    OBVIOUS
  <2>1. CASE UNCHANGED guardVars
    <3>1. UNCHANGED <<guarded, results, uses, legacyAllowed, executed, recorded, persisted>>
      BY <2>1 DEF guardVars
    <3>2. TypeOK' /\ BegunOK' /\ DoneOK' /\ ReturnedOK' /\ PersistedOK'
      BY <3>1 DEF IInv, TypeOK, BegunOK, DoneOK, ReturnedOK, PersistedOK, This
    <3>3. PermitOK' /\ ExecutedWasAllowed'
      BY <3>1 DEF IInv, PermitOK, ExecutedWasAllowed, Permitted, Grants, This
    <3> QED
      BY <3>2, <3>3 DEF IInv
  <2>2. CASE GuardNext
    BY <2>2, SdkDiesStep, InvokeStep, ProviderDeadlineStep, TakeLeaseStep, ExecuteStep,
       VerifyEffectStep, RecordEffectStep, AnswerResultStep, AnswerLegacyStep, PersistEffectStep,
       ProviderDecidesStep, Zenon DEF GuardNext, Definite
  <2> QED
    BY <2>1, <2>2
<1> QED
  BY <1>1, <1>2, InvariantImplies, PTL DEF GuardSpec

---------------------------------------------------------------------------
(* The review of candidates: the inductive invariant.                      *)

Scans == {"start", "ingest", "base", "cand", "after", "rebound"}
Contents == [TreePaths -> FileContents]
Outcomes == [exit : 0 .. 1, completed : BOOLEAN]
Results == [outcome : Outcomes, status : {"PASS", "FAIL", "UNKNOWN"}]
Before == {"start", "ingest", "base", "cand", "load", "scope", "snapshot"}
Checking == {"oracle", "after", "rebound", "judge"}
Reviews == [at : Before \cup Checking \cup {"finish", "stopped"}, next : 1 .. 3, injected : BOOLEAN,
            zipped : BOOLEAN, results : Seq(Results), outcome : Seq(Outcomes),
            seen : [Scans -> [TreePaths -> FileContents \cup {"unreadable"}]]]

ReviewTypes ==
    /\ trees \in [{"base", "cand", "snap"} -> Contents]
    /\ review \in Reviews
    /\ ran \in Seq(Contents)
    /\ review.seen["cand"] \in Contents
    /\ review.at \in Checking \ {"oracle"} => review.outcome # <<>>
    /\ review.at \in {"load", "scope", "oracle", "judge"} => review.next = 1

\* Nothing is run or reported before the snapshot is there.
NothingOK == review.at \in Before => ran = <<>> /\ review.results = <<>>

\* What the checks are of, once the scans have been compared.
SameAsBase(seen) == \A p \in ProtectedPaths : seen["cand"][p] = seen["base"][p]
Compared(seen) == /\ seen["base"] = seen["start"] /\ seen["cand"] = seen["ingest"]
                  /\ SameAsBase(seen)
BoundOK == /\ review.at = "scope" /\ Selected(review.seen["base"]) # <<>> => SameAsBase(review.seen)
           /\ review.at \in Checking \cup {"snapshot"} => Compared(review.seen)

\* The snapshot holds what the scan of the candidate saw, as far as it has
\* got; after a check its scan sees what is there.
SnapshotOK ==
    /\ review.at \in Before \ {"snapshot"} => trees["snap"] = NoTree
    /\ review.at = "snapshot" =>
          \A i \in 1 .. 3 : trees["snap"][ScanOrder[i]] =
              IF i < review.next THEN review.seen["cand"][ScanOrder[i]] ELSE "absent"
    /\ review.at = "oracle" => trees["snap"] = review.seen["cand"]
    /\ review.at = "after" =>
          \A i \in 1 .. 3 : i < review.next =>
              review.seen["after"][ScanOrder[i]] = trees["snap"][ScanOrder[i]]
    /\ review.at \in {"rebound", "judge"} =>
          review.seen["after"] \in {trees["snap"], Unreadable}

\* What has been run, and what passed.
RanOK == \A k \in DOMAIN ran : /\ ran[k] = review.seen["ingest"]
                               /\ \A p \in ProtectedPaths : ran[k][p] = review.seen["start"][p]
PassedOK == \A i \in DOMAIN review.results : review.results[i].status = "PASS" =>
    /\ review.results[i].outcome = [exit |-> 0, completed |-> TRUE]
    /\ review.at = "finish" => trees["snap"] = review.seen["ingest"]

\* An archive is extracted into a directory of its own: the scans of it see
\* one and the same tree.
ZippedOK == review.zipped =>
    /\ review.at \in {"ingest", "cand"} =>
          \A i \in 1 .. 3 : i < review.next =>
              review.seen[review.at][ScanOrder[i]] = trees["cand"][ScanOrder[i]]
    /\ review.at \in {"base", "cand", "load", "scope"} => review.seen["ingest"] = trees["cand"]
    /\ review.at \in {"load", "scope"} => review.seen["cand"] = trees["cand"]

ReviewInv == ReviewTypes /\ NothingOK /\ BoundOK /\ SnapshotOK /\ RanOK /\ PassedOK /\ ZippedOK

\* The three paths of a tree, in the order in which a scan reads them.
LEMMA Paths ==
    /\ TreePaths = {"policy", "script", "source"} /\ Len(ScanOrder) = 3
    /\ ScanOrder[1] = "policy" /\ ScanOrder[2] = "script" /\ ScanOrder[3] = "source"
    /\ DOMAIN Scanned = Scans /\ ProtectedPaths \subseteq TreePaths
    /\ NoTree \in Contents
BY DEF TreePaths, ScanOrder, Scanned, Scans, ProtectedPaths, NoTree, Contents, FileContents

\* Where a scan looks and what comes after it.
LEMMA ScanFacts ==
    /\ \A s \in Scans : Scanned[s] \in {"base", "cand", "snap"}
    /\ Scanned["after"] = "snap"
    /\ AfterScan["start"] = "ingest" /\ AfterScan["ingest"] = "base" /\ AfterScan["base"] = "cand"
    /\ AfterScan["cand"] = "load" /\ AfterScan["after"] = "rebound" /\ AfterScan["rebound"] = "judge"
BY DEF Scanned, AfterScan, Scans

\* Trees are the same if their three paths are.
LEMMA SameTree ==
    ASSUME NEW t \in [TreePaths -> FileContents \cup {"unreadable"}], NEW u \in Contents,
           \A i \in 1 .. 3 : t[ScanOrder[i]] = u[ScanOrder[i]]
    PROVE  t = u
<1>1. \A f \in TreePaths : t[f] = u[f]
  BY Paths
<1> QED
  BY <1>1 DEF Contents

\* A review that stops has run and passed nothing that it must account for.
LEMMA StopsStep ==
    ASSUME ReviewInv, Stops, review.at \in Before, UNCHANGED <<trees, ran>>
    PROVE  ReviewInv'
<1>1. review' = [review EXCEPT !.at = "stopped"] /\ review \in Reviews
  BY DEF Stops, ReviewInv, ReviewTypes
<1>2. /\ review' \in Reviews /\ review'.at = "stopped" /\ review'.seen = review.seen
      /\ review'.results = review.results /\ review'.outcome = review.outcome
  BY <1>1 DEF Reviews
<1>3. ReviewTypes'
  BY <1>2 DEF ReviewInv, ReviewTypes, Checking
<1>4. NothingOK' /\ BoundOK' /\ SnapshotOK'
  BY <1>2 DEF NothingOK, BoundOK, SnapshotOK, Before, Checking
<1>5. RanOK' /\ PassedOK' /\ ZippedOK'
  BY <1>2 DEF ReviewInv, RanOK, PassedOK, ZippedOK
<1> QED
  BY <1>3, <1>4, <1>5 DEF ReviewInv

\* Loading the policy leaves the trees alone and compares the protected files.
LEMMA LoadPolicyStep == ASSUME ReviewInv, LoadPolicy PROVE ReviewInv'
<1>1. review.at = "load" /\ UNCHANGED <<trees, ran>> /\ review \in Reviews
  BY DEF LoadPolicy, ReviewInv, ReviewTypes
<1>2. CASE Stops
  BY <1>1, <1>2, StopsStep DEF Before
<1>3. CASE ~Stops
  <2>1. /\ review' = [review EXCEPT !.at = "scope"]
        /\ PolicyValid(review.seen["base"], review.seen["cand"], trees["base"]["policy"])
    BY <1>3 DEF LoadPolicy
  <2>2. /\ review' \in Reviews /\ review'.at = "scope" /\ review'.seen = review.seen
        /\ review'.results = review.results /\ review'.outcome = review.outcome
        /\ review'.next = review.next /\ review'.zipped = review.zipped
    BY <1>1, <2>1 DEF Reviews, Before
  <2>3. ReviewTypes' /\ NothingOK'
    BY <1>1, <2>2 DEF ReviewInv, ReviewTypes, NothingOK, Checking, Before
  <2>4. Selected(review.seen["base"]) # <<>> => SameAsBase(review.seen)
    BY <2>1 DEF Selected, PolicyValid, SameAsBase
  <2>5. BoundOK'
    BY <2>2, <2>4 DEF BoundOK, Checking
  <2>6. SnapshotOK'
    BY <1>1, <2>2 DEF ReviewInv, SnapshotOK, Before
  <2>7. RanOK' /\ PassedOK'
    BY <1>1, <2>2 DEF ReviewInv, RanOK, PassedOK
  <2>8. ZippedOK'
    BY <1>1, <2>2 DEF ReviewInv, ZippedOK
  <2> QED
    BY <2>3, <2>5, <2>6, <2>7, <2>8 DEF ReviewInv
<1> QED
  BY <1>2, <1>3

\* The snapshot is begun only when the scans of each tree agree.
LEMMA ReviewScopeStep == ASSUME ReviewInv, ReviewScope PROVE ReviewInv'
<1>1. review.at = "scope" /\ UNCHANGED <<trees, ran>> /\ review \in Reviews
  BY DEF ReviewScope, ReviewInv, ReviewTypes
<1>2. CASE Stops
  BY <1>1, <1>2, StopsStep DEF Before
<1>3. CASE ~Stops
  <2> DEFINE to == IF Selected(review.seen["base"]) = <<>> THEN "finish" ELSE "snapshot"
  <2>1. /\ review' = [review EXCEPT !.at = to]
        /\ review.seen["base"] = review.seen["start"]
        /\ review.zipped \/ review.seen["cand"] = review.seen["ingest"]
    BY <1>3 DEF ReviewScope
  <2>2. /\ review' \in Reviews /\ review'.at = to /\ review'.seen = review.seen
        /\ review'.results = review.results /\ review'.outcome = review.outcome
        /\ review'.next = review.next /\ review'.zipped = review.zipped
    BY <1>1, <2>1 DEF Reviews, Before
  <2>3. ran = <<>> /\ review.results = <<>>
    BY <1>1 DEF ReviewInv, NothingOK, Before
  <2>4. ReviewTypes' /\ NothingOK'
    BY <1>1, <2>2, <2>3 DEF ReviewInv, ReviewTypes, NothingOK, Checking, Before
  <2>5. BoundOK'
    <3>1. review.seen["cand"] = review.seen["ingest"]
      BY <1>1, <2>1 DEF ReviewInv, ZippedOK
    <3> QED
      BY <1>1, <2>1, <2>2, <3>1 DEF ReviewInv, BoundOK, Compared, Checking
  <2>6. SnapshotOK'
    <3>1. trees["snap"] = NoTree /\ review.next = 1
      BY <1>1 DEF ReviewInv, SnapshotOK, ReviewTypes, Before
    <3>2. \A i \in 1 .. 3 : NoTree[ScanOrder[i]] = "absent"
      BY Paths DEF NoTree
    <3> QED
      BY <1>1, <2>2, <3>1, <3>2 DEF SnapshotOK, Before
  <2>7. RanOK' /\ PassedOK'
    BY <1>1, <2>2, <2>3 DEF ReviewInv, RanOK, PassedOK
  <2>8. ZippedOK'
    BY <2>2 DEF ZippedOK
  <2> QED
    BY <2>4, <2>5, <2>6, <2>7, <2>8 DEF ReviewInv
<1> QED
  BY <1>2, <1>3

\* The scans before the checks change what they see and nothing else.
LEMMA EarlyScan ==
    ASSUME ReviewInv, review.at \in {"start", "ingest", "base", "cand"}, UNCHANGED <<trees, ran>>,
           NEW path \in TreePaths, NEW content \in FileContents, NEW next \in 1 .. 3,
           NEW at \in {"start", "ingest", "base", "cand", "load"}, at = "load" => next = 1,
           review' = [review EXCEPT !.seen[review.at][path] = content, !.next = next, !.at = at],
           ZippedOK'
    PROVE  ReviewInv'
<1> DEFINE s == review.at
           seen == [review.seen EXCEPT ![s] = [review.seen[s] EXCEPT ![path] = content]]
<1>1. review \in Reviews /\ review.seen["cand"] \in Contents
  BY DEF ReviewInv, ReviewTypes
<1>2. review' = [review EXCEPT !.seen = seen, !.next = next, !.at = at]
  BY <1>1 DEF Reviews
<1>3. seen \in [Scans -> [TreePaths -> FileContents \cup {"unreadable"}]] /\ seen["cand"] \in Contents
  <2>1. /\ review.seen \in [Scans -> [TreePaths -> FileContents \cup {"unreadable"}]]
        /\ s \in Scans
    BY <1>1 DEF Reviews, Scans
  <2>2. \/ seen["cand"] = review.seen["cand"]
        \/ seen["cand"] = [review.seen["cand"] EXCEPT ![path] = content]
    BY <2>1 DEF Scans
  <2> QED
    BY <1>1, <2>1, <2>2 DEF Contents
<1> HIDE DEF seen
<1>4. /\ review' \in Reviews /\ review'.at = at /\ review'.seen = seen /\ review'.next = next
      /\ review'.results = review.results
  BY <1>1, <1>2, <1>3 DEF Reviews, Before
<1>5. ran = <<>> /\ review.results = <<>> /\ trees["snap"] = NoTree
  BY DEF ReviewInv, NothingOK, SnapshotOK, Before
<1>6. ReviewTypes'
  BY <1>3, <1>4 DEF ReviewInv, ReviewTypes, Checking
<1>7. NothingOK' /\ BoundOK' /\ SnapshotOK' /\ RanOK' /\ PassedOK'
  BY <1>4, <1>5 DEF NothingOK, BoundOK, SnapshotOK, RanOK, PassedOK, Before, Checking
<1> QED
  BY <1>6, <1>7 DEF ReviewInv

\* So do the scans after a check.
LEMMA LateScan ==
    ASSUME ReviewInv, NEW s \in {"after", "rebound"}, review.at = s, UNCHANGED <<trees, ran>>,
           NEW tree \in [TreePaths -> FileContents \cup {"unreadable"}], NEW next \in 1 .. 3,
           NEW at \in {"after", "rebound", "judge"}, at = "judge" => next = 1,
           s = "rebound" => at # "after",
           review' = [review EXCEPT !.seen[s] = tree, !.next = next, !.at = at],
           s = "after" =>
              /\ at = "after" => \A i \in 1 .. 3 :
                                    i < next => tree[ScanOrder[i]] = trees["snap"][ScanOrder[i]]
              /\ at # "after" => tree \in {trees["snap"], Unreadable}
    PROVE  ReviewInv'
<1> DEFINE seen == [review.seen EXCEPT ![s] = tree]
<1>1. /\ review \in Reviews /\ review.seen["cand"] \in Contents /\ review.outcome # <<>>
      /\ review.seen \in [Scans -> [TreePaths -> FileContents \cup {"unreadable"}]]
  BY DEF ReviewInv, ReviewTypes, Reviews, Checking
<1>2. review' = [review EXCEPT !.seen = seen, !.next = next, !.at = at]
  OBVIOUS
<1>3. /\ seen \in [Scans -> [TreePaths -> FileContents \cup {"unreadable"}]]
      /\ \A q \in Scans \ {s} : seen[q] = review.seen[q]
      /\ seen[s] = tree
  BY <1>1 DEF Scans
<1> HIDE DEF seen
<1>4. /\ review' \in Reviews /\ review'.at = at /\ review'.seen = seen /\ review'.next = next
      /\ review'.results = review.results /\ review'.outcome = review.outcome
  BY <1>1, <1>2, <1>3 DEF Reviews, Checking
<1>5. /\ seen["cand"] = review.seen["cand"] /\ seen["base"] = review.seen["base"]
      /\ seen["start"] = review.seen["start"] /\ seen["ingest"] = review.seen["ingest"]
  BY <1>3 DEF Scans
<1>6. ReviewTypes' /\ NothingOK'
  BY <1>1, <1>4, <1>5 DEF ReviewInv, ReviewTypes, NothingOK, Before
<1>7. BoundOK'
  BY <1>4, <1>5 DEF ReviewInv, BoundOK, Compared, SameAsBase, Checking
<1>8. SnapshotOK'
  <2>1. CASE s = "after"
    BY <1>3, <1>4, <2>1 DEF SnapshotOK, Before
  <2>2. CASE s = "rebound"
    <3>1. seen["after"] \in {trees["snap"], Unreadable}
      BY <1>3, <2>2 DEF ReviewInv, SnapshotOK, Scans
    <3> QED
      BY <1>4, <2>2, <3>1 DEF SnapshotOK, Before
  <2> QED
    BY <2>1, <2>2
<1>9. RanOK' /\ PassedOK' /\ ZippedOK'
  BY <1>4, <1>5 DEF ReviewInv, RanOK, PassedOK, ZippedOK
<1> QED
  BY <1>6, <1>7, <1>8, <1>9 DEF ReviewInv

\* Both scans of an archive see what was extracted, path by path.
LEMMA ZippedScan ==
    ASSUME ReviewInv, ScanPath, review.at \in {"start", "ingest", "base", "cand"}
    PROVE  ZippedOK'
<1> DEFINE s == review.at
           path == ScanOrder[review.next]
           next == IF review.next = 3 THEN 1 ELSE review.next + 1
           at == IF review.next = 3 THEN AfterScan[s] ELSE s
           saw == [review.seen[s] EXCEPT ![path] = trees[Scanned[s]][path]]
<1>1. /\ review \in Reviews /\ s \in Scans /\ review.next \in 1 .. 3 /\ trees' = trees
      /\ trees["cand"] \in Contents
      /\ review.seen \in [Scans -> [TreePaths -> FileContents \cup {"unreadable"}]]
  BY Paths DEF ScanPath, ReviewInv, ReviewTypes, Reviews
<1>2. /\ review'.seen = [review.seen EXCEPT ![s] = saw]
      /\ review'.next = next /\ review'.at = at /\ review'.zipped = review.zipped
  BY <1>1, Paths DEF ScanPath, Reviews
<1>3. review'.seen[s] = saw /\ \A q \in Scans \ {s} : review'.seen[q] = review.seen[q]
  BY <1>1, <1>2
<1> SUFFICES ASSUME review.zipped PROVE ZippedOK'
  BY <1>2 DEF ZippedOK
<1>4. CASE s = "start"
  BY <1>1, <1>2, <1>4, ScanFacts DEF ZippedOK
<1>5. CASE s = "base"
  <2>1. review'.seen["ingest"] = trees["cand"]
    BY <1>3, <1>5 DEF ReviewInv, ZippedOK, Scans
  <2> QED
    BY <1>1, <1>2, <1>5, <2>1, ScanFacts DEF ZippedOK
<1>6. CASE s \in {"ingest", "cand"}
  <2>1. Scanned[s] = "cand" /\ AfterScan[s] \in {"base", "load"}
    BY <1>6 DEF Scanned, AfterScan
  <2>2. \A i \in 1 .. 3 : i <= review.next => saw[ScanOrder[i]] = trees["cand"][ScanOrder[i]]
    <3> SUFFICES ASSUME NEW i \in 1 .. 3, i <= review.next
                 PROVE  saw[ScanOrder[i]] = trees["cand"][ScanOrder[i]]
      OBVIOUS
    <3>1. ScanOrder[i] \in TreePaths /\ (ScanOrder[i] # path => i < review.next)
      BY <1>1, Paths
    <3>2. review.seen[s] \in [TreePaths -> FileContents \cup {"unreadable"}]
      BY <1>1
    <3>3. ScanOrder[i] # path => review.seen[s][ScanOrder[i]] = trees["cand"][ScanOrder[i]]
      BY <1>6, <3>1 DEF ReviewInv, ZippedOK
    <3> HIDE DEF path
    <3> QED
      BY <2>1, <3>1, <3>2, <3>3
  <2>3. s = "cand" => review'.seen["ingest"] = trees["cand"]
    BY <1>3 DEF ReviewInv, ZippedOK, Scans
  <2>4. CASE review.next = 3
    <3>1. saw \in [TreePaths -> FileContents \cup {"unreadable"}]
      BY <1>1, <2>1, Paths DEF Contents
    <3>2. \A i \in 1 .. 3 : saw[ScanOrder[i]] = trees["cand"][ScanOrder[i]]
      BY <2>2, <2>4
    <3> HIDE DEF saw
    <3>3. saw = trees["cand"]
      BY <1>1, <3>1, <3>2, SameTree
    <3>4. s = "ingest" => at = "base"
      BY <2>4, ScanFacts
    <3>5. s = "cand" => at = "load"
      BY <2>4, ScanFacts
    <3> QED
      BY <1>1, <1>2, <1>3, <1>6, <2>3, <3>3, <3>4, <3>5 DEF ZippedOK
  <2>5. CASE review.next # 3
    <3>1. at = s /\ next = review.next + 1
      BY <2>5
    <3> HIDE DEF saw, next, at
    <3> QED
      BY <1>1, <1>2, <1>3, <1>6, <2>2, <2>3, <3>1 DEF ZippedOK
  <2> QED
    BY <2>4, <2>5
<1> QED
  BY <1>4, <1>5, <1>6

\* A scan keeps what it saw of earlier paths; the one after a check sees the snapshot.
LEMMA ScanPathStep == ASSUME ReviewInv, ScanPath PROVE ReviewInv'
<1> DEFINE s == review.at
           path == ScanOrder[review.next]
           content == trees[Scanned[s]][path]
           next == IF review.next = 3 THEN 1 ELSE review.next + 1
           at == IF review.next = 3 THEN AfterScan[s] ELSE s
<1>1. /\ review \in Reviews /\ s \in Scans /\ review.next \in 1 .. 3
      /\ trees \in [{"base", "cand", "snap"} -> Contents] /\ UNCHANGED <<trees, ran>>
  BY Paths DEF ScanPath, ReviewInv, ReviewTypes, Reviews
<1>2. review' = [review EXCEPT !.seen[s][path] = content, !.next = next, !.at = at]
  BY Paths DEF ScanPath
<1>3. path \in TreePaths /\ content \in FileContents /\ next \in 1 .. 3
  BY <1>1, Paths, ScanFacts DEF Contents
<1>4. CASE s \in {"start", "ingest", "base", "cand"}
  <2>1. at \in {"start", "ingest", "base", "cand", "load"} /\ (at = "load" => next = 1)
    BY <1>4, ScanFacts
  <2>2. ZippedOK'
    BY <1>4, ZippedScan
  <2> HIDE DEF at, next, path, content
  <2> QED
    BY <1>1, <1>2, <1>3, <1>4, <2>1, <2>2, EarlyScan
<1>5. CASE s \in {"after", "rebound"}
  <2> DEFINE tree == [review.seen[s] EXCEPT ![path] = content]
  <2>1. review' = [review EXCEPT !.seen[s] = tree, !.next = next, !.at = at]
    BY <1>2
  <2>2. /\ at \in {"after", "rebound", "judge"} /\ (at = "judge" => next = 1)
        /\ s = "rebound" => at # "after"
    BY <1>5, ScanFacts
  <2>3. review.seen[s] \in [TreePaths -> FileContents \cup {"unreadable"}]
    BY <1>1 DEF Reviews
  <2>4. tree \in [TreePaths -> FileContents \cup {"unreadable"}]
    BY <1>3, <2>3
  <2>5. ASSUME s = "after"
        PROVE  /\ at = "after" => \A i \in 1 .. 3 : i < next =>
                                     tree[ScanOrder[i]] = trees["snap"][ScanOrder[i]]
               /\ at # "after" => tree \in {trees["snap"], Unreadable}
    <3>1. content = trees["snap"][path]
      BY <2>5, ScanFacts
    <3>2. \A i \in 1 .. 3 : i <= review.next => tree[ScanOrder[i]] = trees["snap"][ScanOrder[i]]
      <4> SUFFICES ASSUME NEW i \in 1 .. 3, i <= review.next
                   PROVE  tree[ScanOrder[i]] = trees["snap"][ScanOrder[i]]
        OBVIOUS
      <4>1. ScanOrder[i] \in TreePaths
        BY Paths
      <4>2. CASE ScanOrder[i] = path
        BY <1>3, <2>3, <3>1, <4>2
      <4>3. CASE ScanOrder[i] # path
        <5>1. i < review.next
          BY <1>1, <4>3
        <5>2. review.seen["after"][ScanOrder[i]] = trees["snap"][ScanOrder[i]]
          BY <2>5, <5>1 DEF ReviewInv, SnapshotOK
        <5> QED
          BY <2>3, <2>5, <4>1, <4>3, <5>2
      <4> QED
        BY <4>2, <4>3
    <3> HIDE DEF tree, content, path
    <3>3. CASE review.next = 3
      <4>1. \A i \in 1 .. 3 : tree[ScanOrder[i]] = trees["snap"][ScanOrder[i]]
        BY <3>2, <3>3
      <4>2. trees["snap"] \in Contents
        BY <1>1
      <4>3. tree = trees["snap"]
        BY <2>4, <4>1, <4>2, SameTree
      <4> QED
        BY <2>5, <3>3, <4>3, ScanFacts
    <3>4. CASE review.next # 3
      BY <1>1, <2>5, <3>2, <3>4
    <3> QED
      BY <3>3, <3>4
  <2> HIDE DEF at, next, path, content, tree
  <2> QED
    BY <1>1, <1>3, <1>5, <2>1, <2>2, <2>4, <2>5, LateScan
<1> QED
  BY <1>1, <1>4, <1>5 DEF Scans

\* A scan that throws stops the review, or counts as a change after a check.
LEMMA ScanThrowsStep == ASSUME ReviewInv, ScanThrows PROVE ReviewInv'
<1>1. review.at \in Scans /\ UNCHANGED <<trees, ran>>
  BY Paths DEF ScanThrows
<1>2. CASE review.at \in {"after", "rebound"}
  <2>1. PICK s \in {"after", "rebound"} : review.at = s
    BY <1>2
  <2>2. PICK at \in {"rebound", "judge"} : at = AfterScan[s] /\ (s = "rebound" => at # "after")
    BY ScanFacts
  <2>3. review' = [review EXCEPT !.seen[s] = Unreadable, !.next = 1, !.at = at]
    BY <2>1, <2>2 DEF ScanThrows
  <2>4. Unreadable \in [TreePaths -> FileContents \cup {"unreadable"}] /\ 1 \in 1 .. 3
    BY DEF Unreadable
  <2> QED
    BY <1>1, <2>1, <2>2, <2>3, <2>4, LateScan
<1>3. CASE review.at \notin {"after", "rebound"}
  BY <1>1, <1>3, StopsStep DEF ScanThrows, Scans, Before
<1> QED
  BY <1>2, <1>3

\* The snapshot grows by one path of what the scan of the candidate saw.
LEMMA SnapshotPathStep == ASSUME ReviewInv, SnapshotPath PROVE ReviewInv'
<1> DEFINE path == ScanOrder[review.next]
           saw == review.seen["cand"][path]
<1>1. /\ review.at = "snapshot" /\ ran' = ran /\ review \in Reviews /\ review.next \in 1 .. 3
      /\ trees \in [{"base", "cand", "snap"} -> Contents] /\ review.seen["cand"] \in Contents
  BY DEF SnapshotPath, ReviewInv, ReviewTypes, Reviews
<1>2. path \in TreePaths /\ saw \in FileContents
  BY <1>1, Paths DEF Contents
<1>3. CASE Stops /\ UNCHANGED trees
  BY <1>1, <1>3, StopsStep DEF Before
<1>4. CASE ~(Stops /\ UNCHANGED trees)
  <2> DEFINE next == IF review.next = 3 THEN 1 ELSE review.next + 1
             at == IF review.next = 3 THEN "oracle" ELSE "snapshot"
  <2>1. /\ review' = [review EXCEPT !.next = next, !.at = at]
        /\ \/ saw = "absent" /\ trees' = trees
           \/ trees' = [trees EXCEPT !["snap"][path] = saw]
    BY <1>1, <1>4, Paths DEF SnapshotPath, SameAsScanned
  <2>2. /\ review' \in Reviews /\ review'.at = at /\ review'.seen = review.seen
        /\ review'.results = review.results /\ review'.outcome = review.outcome
        /\ review'.next = next
    <3>1. at \in {"oracle", "snapshot"} /\ next \in 1 .. 3
      BY <1>1
    <3> HIDE DEF at, next
    <3> QED
      BY <1>1, <2>1, <3>1 DEF Reviews, Before, Checking
  <2>3. trees' \in [{"base", "cand", "snap"} -> Contents]
    <3>1. [trees["snap"] EXCEPT ![path] = saw] \in Contents
      BY <1>1, <1>2 DEF Contents
    <3> QED
      BY <1>1, <2>1, <3>1
  <2>4. \A i \in 1 .. 3 : trees'["snap"][ScanOrder[i]] =
            IF i <= review.next THEN review.seen["cand"][ScanOrder[i]] ELSE "absent"
    <3> SUFFICES ASSUME NEW i \in 1 .. 3
                 PROVE  trees'["snap"][ScanOrder[i]] =
                            IF i <= review.next THEN review.seen["cand"][ScanOrder[i]] ELSE "absent"
      OBVIOUS
    <3>1. trees["snap"][ScanOrder[i]] =
            IF i < review.next THEN review.seen["cand"][ScanOrder[i]] ELSE "absent"
      BY <1>1 DEF ReviewInv, SnapshotOK
    <3>2. ScanOrder[i] \in TreePaths /\ (ScanOrder[i] = path <=> i = review.next)
      BY <1>1, Paths
    <3>3. trees["snap"] \in [TreePaths -> FileContents]
      BY <1>1 DEF Contents
    <3>4. trees'["snap"][ScanOrder[i]] =
              IF i = review.next THEN saw ELSE trees["snap"][ScanOrder[i]]
      <4>1. CASE saw = "absent" /\ trees' = trees
        BY <1>1, <3>1, <4>1
      <4>2. CASE trees' = [trees EXCEPT !["snap"][path] = saw]
        <5>1. trees'["snap"] = [trees["snap"] EXCEPT ![path] = saw]
          BY <1>1, <4>2
        <5> HIDE DEF path, saw
        <5> QED
          BY <3>2, <3>3, <5>1
      <4> QED
        BY <2>1, <4>1, <4>2
    <3>5. i = review.next => saw = review.seen["cand"][ScanOrder[i]]
      OBVIOUS
    <3> HIDE DEF saw, path
    <3> QED
      BY <1>1, <3>1, <3>4, <3>5
  <2>5. ran = <<>> /\ review.results = <<>> /\ Compared(review.seen)
    BY <1>1 DEF ReviewInv, NothingOK, BoundOK, Before
  <2>6. ReviewTypes'
    BY <1>1, <2>2, <2>3 DEF ReviewInv, ReviewTypes, Checking
  <2>7. NothingOK' /\ BoundOK' /\ RanOK' /\ PassedOK' /\ ZippedOK'
    BY <1>1, <2>2, <2>5 DEF NothingOK, BoundOK, RanOK, PassedOK, ZippedOK
  <2>8. SnapshotOK'
    <3>1. CASE review.next = 3
      <4>1. \A i \in 1 .. 3 : trees'["snap"][ScanOrder[i]] = review.seen["cand"][ScanOrder[i]]
        BY <2>4, <3>1
      <4>2. trees'["snap"] \in [TreePaths -> FileContents \cup {"unreadable"}]
        BY <2>3 DEF Contents
      <4>3. trees'["snap"] = review.seen["cand"]
        BY <1>1, <4>1, <4>2, SameTree
      <4> QED
        BY <2>2, <3>1, <4>3 DEF SnapshotOK, Before
    <3>2. CASE review.next # 3
      BY <1>1, <2>2, <2>4, <3>2 DEF SnapshotOK, Before
    <3> QED
      BY <3>1, <3>2
  <2> QED
    BY <2>6, <2>7, <2>8 DEF ReviewInv
<1> QED
  BY <1>3, <1>4

\* A check starts in the snapshot as it was made; it may change it.
LEMMA RunOracleStep == ASSUME ReviewInv, RunOracle PROVE ReviewInv'
<1>1. /\ review.at = "oracle" /\ review \in Reviews /\ review.next = 1 /\ ran \in Seq(Contents)
      /\ trees \in [{"base", "cand", "snap"} -> Contents] /\ review.seen["cand"] \in Contents
      /\ ran' = Append(ran, trees["snap"])
  BY DEF RunOracle, ReviewInv, ReviewTypes
<1>2. PICK outcome \in Outcomes : review' = [review EXCEPT !.at = "after", !.outcome = <<outcome>>]
  BY DEF RunOracle, Outcomes
<1>3. /\ review' \in Reviews /\ review'.at = "after" /\ review'.seen = review.seen
      /\ review'.results = review.results /\ review'.outcome = <<outcome>>
      /\ review'.next = 1
  <2>1. <<outcome>> \in Seq(Outcomes)
    OBVIOUS
  <2> QED
    BY <1>1, <1>2, <2>1 DEF Reviews, Checking
<1>4. trees' \in [{"base", "cand", "snap"} -> Contents]
  <2>1. CASE trees' = trees
    BY <1>1, <2>1
  <2>2. CASE ~(trees' = trees)
    <3>1. PICK t \in {"snap", "base"}, f \in TreePaths, c \in FileContents :
             trees' = [trees EXCEPT ![t][f] = c]
      BY <2>2 DEF RunOracle
    <3>2. [trees[t] EXCEPT ![f] = c] \in Contents
      BY <1>1 DEF Contents
    <3> QED
      BY <1>1, <3>1, <3>2
  <2> QED
    BY <2>1, <2>2
<1>5. Compared(review.seen) /\ trees["snap"] = review.seen["cand"]
  BY <1>1 DEF ReviewInv, BoundOK, SnapshotOK, Checking
<1>6. ReviewTypes'
  <2>1. ran' \in Seq(Contents)
    BY <1>1
  <2> QED
    BY <1>1, <1>3, <1>4, <2>1 DEF ReviewTypes
<1>7. NothingOK' /\ BoundOK'
  BY <1>3, <1>5 DEF NothingOK, BoundOK, Before
<1>8. SnapshotOK'
  BY <1>3 DEF SnapshotOK, Before
<1>9. RanOK'
  <2>1. /\ trees["snap"] = review.seen["ingest"]
        /\ \A p \in ProtectedPaths : trees["snap"][p] = review.seen["start"][p]
    BY <1>5 DEF Compared, SameAsBase
  <2>2. \A k \in DOMAIN ran' : ran'[k] = trees["snap"] \/ (k \in DOMAIN ran /\ ran'[k] = ran[k])
    BY <1>1
  <2> QED
    BY <1>3, <2>1, <2>2 DEF ReviewInv, RanOK
<1>10. PassedOK' /\ ZippedOK'
  BY <1>3 DEF ReviewInv, PassedOK, ZippedOK
<1> QED
  BY <1>6, <1>7, <1>8, <1>9, <1>10 DEF ReviewInv

\* A check passes only when the trees are as they were scanned before it.
LEMMA JudgeOracleStep == ASSUME ReviewInv, JudgeOracle PROVE ReviewInv'
<1> DEFINE mutated == \/ review.seen["after"] # review.seen["cand"]
                      \/ review.seen["rebound"] # review.seen["base"]
           outcome == review.outcome[1]
           result == [outcome |-> outcome, status |-> StatusOf(mutated, outcome)]
           all == Append(review.results, result)
           failed == [i \in DOMAIN all |-> [all[i] EXCEPT !.status = "FAIL"]]
           reported == IF mutated THEN failed ELSE all
           at == IF mutated \/ Len(all) = Len(Selected(review.seen["base"]))
                 THEN "finish" ELSE "oracle"
<1>1. /\ review.at = "judge" /\ UNCHANGED <<trees, ran>> /\ review \in Reviews /\ review.next = 1
      /\ review.seen["cand"] \in Contents /\ review.outcome \in Seq(Outcomes) /\ review.outcome # <<>>
      /\ review.results \in Seq(Results)
  BY DEF JudgeOracle, ReviewInv, ReviewTypes, Reviews, Checking
<1>2. review' = [review EXCEPT !.results = reported, !.at = at]
  BY DEF JudgeOracle
<1>3. outcome \in Outcomes
  BY <1>1
<1>4. StatusOf(mutated, outcome) \in {"PASS", "FAIL", "UNKNOWN"}
  BY DEF StatusOf
<1>5. ~mutated => trees["snap"] = review.seen["cand"]
  <2>1. review.seen["cand"] # Unreadable
    <3>1. review.seen["cand"]["policy"] \in FileContents /\ Unreadable["policy"] \notin FileContents
      BY <1>1, Paths DEF Contents, Unreadable, FileContents
    <3> QED
      BY <3>1
  <2>2. review.seen["after"] \in {trees["snap"], Unreadable}
    BY <1>1 DEF ReviewInv, SnapshotOK
  <2> QED
    BY <2>1, <2>2
<1>6. StatusOf(mutated, outcome) = "PASS" => outcome = [exit |-> 0, completed |-> TRUE]
  BY <1>3 DEF StatusOf, Outcomes
<1> HIDE DEF mutated, outcome, at
<1>7. result \in Results /\ all \in Seq(Results)
  BY <1>1, <1>3, <1>4 DEF Results
<1>8. failed \in Seq(Results)
  <2>1. \A i \in DOMAIN all : [all[i] EXCEPT !.status = "FAIL"] \in Results
    <3>1. \A q \in Results : [q EXCEPT !.status = "FAIL"] \in Results
      BY DEF Results
    <3> HIDE DEF all
    <3> QED
      BY <1>7, <3>1
  <2> HIDE DEF all
  <2>2. DOMAIN all = 1 .. Len(all) /\ Len(all) \in Nat
    BY <1>7
  <2> QED
    BY <2>1, <2>2
<1>9. reported \in Seq(Results) /\ at \in {"finish", "oracle"} /\ (mutated => at = "finish")
  BY <1>7, <1>8 DEF at
<1>10. \A i \in DOMAIN reported : reported[i].status = "PASS" =>
          ~mutated /\ reported[i].outcome = [exit |-> 0, completed |-> TRUE]
  <2>1. CASE mutated
    <3>1. \A i \in DOMAIN all : [all[i] EXCEPT !.status = "FAIL"].status = "FAIL"
      <4> HIDE DEF all
      <4> QED
        BY <1>7 DEF Results
    <3>2. reported = failed /\ DOMAIN failed = DOMAIN all
          /\ \A i \in DOMAIN all : failed[i].status = "FAIL"
      BY <2>1, <3>1
    <3> HIDE DEF reported, failed, all
    <3> QED
      BY <3>2
  <2>2. CASE ~mutated
    <3>1. \A i \in DOMAIN all : all[i] = result
                                \/ (i \in DOMAIN review.results /\ all[i] = review.results[i])
      BY <1>1, <1>7
    <3>2. result.status = "PASS" => result.outcome = [exit |-> 0, completed |-> TRUE]
      BY <1>6
    <3>3. \A i \in DOMAIN review.results : review.results[i].status = "PASS" =>
              review.results[i].outcome = [exit |-> 0, completed |-> TRUE]
      BY DEF ReviewInv, PassedOK
    <3>4. reported = all
      BY <2>2
    <3> HIDE DEF reported, all, result
    <3> QED
      BY <2>2, <3>1, <3>2, <3>3, <3>4
  <2> QED
    BY <2>1, <2>2
<1> HIDE DEF reported
<1>11. /\ review' \in Reviews /\ review'.at = at /\ review'.seen = review.seen
       /\ review'.results = reported /\ review'.outcome = review.outcome
       /\ review'.next = review.next
  BY <1>1, <1>2, <1>9 DEF Reviews, Checking
<1>12. Compared(review.seen)
  BY <1>1 DEF ReviewInv, BoundOK, Checking
<1>13. ReviewTypes' /\ NothingOK' /\ BoundOK'
  BY <1>1, <1>9, <1>11, <1>12 DEF ReviewInv, ReviewTypes, NothingOK, BoundOK, Before, Checking
<1>14. SnapshotOK'
  BY <1>1, <1>5, <1>9, <1>11 DEF SnapshotOK, Before
<1>15. RanOK'
  BY <1>1, <1>11 DEF ReviewInv, RanOK
<1>16. PassedOK'
  BY <1>1, <1>5, <1>10, <1>11, <1>12 DEF PassedOK, Compared
<1>17. ZippedOK'
  BY <1>9, <1>11 DEF ZippedOK
<1> QED
  BY <1>13, <1>14, <1>15, <1>16, <1>17 DEF ReviewInv

\* Whatever other programs do, the snapshot is nobody else's.
LEMMA FileChangesStep == ASSUME ReviewInv, FileChanges PROVE ReviewInv'
<1>1. /\ UNCHANGED <<review, ran>> /\ trees \in [{"base", "cand", "snap"} -> Contents]
  BY DEF FileChanges, ReviewInv, ReviewTypes
<1>2. PICK t \in {"base", "cand"}, f \in TreePaths, c \in FileContents :
         trees' = [trees EXCEPT ![t][f] = c] /\ (review.zipped => t = "base")
  BY DEF FileChanges
<1>3. [trees[t] EXCEPT ![f] = c] \in Contents
  BY <1>1 DEF Contents
<1>4. trees' \in [{"base", "cand", "snap"} -> Contents] /\ trees'["snap"] = trees["snap"]
  BY <1>1, <1>2, <1>3
<1>5. ReviewTypes' /\ NothingOK' /\ BoundOK'
  BY <1>1, <1>4 DEF ReviewInv, ReviewTypes, NothingOK, BoundOK
<1>6. SnapshotOK' /\ RanOK' /\ PassedOK'
  BY <1>1, <1>4 DEF ReviewInv, SnapshotOK, RanOK, PassedOK
<1>7. review.zipped => trees'["cand"] = trees["cand"]
  BY <1>1, <1>2
<1>8. ZippedOK'
  BY <1>1, <1>7 DEF ReviewInv, ZippedOK
<1> QED
  BY <1>5, <1>6, <1>8 DEF ReviewInv

\* Whatever others change while a candidate is scanned, copied and checked, and
\* whatever a check does to the trees: every check is started in exactly the
\* candidate that was handed in, with the baseline's policy and protected
\* files, and one reported as passed ran to its end and left the tree as it was.
THEOREM QualificationBound == QualificationSpec => []PassIsBound
<1>1. QualificationInit => ReviewInv
  <2> SUFFICES ASSUME QualificationInit PROVE ReviewInv
    OBVIOUS
  <2>1. trees \in [{"base", "cand", "snap"} -> Contents] /\ trees["snap"] = NoTree
    <3>1. [f \in TreePaths |-> "old"] \in Contents /\ NoTree \in Contents
      BY Paths DEF Contents, FileContents
    <3>2. [[f \in TreePaths |-> "old"] EXCEPT !["source"] = "new"] \in Contents
      BY <3>1, Paths DEF Contents, FileContents
    <3> QED
      BY <3>1, <3>2 DEF QualificationInit
  <2>2. /\ review.at = "start" /\ review.next = 1 /\ review.injected \in BOOLEAN /\ review.zipped \in BOOLEAN
        /\ review.results = <<>> /\ review.outcome = <<>>
        /\ review.seen = [s \in Scans |-> NoTree] /\ ran = <<>>
    BY DEF QualificationInit, Scans
  <2>3. review \in Reviews
    <3>1. /\ <<>> \in Seq(Results) /\ <<>> \in Seq(Outcomes) /\ review.at \in Before
          /\ [s \in Scans |-> NoTree] \in [Scans -> [TreePaths -> FileContents \cup {"unreadable"}]]
      BY <2>2, Paths DEF Contents, Before
    <3>2. review = [at |-> review.at, next |-> review.next, injected |-> review.injected,
                    zipped |-> review.zipped, results |-> review.results, outcome |-> review.outcome, seen |-> review.seen]
      BY DEF QualificationInit
    <3>3. /\ review.at \in Before /\ review.next \in 1 .. 3 /\ review.results \in Seq(Results)
          /\ review.outcome \in Seq(Outcomes)
          /\ review.seen \in [Scans -> [TreePaths -> FileContents \cup {"unreadable"}]]
      BY <2>2, <3>1
    <3> QED
      BY <2>2, <3>2, <3>3 DEF Reviews
  <2>4. ReviewTypes
    BY <2>1, <2>2, <2>3, Paths DEF ReviewTypes, Scans, Checking
  <2>5. NothingOK /\ BoundOK /\ SnapshotOK /\ RanOK /\ PassedOK /\ ZippedOK
    BY <2>1, <2>2 DEF NothingOK, BoundOK, SnapshotOK, RanOK, PassedOK, ZippedOK, Checking
  <2> QED
    BY <2>4, <2>5 DEF ReviewInv
<1>2. ReviewInv /\ [QualificationNext]_qualificationVars => ReviewInv'
  <2> SUFFICES ASSUME ReviewInv, [QualificationNext]_qualificationVars PROVE ReviewInv'
    OBVIOUS
  <2>1. CASE UNCHANGED qualificationVars
    BY <2>1 DEF qualificationVars, ReviewInv, ReviewTypes, NothingOK, BoundOK, SnapshotOK, RanOK,
                PassedOK, ZippedOK
  <2> QED
    BY <2>1, ScanPathStep, ScanThrowsStep, LoadPolicyStep, ReviewScopeStep, SnapshotPathStep,
       RunOracleStep, JudgeOracleStep, FileChangesStep DEF QualificationNext
<1>3. ReviewInv => PassIsBound
  BY DEF ReviewInv, RanOK, PassedOK, PassIsBound
<1> QED
  BY <1>1, <1>2, <1>3, PTL DEF QualificationSpec

---------------------------------------------------------------------------
(* The HTTP gateway: the inductive invariant.                              *)

Ends == {"answered", "error", "late"}
PostSteps == Ends \cup {"item", "fetch", "authorize", "sent", "record"}
Surfaces == {"pinned", "changed"}

FetchRecords == [since : Nat, asked : Nat, listed : BOOLEAN, seen : Surfaces \cup {"none"}]

PostRecords ==
    [step : PostSteps, batch : Seq(Kinds), next : Nat, forward : SUBSET Nat, response : SUBSET Nat,
     fetch : FetchRecords, sent : BOOLEAN, lost : BOOLEAN]

\* A request that has been received has all its fields.
PostTypes ==
    /\ ticks \in Nat /\ lastPinned \in Nat
    /\ surface \in Surfaces
    /\ cache \in [surface : Surfaces \cup {"none"}, at : Nat]
    /\ DOMAIN posts = Posts
    /\ \A r \in Posts : posts[r] = [step |-> "new"] \/ posts[r] \in PostRecords
    /\ posts = [r \in Posts |-> posts[r]]

\* What is forwarded is no tool call, or an allowed one with its lease.
ForwardOK == \A r \in Posts : posts[r].step # "new" =>
    \A k \in posts[r].forward : ToolCall(posts[r].batch[k]) =>
        posts[r].batch[k] = "allowed" /\ <<r, k>> \in leases

\* The fetch comes after the evaluation, and an answer after the evidence.
SentOK == \A r \in Posts : posts[r].step # "new" =>
    /\ posts[r].sent => posts[r].step \in Ends \cup {"sent", "record"}
    /\ posts[r].step \in {"sent", "record"} => posts[r].sent
    /\ posts[r].step = "answered" /\ posts[r].sent => ToRecord(r) \subseteq receipts \cap verified

\* The upstream executes what was sent to it.
HappenedOK == \A e \in happened :
    \E r \in Posts : \E k \in posts[r].forward :
        /\ e = <<r, k>> /\ posts[r].step # "new" /\ posts[r].sent
        /\ ToolCall(posts[r].batch[k])

\* What the gateway has seen as pinned was offered at that time or later.
PinOK ==
    /\ lastPinned <= ticks
    /\ surface = "pinned" => lastPinned = ticks
    /\ cache.surface = "pinned" => cache.at <= lastPinned
    /\ \A r \in Posts : posts[r].step \in {"fetch", "late"} =>
           posts[r].fetch.since <= posts[r].fetch.asked /\ posts[r].fetch.asked <= ticks
    /\ \A r \in Posts : posts[r].step \in {"fetch", "late"} /\ posts[r].fetch.seen = "pinned" =>
           posts[r].fetch.asked <= lastPinned

GatewayInv == PostTypes /\ ForwardOK /\ SentOK /\ HappenedOK /\ PinOK

---------------------------------------------------------------------------
(* Requests and their fields.                                              *)

\* A request that is past "new" has all its fields.
LEMMA Received ==
    ASSUME PostTypes, NEW r \in Posts, posts[r].step # "new"
    PROVE  posts[r] \in PostRecords
BY DEF PostTypes

\* No fetch has all the fields of one.
LEMMA NoFetchKnown == NoFetch \in FetchRecords
BY DEF NoFetch, FetchRecords

\* What Closed keeps of a request, and what it forgets.
LEMMA ClosedPost ==
    ASSUME NEW p \in PostRecords, NEW status \in Ends
    PROVE  /\ Closed(p, status) \in PostRecords
           /\ Closed(p, status).step = status
           /\ Closed(p, status).sent = p.sent
           /\ p.sent => Closed(p, status).batch = p.batch /\ Closed(p, status).forward = p.forward
           /\ ~p.sent => Closed(p, status).forward = {}
           /\ Closed(p, status).fetch = NoFetch
<1>1. (IF p.sent THEN p.batch ELSE <<>>) \in Seq(Kinds)
  BY DEF PostRecords
<1> QED
  BY <1>1 DEF Closed, PostRecords, PostSteps, NoFetch, FetchRecords

\* An open request that has not been sent moves to p, or a sent one that
\* keeps what it forwarded; the evidence and the leases only grow, the leases
\* by one of this request at most.
Follows(r, p) ==
    /\ posts' = [posts EXCEPT ![r] = p]
    /\ \/ posts[r].step = "new"
       \/ ~posts[r].sent
       \/ p.sent /\ p.forward = posts[r].forward /\ p.batch = posts[r].batch
    /\ leases \subseteq leases'
    /\ \A k : \A q \in Posts : <<q, k>> \in leases' /\ q # r => <<q, k>> \in leases
    /\ UNCHANGED <<ticks, surface, lastPinned, happened, receipts, verified>>

\* The parts of the invariant about the request that moves.
ForwardsOK(r, p, consumed) ==
    \A k \in p.forward : ToolCall(p.batch[k]) => p.batch[k] = "allowed" /\ <<r, k>> \in consumed

AnswersOK(r, p, consumed) ==
    /\ p.sent => p.step \in Ends \cup {"sent", "record"}
    /\ p.step \in {"sent", "record"} => p.sent
    /\ p.step = "answered" /\ p.sent =>
          \A k \in p.forward : <<r, k>> \in consumed => <<r, k>> \in receipts \cap verified

SeenOK(p) ==
    /\ p.step \in {"fetch", "late"} => p.fetch.since <= p.fetch.asked /\ p.fetch.asked <= ticks
    /\ p.step \in {"fetch", "late"} /\ p.fetch.seen = "pinned" => p.fetch.asked <= lastPinned

\* A request moves within the invariant.
LEMMA PostMoves ==
    ASSUME GatewayInv, NEW r \in Posts, NEW p \in PostRecords, Follows(r, p),
           ForwardsOK(r, p, leases'), AnswersOK(r, p, leases'), SeenOK(p),
           cache' \in [surface : Surfaces \cup {"none"}, at : Nat],
           cache'.surface = "pinned" => cache'.at <= lastPinned
    PROVE  GatewayInv'
<1>1. /\ DOMAIN posts = Posts
      /\ posts'[r] = p
      /\ \A q \in Posts \ {r} : posts'[q] = posts[q]
      /\ p.step # "new"
  BY DEF GatewayInv, PostTypes, Follows, PostRecords, PostSteps, Ends
<1>2. PostTypes'
  BY <1>1 DEF GatewayInv, PostTypes, Follows
<1>3. ForwardOK'
  <2> SUFFICES ASSUME NEW q \in Posts, posts'[q].step # "new",
                      NEW k \in posts'[q].forward, ToolCall(posts'[q].batch[k])
               PROVE  posts'[q].batch[k] = "allowed" /\ <<q, k>> \in leases'
    BY DEF ForwardOK, ToolCall
  <2>1. CASE q = r
    BY <2>1, <1>1 DEF ForwardsOK
  <2>2. CASE q # r
    BY <2>2, <1>1 DEF GatewayInv, ForwardOK, Follows
  <2> QED
    BY <2>1, <2>2
<1>4. SentOK'
  <2> SUFFICES ASSUME NEW q \in Posts, posts'[q].step # "new"
               PROVE  /\ posts'[q].sent => posts'[q].step \in Ends \cup {"sent", "record"}
                      /\ posts'[q].step \in {"sent", "record"} => posts'[q].sent
                      /\ posts'[q].step = "answered" /\ posts'[q].sent =>
                            ToRecord(q)' \subseteq receipts' \cap verified'
    BY DEF SentOK
  <2>1. ToRecord(q)' = {<<q, k>> : k \in {j \in posts'[q].forward : <<q, j>> \in leases'}}
    BY DEF ToRecord, Tracked
  <2>2. CASE q = r
    <3>1. posts'[q] = p /\ receipts' = receipts /\ verified' = verified
      BY <2>2, <1>1 DEF Follows
    <3>2. ToRecord(q)' = {<<r, k>> : k \in {j \in p.forward : <<r, j>> \in leases'}}
      BY <2>1, <2>2, <3>1
    <3>3. ASSUME p.step = "answered", p.sent PROVE ToRecord(q)' \subseteq receipts \cap verified
      BY <3>2, <3>3 DEF AnswersOK
    <3> QED
      BY <3>1, <3>3 DEF AnswersOK
  <2>3. CASE q # r
    <3>1. ToRecord(q)' \subseteq ToRecord(q)
      BY <2>1, <2>3, <1>1 DEF ToRecord, Tracked, Follows
    <3>2. posts'[q] = posts[q] /\ receipts' = receipts /\ verified' = verified
      BY <2>3, <1>1 DEF Follows
    <3> QED
      BY <3>1, <3>2 DEF GatewayInv, SentOK
  <2> QED
    BY <2>2, <2>3
<1>5. HappenedOK'
  <2> SUFFICES ASSUME NEW e \in happened
               PROVE  \E q \in Posts : \E k \in posts'[q].forward :
                          /\ e = <<q, k>> /\ posts'[q].step # "new" /\ posts'[q].sent
                          /\ ToolCall(posts'[q].batch[k])
    BY DEF HappenedOK, Follows, ToolCall
  <2>1. PICK q \in Posts : \E k \in posts[q].forward :
            /\ e = <<q, k>> /\ posts[q].step # "new" /\ posts[q].sent
            /\ ToolCall(posts[q].batch[k])
    BY DEF GatewayInv, HappenedOK
  <2>2. /\ posts'[q].forward = posts[q].forward /\ posts'[q].batch = posts[q].batch
        /\ posts'[q].step # "new" /\ posts'[q].sent
    BY <2>1, <1>1 DEF Follows
  <2> QED
    BY <2>1, <2>2
<1>6. PinOK'
  BY <1>1 DEF GatewayInv, PinOK, Follows, SeenOK
<1> QED
  BY <1>2, <1>3, <1>4, <1>5, <1>6 DEF GatewayInv

\* A request that ends keeps the invariant: with an error at any time, with
\* an answer when it sent nothing or all is in the evidence; its fetch may
\* fill the cache and its call may consume a lease at the same time.
LEMMA EndingWith ==
    ASSUME GatewayInv, NEW r \in Posts, NEW status \in {"answered", "error"}, Closes(r, status),
           posts[r].step # "new",
           leases' \subseteq leases \cup {<<r, posts[r].next>>}, leases \subseteq leases',
           UNCHANGED <<ticks, surface, lastPinned, happened, receipts, verified>>,
           cache' \in [surface : Surfaces \cup {"none"}, at : Nat],
           cache'.surface = "pinned" => cache'.at <= lastPinned,
           status = "answered" /\ posts[r].sent =>
               leases' = leases /\ ToRecord(r) \subseteq receipts \cap verified
    PROVE  GatewayInv'
<1> DEFINE p == Closed(posts[r], status)
<1>1. posts[r] \in PostRecords
  BY Received DEF GatewayInv
<1>2. /\ p \in PostRecords /\ p.step = status /\ p.sent = posts[r].sent
      /\ posts[r].sent => p.batch = posts[r].batch /\ p.forward = posts[r].forward
      /\ ~posts[r].sent => p.forward = {}
  BY <1>1, ClosedPost DEF Ends
<1>3. posts' = [posts EXCEPT ![r] = p]
  BY DEF Closes
<1> HIDE DEF p
<1>4. Follows(r, p)
  BY <1>2, <1>3 DEF Follows
<1>5. ForwardsOK(r, p, leases')
  BY <1>2 DEF GatewayInv, ForwardOK, ForwardsOK
<1>6. AnswersOK(r, p, leases')
  BY <1>2 DEF AnswersOK, ToRecord, Tracked, Ends
<1>7. SeenOK(p)
  BY <1>2 DEF SeenOK
<1> QED
  BY <1>2, <1>4, <1>5, <1>6, <1>7, PostMoves

\* A request that ends and changes nothing else keeps the invariant.
LEMMA Ending ==
    ASSUME GatewayInv, NEW r \in Posts, NEW status \in {"answered", "error"}, Closes(r, status),
           posts[r].step # "new",
           UNCHANGED <<ticks, surface, lastPinned, cache, leases, happened, receipts, verified>>,
           status = "answered" /\ posts[r].sent => ToRecord(r) \subseteq receipts \cap verified
    PROVE  GatewayInv'
<1>1. cache' \in [surface : Surfaces \cup {"none"}, at : Nat]
      /\ (cache'.surface = "pinned" => cache'.at <= lastPinned)
  BY DEF GatewayInv, PostTypes, PinOK
<1> QED
  BY <1>1, EndingWith

\* A step within the evaluation of a batch: nothing is sent yet, and what is
\* to be forwarded stays.
Evaluating == {"item", "fetch", "authorize"}

\* A request keeps the invariant while its items are evaluated.
LEMMA Evaluation ==
    ASSUME GatewayInv, NEW r \in Posts, NEW p \in PostRecords, posts' = [posts EXCEPT ![r] = p],
           posts[r].step \in Evaluating, p.step \in Evaluating,
           p.sent = posts[r].sent, p.batch = posts[r].batch,
           ForwardsOK(r, p, leases'), SeenOK(p),
           leases' \subseteq leases \cup {<<r, posts[r].next>>}, leases \subseteq leases',
           UNCHANGED <<ticks, surface, lastPinned, happened, receipts, verified>>,
           cache' \in [surface : Surfaces \cup {"none"}, at : Nat],
           cache'.surface = "pinned" => cache'.at <= lastPinned
    PROVE  GatewayInv'
<1>1. ~posts[r].sent
  BY DEF GatewayInv, SentOK, Evaluating, Ends
<1>2. Follows(r, p)
  BY <1>1 DEF Follows
<1>3. AnswersOK(r, p, leases')
  BY <1>1 DEF AnswersOK, Evaluating
<1> QED
  BY <1>2, <1>3, PostMoves

\* An item is settled: what is forwarded is no tool call, or has its lease.
LEMMA Settling ==
    ASSUME GatewayInv, NEW r \in Posts, NEW forward \in BOOLEAN, Settle(r, forward),
           posts[r].step \in Evaluating,
           forward /\ ToolCall(Item(r)) => Item(r) = "allowed" /\ <<r, posts[r].next>> \in leases',
           leases' \subseteq leases \cup {<<r, posts[r].next>>}, leases \subseteq leases',
           UNCHANGED <<ticks, surface, lastPinned, happened, receipts, verified>>,
           cache' \in [surface : Surfaces \cup {"none"}, at : Nat],
           cache'.surface = "pinned" => cache'.at <= lastPinned
    PROVE  GatewayInv'
<1> DEFINE answer == ~forward /\ Item(r) # "deniedNotice"
           fw == IF forward THEN posts[r].forward \cup {posts[r].next} ELSE posts[r].forward
           an == IF answer THEN posts[r].response \cup {posts[r].next} ELSE posts[r].response
           p == Settled(posts[r], forward, answer)
<1>1. posts[r] \in PostRecords
  BY Received DEF GatewayInv, Evaluating
<1>2. /\ p \in PostRecords /\ p.step = "item" /\ p.sent = posts[r].sent
      /\ p.batch = posts[r].batch /\ p.forward = fw
  <2>1. /\ posts[r].next \in Nat /\ posts[r].forward \in SUBSET Nat
        /\ posts[r].response \in SUBSET Nat
    BY <1>1 DEF PostRecords
  <2>2. fw \in SUBSET Nat /\ an \in SUBSET Nat /\ posts[r].next + 1 \in Nat
    BY <2>1
  <2> QED
    BY <1>1, <2>2, NoFetchKnown DEF PostRecords, PostSteps, Settled
<1>3. posts' = [posts EXCEPT ![r] = p]
  BY DEF Settle
<1> HIDE DEF p
<1>4. ForwardsOK(r, p, leases')
  <2> SUFFICES ASSUME NEW k \in fw, ToolCall(posts[r].batch[k])
               PROVE  posts[r].batch[k] = "allowed" /\ <<r, k>> \in leases'
    BY <1>2 DEF ForwardsOK
  <2>1. CASE k \in posts[r].forward
    BY <2>1 DEF GatewayInv, ForwardOK, Evaluating
  <2>2. CASE forward /\ k = posts[r].next
    BY <2>2 DEF Item
  <2> QED
    BY <2>1, <2>2
<1>5. SeenOK(p)
  BY <1>2 DEF SeenOK
<1> QED
  BY <1>2, <1>3, <1>4, <1>5, Evaluation DEF Evaluating

\* The cache as the invariant has it.
LEMMA CacheKept ==
    ASSUME GatewayInv, UNCHANGED cache
    PROVE  /\ cache' \in [surface : Surfaces \cup {"none"}, at : Nat]
           /\ cache'.surface = "pinned" => cache'.at <= lastPinned
BY DEF GatewayInv, PostTypes, PinOK

---------------------------------------------------------------------------
(* The actions.                                                            *)

\* A body is received: nothing of it is forwarded or sent.
LEMMA ReceiveStep ==
    ASSUME GatewayInv, NEW r \in Posts, NEW batch \in Batches, Receive(r, batch) PROVE GatewayInv'
<1> DEFINE p == [step |-> IF Len(batch) > MaxBatchItems THEN "error" ELSE "item",
                 batch |-> batch, next |-> 1, forward |-> {}, response |-> {},
                 fetch |-> NoFetch, sent |-> FALSE, lost |-> FALSE]
<1>1. p \in PostRecords
  BY BatchesAssumption, NoFetchKnown DEF PostRecords, PostSteps, Ends
<1>2. /\ p.forward = {} /\ p.sent = FALSE /\ p.step \in {"error", "item"}
  OBVIOUS
<1>3. /\ posts[r].step = "new"
      /\ posts' = [posts EXCEPT ![r] = p]
      /\ UNCHANGED <<ticks, surface, lastPinned, cache, leases, happened, receipts, verified>>
  BY DEF Receive, At
<1> HIDE DEF p
<1>4. Follows(r, p)
  BY <1>3 DEF Follows
<1>5. ForwardsOK(r, p, leases') /\ AnswersOK(r, p, leases') /\ SeenOK(p)
  BY <1>2 DEF ForwardsOK, AnswersOK, SeenOK
<1> QED
  BY <1>1, <1>3, <1>4, <1>5, CacheKept, PostMoves

\* A message that is no tool call is forwarded or refused.
LEMMA PassMessageStep == ASSUME GatewayInv, NEW r \in Posts, PassMessage(r) PROVE GatewayInv'
<1>1. /\ posts[r].step \in Evaluating /\ ~ToolCall(Item(r))
      /\ UNCHANGED <<ticks, surface, lastPinned, cache, leases, happened, receipts, verified>>
  BY DEF PassMessage, At, Evaluating
<1>2. PICK forward \in BOOLEAN : Settle(r, forward)
  BY DEF PassMessage
<1> QED
  BY <1>1, <1>2, CacheKept, Settling

\* The pin is compared: the call goes on to the policy or is refused.
LEMMA PinnedStep ==
    ASSUME GatewayInv, NEW r \in Posts, NEW seen, Pinned(r, seen), posts[r].step \in Evaluating,
           UNCHANGED <<ticks, surface, lastPinned, leases, happened, receipts, verified>>,
           cache' \in [surface : Surfaces \cup {"none"}, at : Nat],
           cache'.surface = "pinned" => cache'.at <= lastPinned
    PROVE  GatewayInv'
<1> DEFINE p == [posts[r] EXCEPT !.step = "authorize", !.fetch = NoFetch]
<1>1. CASE PinHolds(r, seen)
  <2>1. posts[r] \in PostRecords
    BY Received DEF GatewayInv, Evaluating
  <2>2. /\ p \in PostRecords /\ p.step = "authorize" /\ p.sent = posts[r].sent
        /\ p.batch = posts[r].batch /\ p.forward = posts[r].forward
    BY <2>1, NoFetchKnown DEF PostRecords, PostSteps
  <2>3. posts' = [posts EXCEPT ![r] = p]
    BY <1>1 DEF Pinned
  <2> HIDE DEF p
  <2>4. ForwardsOK(r, p, leases')
    BY <2>2 DEF ForwardsOK, GatewayInv, ForwardOK, Evaluating
  <2>5. SeenOK(p)
    BY <2>2 DEF SeenOK
  <2> QED
    BY <2>2, <2>3, <2>4, <2>5, Evaluation DEF Evaluating
<1>2. CASE ~PinHolds(r, seen)
  <2>1. Settle(r, FALSE)
    BY <1>2 DEF Pinned
  <2> QED
    BY <2>1, Settling
<1> QED
  BY <1>1, <1>2

\* The pin is compared with the cached manifest.
LEMMA CheckPinStep == ASSUME GatewayInv, NEW r \in Posts, CheckPin(r) PROVE GatewayInv'
BY CacheKept, PinnedStep DEF CheckPin, At, Evaluating

\* The manifest is to be fetched, as of now.
LEMMA FetchManifestStep == ASSUME GatewayInv, NEW r \in Posts, FetchManifest(r) PROVE GatewayInv'
<1> DEFINE p == [posts[r] EXCEPT !.step = "fetch",
                                 !.fetch = [NoFetch EXCEPT !.since = ticks, !.asked = ticks]]
<1>1. /\ posts[r].step = "item"
      /\ posts' = [posts EXCEPT ![r] = p]
      /\ UNCHANGED <<ticks, surface, lastPinned, cache, leases, happened, receipts, verified>>
  BY DEF FetchManifest, At
<1>2. posts[r] \in PostRecords /\ ticks \in Nat
  BY <1>1, Received DEF GatewayInv, PostTypes
<1>3. /\ p \in PostRecords /\ p.step = "fetch" /\ p.sent = posts[r].sent
      /\ p.fetch.since = ticks /\ p.fetch.asked = ticks /\ p.fetch.seen = "none"
      /\ p.batch = posts[r].batch /\ p.forward = posts[r].forward
  BY <1>2 DEF PostRecords, PostSteps, FetchRecords, NoFetch
<1> HIDE DEF p
<1>4. ForwardsOK(r, p, leases')
  BY <1>1, <1>3 DEF ForwardsOK, GatewayInv, ForwardOK
<1>5. SeenOK(p)
  BY <1>2, <1>3 DEF SeenOK
<1> QED
  BY <1>1, <1>3, <1>4, <1>5, CacheKept, Evaluation DEF Evaluating

\* A fetch moves on, its caller waiting or not, and nothing else changes.
LEMMA FetchMoves ==
    ASSUME GatewayInv, NEW r \in Posts, NEW f \in FetchRecords, posts[r].step \in {"fetch", "late"},
           posts' = [posts EXCEPT ![r] = [posts[r] EXCEPT !.fetch = f]],
           f.since <= f.asked, f.asked <= ticks, f.seen = "pinned" => f.asked <= lastPinned,
           UNCHANGED <<ticks, surface, lastPinned, cache, leases, happened, receipts, verified>>
    PROVE  GatewayInv'
<1> DEFINE p == [posts[r] EXCEPT !.fetch = f]
<1>1. posts[r] \in PostRecords
  BY Received DEF GatewayInv
<1>2. /\ p \in PostRecords /\ p.step = posts[r].step /\ p.sent = posts[r].sent /\ p.fetch = f
      /\ p.batch = posts[r].batch /\ p.forward = posts[r].forward
  BY <1>1 DEF PostRecords
<1>3. posts' = [posts EXCEPT ![r] = p]
  OBVIOUS
<1> HIDE DEF p
<1>4. Follows(r, p)
  BY <1>2, <1>3 DEF Follows
<1>5. ForwardsOK(r, p, leases')
  BY <1>2 DEF ForwardsOK, GatewayInv, ForwardOK
<1>6. AnswersOK(r, p, leases')
  BY <1>2 DEF AnswersOK, GatewayInv, SentOK, Ends
<1>7. SeenOK(p)
  BY <1>2 DEF SeenOK
<1> QED
  BY <1>2, <1>4, <1>5, <1>6, <1>7, CacheKept, PostMoves

\* What a request knows of its fetch.
LEMMA FetchKnown ==
    ASSUME GatewayInv, NEW r \in Posts, posts[r].step \in {"fetch", "late"}
    PROVE  /\ posts[r] \in PostRecords /\ posts[r].fetch \in FetchRecords
           /\ posts[r].fetch.since <= posts[r].fetch.asked /\ posts[r].fetch.asked <= ticks
           /\ posts[r].fetch.seen = "pinned" => posts[r].fetch.asked <= lastPinned
<1>1. posts[r] \in PostRecords
  BY Received DEF GatewayInv
<1>2. posts[r].fetch \in FetchRecords
  BY <1>1 DEF PostRecords
<1> QED
  BY <1>1, <1>2 DEF GatewayInv, PinOK

\* The second request is made now.
LEMMA AskAgainStep == ASSUME GatewayInv, NEW r \in Posts, AskAgain(r) PROVE GatewayInv'
<1> DEFINE f == [posts[r].fetch EXCEPT !.asked = ticks, !.listed = TRUE]
<1>1. /\ posts[r].step \in {"fetch", "late"} /\ posts[r].fetch.seen = "none"
      /\ posts' = [posts EXCEPT ![r] = [posts[r] EXCEPT !.fetch = f]]
      /\ UNCHANGED <<ticks, surface, lastPinned, cache, leases, happened, receipts, verified>>
  BY DEF AskAgain, Fetching
<1>2. posts[r].fetch \in FetchRecords /\ ticks \in Nat
      /\ posts[r].fetch.since <= posts[r].fetch.asked /\ posts[r].fetch.asked <= ticks
  BY <1>1, FetchKnown DEF GatewayInv, PostTypes
<1>3. /\ f \in FetchRecords /\ f.since = posts[r].fetch.since /\ f.asked = ticks
      /\ f.seen = "none"
  BY <1>1, <1>2 DEF FetchRecords
<1>4. f.since <= f.asked /\ f.asked <= ticks
  BY <1>2, <1>3 DEF FetchRecords
<1> HIDE DEF f
<1> QED
  BY <1>1, <1>3, <1>4, FetchMoves

\* The upstream answers with what it offers now.
LEMMA ManifestReadStep == ASSUME GatewayInv, NEW r \in Posts, ManifestRead(r) PROVE GatewayInv'
<1> DEFINE f == [posts[r].fetch EXCEPT !.seen = surface]
<1>1. /\ posts[r].step \in {"fetch", "late"}
      /\ posts' = [posts EXCEPT ![r] = [posts[r] EXCEPT !.fetch = f]]
      /\ UNCHANGED <<ticks, surface, lastPinned, cache, leases, happened, receipts, verified>>
  BY DEF ManifestRead, Fetching
<1>2. /\ posts[r].fetch \in FetchRecords /\ surface \in Surfaces
      /\ posts[r].fetch.since <= posts[r].fetch.asked /\ posts[r].fetch.asked <= ticks
      /\ surface = "pinned" => lastPinned = ticks
  BY <1>1, FetchKnown DEF GatewayInv, PostTypes, PinOK
<1>3. /\ f \in FetchRecords /\ f.since = posts[r].fetch.since /\ f.asked = posts[r].fetch.asked
      /\ f.seen = surface
  BY <1>2 DEF FetchRecords
<1> HIDE DEF f
<1> QED
  BY <1>1, <1>2, <1>3, FetchMoves

\* The manifest is cached as of the time before its fetch.
LEMMA StoreManifestStep == ASSUME GatewayInv, NEW r \in Posts, StoreManifest(r) PROVE GatewayInv'
<1>1. /\ posts[r].step \in {"fetch", "late"}
      /\ posts[r].fetch.seen # "none"
      /\ cache' = [surface |-> posts[r].fetch.seen, at |-> posts[r].fetch.since]
      /\ UNCHANGED <<ticks, surface, lastPinned, leases, happened, receipts, verified>>
  BY DEF StoreManifest, Fetching, Stored
<1>2. /\ posts[r].fetch \in FetchRecords /\ lastPinned \in Nat
      /\ posts[r].fetch.since <= posts[r].fetch.asked
      /\ posts[r].fetch.seen = "pinned" => posts[r].fetch.asked <= lastPinned
  BY <1>1, FetchKnown DEF GatewayInv, PostTypes
<1>3. /\ cache' \in [surface : Surfaces \cup {"none"}, at : Nat]
      /\ cache'.surface = "pinned" => cache'.at <= lastPinned
  BY <1>1, <1>2 DEF FetchRecords
<1>4. CASE posts[r].step = "fetch" /\ Pinned(r, posts[r].fetch.seen)
  BY <1>1, <1>3, <1>4, PinnedStep DEF Evaluating
<1>5. CASE Closes(r, "error")
  BY <1>1, <1>3, <1>5, EndingWith
<1> QED
  BY <1>4, <1>5 DEF StoreManifest, At

\* The fetch of the manifest fails, and the request with it.
LEMMA FetchFailsStep == ASSUME GatewayInv, NEW r \in Posts, FetchFails(r) PROVE GatewayInv'
BY Ending DEF FetchFails, At

\* The request fails while its fetch goes on.
LEMMA FetchTimesOutStep == ASSUME GatewayInv, NEW r \in Posts, FetchTimesOut(r) PROVE GatewayInv'
<1> DEFINE p == [Closed(posts[r], "late") EXCEPT !.fetch = posts[r].fetch]
<1>1. /\ posts[r].step = "fetch"
      /\ posts' = [posts EXCEPT ![r] = p]
      /\ UNCHANGED <<ticks, surface, lastPinned, cache, leases, happened, receipts, verified>>
  BY DEF FetchTimesOut, At
<1>2. /\ posts[r] \in PostRecords /\ posts[r].fetch \in FetchRecords
      /\ posts[r].fetch.since <= posts[r].fetch.asked /\ posts[r].fetch.asked <= ticks
      /\ posts[r].fetch.seen = "pinned" => posts[r].fetch.asked <= lastPinned
  BY <1>1, FetchKnown
<1>3. ~posts[r].sent
  BY <1>1 DEF GatewayInv, SentOK, Ends
<1>4. /\ Closed(posts[r], "late") \in PostRecords /\ Closed(posts[r], "late").step = "late"
      /\ Closed(posts[r], "late").sent = posts[r].sent
      /\ Closed(posts[r], "late").forward = {}
  BY <1>2, <1>3, ClosedPost DEF Ends
<1>5. /\ p \in PostRecords /\ p.step = "late" /\ p.sent = posts[r].sent /\ p.forward = {}
      /\ p.fetch = posts[r].fetch
  BY <1>2, <1>4 DEF PostRecords
<1> HIDE DEF p
<1>6. Follows(r, p)
  BY <1>1, <1>3 DEF Follows
<1>7. ForwardsOK(r, p, leases') /\ AnswersOK(r, p, leases')
  BY <1>3, <1>5 DEF ForwardsOK, AnswersOK
<1>8. SeenOK(p)
  BY <1>2, <1>5 DEF SeenOK
<1> QED
  BY <1>1, <1>5, <1>6, <1>7, <1>8, CacheKept, PostMoves

\* The policy decides; an allowed call is forwarded under its lease.
LEMMA AuthorizeStep == ASSUME GatewayInv, NEW r \in Posts, Authorize(r) PROVE GatewayInv'
<1>1. /\ posts[r].step = "authorize"
      /\ UNCHANGED <<ticks, surface, lastPinned, cache, happened, receipts, verified>>
  BY DEF Authorize, At
<1>2. CASE /\ Item(r) = "allowed"
           /\ leases' = leases \cup {<<r, posts[r].next>>}
           /\ Settle(r, TRUE)
  BY <1>1, <1>2, CacheKept, Settling DEF Evaluating
<1>3. CASE Settle(r, FALSE) /\ UNCHANGED leases
  BY <1>1, <1>3, CacheKept, Settling DEF Evaluating
<1>4. CASE /\ Closes(r, "error")
           /\ UNCHANGED leases \/ leases' = leases \cup {<<r, posts[r].next>>}
  <2>1. /\ cache' \in [surface : Surfaces \cup {"none"}, at : Nat]
        /\ cache'.surface = "pinned" => cache'.at <= lastPinned
    BY <1>1 DEF GatewayInv, PostTypes, PinOK
  <2> QED
    BY <1>1, <1>4, <2>1, EndingWith
<1> QED
  BY <1>2, <1>3, <1>4 DEF Authorize

\* The batch is evaluated: answered at once, or sent.
LEMMA DispatchStep == ASSUME GatewayInv, NEW r \in Posts, Dispatch(r) PROVE GatewayInv'
<1> DEFINE p == [posts[r] EXCEPT !.step = "sent", !.sent = TRUE, !.forward = Allowed(r)]
<1>1. /\ posts[r].step = "item"
      /\ UNCHANGED <<ticks, surface, lastPinned, cache, leases, happened, receipts, verified>>
  BY DEF Dispatch, At
<1>2. posts[r] \in PostRecords /\ ~posts[r].sent
  BY <1>1, Received DEF GatewayInv, SentOK, Ends
<1>3. CASE Allowed(r) = {}
  <2>1. Closes(r, "answered")
    BY <1>3 DEF Dispatch, Closes
  <2> QED
    BY <1>1, <1>2, <2>1, Ending
<1>4. CASE Allowed(r) # {}
  <2>1. posts' = [posts EXCEPT ![r] = p]
    BY <1>4 DEF Dispatch
  <2>2. /\ p \in PostRecords /\ p.step = "sent" /\ p.sent
        /\ p.batch = posts[r].batch /\ p.forward = posts[r].forward
    BY <1>2 DEF PostRecords, PostSteps, Allowed
  <2> HIDE DEF p
  <2>3. Follows(r, p)
    BY <1>1, <1>2, <2>1 DEF Follows
  <2>4. ForwardsOK(r, p, leases')
    BY <1>1, <2>2 DEF ForwardsOK, GatewayInv, ForwardOK
  <2>5. AnswersOK(r, p, leases') /\ SeenOK(p)
    BY <2>2 DEF AnswersOK, SeenOK
  <2> QED
    BY <1>1, <2>2, <2>3, <2>4, <2>5, CacheKept, PostMoves
<1> QED
  BY <1>3, <1>4

\* A sent request that only waits for its evidence.
LEMMA ToEvidence ==
    ASSUME GatewayInv, NEW r \in Posts, NEW p \in PostRecords, posts' = [posts EXCEPT ![r] = p],
           posts[r].step = "sent", p.step = "record", p.sent = posts[r].sent,
           p.batch = posts[r].batch, p.forward = posts[r].forward,
           UNCHANGED <<ticks, surface, lastPinned, cache, leases, happened, receipts, verified>>
    PROVE  GatewayInv'
<1>1. posts[r].sent
  BY DEF GatewayInv, SentOK
<1>2. Follows(r, p)
  BY <1>1 DEF Follows
<1>3. ForwardsOK(r, p, leases')
  BY DEF ForwardsOK, GatewayInv, ForwardOK
<1>4. AnswersOK(r, p, leases') /\ SeenOK(p)
  BY <1>1 DEF AnswersOK, SeenOK
<1> QED
  BY <1>2, <1>3, <1>4, CacheKept, PostMoves

\* The response arrives.
LEMMA UpstreamAnswersStep == ASSUME GatewayInv, NEW r \in Posts, UpstreamAnswers(r) PROVE GatewayInv'
<1> DEFINE p == [posts[r] EXCEPT !.step = "record"]
<1>1. /\ posts[r].step = "sent" /\ posts' = [posts EXCEPT ![r] = p]
      /\ UNCHANGED <<ticks, surface, lastPinned, cache, leases, happened, receipts, verified>>
  BY DEF UpstreamAnswers, At, Moves
<1>2. posts[r] \in PostRecords
  BY <1>1, Received DEF GatewayInv
<1>3. /\ p \in PostRecords /\ p.step = "record" /\ p.sent = posts[r].sent
      /\ p.batch = posts[r].batch /\ p.forward = posts[r].forward
  BY <1>2 DEF PostRecords, PostSteps
<1> HIDE DEF p
<1> QED
  BY <1>1, <1>3, ToEvidence

\* The response is lost: what was sent may still happen.
LEMMA UpstreamLostStep == ASSUME GatewayInv, NEW r \in Posts, UpstreamLost(r) PROVE GatewayInv'
<1> DEFINE p == [posts[r] EXCEPT !.step = "record", !.lost = TRUE]
<1>1. /\ posts[r].step = "sent" /\ posts' = [posts EXCEPT ![r] = p]
      /\ UNCHANGED <<ticks, surface, lastPinned, cache, leases, happened, receipts, verified>>
  BY DEF UpstreamLost, At
<1>2. posts[r] \in PostRecords
  BY <1>1, Received DEF GatewayInv
<1>3. /\ p \in PostRecords /\ p.step = "record" /\ p.sent = posts[r].sent
      /\ p.batch = posts[r].batch /\ p.forward = posts[r].forward
  BY <1>2 DEF PostRecords, PostSteps
<1> HIDE DEF p
<1> QED
  BY <1>1, <1>3, ToEvidence

\* The evidence of any request only grows.
LEMMA EvidenceGrows ==
    ASSUME GatewayInv, receipts \subseteq receipts', verified \subseteq verified',
           UNCHANGED <<ticks, surface, lastPinned, cache, posts, leases, happened>>
    PROVE  GatewayInv'
<1>1. PostTypes' /\ ForwardOK' /\ PinOK' /\ HappenedOK'
  BY DEF GatewayInv, PostTypes, ForwardOK, PinOK, HappenedOK
<1>2. \A r \in Posts : ToRecord(r)' = ToRecord(r)
  BY DEF ToRecord, Tracked
<1>3. SentOK'
  BY <1>2 DEF GatewayInv, SentOK
<1> QED
  BY <1>1, <1>3 DEF GatewayInv

\* A receipt is recorded, or the recorder throws.
LEMMA RecordReceiptStep == ASSUME GatewayInv, NEW r \in Posts, RecordReceipt(r) PROVE GatewayInv'
<1>1. /\ posts[r].step = "record"
      /\ UNCHANGED <<ticks, surface, lastPinned, cache, leases, happened, verified>>
      /\ \/ receipts \subseteq receipts' /\ UNCHANGED posts
         \/ Closes(r, "error") /\ UNCHANGED receipts
  BY DEF RecordReceipt, At
<1>2. CASE receipts \subseteq receipts' /\ UNCHANGED posts
  BY <1>1, <1>2, EvidenceGrows
<1>3. CASE Closes(r, "error") /\ UNCHANGED receipts
  BY <1>1, <1>3, Ending
<1> QED
  BY <1>1, <1>2, <1>3

\* A verification is recorded, or the verifier times out.
LEMMA FinalizeStep == ASSUME GatewayInv, NEW r \in Posts, Finalize(r) PROVE GatewayInv'
<1>1. /\ posts[r].step = "record"
      /\ UNCHANGED <<ticks, surface, lastPinned, cache, leases, happened, receipts>>
      /\ \/ verified \subseteq verified' /\ UNCHANGED posts
         \/ Closes(r, "error") /\ UNCHANGED verified
  BY DEF Finalize, At
<1>2. CASE verified \subseteq verified' /\ UNCHANGED posts
  BY <1>1, <1>2, EvidenceGrows
<1>3. CASE Closes(r, "error") /\ UNCHANGED verified
  BY <1>1, <1>3, Ending
<1> QED
  BY <1>1, <1>2, <1>3

\* The answer, once all is in the evidence.
LEMMA ReplyStep == ASSUME GatewayInv, NEW r \in Posts, Reply(r) PROVE GatewayInv'
BY Ending DEF Reply, At, Ends

\* The upstream executes a call that was sent to it.
LEMMA UpstreamActsStep == ASSUME GatewayInv, NEW r \in Posts, NEW k, UpstreamActs(r, k) PROVE GatewayInv'
<1>1. /\ posts[r].step # "new" /\ posts[r].sent /\ k \in posts[r].forward
      /\ ToolCall(posts[r].batch[k]) /\ happened' = happened \cup {<<r, k>>}
      /\ UNCHANGED <<ticks, surface, lastPinned, cache, posts, leases, receipts, verified>>
  BY DEF UpstreamActs
<1>2. PostTypes' /\ ForwardOK' /\ PinOK'
  BY <1>1 DEF GatewayInv, PostTypes, ForwardOK, PinOK
<1>3. \A q \in Posts : ToRecord(q)' = ToRecord(q)
  BY <1>1 DEF ToRecord, Tracked
<1>4. SentOK'
  BY <1>1, <1>3 DEF GatewayInv, SentOK
<1>5. HappenedOK'
  BY <1>1 DEF GatewayInv, HappenedOK
<1> QED
  BY <1>2, <1>4, <1>5 DEF GatewayInv

\* Time passes, or the surface changes.
LEMMA WorldStep == ASSUME GatewayInv, HttpTick \/ SurfaceChanges PROVE GatewayInv'
<1>1. UNCHANGED <<cache, posts, leases, happened, receipts, verified>>
  BY DEF HttpTick, SurfaceChanges
<1>2. /\ ticks \in Nat /\ lastPinned \in Nat /\ surface \in Surfaces /\ lastPinned <= ticks
      /\ surface = "pinned" => lastPinned = ticks
  BY DEF GatewayInv, PostTypes, PinOK
<1>3. /\ ticks' \in Nat /\ lastPinned' \in Nat /\ surface' \in Surfaces
      /\ ticks <= ticks' /\ lastPinned <= lastPinned' /\ lastPinned' <= ticks'
      /\ surface' = "pinned" => lastPinned' = ticks'
  BY <1>2 DEF HttpTick, SurfaceChanges, Surfaces
<1>4. PostTypes'
  BY <1>1, <1>3 DEF GatewayInv, PostTypes
<1>5. ForwardOK' /\ HappenedOK'
  BY <1>1 DEF GatewayInv, ForwardOK, HappenedOK
<1>6. SentOK'
  <2>1. \A q \in Posts : ToRecord(q)' = ToRecord(q)
    BY <1>1 DEF ToRecord, Tracked
  <2> QED
    BY <1>1, <2>1 DEF GatewayInv, SentOK
<1>7. PinOK'
  <2>1. cache.at \in Nat
    BY DEF GatewayInv, PostTypes
  <2>2. \A r \in Posts : posts[r].step \in {"fetch", "late"} => posts[r].fetch.asked \in Nat
    BY FetchKnown DEF FetchRecords
  <2>3. /\ cache.surface = "pinned" => cache.at <= lastPinned
        /\ \A r \in Posts : posts[r].step \in {"fetch", "late"} =>
               posts[r].fetch.since <= posts[r].fetch.asked /\ posts[r].fetch.asked <= ticks
        /\ \A r \in Posts : posts[r].step \in {"fetch", "late"} /\ posts[r].fetch.seen = "pinned" =>
               posts[r].fetch.asked <= lastPinned
    BY DEF GatewayInv, PinOK
  <2> QED
    BY <1>1, <1>2, <1>3, <2>1, <2>2, <2>3 DEF PinOK
<1> QED
  BY <1>4, <1>5, <1>6, <1>7 DEF GatewayInv

\* The gateway is started again: open requests are lost, what they sent is
\* not.
LEMMA RestartsStep == ASSUME GatewayInv, Restarts PROVE GatewayInv'
<1>1. /\ posts' = [r \in Posts |-> IF posts[r].step \in {"new", "answered", "error"} THEN posts[r]
                                   ELSE Closed(posts[r], "error")]
      /\ cache' = [surface |-> "none", at |-> 0]
      /\ UNCHANGED <<ticks, surface, lastPinned, leases, happened, receipts, verified>>
  BY DEF Restarts, NotCached
<1>2. ASSUME NEW r \in Posts
      PROVE  \/ posts'[r] = posts[r] /\ posts[r].step \in {"new", "answered", "error"}
             \/ /\ posts'[r] \in PostRecords /\ posts[r].step # "new" /\ posts'[r].step = "error"
                /\ posts'[r].sent = posts[r].sent
                /\ posts[r].sent => /\ posts'[r].batch = posts[r].batch
                                    /\ posts'[r].forward = posts[r].forward
                /\ ~posts[r].sent => posts'[r].forward = {}
  <2>1. CASE posts[r].step \in {"new", "answered", "error"}
    BY <1>1, <2>1
  <2>2. CASE posts[r].step \notin {"new", "answered", "error"}
    <3>1. posts'[r] = Closed(posts[r], "error") /\ posts[r].step # "new"
      BY <1>1, <2>2
    <3>2. posts[r] \in PostRecords
      BY <3>1, Received DEF GatewayInv
    <3> QED
      BY <3>1, <3>2, ClosedPost DEF Ends
  <2> QED
    BY <2>1, <2>2
<1>3. PostTypes'
  BY <1>1, <1>2 DEF GatewayInv, PostTypes
<1>4. ForwardOK'
  BY <1>1, <1>2 DEF GatewayInv, ForwardOK
<1>5. SentOK'
  <2> SUFFICES ASSUME NEW r \in Posts, posts'[r].step # "new"
               PROVE  /\ posts'[r].sent => posts'[r].step \in Ends \cup {"sent", "record"}
                      /\ posts'[r].step \in {"sent", "record"} => posts'[r].sent
                      /\ posts'[r].step = "answered" /\ posts'[r].sent =>
                            ToRecord(r)' \subseteq receipts' \cap verified'
    BY DEF SentOK
  <2>1. CASE posts'[r] = posts[r] /\ posts[r].step \in {"new", "answered", "error"}
    <3>1. ToRecord(r)' = ToRecord(r)
      BY <1>1, <2>1 DEF ToRecord, Tracked
    <3> QED
      BY <1>1, <2>1, <3>1 DEF GatewayInv, SentOK
  <2>2. CASE posts'[r].step = "error"
    BY <2>2 DEF Ends
  <2> QED
    BY <1>2, <2>1, <2>2
<1>6. HappenedOK'
  <2> SUFFICES ASSUME NEW e \in happened
               PROVE  \E q \in Posts : \E k \in posts'[q].forward :
                          /\ e = <<q, k>> /\ posts'[q].step # "new" /\ posts'[q].sent
                          /\ ToolCall(posts'[q].batch[k])
    BY <1>1 DEF HappenedOK
  <2>1. PICK q \in Posts : \E k \in posts[q].forward :
            /\ e = <<q, k>> /\ posts[q].step # "new" /\ posts[q].sent
            /\ ToolCall(posts[q].batch[k])
    BY DEF GatewayInv, HappenedOK
  <2>2. /\ posts'[q].forward = posts[q].forward /\ posts'[q].batch = posts[q].batch
        /\ posts'[q].step # "new" /\ posts'[q].sent
    BY <2>1, <1>2
  <2> QED
    BY <2>1, <2>2
<1>7. PinOK'
  BY <1>1, <1>2 DEF GatewayInv, PinOK
<1> QED
  BY <1>3, <1>4, <1>5, <1>6, <1>7 DEF GatewayInv

---------------------------------------------------------------------------
(* The theorems.                                                           *)

\* The invariant holds throughout.
LEMMA GatewayInvariant == HttpSpec => []GatewayInv
<1>1. HttpInit => GatewayInv
  BY DEF HttpInit, GatewayInv, PostTypes, ForwardOK, SentOK, HappenedOK, PinOK, NotCached, Surfaces
<1>2. GatewayInv /\ [HttpNext]_httpVars => GatewayInv'
  <2> SUFFICES ASSUME GatewayInv, [HttpNext]_httpVars PROVE GatewayInv'
    OBVIOUS
  <2>1. CASE UNCHANGED httpVars
    BY <2>1, EvidenceGrows DEF httpVars
  <2>2. CASE HttpNext
    BY <2>2, WorldStep, RestartsStep, ReceiveStep, PassMessageStep, CheckPinStep,
       FetchManifestStep, AskAgainStep, ManifestReadStep, StoreManifestStep, FetchFailsStep,
       FetchTimesOutStep, AuthorizeStep,
       DispatchStep, UpstreamAnswersStep, UpstreamLostStep, RecordReceiptStep, FinalizeStep,
       ReplyStep, UpstreamActsStep, Zenon DEF HttpNext
  <2> QED
    BY <2>1, <2>2
<1> QED
  BY <1>1, <1>2, PTL DEF HttpSpec

\* Nothing happens upstream but allowed calls under their leases, and once a
\* request is answered all it may cause upstream has a receipt and a
\* verification, whatever the batches, however requests interleave, responses
\* are lost, the recorder fails and the gateway restarts.
THEOREM GatewayAccountable == HttpSpec => []EffectsAreAllowedAndRecorded
<1>1. GatewayInv => EffectsAreAllowedAndRecorded
  <2> SUFFICES ASSUME GatewayInv, NEW e \in happened
               PROVE  /\ e \in leases /\ posts[e[1]].batch[e[2]] = "allowed"
                      /\ posts[e[1]].step = "answered" => e \in receipts \cap verified
    BY DEF EffectsAreAllowedAndRecorded, OnlyAllowedHappens, EffectHasReceipt
  <2>1. PICK r \in Posts : \E k \in posts[r].forward :
            /\ e = <<r, k>> /\ posts[r].step # "new" /\ posts[r].sent
            /\ ToolCall(posts[r].batch[k])
    BY DEF GatewayInv, HappenedOK
  <2>2. PICK k \in posts[r].forward : e = <<r, k>> /\ ToolCall(posts[r].batch[k])
    BY <2>1
  <2>3. e[1] = r /\ e[2] = k
    BY <2>2
  <2>4. posts[r].batch[k] = "allowed" /\ <<r, k>> \in leases
    BY <2>1, <2>2 DEF GatewayInv, ForwardOK
  <2>5. e \in ToRecord(r)
    BY <2>2, <2>4 DEF ToRecord, Tracked
  <2>6. posts[r].step = "answered" => e \in receipts \cap verified
    BY <2>1, <2>5 DEF GatewayInv, SentOK
  <2> QED
    BY <2>2, <2>3, <2>4, <2>6
<1> QED
  BY <1>1, GatewayInvariant, PTL

\* No step moves a request to "authorize" but a comparison with the pin that
\* holds.
LEMMA OnlyByPin ==
    ASSUME GatewayInv, HttpNext, NEW r \in Posts, ~At(r, "authorize"), posts'[r].step = "authorize"
    PROVE  /\ CheckPin(r) \/ StoreManifest(r)
           /\ PinHolds(r, IF CheckPin(r) THEN cache.surface ELSE posts[r].fetch.seen)
<1>1. DOMAIN posts = Posts /\ posts = [q \in Posts |-> posts[q]]
  BY DEF GatewayInv, PostTypes
<1>2. ASSUME NEW q \in Posts, NEW p, posts' = [posts EXCEPT ![q] = p], p.step # "authorize"
      PROVE  FALSE
  BY <1>1, <1>2 DEF At
<1>3. ASSUME NEW q \in Posts, NEW status \in Ends, Closes(q, status), posts[q].step # "new"
      PROVE  FALSE
  <2>1. posts[q] \in PostRecords
    BY <1>3, Received DEF GatewayInv
  <2>2. Closed(posts[q], status).step # "authorize"
    BY <2>1, ClosedPost DEF Ends
  <2> QED
    BY <1>2, <1>3, <2>2 DEF Closes
<1>4. ASSUME NEW q \in Posts, NEW forward, Settle(q, forward), posts[q].step # "new"
      PROVE  FALSE
  <2> DEFINE p == Settled(posts[q], forward, ~forward /\ Item(q) # "deniedNotice")
  <2>1. posts[q] \in PostRecords
    BY <1>4, Received DEF GatewayInv
  <2>2. p.step # "authorize"
    BY <2>1 DEF PostRecords, Settled
  <2>3. posts' = [posts EXCEPT ![q] = p]
    BY <1>4 DEF Settle
  <2> HIDE DEF p
  <2> QED
    BY <1>2, <2>2, <2>3
<1>5. ASSUME NEW q \in Posts, NEW seen, Pinned(q, seen), posts[q].step # "new"
      PROVE  q = r /\ PinHolds(r, seen)
  BY <1>1, <1>4, <1>5 DEF Pinned, At
<1>6. ~(HttpTick \/ SurfaceChanges \/ Restarts)
  <2>1. ~HttpTick /\ ~SurfaceChanges
    BY DEF HttpTick, SurfaceChanges, At
  <2>2. ASSUME Restarts PROVE FALSE
    <3>1. posts'[r] = IF posts[r].step \in {"new", "answered", "error"} THEN posts[r]
                      ELSE Closed(posts[r], "error")
      BY <2>2 DEF Restarts
    <3>2. CASE posts[r].step \in {"new", "answered", "error"}
      BY <3>1, <3>2
    <3>3. CASE posts[r].step \notin {"new", "answered", "error"}
      BY <3>1, <3>3, Received, ClosedPost DEF GatewayInv, Ends
    <3> QED
      BY <3>2, <3>3
  <2> QED
    BY <2>1, <2>2
<1>7. ASSUME NEW q \in Posts, NEW batch \in Batches, Receive(q, batch) PROVE FALSE
  <2> DEFINE p == [step |-> IF Len(batch) > MaxBatchItems THEN "error" ELSE "item",
                   batch |-> batch, next |-> 1, forward |-> {}, response |-> {},
                   fetch |-> NoFetch, sent |-> FALSE, lost |-> FALSE]
  <2>1. p.step # "authorize" /\ posts' = [posts EXCEPT ![q] = p]
    BY <1>7 DEF Receive
  <2> HIDE DEF p
  <2> QED
    BY <2>1, <1>2
<1>8. ASSUME NEW q \in Posts, PassMessage(q) \/ FetchFails(q) \/ Authorize(q) \/ Reply(q)
      PROVE  FALSE
  <2>1. posts[q].step # "new"
    BY <1>8 DEF PassMessage, FetchFails, Authorize, Reply, At
  <2>2. \/ \E forward : Settle(q, forward)
        \/ Closes(q, "error") \/ Closes(q, "answered")
    BY <1>8 DEF PassMessage, FetchFails, Authorize, Reply
  <2> QED
    BY <2>1, <2>2, <1>3, <1>4 DEF Ends
<1>9. ASSUME NEW q \in Posts, RecordReceipt(q) \/ Finalize(q) PROVE FALSE
  <2>1. posts[q].step # "new" /\ (UNCHANGED posts \/ Closes(q, "error"))
    BY <1>9 DEF RecordReceipt, Finalize, At
  <2> QED
    BY <2>1, <1>3 DEF Ends, At
<1>10. ASSUME NEW q \in Posts, Dispatch(q) PROVE FALSE
  <2> DEFINE p == [posts[q] EXCEPT !.step = "sent", !.sent = TRUE, !.forward = Allowed(q)]
  <2>1. posts[q].step # "new"
    BY <1>10 DEF Dispatch, At
  <2>2. posts[q] \in PostRecords
    BY <2>1, Received DEF GatewayInv
  <2>3. Closes(q, "answered") \/ posts' = [posts EXCEPT ![q] = p]
    BY <1>10 DEF Dispatch, Closes
  <2>4. p.step # "authorize"
    BY <2>2 DEF PostRecords
  <2> HIDE DEF p
  <2> QED
    BY <1>2, <1>3, <2>1, <2>3, <2>4 DEF Ends
<1>11. ASSUME NEW q \in Posts, FetchManifest(q) PROVE FALSE
  <2> DEFINE p == [posts[q] EXCEPT !.step = "fetch",
                                   !.fetch = [NoFetch EXCEPT !.since = ticks, !.asked = ticks]]
  <2>1. posts[q] \in PostRecords /\ posts' = [posts EXCEPT ![q] = p]
    BY <1>11, Received DEF FetchManifest, At, GatewayInv
  <2>2. p.step # "authorize"
    BY <2>1 DEF PostRecords
  <2> HIDE DEF p
  <2> QED
    BY <1>2, <2>1, <2>2
<1>12. ASSUME NEW q \in Posts, AskAgain(q) \/ ManifestRead(q) \/ FetchTimesOut(q) PROVE FALSE
  <2>1. posts[q].step \in {"fetch", "late"}
    BY <1>12 DEF AskAgain, ManifestRead, Fetching, FetchTimesOut, At
  <2>2. posts[q] \in PostRecords
    BY <2>1, Received DEF GatewayInv
  <2>3. ASSUME NEW f, posts' = [posts EXCEPT ![q] = [posts[q] EXCEPT !.fetch = f]] PROVE FALSE
    <3>1. [posts[q] EXCEPT !.fetch = f].step # "authorize"
      BY <2>1, <2>2 DEF PostRecords
    <3> QED
      BY <1>2, <2>3, <3>1
  <2>4. ASSUME FetchTimesOut(q) PROVE FALSE
    <3> DEFINE p == [Closed(posts[q], "late") EXCEPT !.fetch = posts[q].fetch]
    <3>1. posts' = [posts EXCEPT ![q] = p]
      BY <2>4 DEF FetchTimesOut
    <3>2. Closed(posts[q], "late") \in PostRecords /\ Closed(posts[q], "late").step = "late"
      BY <2>2, ClosedPost DEF Ends
    <3>3. p.step # "authorize"
      BY <3>2 DEF PostRecords
    <3> HIDE DEF p
    <3> QED
      BY <1>2, <3>1, <3>3
  <2> QED
    BY <1>12, <2>3, <2>4 DEF AskAgain, ManifestRead
<1>13. ASSUME NEW q \in Posts, UpstreamAnswers(q) PROVE FALSE
  <2> DEFINE p == [posts[q] EXCEPT !.step = "record"]
  <2>1. posts[q] \in PostRecords /\ posts' = [posts EXCEPT ![q] = p]
    BY <1>13, Received DEF UpstreamAnswers, Moves, At, GatewayInv
  <2>2. p.step # "authorize"
    BY <2>1 DEF PostRecords
  <2> HIDE DEF p
  <2> QED
    BY <1>2, <2>1, <2>2
<1>14. ASSUME NEW q \in Posts, UpstreamLost(q) PROVE FALSE
  <2> DEFINE p == [posts[q] EXCEPT !.step = "record", !.lost = TRUE]
  <2>1. posts[q] \in PostRecords /\ posts' = [posts EXCEPT ![q] = p]
    BY <1>14, Received DEF UpstreamLost, At, GatewayInv
  <2>2. p.step # "authorize"
    BY <2>1 DEF PostRecords
  <2> HIDE DEF p
  <2> QED
    BY <1>2, <2>1, <2>2
<1>15. ASSUME NEW q \in Posts, NEW k, UpstreamActs(q, k) PROVE FALSE
  BY <1>15 DEF UpstreamActs, At
<1>16. ASSUME NEW q \in Posts, CheckPin(q)
       PROVE  q = r /\ PinHolds(r, cache.surface)
  BY <1>16, <1>5 DEF CheckPin, At
<1>17. ASSUME NEW q \in Posts, StoreManifest(q)
       PROVE  q = r /\ PinHolds(r, posts[r].fetch.seen)
  <2>1. posts[q].step # "new"
    BY <1>17 DEF StoreManifest
  <2> QED
    BY <1>17, <2>1, <1>3, <1>5 DEF StoreManifest, Ends
<1>18. \E q \in Posts : CheckPin(q) \/ StoreManifest(q)
  BY <1>6, <1>7, <1>8, <1>9, <1>10, <1>11, <1>12, <1>13, <1>14, <1>15, Zenon DEF HttpNext
<1> QED
  BY <1>16, <1>17, <1>18

\* A call gets past the pin only on a surface that the upstream offered at
\* most one refresh interval ago, though requests share the cache and their
\* fetches overtake each other.
THEOREM PinRecent == HttpSpec => PinIsRecent
<1>1. ASSUME GatewayInv, [HttpNext]_httpVars
      PROVE  [\A r \in Posts : (~At(r, "authorize") /\ posts'[r].step = "authorize")
                                  => ticks <= lastPinned + Refresh]_httpVars
  <2> SUFFICES ASSUME HttpNext, NEW r \in Posts, ~At(r, "authorize"), posts'[r].step = "authorize"
               PROVE  ticks <= lastPinned + Refresh
    BY <1>1 DEF At
  <2>1. /\ CheckPin(r) \/ StoreManifest(r)
        /\ PinHolds(r, IF CheckPin(r) THEN cache.surface ELSE posts[r].fetch.seen)
    BY <1>1, OnlyByPin
  <2>2. ticks \in Nat /\ lastPinned \in Nat /\ cache.at \in Nat /\ Refresh \in Nat
    BY <1>1, RefreshAssumption DEF GatewayInv, PostTypes
  <2>3. CASE CheckPin(r)
    BY <1>1, <2>1, <2>2, <2>3 DEF CheckPin, Cached, PinHolds, GatewayInv, PinOK
  <2>4. CASE StoreManifest(r) /\ ~CheckPin(r)
    <3>1. /\ posts[r].fetch.asked \in Nat
          /\ posts[r].fetch.seen = "pinned" => posts[r].fetch.asked <= lastPinned
      BY <1>1, <2>4, FetchKnown DEF StoreManifest, FetchRecords
    <3>2. posts[r].fetch.seen = "pinned" /\ ticks <= posts[r].fetch.asked + Refresh
      BY <2>1, <2>4 DEF StoreManifest, InTime, PinHolds
    <3> QED
      BY <2>2, <3>1, <3>2
  <2> QED
    BY <2>1, <2>3, <2>4
<1> QED
  BY <1>1, GatewayInvariant, PTL DEF HttpSpec, PinIsRecent

---------------------------------------------------------------------------
(* CrashLab: the records of a run                                          *)

StageNames == {"authorization.checked", "effect.observed", "effect.partial_observed", "state.stale_detected",
               "consistency.not_visible", "consistency.visible", "lease.consumed", "lease.replayed"}
EntryRecords == [attempt : Nat, stage : StageNames, ok : BOOLEAN]
KeyValues == {scenario.key} \cup ({scenario.key} \X Nat)
EffectValues == [key : KeyValues, partial : BOOLEAN]
EvidenceValues == {"none"} \cup [status : {"partial", "success", "unknown"}, ambiguity : {"preserve", "none"}]

LabRecords ==
    [attempts : Nat, effects : Seq(EffectValues), keys : SUBSET KeyValues, trace : Seq(EntryRecords), responses : Nat,
     ambiguous : Nat, partial : Nat, denials : Nat, consumed : BOOLEAN, contenders : SUBSET Nat,
     step : {"running", "ended", "reported"}, evidence : EvidenceValues, status : {"none", "PASS", "FAIL"}]

\* The attempts of the entries of a trace that are in M.
Marked(t, M) == {t[i].attempt : i \in {j \in DOMAIN t : t[j] \in M}}
EffectEntries == {e \in EntryRecords : e.stage \in EffectStages}
RefusalEntries == {e \in EntryRecords : e.stage = "authorization.checked" /\ ~e.ok}
Wins(t) == {i \in DOMAIN t : t[i].stage = "lease.consumed"}

\* One more entry marks its own attempt, if it is of the kind asked about.
LEMMA MarkedGrows ==
    ASSUME NEW t \in Seq(EntryRecords), NEW e \in EntryRecords, NEW M
    PROVE  Marked(Append(t, e), M) = Marked(t, M) \cup (IF e \in M THEN {e.attempt} ELSE {})
<1> DEFINE u == Append(t, e)
           n == Len(t) + 1
<1>1. DOMAIN u = 1 .. n /\ DOMAIN t = 1 .. Len(t) /\ Len(t) \in Nat /\ u[n] = e /\ \A i \in DOMAIN t : u[i] = t[i]
  OBVIOUS
<1> HIDE DEF u
<1>2. ASSUME NEW a \in Marked(u, M) PROVE a \in Marked(t, M) \cup (IF e \in M THEN {e.attempt} ELSE {})
  <2>1. PICK i \in DOMAIN u : u[i] \in M /\ a = u[i].attempt
    BY <1>2 DEF Marked
  <2>2. CASE i = n
    BY <1>1, <2>1, <2>2
  <2>3. CASE i \in DOMAIN t
    BY <1>1, <2>1, <2>3 DEF Marked
  <2> QED
    BY <1>1, <2>1, <2>2, <2>3
<1>3. ASSUME NEW a \in Marked(t, M) PROVE a \in Marked(u, M)
  <2>1. PICK i \in DOMAIN t : t[i] \in M /\ a = t[i].attempt
    BY <1>3 DEF Marked
  <2>2. i \in DOMAIN u /\ u[i] = t[i]
    BY <1>1, <2>1
  <2> QED
    BY <2>1, <2>2 DEF Marked
<1>4. e \in M => e.attempt \in Marked(u, M)
  <2>1. n \in DOMAIN u /\ u[n] = e
    BY <1>1
  <2> QED
    BY <2>1, Zenon DEF Marked
<1>5. Marked(u, M) = Marked(t, M) \cup (IF e \in M THEN {e.attempt} ELSE {})
  BY <1>2, <1>3, <1>4
<1> QED
  BY <1>5 DEF u

\* An entry adds to the consumed leases exactly when it is one.
LEMMA WinsGrow ==
    ASSUME NEW t \in Seq(EntryRecords), NEW e \in EntryRecords
    PROVE  Wins(Append(t, e)) = Wins(t) \cup (IF e.stage = "lease.consumed" THEN {Len(t) + 1} ELSE {})
BY DEF Wins

\* m is l with one more entry, under the number it is traced with.
TracedAs(l, m, number, stage, ok) ==
    /\ m \in LabRecords
    /\ m = [l EXCEPT !.trace = m.trace]
    /\ Marked(m.trace, EffectEntries)
         = Marked(l.trace, EffectEntries) \cup (IF stage \in EffectStages THEN {number} ELSE {})
    /\ Marked(m.trace, RefusalEntries)
         = Marked(l.trace, RefusalEntries) \cup (IF stage = "authorization.checked" /\ ~ok THEN {number} ELSE {})
    /\ Wins(m.trace) = Wins(l.trace) \cup (IF stage = "lease.consumed" THEN {Len(l.trace) + 1} ELSE {})

\* What tracing an entry does to a run.
LEMMA TracedForGrows ==
    ASSUME NEW l \in LabRecords, NEW number \in Nat, NEW stage \in StageNames, NEW ok \in BOOLEAN
    PROVE  TracedAs(l, TracedFor(l, number, stage, ok), number, stage, ok)
<1> DEFINE e == Entry(number, stage, ok)
<1>0. PICK m : m = TracedFor(l, number, stage, ok)
  OBVIOUS
<1>1. l.trace \in Seq(EntryRecords)
  BY DEF LabRecords
<1>2. e \in EntryRecords /\ e.attempt = number /\ e.stage = stage /\ e.ok = ok
  BY <1>1 DEF EntryRecords, Entry
<1>3. (e \in EffectEntries <=> stage \in EffectStages)
      /\ (e \in RefusalEntries <=> stage = "authorization.checked" /\ ~ok)
  BY <1>2 DEF EffectEntries, RefusalEntries
<1>4. m.trace = Append(l.trace, e) /\ m = [l EXCEPT !.trace = m.trace] /\ m \in LabRecords
  <2>1. m = [l EXCEPT !.trace = Append(l.trace, e)]
    BY <1>0 DEF TracedFor
  <2>2. Append(l.trace, e) \in Seq(EntryRecords)
    BY <1>1, <1>2
  <2> HIDE DEF e
  <2> QED
    BY <2>1, <2>2 DEF LabRecords
<1> HIDE DEF e
<1>5. /\ Marked(m.trace, EffectEntries) = Marked(l.trace, EffectEntries) \cup (IF e \in EffectEntries THEN {e.attempt} ELSE {})
      /\ Marked(m.trace, RefusalEntries) = Marked(l.trace, RefusalEntries) \cup (IF e \in RefusalEntries THEN {e.attempt} ELSE {})
  <2>1. /\ Marked(Append(l.trace, e), EffectEntries)
             = Marked(l.trace, EffectEntries) \cup (IF e \in EffectEntries THEN {e.attempt} ELSE {})
        /\ Marked(Append(l.trace, e), RefusalEntries)
             = Marked(l.trace, RefusalEntries) \cup (IF e \in RefusalEntries THEN {e.attempt} ELSE {})
    BY <1>1, <1>2, MarkedGrows
  <2> QED
    BY <1>4, <2>1, Zenon
<1>6. Wins(m.trace) = Wins(l.trace) \cup (IF e.stage = "lease.consumed" THEN {Len(l.trace) + 1} ELSE {})
  BY <1>1, <1>2, <1>4, WinsGrow, Zenon
<1>7. TracedAs(l, m, number, stage, ok)
  BY <1>2, <1>3, <1>4, <1>5, <1>6, Zenon DEF TracedAs
<1> QED
  BY <1>0, <1>7, Zenon

\* Mostly it is an entry of the current attempt.
LEMMA TracedGrows ==
    ASSUME NEW l \in LabRecords, NEW stage \in StageNames, NEW ok \in BOOLEAN
    PROVE  TracedAs(l, Traced(l, stage, ok), l.attempts, stage, ok)
<1>1. l.attempts \in Nat
  BY DEF LabRecords
<1> QED
  BY <1>1, TracedForGrows, Zenon DEF Traced

EffectedAt(l) == Marked(l.trace, EffectEntries)
RefusedAt(l) == Marked(l.trace, RefusalEntries)

\* The target keeps a key, and every retry of the scenario sends the same one.
SameKey == scenario.idempotency # "none" /\ scenario.key # Unkeyed /\ (scenario.preserve \/ scenario.version = "1")

\* The scenario revokes, and its runner reads that.
Revocable == scenario.revokeAt # 0 /\ HeedsRevocation

\* What holds of the runner l, whatever the fault.
RunInv(l) ==
    /\ l \in LabRecords
    /\ SameKey => Len(l.effects) <= 1 /\ (Len(l.effects) = 1 => scenario.key \in l.keys)
    /\ \A a \in EffectedAt(l) \cup RefusedAt(l) : a <= l.attempts
    /\ EffectedAt(l) \cap RefusedAt(l) = {}
    /\ scenario.class = "concurrent_race" => \A a \in l.contenders : a \in 1 .. l.attempts /\ a \notin RefusedAt(l)
    /\ Revocable => \A a \in EffectedAt(l) : a < scenario.revokeAt
    /\ scenario.class = "concurrent_race" => /\ l.consumed \/ Wins(l.trace) = {}
                                             /\ IsFiniteSet(Wins(l.trace)) /\ Cardinality(Wins(l.trace)) <= 1
    /\ IsFiniteSet(EffectedAt(l))
    /\ scenario.version # "1" => Cardinality(EffectedAt(l)) <= l.responses + l.ambiguous
    /\ (\E i \in DOMAIN l.effects : l.effects[i].partial) => l.partial > 0
    /\ l.step = "reported" => /\ l.evidence = Evidence(l)
                              /\ scenario.version # "1" /\ l.status = "PASS" =>
                                    Evidence(l) = scenario.expect.evidence /\ AuthorityAsExpected(l)

\* m is l after an attempt that took no effect.
Quiet(l, m) ==
    /\ m \in LabRecords /\ m.attempts = l.attempts + 1 /\ m.effects = l.effects /\ m.keys = l.keys
    /\ EffectedAt(m) = EffectedAt(l) /\ RefusedAt(m) \subseteq RefusedAt(l) \cup {m.attempts}
    /\ \A a \in m.contenders : a \in l.contenders \/ a \in {m.attempts} \ RefusedAt(m)
    /\ Wins(m.trace) = Wins(l.trace) /\ m.consumed = l.consumed
    /\ m.partial >= l.partial /\ m.responses >= l.responses /\ m.ambiguous >= l.ambiguous
    /\ m.step # "reported"

\* m is l after an attempt that took effect: answered, or ambiguous.
Loud(l, m, key, partial) ==
    /\ m \in LabRecords /\ m.attempts = l.attempts + 1
    /\ m.effects = Apply(l, key, partial).effects /\ m.keys = Apply(l, key, partial).keys
    /\ EffectedAt(m) = EffectedAt(l) \cup {m.attempts} /\ RefusedAt(m) = RefusedAt(l)
    /\ m.partial >= l.partial /\ (partial => m.partial > 0)
    /\ scenario.version # "1" => m.responses + m.ambiguous >= l.responses + l.ambiguous + 1
    /\ m.step # "reported"

\* m is l but for its effects, keys and trace.
SameCounts(l, m) ==
    /\ m.attempts = l.attempts /\ m.responses = l.responses /\ m.ambiguous = l.ambiguous /\ m.partial = l.partial
    /\ m.consumed = l.consumed /\ m.contenders = l.contenders /\ m.step = l.step

\* An effect leaves the trace and the counts alone.
LEMMA ApplyFrames ==
    ASSUME NEW l \in LabRecords, NEW key \in KeyValues, NEW partial \in BOOLEAN, NEW m, m = Apply(l, key, partial)
    PROVE  m \in LabRecords /\ SameCounts(l, m) /\ m.trace = l.trace
<1> DEFINE x == [key |-> key, partial |-> partial]
<1>1. CASE scenario.idempotency # "none" /\ key # Unkeyed /\ key \in l.keys
  <2>1. m = l
    BY <1>1 DEF Apply
  <2> QED
    BY <2>1 DEF SameCounts
<1>2. CASE ~(scenario.idempotency # "none" /\ key # Unkeyed /\ key \in l.keys)
  <2>1. m = [l EXCEPT !.effects = Append(@, x), !.keys = @ \cup ({key} \ {Unkeyed})]
    BY <1>2, Zenon DEF Apply
  <2>2. x \in EffectValues
    BY DEF EffectValues
  <2>3. Append(l.effects, x) \in Seq(EffectValues)
    BY <2>2 DEF LabRecords
  <2> DEFINE s == Append(l.effects, x)
             k == l.keys \cup ({key} \ {Unkeyed})
  <2>4. m = [l EXCEPT !.effects = s, !.keys = k] /\ s \in Seq(EffectValues) /\ k \in SUBSET KeyValues
    BY <2>1, <2>3 DEF LabRecords
  <2> HIDE DEF s, k
  <2> QED
    BY <2>4 DEF LabRecords, SameCounts
<1> QED
  BY <1>1, <1>2

\* A repeated key takes no effect; any other is one more effect.
LEMMA ApplyAppends ==
    ASSUME NEW l \in LabRecords, NEW key \in KeyValues, NEW partial \in BOOLEAN, NEW m, m = Apply(l, key, partial)
    PROVE  /\ m.effects \in {l.effects, Append(l.effects, [key |-> key, partial |-> partial])}
           /\ SameKey /\ key = scenario.key /\ key \in l.keys => m.effects = l.effects /\ m.keys = l.keys
           /\ SameKey /\ key = scenario.key /\ key \notin l.keys => key \in m.keys
<1> DEFINE x == [key |-> key, partial |-> partial]
<1>1. CASE scenario.idempotency # "none" /\ key # Unkeyed /\ key \in l.keys
  <2>1. m = l
    BY <1>1 DEF Apply
  <2> QED
    BY <1>1, <2>1
<1>2. CASE ~(scenario.idempotency # "none" /\ key # Unkeyed /\ key \in l.keys)
  <2>1. m = [l EXCEPT !.effects = Append(@, x), !.keys = @ \cup ({key} \ {Unkeyed})]
    BY <1>2, Zenon DEF Apply
  <2> HIDE DEF x
  <2>2. m.effects = Append(l.effects, x) /\ m.keys = l.keys \cup ({key} \ {Unkeyed})
    BY <2>1 DEF LabRecords
  <2> QED
    BY <1>2, <2>2 DEF SameKey, x
<1> QED
  BY <1>1, <1>2

\* An effect is applied and observed.
LEMMA EffectForTraces ==
    ASSUME NEW l \in LabRecords, NEW number \in Nat, NEW key \in KeyValues, NEW partial \in BOOLEAN
    PROVE  LET m == EffectFor(l, number, key, partial) IN
           /\ m \in LabRecords /\ SameCounts(l, m)
           /\ m.effects = Apply(l, key, partial).effects /\ m.keys = Apply(l, key, partial).keys
           /\ EffectedAt(m) = EffectedAt(l) \cup {number} /\ RefusedAt(m) = RefusedAt(l)
           /\ Wins(m.trace) = Wins(l.trace)
<1> DEFINE k == Apply(l, key, partial)
           stage == IF partial THEN "effect.partial_observed" ELSE "effect.observed"
           m == EffectFor(l, number, key, partial)
<1>1. k \in LabRecords /\ SameCounts(l, k) /\ k.trace = l.trace
  BY ApplyFrames
<1>2. m = TracedFor(k, number, stage, TRUE)
  BY DEF EffectFor
<1>3. stage \in StageNames /\ stage \in EffectStages /\ stage # "authorization.checked" /\ stage # "lease.consumed"
  <2>1. stage = "effect.partial_observed" \/ stage = "effect.observed"
    OBVIOUS
  <2> HIDE DEF stage
  <2>2. CASE stage = "effect.partial_observed"
    BY <2>2 DEF EffectStages, StageNames
  <2>3. CASE stage = "effect.observed"
    BY <2>3 DEF EffectStages, StageNames
  <2> QED
    BY <2>1, <2>2, <2>3
<1> HIDE DEF k, m, stage
<1>4. TracedAs(k, m, number, stage, TRUE)
  BY <1>1, <1>2, <1>3, TracedForGrows, Zenon
<1>5. k.trace = l.trace
  BY <1>1
<1>6. m.effects = k.effects /\ m.keys = k.keys /\ SameCounts(l, m)
  BY <1>1, <1>4 DEF TracedAs, LabRecords, SameCounts
<1> QED
  BY <1>3, <1>4, <1>5, <1>6 DEF TracedAs, EffectedAt, RefusedAt, k, m

\* Mostly by the current attempt.
LEMMA EffectTraces ==
    ASSUME NEW l \in LabRecords, NEW key \in KeyValues, NEW partial \in BOOLEAN
    PROVE  LET m == Effect(l, key, partial) IN
           /\ m \in LabRecords /\ SameCounts(l, m)
           /\ m.effects = Apply(l, key, partial).effects /\ m.keys = Apply(l, key, partial).keys
           /\ EffectedAt(m) = EffectedAt(l) \cup {l.attempts} /\ RefusedAt(m) = RefusedAt(l)
           /\ Wins(m.trace) = Wins(l.trace)
<1>1. l.attempts \in Nat
  BY DEF LabRecords
<1> QED
  BY <1>1, EffectForTraces, Zenon DEF Effect

\* What is marked is an attempt.
LEMMA MarkedAreAttempts ==
    ASSUME NEW l \in LabRecords
    PROVE  \A a \in EffectedAt(l) \cup RefusedAt(l) : a \in Nat
<1>1. l.trace \in Seq(EntryRecords)
  BY DEF LabRecords
<1>2. ASSUME NEW M, NEW a \in Marked(l.trace, M) PROVE a \in Nat
  <2>1. PICK i \in DOMAIN l.trace : a = l.trace[i].attempt
    BY <1>2 DEF Marked
  <2>2. l.trace[i] \in EntryRecords
    BY <1>1
  <2> QED
    BY <2>1, <2>2 DEF EntryRecords
<1> QED
  BY <1>2 DEF EffectedAt, RefusedAt

\* One more attempt in a finite set of attempts.
LEMMA OneMoreAttempt ==
    ASSUME NEW S, IsFiniteSet(S), NEW a
    PROVE  IsFiniteSet(S \cup {a}) /\ Cardinality(S \cup {a}) <= Cardinality(S) + 1
           /\ Cardinality(S) \in Nat /\ Cardinality(S \cup {a}) \in Nat
BY FS_AddElement, FS_CardinalityType

\* An attempt without effect keeps what holds of the runner.
LEMMA QuietKeeps ==
    ASSUME NEW l, NEW m, RunInv(l), Quiet(l, m)
    PROVE  RunInv(m)
<1>1. l \in LabRecords /\ m \in LabRecords
  BY DEF RunInv, Quiet
<1>2. /\ l.attempts \in Nat /\ m.attempts = l.attempts + 1 /\ m.effects = l.effects /\ m.keys = l.keys
      /\ l.partial \in Nat /\ m.partial \in Nat /\ m.partial >= l.partial
      /\ l.responses \in Nat /\ m.responses \in Nat /\ m.responses >= l.responses
      /\ l.ambiguous \in Nat /\ m.ambiguous \in Nat /\ m.ambiguous >= l.ambiguous
      /\ Wins(m.trace) = Wins(l.trace) /\ m.consumed = l.consumed /\ m.step # "reported"
  BY <1>1 DEF Quiet, LabRecords
<1>3. EffectedAt(m) = EffectedAt(l) /\ RefusedAt(m) \subseteq RefusedAt(l) \cup {m.attempts}
  BY DEF Quiet
<1>4. \A a \in EffectedAt(l) \cup RefusedAt(l) : a \in Nat /\ a <= l.attempts
  BY <1>1, MarkedAreAttempts DEF RunInv
<1>5. \A a \in EffectedAt(m) \cup RefusedAt(m) : a <= m.attempts
  BY <1>2, <1>3, <1>4
<1>6. EffectedAt(m) \cap RefusedAt(m) = {}
  <2>1. m.attempts \notin EffectedAt(l)
    BY <1>2, <1>4
  <2> QED
    BY <1>3, <2>1 DEF RunInv
<1>7. IsFiniteSet(EffectedAt(m)) /\ (scenario.version # "1" => Cardinality(EffectedAt(m)) <= m.responses + m.ambiguous)
  <2>1. IsFiniteSet(EffectedAt(l)) /\ (scenario.version # "1" => Cardinality(EffectedAt(l)) <= l.responses + l.ambiguous)
    BY DEF RunInv
  <2>2. Cardinality(EffectedAt(l)) \in Nat
    BY <2>1, FS_CardinalityType
  <2> QED
    BY <1>2, <1>3, <2>1, <2>2
<1>8. (\E i \in DOMAIN m.effects : m.effects[i].partial) => m.partial > 0
  BY <1>2 DEF RunInv
<1>9. /\ SameKey => Len(m.effects) <= 1 /\ (Len(m.effects) = 1 => scenario.key \in m.keys)
      /\ Revocable => \A a \in EffectedAt(m) : a < scenario.revokeAt
      /\ scenario.class = "concurrent_race" => /\ m.consumed \/ Wins(m.trace) = {}
                                               /\ IsFiniteSet(Wins(m.trace)) /\ Cardinality(Wins(m.trace)) <= 1
  BY <1>2, <1>3 DEF RunInv
<1>10. ASSUME scenario.class = "concurrent_race", NEW a \in m.contenders PROVE a \in 1 .. m.attempts /\ a \notin RefusedAt(m)
  <2>1. CASE a \in l.contenders
    <3>1. a \in 1 .. l.attempts /\ a \notin RefusedAt(l)
      BY <1>10, <2>1 DEF RunInv
    <3> QED
      BY <1>2, <1>3, <3>1
  <2>2. CASE a \in {m.attempts} \ RefusedAt(m)
    BY <1>2, <2>2
  <2> QED
    BY <2>1, <2>2 DEF Quiet
<1> QED
  BY <1>1, <1>2, <1>5, <1>6, <1>7, <1>8, <1>9, <1>10 DEF RunInv

\* An effect keeps the counts of effects and of partial effects.
LEMMA ApplyKeeps ==
    ASSUME NEW l, RunInv(l), NEW key \in KeyValues, NEW partial \in BOOLEAN, SameKey => key = scenario.key, NEW m,
           m.effects = Apply(l, key, partial).effects, m.keys = Apply(l, key, partial).keys, m.partial \in Nat,
           m.partial >= l.partial, partial => m.partial > 0
    PROVE  /\ SameKey => Len(m.effects) <= 1 /\ (Len(m.effects) = 1 => scenario.key \in m.keys)
           /\ (\E i \in DOMAIN m.effects : m.effects[i].partial) => m.partial > 0
<1> DEFINE x == [key |-> key, partial |-> partial]
<1>1. l \in LabRecords /\ l.effects \in Seq(EffectValues) /\ l.partial \in Nat
  BY DEF RunInv, LabRecords
<1>2. /\ m.effects \in {l.effects, Append(l.effects, x)}
      /\ SameKey /\ key \in l.keys => m.effects = l.effects /\ m.keys = l.keys
      /\ SameKey /\ key \notin l.keys => key \in m.keys
  <2>1. PICK k : k = Apply(l, key, partial)
    OBVIOUS
  <2> QED
    BY <1>1, <2>1, ApplyAppends
<1>3. SameKey => Len(m.effects) <= 1 /\ (Len(m.effects) = 1 => scenario.key \in m.keys)
  <2> SUFFICES ASSUME SameKey PROVE Len(m.effects) <= 1 /\ scenario.key \in m.keys
    OBVIOUS
  <2> DEFINE n == Len(l.effects)
  <2>1. key = scenario.key /\ n \in Nat /\ n <= 1 /\ (n = 1 => scenario.key \in l.keys)
    BY <1>1 DEF RunInv
  <2>2. CASE key \in l.keys
    BY <1>2, <2>1, <2>2
  <2>3. CASE key \notin l.keys
    <3>1. n = 0
      <4> HIDE DEF n
      <4> QED
        BY <2>1, <2>3
    <3>2. Len(Append(l.effects, x)) = n + 1
      BY <1>1
    <3>3. Len(m.effects) <= 1
      <4> HIDE DEF n, x
      <4> QED
        BY <1>2, <3>1, <3>2 DEF n
    <3> QED
      BY <1>2, <2>1, <2>3, <3>3
  <2> QED
    BY <2>2, <2>3
<1>4. ASSUME NEW i \in DOMAIN m.effects, m.effects[i].partial PROVE m.partial > 0
  <2>1. CASE m.effects = l.effects
    <3>1. l.partial > 0
      BY <1>4, <2>1 DEF RunInv
    <3> QED
      BY <1>1, <3>1
  <2>2. CASE m.effects = Append(l.effects, x)
    <3>1. CASE i \in DOMAIN l.effects
      <4>1. l.effects[i].partial
        BY <1>1, <1>4, <2>2, <3>1
      <4>2. l.partial > 0
        BY <3>1, <4>1 DEF RunInv
      <4> QED
        BY <1>1, <4>2
    <3>2. CASE i \notin DOMAIN l.effects
      <4>1. m.effects[i] = x
        BY <1>1, <2>2, <3>2
      <4> QED
        BY <1>4, <4>1
    <3> QED
      BY <3>1, <3>2
  <2> QED
    BY <1>2, <2>1, <2>2
<1> QED
  BY <1>3, <1>4

\* So does an attempt that took effect, where the attempt was not after a
\* revocation and a repeated key is the scenario's.
LEMMA LoudKeeps ==
    ASSUME NEW l, NEW m, RunInv(l), NEW key \in KeyValues, NEW partial \in BOOLEAN, Loud(l, m, key, partial),
           SameKey => key = scenario.key, Revocable => m.attempts < scenario.revokeAt,
           scenario.class # "concurrent_race"
    PROVE  RunInv(m)
<1>1. l \in LabRecords /\ m \in LabRecords
  BY DEF RunInv, Loud
<1>2. /\ l.attempts \in Nat /\ m.attempts = l.attempts + 1
      /\ l.partial \in Nat /\ m.partial \in Nat /\ m.partial >= l.partial /\ (partial => m.partial > 0)
      /\ l.responses + l.ambiguous \in Nat /\ m.responses + m.ambiguous \in Nat
      /\ scenario.version # "1" => m.responses + m.ambiguous >= l.responses + l.ambiguous + 1
      /\ m.step # "reported"
      /\ m.effects = Apply(l, key, partial).effects /\ m.keys = Apply(l, key, partial).keys
  BY <1>1 DEF Loud, LabRecords
<1>3. EffectedAt(m) = EffectedAt(l) \cup {m.attempts} /\ RefusedAt(m) = RefusedAt(l)
  BY DEF Loud
<1>4. \A a \in EffectedAt(l) \cup RefusedAt(l) : a \in Nat /\ a <= l.attempts
  BY <1>1, MarkedAreAttempts DEF RunInv
<1>5. \A a \in EffectedAt(m) \cup RefusedAt(m) : a <= m.attempts
  BY <1>2, <1>3, <1>4
<1>6. EffectedAt(m) \cap RefusedAt(m) = {}
  <2>1. m.attempts \notin RefusedAt(l)
    BY <1>2, <1>4
  <2> QED
    BY <1>3, <2>1 DEF RunInv
<1>7. IsFiniteSet(EffectedAt(m)) /\ (scenario.version # "1" => Cardinality(EffectedAt(m)) <= m.responses + m.ambiguous)
  <2>1. IsFiniteSet(EffectedAt(l)) /\ (scenario.version # "1" => Cardinality(EffectedAt(l)) <= l.responses + l.ambiguous)
    BY DEF RunInv
  <2>2. /\ IsFiniteSet(EffectedAt(m)) /\ Cardinality(EffectedAt(m)) <= Cardinality(EffectedAt(l)) + 1
        /\ Cardinality(EffectedAt(l)) \in Nat /\ Cardinality(EffectedAt(m)) \in Nat
    BY <1>3, <2>1, OneMoreAttempt
  <2> QED
    BY <1>2, <2>1, <2>2
<1>8. Revocable => \A a \in EffectedAt(m) : a < scenario.revokeAt
  BY <1>3 DEF RunInv
<1>9. /\ SameKey => Len(m.effects) <= 1 /\ (Len(m.effects) = 1 => scenario.key \in m.keys)
      /\ (\E i \in DOMAIN m.effects : m.effects[i].partial) => m.partial > 0
  BY <1>2, ApplyKeeps
<1> QED
  BY <1>1, <1>2, <1>5, <1>6, <1>7, <1>8, <1>9 DEF RunInv

\* m is l in its next attempt, before anything has been decided.
Started(l, m) ==
    /\ m \in LabRecords /\ m.attempts = l.attempts + 1 /\ m.effects = l.effects /\ m.keys = l.keys
    /\ EffectedAt(m) = EffectedAt(l) /\ RefusedAt(m) = RefusedAt(l) /\ Wins(m.trace) = Wins(l.trace)
    /\ m.consumed = l.consumed /\ m.partial = l.partial /\ m.responses = l.responses /\ m.ambiguous = l.ambiguous
    /\ m.contenders = l.contenders /\ m.step = l.step

\* m is l in its next attempt, which has taken effect.
Effected(l, m, key, partial) ==
    /\ m \in LabRecords /\ m.attempts = l.attempts + 1
    /\ m.effects = Apply(l, key, partial).effects /\ m.keys = Apply(l, key, partial).keys
    /\ EffectedAt(m) = EffectedAt(l) \cup {m.attempts} /\ RefusedAt(m) = RefusedAt(l)
    /\ m.partial = l.partial /\ m.responses = l.responses /\ m.ambiguous = l.ambiguous
    /\ m.step = l.step

\* Stages that are neither an effect nor the use of the shared authority.
PlainStages == StageNames \ (EffectStages \cup {"lease.consumed"})

\* Such a stage, passed, is only traced.
LEMMA PlainTrace ==
    ASSUME NEW l \in LabRecords, NEW stage \in PlainStages, NEW m, m = Traced(l, stage, TRUE)
    PROVE  /\ m \in LabRecords /\ m.effects = l.effects /\ m.keys = l.keys /\ SameCounts(l, m)
           /\ EffectedAt(m) = EffectedAt(l) /\ RefusedAt(m) = RefusedAt(l) /\ Wins(m.trace) = Wins(l.trace)
<1>1. stage \in StageNames /\ stage \notin EffectStages /\ stage # "lease.consumed"
  BY DEF PlainStages
<1>2. TracedAs(l, m, l.attempts, stage, TRUE)
  BY <1>1, TracedGrows, Zenon
<1>3. m.effects = l.effects /\ m.keys = l.keys /\ SameCounts(l, m)
  BY <1>2 DEF TracedAs, LabRecords, SameCounts
<1> QED
  BY <1>1, <1>2, <1>3 DEF TracedAs, EffectedAt, RefusedAt

\* A refusal is traced and counted.
LEMMA RefusalTrace ==
    ASSUME NEW l \in LabRecords, NEW m, m = Traced(l, "authorization.checked", FALSE)
    PROVE  /\ m \in LabRecords /\ m.effects = l.effects /\ m.keys = l.keys /\ SameCounts(l, m)
           /\ EffectedAt(m) = EffectedAt(l) /\ RefusedAt(m) = RefusedAt(l) \cup {l.attempts} /\ Wins(m.trace) = Wins(l.trace)
<1> DEFINE stage == "authorization.checked"
<1>1. stage \in StageNames /\ stage \notin EffectStages /\ stage # "lease.consumed"
  BY DEF StageNames, EffectStages
<1>2. TracedAs(l, m, l.attempts, stage, FALSE)
  BY <1>1, TracedGrows, Zenon
<1>3. m.effects = l.effects /\ m.keys = l.keys /\ SameCounts(l, m)
  BY <1>2 DEF TracedAs, LabRecords, SameCounts
<1> QED
  BY <1>1, <1>2, <1>3 DEF TracedAs, EffectedAt, RefusedAt

\* Beginning an attempt starts it.
LEMMA BegunIsStarted == ASSUME lab \in LabRecords PROVE Started(lab, Begun)
<1>1. lab.attempts + 1 \in Nat
  BY DEF LabRecords
<1>2. PICK m : m = Begun
  OBVIOUS
<1>3. /\ m \in LabRecords /\ m.attempts = lab.attempts + 1 /\ m.effects = lab.effects /\ m.keys = lab.keys
      /\ m.trace = lab.trace /\ m.consumed = lab.consumed /\ m.partial = lab.partial /\ m.responses = lab.responses
      /\ m.ambiguous = lab.ambiguous /\ m.contenders = lab.contenders /\ m.step = lab.step
  BY <1>1, <1>2 DEF Begun, LabRecords
<1>4. Started(lab, m)
  BY <1>3 DEF Started, EffectedAt, RefusedAt
<1> QED
  BY <1>2, <1>4

\* Tracing a plain stage keeps an attempt what it is.
LEMMA StartedTraces ==
    ASSUME NEW l, NEW k, Started(l, k), NEW stage \in PlainStages
    PROVE  Started(l, Traced(k, stage, TRUE))
<1>1. k \in LabRecords
  BY DEF Started
<1>2. PICK m : m = Traced(k, stage, TRUE)
  OBVIOUS
<1>3. /\ m \in LabRecords /\ m.effects = k.effects /\ m.keys = k.keys /\ SameCounts(k, m)
      /\ EffectedAt(m) = EffectedAt(k) /\ RefusedAt(m) = RefusedAt(k) /\ Wins(m.trace) = Wins(k.trace)
  BY <1>1, <1>2, PlainTrace
<1>4. Started(l, m)
  BY <1>3 DEF Started, SameCounts
<1> QED
  BY <1>2, <1>4

\* A plain entry after the effect leaves the effect as it was.
LEMMA EffectedTraces ==
    ASSUME NEW l, NEW key, NEW partial, NEW k, Effected(l, k, key, partial), NEW stage \in PlainStages
    PROVE  Effected(l, Traced(k, stage, TRUE), key, partial)
<1>1. k \in LabRecords
  BY DEF Effected
<1>2. PICK m : m = Traced(k, stage, TRUE)
  OBVIOUS
<1>3. /\ m \in LabRecords /\ m.effects = k.effects /\ m.keys = k.keys /\ SameCounts(k, m)
      /\ EffectedAt(m) = EffectedAt(k) /\ RefusedAt(m) = RefusedAt(k) /\ Wins(m.trace) = Wins(k.trace)
  BY <1>1, <1>2, PlainTrace
<1>4. Effected(l, m, key, partial)
  BY <1>3 DEF Effected, SameCounts
<1> QED
  BY <1>2, <1>4, Zenon

\* The authorisation that precedes everything else.
LEMMA AuthorizedIsStarted == ASSUME lab \in LabRecords PROVE Started(lab, Authorized(Begun))
<1>1. "authorization.checked" \in PlainStages
  BY DEF PlainStages, StageNames, EffectStages
<1> QED
  BY <1>1, BegunIsStarted, StartedTraces, Zenon DEF Authorized

\* An attempt that applies its effect.
LEMMA StartedTakesEffect ==
    ASSUME NEW l \in LabRecords, NEW k, Started(l, k), NEW key \in KeyValues, NEW partial \in BOOLEAN
    PROVE  Effected(l, Effect(k, key, partial), key, partial)
<1>1. k \in LabRecords /\ k.effects = l.effects /\ k.keys = l.keys
  BY DEF Started
<1>2. PICK m : m = Effect(k, key, partial)
  OBVIOUS
<1>3. /\ m \in LabRecords /\ SameCounts(k, m)
      /\ m.effects = Apply(k, key, partial).effects /\ m.keys = Apply(k, key, partial).keys
      /\ EffectedAt(m) = EffectedAt(k) \cup {k.attempts} /\ RefusedAt(m) = RefusedAt(k)
      /\ Wins(m.trace) = Wins(k.trace)
  BY <1>1, <1>2, EffectTraces
<1>4. Apply(k, key, partial).effects = Apply(l, key, partial).effects /\ Apply(k, key, partial).keys = Apply(l, key, partial).keys
  <2>1. CASE scenario.idempotency # "none" /\ key # Unkeyed /\ key \in l.keys
    BY <1>1, <2>1 DEF Apply
  <2>2. CASE ~(scenario.idempotency # "none" /\ key # Unkeyed /\ key \in l.keys)
    BY <1>1, <2>2 DEF Apply, LabRecords
  <2> QED
    BY <2>1, <2>2
<1>5. Effected(l, m, key, partial)
  BY <1>3, <1>4 DEF Effected, Started, SameCounts
<1> QED
  BY <1>2, <1>5, Zenon

\* An attempt that failed counts what is left unsure.
LEMMA FailedCounts ==
    ASSUME NEW l \in LabRecords, NEW p \in BOOLEAN, NEW a \in BOOLEAN, NEW m, m = Failed(l, p, a)
    PROVE  /\ m \in LabRecords /\ m.attempts = l.attempts /\ m.effects = l.effects /\ m.keys = l.keys /\ m.trace = l.trace
           /\ m.consumed = l.consumed /\ m.contenders = l.contenders /\ m.responses = l.responses
           /\ m.ambiguous = (IF a THEN l.ambiguous + 1 ELSE l.ambiguous)
           /\ m.partial = (IF p THEN l.partial + 1 ELSE l.partial) /\ m.step \in {"running", "ended"}
<1> DEFINE s == IF (scenario.retry \/ scenario.version = "1") /\ l.attempts < scenario.maxAttempts THEN "running" ELSE "ended"
           b == IF a THEN l.ambiguous + 1 ELSE l.ambiguous
           c == IF p THEN l.partial + 1 ELSE l.partial
<1>1. s \in {"running", "ended"}
  OBVIOUS
<1>2. b \in Nat /\ c \in Nat
  BY DEF LabRecords
<1>3. m = [l EXCEPT !.ambiguous = b, !.partial = c, !.step = s]
  BY Zenon DEF Failed
<1> HIDE DEF s, b, c
<1>4. /\ m \in LabRecords /\ m.attempts = l.attempts /\ m.effects = l.effects /\ m.keys = l.keys /\ m.trace = l.trace
      /\ m.consumed = l.consumed /\ m.contenders = l.contenders /\ m.responses = l.responses /\ m.ambiguous = b
      /\ m.partial = c /\ m.step = s
  BY <1>1, <1>2, <1>3 DEF LabRecords
<1> QED
  BY <1>1, <1>4, Zenon DEF b, c

\* It may fail before its effect,
LEMMA FailedIsQuiet ==
    ASSUME NEW l \in LabRecords, NEW k, Started(l, k)
    PROVE  Quiet(l, Failed(k, FALSE, FALSE))
<1>1. k \in LabRecords
  BY DEF Started
<1>2. PICK m : m = Failed(k, FALSE, FALSE)
  OBVIOUS
<1>3. /\ m \in LabRecords /\ m.attempts = k.attempts /\ m.effects = k.effects /\ m.keys = k.keys /\ m.trace = k.trace
      /\ m.consumed = k.consumed /\ m.contenders = k.contenders /\ m.responses = k.responses
      /\ m.ambiguous = k.ambiguous /\ m.partial = k.partial /\ m.step \in {"running", "ended"}
  <2>1. FALSE \in BOOLEAN
    OBVIOUS
  <2> QED
    BY <1>1, <1>2, <2>1, FailedCounts
<1>4. l.partial \in Nat /\ l.responses \in Nat /\ l.ambiguous \in Nat
  BY DEF LabRecords
<1>5. Quiet(l, m)
  BY <1>3, <1>4 DEF Quiet, Started, EffectedAt, RefusedAt
<1> QED
  BY <1>2, <1>5, Zenon

\* or after it, when the runner counts it as ambiguous,
LEMMA FailedIsLoud ==
    ASSUME NEW l \in LabRecords, NEW key, NEW partial \in BOOLEAN, NEW k, Effected(l, k, key, partial),
           NEW a \in BOOLEAN, a \/ scenario.version = "1"
    PROVE  Loud(l, Failed(k, partial, a), key, partial)
<1>1. k \in LabRecords
  BY DEF Effected
<1>2. PICK m : m = Failed(k, partial, a)
  OBVIOUS
<1>3. /\ m \in LabRecords /\ m.attempts = k.attempts /\ m.effects = k.effects /\ m.keys = k.keys /\ m.trace = k.trace
      /\ m.consumed = k.consumed /\ m.responses = k.responses
      /\ m.ambiguous = (IF a THEN k.ambiguous + 1 ELSE k.ambiguous)
      /\ m.partial = (IF partial THEN k.partial + 1 ELSE k.partial) /\ m.step \in {"running", "ended"}
  BY <1>1, <1>2, FailedCounts
<1>4. /\ l.partial \in Nat /\ l.responses \in Nat /\ l.ambiguous \in Nat
      /\ k.partial = l.partial /\ k.responses = l.responses /\ k.ambiguous = l.ambiguous
  BY DEF LabRecords, Effected
<1>5. /\ m.partial >= l.partial /\ (partial => m.partial > 0)
      /\ scenario.version # "1" => m.responses + m.ambiguous >= l.responses + l.ambiguous + 1
  BY <1>3, <1>4
<1>6. /\ m.attempts = l.attempts + 1
      /\ m.effects = Apply(l, key, partial).effects /\ m.keys = Apply(l, key, partial).keys
      /\ EffectedAt(m) = EffectedAt(l) \cup {m.attempts} /\ RefusedAt(m) = RefusedAt(l)
  BY <1>3, Zenon DEF Effected, EffectedAt, RefusedAt
<1>7. m.step # "reported"
  BY <1>3
<1>8. Loud(l, m, key, partial)
  BY <1>3, <1>5, <1>6, <1>7, Zenon DEF Loud
<1> QED
  BY <1>2, <1>8, Zenon

\* or be answered.
LEMMA AnsweredIsLoud ==
    ASSUME NEW l \in LabRecords, NEW key, NEW k, Effected(l, k, key, FALSE), NEW m, NEW s \in {"running", "ended"},
           m = [k EXCEPT !.responses = @ + 1, !.step = s]
    PROVE  Loud(l, m, key, FALSE)
<1>1. k \in LabRecords /\ k.responses + 1 \in Nat
  BY DEF Effected, LabRecords
<1>2. /\ m \in LabRecords /\ m.attempts = k.attempts /\ m.effects = k.effects /\ m.keys = k.keys /\ m.trace = k.trace
      /\ m.responses = k.responses + 1 /\ m.ambiguous = k.ambiguous /\ m.partial = k.partial /\ m.step = s
  BY <1>1 DEF LabRecords
<1>3. /\ l.partial \in Nat /\ l.responses \in Nat /\ l.ambiguous \in Nat
      /\ k.partial = l.partial /\ k.responses = l.responses /\ k.ambiguous = l.ambiguous
  BY DEF LabRecords, Effected
<1>4. m.partial >= l.partial /\ m.responses + m.ambiguous >= l.responses + l.ambiguous + 1 /\ m.step # "reported"
  BY <1>2, <1>3
<1>5. /\ m.attempts = l.attempts + 1
      /\ m.effects = Apply(l, key, FALSE).effects /\ m.keys = Apply(l, key, FALSE).keys
      /\ EffectedAt(m) = EffectedAt(l) \cup {m.attempts} /\ RefusedAt(m) = RefusedAt(l)
  BY <1>2, Zenon DEF Effected, EffectedAt, RefusedAt
<1> QED
  BY <1>2, <1>4, <1>5, Zenon DEF Loud

\* A refusal is quiet, in the runners that end on it and in the races.
LEMMA RefusedIsQuiet ==
    ASSUME NEW l \in LabRecords, NEW k, Started(l, k), NEW m, NEW s \in {"running", "ended"},
           m = [Traced(k, "authorization.checked", FALSE) EXCEPT !.denials = @ + 1, !.step = s]
    PROVE  Quiet(l, m)
<1>1. k \in LabRecords
  BY DEF Started
<1>2. PICK r : r = Traced(k, "authorization.checked", FALSE)
  OBVIOUS
<1>3. /\ r \in LabRecords /\ r.effects = k.effects /\ r.keys = k.keys /\ SameCounts(k, r)
      /\ EffectedAt(r) = EffectedAt(k) /\ RefusedAt(r) = RefusedAt(k) \cup {k.attempts} /\ Wins(r.trace) = Wins(k.trace)
  BY <1>1, <1>2, RefusalTrace
<1>4. /\ m \in LabRecords /\ m.attempts = r.attempts /\ m.effects = r.effects /\ m.keys = r.keys /\ m.trace = r.trace
      /\ m.responses = r.responses /\ m.ambiguous = r.ambiguous /\ m.partial = r.partial /\ m.step = s
      /\ m.consumed = r.consumed /\ m.contenders = r.contenders
  <2>1. r.denials + 1 \in Nat
    BY <1>3 DEF LabRecords
  <2> QED
    BY <1>2, <1>3, <2>1 DEF LabRecords
<1>5. l.partial \in Nat /\ l.responses \in Nat /\ l.ambiguous \in Nat
  BY DEF LabRecords
<1>6. /\ m.partial = l.partial /\ m.responses = l.responses /\ m.ambiguous = l.ambiguous
      /\ m.attempts = l.attempts + 1 /\ m.effects = l.effects /\ m.keys = l.keys /\ m.consumed = l.consumed
      /\ m.contenders = l.contenders
  BY <1>3, <1>4, Zenon DEF Started, SameCounts
<1>7. /\ EffectedAt(m) = EffectedAt(l) /\ RefusedAt(m) = RefusedAt(l) \cup {m.attempts} /\ Wins(m.trace) = Wins(l.trace)
  <2>1. EffectedAt(m) = EffectedAt(r) /\ RefusedAt(m) = RefusedAt(r) /\ m.attempts = k.attempts
    BY <1>3, <1>4 DEF EffectedAt, RefusedAt, SameCounts
  <2> QED
    BY <1>3, <1>4, <2>1 DEF Started
<1>8. m.partial >= l.partial /\ m.responses >= l.responses /\ m.ambiguous >= l.ambiguous /\ m.step # "reported"
  <2>1. m.step # "reported"
    BY <1>4
  <2>2. m.partial >= l.partial /\ m.responses >= l.responses /\ m.ambiguous >= l.ambiguous
    <3>1. \A n \in Nat : n >= n
      OBVIOUS
    <3> QED
      BY <1>5, <1>6, <3>1, Zenon
  <2> QED
    BY <2>1, <2>2
<1>9. RefusedAt(m) \subseteq RefusedAt(l) \cup {m.attempts}
  BY <1>7, Zenon
<1> QED
  BY <1>4, <1>6, <1>7, <1>8, <1>9, Zenon DEF Quiet

\* A refused attempt has no effect.
LEMMA RefusedIsQuietNow ==
    ASSUME NEW l \in LabRecords, NEW k, Started(l, k)
    PROVE  Quiet(l, Refused(k))
<1>1. "ended" \in {"running", "ended"}
  OBVIOUS
<1> QED
  BY <1>1, RefusedIsQuiet DEF Refused

\* The key of an attempt, which a target that deduplicates is sent again.
LEMMA KeyIsSent ==
    ASSUME lab \in LabRecords
    PROVE  Key \in KeyValues /\ scenario.key \in KeyValues /\ (SameKey => Key = scenario.key)
<1>1. lab.attempts + 1 \in Nat
  BY DEF LabRecords
<1>2. Key = scenario.key \/ Key = <<scenario.key, lab.attempts + 1>>
  BY DEF Key
<1>3. SameKey => Key = scenario.key
  BY DEF Key, SameKey
<1> QED
  BY <1>1, <1>2, <1>3 DEF KeyValues

\* Who is not refused is before the revocation.
LEMMA NotYetRevoked ==
    ASSUME lab \in LabRecords, scenario \in Scenarios, NEW says, ~Denied(says)
    PROVE  Revocable => lab.attempts + 1 < scenario.revokeAt
BY ScenariosAssumption DEF Denied, Revocable, LabRecords

\* What an attempt with an effect leads to.
LEMMA EffectKeeps ==
    ASSUME RunInv(lab), scenario.class # "concurrent_race", Revocable => lab.attempts + 1 < scenario.revokeAt,
           NEW partial \in BOOLEAN, NEW m, Loud(lab, m, Key, partial)
    PROVE  RunInv(m)
<1>1. lab \in LabRecords
  BY DEF RunInv
<1>2. m.attempts = lab.attempts + 1
  BY DEF Loud
<1> QED
  BY <1>1, <1>2, KeyIsSent, LoudKeeps

\* One attempt of runV2CrashScenario.
LEMMA AttemptKeeps ==
    ASSUME RunInv(lab), scenario \in Scenarios, NEW says \in BOOLEAN, Attempt(says)
    PROVE  RunInv(lab')
<1>1. lab \in LabRecords /\ scenario.class # "concurrent_race"
  BY DEF RunInv, Attempt, Driven, Races
<1>2. Quiet(lab, Failed(Begun, FALSE, FALSE)) /\ Quiet(lab, Failed(Authorized(Begun), FALSE, FALSE)) /\ Quiet(lab, Refused(Begun))
  BY <1>1, BegunIsStarted, AuthorizedIsStarted, FailedIsQuiet, RefusedIsQuietNow, Zenon
<1>3. TRUE \in BOOLEAN /\ FALSE \in BOOLEAN /\ "ended" \in {"running", "ended"}
  OBVIOUS
<1>4. /\ Effected(lab, Effect(Authorized(Begun), Key, TRUE), Key, TRUE)
      /\ Effected(lab, Effect(Authorized(Begun), Key, FALSE), Key, FALSE)
  BY <1>1, <1>3, KeyIsSent, AuthorizedIsStarted, StartedTakesEffect, Zenon
<1>5. Loud(lab, Failed(Effect(Authorized(Begun), Key, TRUE), TRUE, TRUE), Key, TRUE)
  BY <1>1, <1>3, <1>4, FailedIsLoud, Zenon
<1>6. Loud(lab, Failed(Effect(Authorized(Begun), Key, FALSE), FALSE, TRUE), Key, FALSE)
  BY <1>1, <1>3, <1>4, FailedIsLoud, Zenon
<1>7. Loud(lab, Responded(Effect(Authorized(Begun), Key, FALSE)), Key, FALSE)
  <2>1. PICK k : k = Effect(Authorized(Begun), Key, FALSE)
    OBVIOUS
  <2>2. Responded(k) = [k EXCEPT !.responses = @ + 1, !.step = "ended"]
    BY DEF Responded
  <2>3. Loud(lab, Responded(k), Key, FALSE)
    BY <1>1, <1>3, <1>4, <2>1, <2>2, AnsweredIsLoud, Zenon
  <2> QED
    BY <2>1, <2>3, Zenon
<1>8. \/ Quiet(lab, lab')
      \/ ~Denied(says) /\ \E partial \in BOOLEAN : Loud(lab, lab', Key, partial)
  <2>1. CASE FaultAt({"before_authorization"})
    BY <1>2, <2>1, Zenon DEF Attempt
  <2>2. CASE ~FaultAt({"before_authorization"}) /\ Denied(says)
    BY <1>2, <2>2, Zenon DEF Attempt
  <2>3. CASE ~FaultAt({"before_authorization"}) /\ ~Denied(says)
    <3>1. lab' = CASE FaultAt(NothingDone) -> Failed(Authorized(Begun), FALSE, FALSE)
                   [] FaultAt({"partial_effect"}) -> Failed(Effect(Authorized(Begun), Key, TRUE), TRUE, TRUE)
                   [] FaultAt(EffectDone) -> Failed(Effect(Authorized(Begun), Key, FALSE), FALSE, TRUE)
                   [] OTHER -> Responded(Effect(Authorized(Begun), Key, FALSE))
      BY <2>3, Zenon DEF Attempt
    <3>2. /\ ~(FaultAt(NothingDone) /\ FaultAt({"partial_effect"})) /\ ~(FaultAt(NothingDone) /\ FaultAt(EffectDone))
          /\ ~(FaultAt({"partial_effect"}) /\ FaultAt(EffectDone))
      BY DEF FaultAt, NothingDone, EffectDone
    <3>3. \/ lab' = Failed(Authorized(Begun), FALSE, FALSE)
          \/ lab' = Failed(Effect(Authorized(Begun), Key, TRUE), TRUE, TRUE)
          \/ lab' = Failed(Effect(Authorized(Begun), Key, FALSE), FALSE, TRUE)
          \/ lab' = Responded(Effect(Authorized(Begun), Key, FALSE))
      BY <3>1, <3>2, Zenon
    <3> QED
      BY <1>2, <1>3, <1>5, <1>6, <1>7, <2>3, <3>3, Zenon
  <2> QED
    BY <2>1, <2>2, <2>3
<1>9. ASSUME ~Denied(says), NEW partial \in BOOLEAN, Loud(lab, lab', Key, partial) PROVE RunInv(lab')
  <2>1. Revocable => lab.attempts + 1 < scenario.revokeAt
    BY <1>1, <1>9, NotYetRevoked
  <2> QED
    BY <1>1, <1>9, <2>1, EffectKeeps, Zenon
<1> QED
  BY <1>8, <1>9, QuietKeeps, Zenon

\* One attempt of runLegacyCrashScenario.
LEMMA LegacyAttemptKeeps ==
    ASSUME RunInv(lab), scenario \in Scenarios, NEW says \in BOOLEAN, LegacyAttempt(says)
    PROVE  RunInv(lab')
<1>1. lab \in LabRecords /\ scenario.class # "concurrent_race" /\ scenario.version = "1"
  BY DEF RunInv, LegacyAttempt, Driven, Races
<1>2. Quiet(lab, Failed(Begun, FALSE, FALSE)) /\ Quiet(lab, Failed(Authorized(Begun), FALSE, FALSE)) /\ Quiet(lab, Refused(Begun))
  BY <1>1, BegunIsStarted, AuthorizedIsStarted, FailedIsQuiet, RefusedIsQuietNow, Zenon
<1>3. FALSE \in BOOLEAN /\ "ended" \in {"running", "ended"} /\ (scenario.phase # "before_response") \in BOOLEAN
  OBVIOUS
<1>4. Effected(lab, Effect(Authorized(Begun), Key, FALSE), Key, FALSE)
  BY <1>1, <1>3, KeyIsSent, AuthorizedIsStarted, StartedTakesEffect, Zenon
<1>5. Loud(lab, Failed(Effect(Authorized(Begun), Key, FALSE), FALSE, scenario.phase # "before_response"), Key, FALSE)
  BY <1>1, <1>3, <1>4, FailedIsLoud, Zenon
<1>6. Loud(lab, Responded(Effect(Authorized(Begun), Key, FALSE)), Key, FALSE)
  <2>1. PICK k : k = Effect(Authorized(Begun), Key, FALSE)
    OBVIOUS
  <2>2. Responded(k) = [k EXCEPT !.responses = @ + 1, !.step = "ended"]
    BY DEF Responded
  <2>3. Loud(lab, Responded(k), Key, FALSE)
    BY <1>1, <1>3, <1>4, <2>1, <2>2, AnsweredIsLoud, Zenon
  <2> QED
    BY <2>1, <2>3, Zenon
<1>7. \/ Quiet(lab, lab')
      \/ ~Denied(says) /\ Loud(lab, lab', Key, FALSE)
  <2>1. CASE FaultAt({"before_authorization"})
    BY <1>2, <2>1, Zenon DEF LegacyAttempt
  <2>2. CASE ~FaultAt({"before_authorization"}) /\ Denied(says)
    BY <1>2, <2>2, Zenon DEF LegacyAttempt
  <2>3. CASE ~FaultAt({"before_authorization"}) /\ ~Denied(says)
    <3>1. lab' = CASE FaultAt(NothingDone) -> Failed(Authorized(Begun), FALSE, FALSE)
                   [] FaultAt(EffectDone \cup {"partial_effect"}) ->
                        Failed(Effect(Authorized(Begun), Key, FALSE), FALSE, scenario.phase # "before_response")
                   [] OTHER -> Responded(Effect(Authorized(Begun), Key, FALSE))
      BY <2>3, Zenon DEF LegacyAttempt
    <3>2. ~(FaultAt(NothingDone) /\ FaultAt(EffectDone \cup {"partial_effect"}))
      BY DEF FaultAt, NothingDone, EffectDone
    <3>3. \/ lab' = Failed(Authorized(Begun), FALSE, FALSE)
          \/ lab' = Failed(Effect(Authorized(Begun), Key, FALSE), FALSE, scenario.phase # "before_response")
          \/ lab' = Responded(Effect(Authorized(Begun), Key, FALSE))
      BY <3>1, <3>2, Zenon
    <3> QED
      BY <1>2, <1>5, <1>6, <2>3, <3>3, Zenon
  <2> QED
    BY <2>1, <2>2, <2>3
<1>8. ASSUME ~Denied(says), Loud(lab, lab', Key, FALSE) PROVE RunInv(lab')
  <2>1. Revocable => lab.attempts + 1 < scenario.revokeAt
    BY <1>1, <1>8, NotYetRevoked
  <2> QED
    BY <1>1, <1>3, <1>8, <2>1, EffectKeeps, Zenon
<1> QED
  BY <1>7, <1>8, QuietKeeps, Zenon

\* One attempt of runV21StaleScenario.
LEMMA StaleAttemptKeeps ==
    ASSUME RunInv(lab), NEW says \in BOOLEAN, StaleAttempt(says)
    PROVE  RunInv(lab')
<1>1. lab \in LabRecords
  BY DEF RunInv
<1>2. "state.stale_detected" \in PlainStages
  BY DEF PlainStages, StageNames, EffectStages
<1>3. /\ Quiet(lab, Refused(Begun))
      /\ Quiet(lab, Failed(Traced(Begun, "state.stale_detected", TRUE), FALSE, FALSE))
      /\ Quiet(lab, Failed(Traced(Authorized(Begun), "state.stale_detected", TRUE), FALSE, FALSE))
  BY <1>1, <1>2, BegunIsStarted, AuthorizedIsStarted, StartedTraces, FailedIsQuiet, RefusedIsQuietNow, Zenon
<1>4. \/ lab' = Refused(Begun)
      \/ lab' = Failed(Traced(Begun, "state.stale_detected", TRUE), FALSE, FALSE)
      \/ lab' = Failed(Traced(Authorized(Begun), "state.stale_detected", TRUE), FALSE, FALSE)
  BY DEF StaleAttempt
<1>5. Quiet(lab, lab')
  BY <1>3, <1>4, Zenon
<1> QED
  BY <1>5, QuietKeeps, Zenon

\* One attempt of runV21EventualConsistencyScenario.
LEMMA EventualAttemptKeeps ==
    ASSUME RunInv(lab), NEW says \in BOOLEAN, EventualAttempt(says)
    PROVE  RunInv(lab')
<1> DEFINE done == Effect(Authorized(Begun), Key, FALSE)
           unseen == Traced(done, "consistency.not_visible", TRUE)
           seen == Traced(done, "consistency.visible", TRUE)
<1>1. lab \in LabRecords /\ scenario.class = "eventual_consistency" /\ ~Revocable
  BY DEF RunInv, EventualAttempt, Running, Revocable, HeedsRevocation
<1>2. FALSE \in BOOLEAN /\ TRUE \in BOOLEAN /\ "ended" \in {"running", "ended"}
  OBVIOUS
<1>3. "consistency.not_visible" \in PlainStages /\ "consistency.visible" \in PlainStages
  BY DEF PlainStages, StageNames, EffectStages
<1>4. Quiet(lab, Refused(Begun))
  BY <1>1, BegunIsStarted, RefusedIsQuietNow, Zenon
<1>5. Effected(lab, unseen, Key, FALSE) /\ Effected(lab, seen, Key, FALSE)
  BY <1>1, <1>2, <1>3, KeyIsSent, AuthorizedIsStarted, StartedTakesEffect, EffectedTraces, Zenon
<1>6. Loud(lab, Failed(unseen, FALSE, TRUE), Key, FALSE)
  BY <1>1, <1>2, <1>5, FailedIsLoud, Zenon
<1>7. Loud(lab, Responded(seen), Key, FALSE)
  <2>1. PICK k : k = seen
    OBVIOUS
  <2>2. Responded(k) = [k EXCEPT !.responses = @ + 1, !.step = "ended"]
    BY DEF Responded
  <2>3. Loud(lab, Responded(k), Key, FALSE)
    BY <1>1, <1>2, <1>5, <2>1, <2>2, AnsweredIsLoud, Zenon
  <2> QED
    BY <2>1, <2>3, Zenon
<1>8. lab' = Refused(Begun) \/ lab' = Failed(unseen, FALSE, TRUE) \/ lab' = Responded(seen)
  BY DEF EventualAttempt
<1>9. Quiet(lab, lab') \/ Loud(lab, lab', Key, FALSE)
  BY <1>4, <1>6, <1>7, <1>8, Zenon
<1> HIDE DEF done, unseen, seen
<1>10. scenario.class # "concurrent_race"
  BY <1>1
<1> QED
  BY <1>1, <1>2, <1>9, <1>10, QuietKeeps, EffectKeeps, Zenon

\* A refused turn of a race.
LEMMA RefusedTurnIsQuiet ==
    ASSUME lab \in LabRecords, lab.step = "running", NEW m,
           m = [Traced(Begun, "authorization.checked", FALSE) EXCEPT !.denials = @ + 1]
    PROVE  Quiet(lab, m)
<1>1. PICK k : k = Begun
  OBVIOUS
<1>2. Started(lab, k)
  BY <1>1, BegunIsStarted, Zenon
<1>3. PICK r : r = Traced(k, "authorization.checked", FALSE)
  OBVIOUS
<1>4. r \in LabRecords /\ r.step = "running"
  BY <1>2, <1>3, RefusalTrace DEF Started, SameCounts
<1>5. m = [r EXCEPT !.denials = @ + 1, !.step = "running"]
  BY <1>1, <1>3, <1>4 DEF LabRecords
<1>6. "running" \in {"running", "ended"}
  OBVIOUS
<1> QED
  BY <1>2, <1>3, <1>5, <1>6, RefusedIsQuiet, Zenon

\* One turn of a revocation race.
LEMMA RevocableTurnKeeps ==
    ASSUME RunInv(lab), scenario \in Scenarios, RevocableTurn
    PROVE  RunInv(lab')
<1>1. lab \in LabRecords /\ scenario.class = "revocation_race" /\ lab.step = "running"
  BY DEF RunInv, RevocableTurn, Running
<1>2. FALSE \in BOOLEAN /\ "running" \in {"running", "ended"}
  OBVIOUS
<1>3. CASE lab.attempts + 1 >= scenario.revokeAt
  <2>1. lab' = [Traced(Begun, "authorization.checked", FALSE) EXCEPT !.denials = @ + 1]
    BY <1>3, Zenon DEF RevocableTurn
  <2> QED
    BY <1>1, <2>1, RefusedTurnIsQuiet, QuietKeeps, Zenon
<1>4. CASE ~(lab.attempts + 1 >= scenario.revokeAt)
  <2>1. PICK k : k = Effect(Authorized(Begun), scenario.key, FALSE)
    OBVIOUS
  <2>2. Effected(lab, k, scenario.key, FALSE)
    BY <1>1, <1>2, <2>1, KeyIsSent, AuthorizedIsStarted, StartedTakesEffect, Zenon
  <2>3. k \in LabRecords /\ k.step = "running"
    BY <1>1, <2>2 DEF Effected
  <2>4. lab' = [k EXCEPT !.responses = @ + 1]
    BY <1>4, <2>1, Zenon DEF RevocableTurn
  <2>5. lab' = [k EXCEPT !.responses = @ + 1, !.step = "running"]
    BY <2>3, <2>4 DEF LabRecords
  <2>6. Loud(lab, lab', scenario.key, FALSE)
    BY <1>1, <1>2, <2>2, <2>5, AnsweredIsLoud, Zenon
  <2>7. lab'.attempts = lab.attempts + 1 /\ lab.attempts \in Nat
    BY <1>1, <2>6 DEF Loud, LabRecords
  <2>8. Revocable => lab'.attempts < scenario.revokeAt
    BY <1>4, <2>7, ScenariosAssumption
  <2>9. scenario.class # "concurrent_race" /\ scenario.key \in KeyValues
    BY <1>1, KeyIsSent
  <2> QED
    BY <1>2, <2>6, <2>8, <2>9, LoudKeeps, Zenon
<1> QED
  BY <1>3, <1>4

\* A contender is authorised, or refused, before anybody uses the authority.
LEMMA ContendKeeps ==
    ASSUME RunInv(lab), NEW says \in BOOLEAN, Contend(says)
    PROVE  RunInv(lab')
<1>1. lab \in LabRecords /\ lab.step = "running"
  BY DEF RunInv, Contend, Running
<1>2. CASE says
  <2>1. PICK k : k = Authorized(Begun)
    OBVIOUS
  <2>2. Started(lab, k)
    BY <1>1, <2>1, AuthorizedIsStarted, Zenon
  <2>3. lab' = [k EXCEPT !.contenders = @ \cup {lab.attempts + 1}] /\ lab.attempts + 1 \in Nat
    BY <1>1, <1>2, <2>1 DEF Contend, LabRecords
  <2>4. k \in LabRecords
    BY <2>2 DEF Started
  <2>5. /\ lab' \in LabRecords /\ lab'.attempts = k.attempts /\ lab'.effects = k.effects /\ lab'.keys = k.keys
        /\ lab'.trace = k.trace /\ lab'.consumed = k.consumed /\ lab'.partial = k.partial
        /\ lab'.responses = k.responses /\ lab'.ambiguous = k.ambiguous /\ lab'.step = k.step
        /\ lab'.contenders = k.contenders \cup {lab.attempts + 1}
    BY <2>3, <2>4 DEF LabRecords
  <2>6. /\ lab'.attempts = lab.attempts + 1 /\ lab'.effects = lab.effects /\ lab'.keys = lab.keys
        /\ EffectedAt(lab') = EffectedAt(lab) /\ RefusedAt(lab') = RefusedAt(lab) /\ Wins(lab'.trace) = Wins(lab.trace)
        /\ lab'.consumed = lab.consumed /\ lab'.partial = lab.partial /\ lab'.responses = lab.responses
        /\ lab'.ambiguous = lab.ambiguous /\ lab'.step = "running"
    BY <1>1, <2>2, <2>5, Zenon DEF Started, EffectedAt, RefusedAt
  <2>7. lab.partial \in Nat /\ lab.responses \in Nat /\ lab.ambiguous \in Nat
    BY <1>1 DEF LabRecords
  <2>8. Quiet(lab, lab')
    <3>1. \A n \in Nat : n >= n
      OBVIOUS
    <3>2. "running" # "reported"
      OBVIOUS
    <3>3. lab.attempts + 1 \notin RefusedAt(lab)
      <4>1. \A a \in RefusedAt(lab) : a \in Nat /\ a <= lab.attempts
        BY <1>1, MarkedAreAttempts DEF RunInv
      <4> QED
        BY <1>1, <4>1 DEF LabRecords
    <3>4. lab'.contenders = lab.contenders \cup {lab'.attempts}
      BY <2>2, <2>5, <2>6 DEF Started
    <3>5. \A a \in lab'.contenders : a \in lab.contenders \/ a \in {lab'.attempts} \ RefusedAt(lab')
      BY <2>6, <3>3, <3>4, Zenon
    <3> QED
      BY <2>5, <2>6, <2>7, <3>1, <3>2, <3>5, Zenon DEF Quiet
  <2> QED
    BY <2>8, QuietKeeps, Zenon
<1>3. CASE ~says
  <2>1. lab' = [Traced(Begun, "authorization.checked", FALSE) EXCEPT !.denials = @ + 1]
    BY <1>3, Zenon DEF Contend
  <2> QED
    BY <1>1, <2>1, RefusedTurnIsQuiet, QuietKeeps, Zenon
<1> QED
  BY <1>2, <1>3

\* A step that only traces a plain stage, or none, keeps what holds.
LEMMA NothingKeeps ==
    ASSUME NEW l, NEW m, RunInv(l), m \in LabRecords, m.effects = l.effects, m.keys = l.keys,
           m.attempts = l.attempts, m.responses = l.responses, m.ambiguous = l.ambiguous, m.partial = l.partial,
           m.consumed = l.consumed, EffectedAt(m) = EffectedAt(l), RefusedAt(m) = RefusedAt(l),
           Wins(m.trace) = Wins(l.trace), m.contenders \subseteq l.contenders, m.step # "reported"
    PROVE  RunInv(m)
BY DEF RunInv

\* One of the contenders uses the shared authority, the others find it used.
LEMMA ConsumeKeeps ==
    ASSUME RunInv(lab), NEW actor, Consume(actor)
    PROVE  RunInv(lab')
<1> DEFINE turn == [lab EXCEPT !.contenders = @ \ {actor}]
<1>1. lab \in LabRecords /\ lab.step = "running" /\ scenario.class = "concurrent_race" /\ ~Revocable
  BY DEF RunInv, Consume, Running, Revocable, HeedsRevocation
<1>2. PICK k : k = turn
  OBVIOUS
<1>3. /\ k \in LabRecords /\ SameCounts([lab EXCEPT !.contenders = k.contenders], k) /\ k.effects = lab.effects
      /\ k.keys = lab.keys /\ k.trace = lab.trace /\ k.attempts = lab.attempts /\ k.responses = lab.responses
      /\ k.ambiguous = lab.ambiguous /\ k.partial = lab.partial /\ k.consumed = lab.consumed /\ k.step = "running"
      /\ k.contenders \subseteq lab.contenders
  BY <1>1, <1>2 DEF LabRecords, SameCounts
<1>4. EffectedAt(k) = EffectedAt(lab) /\ RefusedAt(k) = RefusedAt(lab)
  BY <1>3 DEF EffectedAt, RefusedAt
<1>5. actor \in Nat /\ actor \in 1 .. lab.attempts /\ actor \notin RefusedAt(lab)
  BY <1>1 DEF Consume, RunInv, LabRecords
<1>6. CASE lab.consumed
  <2>1. PICK t : t = TracedFor(k, actor, "lease.replayed", TRUE)
    OBVIOUS
  <2> DEFINE stage == "lease.replayed"
  <2>2. stage \in StageNames /\ stage \notin EffectStages /\ stage # "authorization.checked" /\ stage # "lease.consumed"
    BY DEF StageNames, EffectStages
  <2>3. TracedAs(k, t, actor, stage, TRUE)
    BY <1>3, <1>5, <2>1, <2>2, TracedForGrows, Zenon
  <2>4. /\ t \in LabRecords /\ t.effects = k.effects /\ t.keys = k.keys /\ SameCounts(k, t)
        /\ EffectedAt(t) = EffectedAt(k) /\ RefusedAt(t) = RefusedAt(k) /\ Wins(t.trace) = Wins(k.trace)
    <3>1. t.effects = k.effects /\ t.keys = k.keys /\ SameCounts(k, t)
      BY <1>3, <2>3 DEF TracedAs, LabRecords, SameCounts
    <3> QED
      BY <2>2, <2>3, <3>1, Zenon DEF TracedAs, EffectedAt, RefusedAt
  <2>5. lab' = t
    BY <1>2, <1>6, <2>1, Zenon DEF Consume
  <2>6. /\ lab'.effects = lab.effects /\ lab'.keys = lab.keys /\ lab'.attempts = lab.attempts
        /\ lab'.responses = lab.responses /\ lab'.ambiguous = lab.ambiguous /\ lab'.partial = lab.partial
        /\ lab'.consumed = lab.consumed /\ EffectedAt(lab') = EffectedAt(lab) /\ RefusedAt(lab') = RefusedAt(lab)
        /\ Wins(lab'.trace) = Wins(lab.trace) /\ lab'.contenders \subseteq lab.contenders /\ lab'.step # "reported"
    BY <1>3, <1>4, <2>4, <2>5 DEF SameCounts
  <2> QED
    BY <2>4, <2>5, <2>6, NothingKeeps, Zenon
<1>7. CASE ~lab.consumed
  <2>1. PICK t : t = TracedFor(k, actor, "lease.consumed", TRUE)
    OBVIOUS
  <2> DEFINE stage == "lease.consumed"
  <2>2. stage \in StageNames /\ stage \notin EffectStages /\ stage # "authorization.checked"
    BY DEF StageNames, EffectStages
  <2>3. TracedAs(k, t, actor, stage, TRUE)
    BY <1>3, <1>5, <2>1, <2>2, TracedForGrows, Zenon
  <2>4. /\ EffectedAt(t) = EffectedAt(lab) /\ RefusedAt(t) = RefusedAt(lab)
        /\ Wins(t.trace) = Wins(lab.trace) \cup {Len(lab.trace) + 1}
    BY <1>3, <1>4, <2>2, <2>3 DEF TracedAs, EffectedAt, RefusedAt
  <2>5. /\ t.effects = lab.effects /\ t.keys = lab.keys /\ t.attempts = lab.attempts /\ t.responses = lab.responses
        /\ t.ambiguous = lab.ambiguous /\ t.partial = lab.partial /\ t.step = "running"
        /\ t.contenders \subseteq lab.contenders
    BY <1>3, <2>3 DEF TracedAs, LabRecords
  <2>6. PICK e : e = EffectFor(t, actor, scenario.key, FALSE)
    OBVIOUS
  <2>7. FALSE \in BOOLEAN /\ scenario.key \in KeyValues
    BY <1>1, KeyIsSent
  <2>8. /\ e \in LabRecords /\ SameCounts(t, e)
        /\ e.effects = Apply(t, scenario.key, FALSE).effects /\ e.keys = Apply(t, scenario.key, FALSE).keys
        /\ EffectedAt(e) = EffectedAt(t) \cup {actor} /\ RefusedAt(e) = RefusedAt(t)
        /\ Wins(e.trace) = Wins(t.trace)
    BY <1>5, <2>3, <2>6, <2>7, EffectForTraces DEF TracedAs
  <2>9. lab' = [e EXCEPT !.consumed = TRUE, !.responses = @ + 1]
    BY <1>2, <1>7, <2>1, <2>6, Zenon DEF Consume
  <2>10. /\ lab' \in LabRecords /\ lab'.effects = e.effects /\ lab'.keys = e.keys /\ lab'.trace = e.trace
         /\ lab'.attempts = e.attempts /\ lab'.responses = e.responses + 1 /\ lab'.ambiguous = e.ambiguous
         /\ lab'.partial = e.partial /\ lab'.consumed = TRUE /\ lab'.step = e.step
         /\ lab'.contenders = e.contenders
    <3>1. e.responses + 1 \in Nat
      BY <2>8 DEF LabRecords
    <3> QED
      BY <2>8, <2>9, <3>1 DEF LabRecords
  <2>11. /\ EffectedAt(lab') = EffectedAt(lab) \cup {actor} /\ RefusedAt(lab') = RefusedAt(lab)
         /\ Wins(lab'.trace) = Wins(lab.trace) \cup {Len(lab.trace) + 1}
    BY <2>4, <2>5, <2>8, <2>10 DEF EffectedAt, RefusedAt
  <2>12. /\ lab'.attempts = lab.attempts /\ lab'.responses = lab.responses + 1 /\ lab'.ambiguous = lab.ambiguous
         /\ lab'.partial = lab.partial /\ lab'.consumed = TRUE /\ lab'.step = "running"
         /\ lab'.contenders \subseteq lab.contenders
    BY <2>5, <2>8, <2>10 DEF SameCounts
  <2>13. /\ Apply(t, scenario.key, FALSE).effects = Apply(lab, scenario.key, FALSE).effects
         /\ Apply(t, scenario.key, FALSE).keys = Apply(lab, scenario.key, FALSE).keys
    <3>1. CASE scenario.idempotency # "none" /\ scenario.key # Unkeyed /\ scenario.key \in lab.keys
      BY <2>5, <3>1 DEF Apply
    <3>2. CASE ~(scenario.idempotency # "none" /\ scenario.key # Unkeyed /\ scenario.key \in lab.keys)
      BY <1>1, <2>3, <2>5, <3>2 DEF TracedAs, Apply, LabRecords
    <3> QED
      BY <3>1, <3>2
  <2>14. lab.partial \in Nat /\ lab.responses \in Nat /\ lab.ambiguous \in Nat /\ lab.attempts \in Nat
    BY <1>1 DEF LabRecords
  <2>15. /\ SameKey => Len(lab'.effects) <= 1 /\ (Len(lab'.effects) = 1 => scenario.key \in lab'.keys)
         /\ (\E i \in DOMAIN lab'.effects : lab'.effects[i].partial) => lab'.partial > 0
    <3>1. lab'.effects = Apply(lab, scenario.key, FALSE).effects /\ lab'.keys = Apply(lab, scenario.key, FALSE).keys
      BY <2>8, <2>10, <2>13, Zenon
    <3>2. lab'.partial \in Nat /\ lab'.partial >= lab.partial
      BY <2>12, <2>14
    <3> QED
      BY <2>7, <3>1, <3>2, ApplyKeeps, Zenon
  <2>16. \A a \in EffectedAt(lab') \cup RefusedAt(lab') : a <= lab'.attempts
    BY <1>5, <2>11, <2>12, <2>14 DEF RunInv
  <2>17. IsFiniteSet(Wins(lab'.trace)) /\ Cardinality(Wins(lab'.trace)) <= 1
    <3>1. Wins(lab'.trace) = {Len(lab.trace) + 1}
      BY <1>1, <1>7, <2>11 DEF RunInv
    <3> QED
      BY <3>1, FS_Singleton, 1 <= 1
  <2>18. IsFiniteSet(EffectedAt(lab')) /\ (scenario.version # "1" => Cardinality(EffectedAt(lab')) <= lab'.responses + lab'.ambiguous)
    <3>1. IsFiniteSet(EffectedAt(lab)) /\ (scenario.version # "1" => Cardinality(EffectedAt(lab)) <= lab.responses + lab.ambiguous)
      BY DEF RunInv
    <3>2. /\ IsFiniteSet(EffectedAt(lab')) /\ Cardinality(EffectedAt(lab')) <= Cardinality(EffectedAt(lab)) + 1
          /\ Cardinality(EffectedAt(lab)) \in Nat /\ Cardinality(EffectedAt(lab')) \in Nat
      BY <2>11, <3>1, OneMoreAttempt
    <3> QED
      BY <2>12, <2>14, <3>1, <3>2
  <2>19. EffectedAt(lab') \cap RefusedAt(lab') = {}
    BY <1>5, <2>11 DEF RunInv
  <2>20. \A a \in lab'.contenders : a \in 1 .. lab'.attempts /\ a \notin RefusedAt(lab')
    BY <1>1, <2>11, <2>12 DEF RunInv
  <2> QED
    BY <1>1, <2>10, <2>12, <2>15, <2>16, <2>17, <2>18, <2>19, <2>20 DEF RunInv
<1> QED
  BY <1>6, <1>7

\* The races end when every actor had its turn.
LEMMA RacesEndKeeps == ASSUME RunInv(lab), RacesEnd PROVE RunInv(lab')
<1>1. lab \in LabRecords /\ lab' = [lab EXCEPT !.step = "ended"]
  BY DEF RunInv, RacesEnd
<1>2. /\ lab' \in LabRecords /\ lab'.effects = lab.effects /\ lab'.keys = lab.keys /\ lab'.attempts = lab.attempts
      /\ lab'.responses = lab.responses /\ lab'.ambiguous = lab.ambiguous /\ lab'.partial = lab.partial
      /\ lab'.consumed = lab.consumed /\ lab'.trace = lab.trace /\ lab'.contenders = lab.contenders
      /\ lab'.step # "reported"
  BY <1>1 DEF LabRecords
<1> QED
  BY <1>2, NothingKeeps DEF EffectedAt, RefusedAt

\* The report is of the run as it ended.
LEMMA ReportKeeps == ASSUME RunInv(lab), Report PROVE RunInv(lab')
<1> DEFINE s == IF IF scenario.version = "1" THEN LegacyPasses(lab) ELSE Passes(lab) THEN "PASS" ELSE "FAIL"
<1>1. lab \in LabRecords /\ lab' = [lab EXCEPT !.step = "reported", !.evidence = Evidence(lab), !.status = s]
  BY DEF RunInv, Report
<1>2. s \in {"none", "PASS", "FAIL"} /\ (s = "PASS" /\ scenario.version # "1" => Passes(lab))
  OBVIOUS
<1>3. Evidence(lab) \in EvidenceValues
  BY DEF Evidence, EvidenceValues
<1> HIDE DEF s
<1>4. /\ lab' \in LabRecords /\ lab'.effects = lab.effects /\ lab'.keys = lab.keys /\ lab'.attempts = lab.attempts
      /\ lab'.responses = lab.responses /\ lab'.ambiguous = lab.ambiguous /\ lab'.partial = lab.partial
      /\ lab'.consumed = lab.consumed /\ lab'.trace = lab.trace /\ lab'.contenders = lab.contenders
      /\ lab'.denials = lab.denials
      /\ lab'.step = "reported" /\ lab'.evidence = Evidence(lab) /\ lab'.status = s
  BY <1>1, <1>2, <1>3 DEF LabRecords
<1>5. Evidence(lab') = Evidence(lab)
  BY <1>4 DEF Evidence
<1>6. s = "PASS" /\ scenario.version # "1" => Evidence(lab) = scenario.expect.evidence /\ AuthorityAsExpected(lab)
  BY <1>2 DEF Passes
<1>7. EffectedAt(lab') = EffectedAt(lab) /\ RefusedAt(lab') = RefusedAt(lab) /\ Wins(lab'.trace) = Wins(lab.trace)
  BY <1>4 DEF EffectedAt, RefusedAt
<1>8. AuthorityAsExpected(lab') = AuthorityAsExpected(lab)
  BY <1>4, Zenon DEF AuthorityAsExpected, Count, EffectsFrom
<1> QED
  BY <1>4, <1>5, <1>6, <1>7, <1>8 DEF RunInv

\* Only version 2.1 has the classes whose runners do not read a revocation.
LabInv == scenario \in Scenarios /\ (HeedsRevocation \/ scenario.version # "1") /\ RunInv(lab)

\* The invariant holds before the first attempt.
LEMMA UnstartedIsHonest == LabInit => LabInv
<1> SUFFICES ASSUME LabInit PROVE LabInv
  OBVIOUS
<1>1. scenario \in Scenarios /\ lab = Unstarted
  BY DEF LabInit
<1>2. lab \in LabRecords
  BY <1>1 DEF Unstarted, LabRecords, EvidenceValues
<1>3. lab.effects = <<>> /\ lab.trace = <<>> /\ lab.consumed = FALSE /\ lab.step = "running" /\ lab.attempts = 0
      /\ lab.responses = 0 /\ lab.ambiguous = 0
  BY <1>1 DEF Unstarted
<1>4. EffectedAt(lab) = {} /\ RefusedAt(lab) = {} /\ Wins(lab.trace) = {}
  BY <1>3 DEF EffectedAt, RefusedAt, Marked, Wins
<1>5. IsFiniteSet({}) /\ Cardinality({}) = 0
  BY FS_EmptySet
<1>6. Len(lab.effects) = 0 /\ DOMAIN lab.effects = {}
  BY <1>3
<1>7. Cardinality(EffectedAt(lab)) <= lab.responses + lab.ambiguous /\ Cardinality(Wins(lab.trace)) <= 1
  <2>1. Cardinality(EffectedAt(lab)) = 0 /\ Cardinality(Wins(lab.trace)) = 0
    BY <1>4, <1>5, Zenon
  <2> QED
    BY <1>3, <2>1
<1>8. HeedsRevocation \/ scenario.version # "1"
  BY DEF HeedsRevocation, LabInit, validateCrashLabScenario, Only21, Races
<1>9. RunInv(lab)
  <2>1. SameKey => Len(lab.effects) <= 1 /\ (Len(lab.effects) = 1 => scenario.key \in lab.keys)
    BY <1>6
  <2>2. lab.step # "reported" /\ ~(\E i \in DOMAIN lab.effects : lab.effects[i].partial)
    BY <1>3, <1>6
  <2>3. IsFiniteSet(EffectedAt(lab)) /\ IsFiniteSet(Wins(lab.trace))
    BY <1>4, <1>5, Zenon
  <2>4. lab.contenders = {}
    BY <1>1 DEF Unstarted
  <2> QED
    BY <1>2, <1>4, <1>7, <2>1, <2>2, <2>3, <2>4 DEF RunInv
<1> QED
  BY <1>1, <1>8, <1>9 DEF LabInv

\* The invariant speaks of the scenario, which no step changes.
LEMMA SameScenario == ASSUME RunInv(lab'), UNCHANGED scenario PROVE RunInv(lab)'
<1>1. AuthorityAsExpected(lab)' = AuthorityAsExpected(lab')
  BY Zenon DEF AuthorityAsExpected
<1>2. /\ LabRecords' = LabRecords /\ SameKey' = SameKey /\ Revocable' = Revocable
  BY DEF SameKey, Revocable, HeedsRevocation, LabRecords, EffectValues, KeyValues
<1> QED
  BY <1>1, <1>2 DEF RunInv

\* Every attempt, and every race, preserves it.
LEMMA LabStepKeeps == LabInv /\ [LabNext]_labVars => LabInv'
<1> SUFFICES ASSUME LabInv, [LabNext]_labVars PROVE LabInv'
  OBVIOUS
<1>1. scenario \in Scenarios /\ (HeedsRevocation \/ scenario.version # "1") /\ RunInv(lab)
  BY DEF LabInv
<1>2. RunInv(lab') /\ UNCHANGED scenario
  <2>1. ASSUME NEW says \in BOOLEAN, Attempt(says) PROVE RunInv(lab') /\ UNCHANGED scenario
    BY <1>1, <2>1, AttemptKeeps, Zenon DEF Attempt, Driven
  <2>2. ASSUME NEW says \in BOOLEAN, LegacyAttempt(says) PROVE RunInv(lab') /\ UNCHANGED scenario
    BY <1>1, <2>2, LegacyAttemptKeeps, Zenon DEF LegacyAttempt, Driven
  <2>3. ASSUME NEW says \in BOOLEAN, StaleAttempt(says) PROVE RunInv(lab') /\ UNCHANGED scenario
    BY <1>1, <2>3, StaleAttemptKeeps, Zenon DEF StaleAttempt, Running
  <2>4. ASSUME NEW says \in BOOLEAN, EventualAttempt(says) PROVE RunInv(lab') /\ UNCHANGED scenario
    BY <1>1, <2>4, EventualAttemptKeeps, Zenon DEF EventualAttempt, Running
  <2>5. ASSUME NEW says \in BOOLEAN, Contend(says) PROVE RunInv(lab') /\ UNCHANGED scenario
    BY <1>1, <2>5, ContendKeeps, Zenon DEF Contend, Running
  <2>6. ASSUME NEW actor \in lab.contenders, Consume(actor) PROVE RunInv(lab') /\ UNCHANGED scenario
    BY <1>1, <2>6, ConsumeKeeps, Zenon DEF Consume, Running
  <2>7. CASE RevocableTurn
    BY <1>1, <2>7, RevocableTurnKeeps, Zenon DEF RevocableTurn, Running
  <2>8. CASE RacesEnd
    BY <1>1, <2>8, RacesEndKeeps, Zenon DEF RacesEnd, Running
  <2>9. CASE Report
    BY <1>1, <2>9, ReportKeeps, Zenon DEF Report
  <2>10. CASE UNCHANGED labVars
    BY <1>1, <2>10 DEF labVars
  <2> QED
    BY <2>1, <2>2, <2>3, <2>4, <2>5, <2>6, <2>7, <2>8, <2>9, <2>10, Zenon DEF LabNext
<1>3. RunInv(lab)'
  BY <1>2, SameScenario
<1> QED
  BY <1>1, <1>2, <1>3 DEF LabInv, HeedsRevocation

\* Which attempts an entry of the trace marks.
LEMMA EntriesAreMarked ==
    ASSUME NEW l \in LabRecords, NEW i \in DOMAIN l.trace
    PROVE  /\ l.trace[i].stage \in EffectStages => l.trace[i].attempt \in EffectedAt(l)
           /\ l.trace[i].stage = "authorization.checked" /\ ~l.trace[i].ok => l.trace[i].attempt \in RefusedAt(l)
<1>1. l.trace[i] \in EntryRecords
  BY DEF LabRecords
<1>2. l.trace[i].stage \in EffectStages => l.trace[i] \in EffectEntries
  BY <1>1 DEF EffectEntries
<1>3. l.trace[i].stage = "authorization.checked" /\ ~l.trace[i].ok => l.trace[i] \in RefusalEntries
  BY <1>1 DEF RefusalEntries
<1> QED
  BY <1>2, <1>3, Zenon DEF EffectedAt, RefusedAt, Marked

\* It implies that the verdict of the laboratory is honest.
LEMMA HonestByInvariant == LabInv => LabIsHonest
<1> SUFFICES ASSUME LabInv PROVE LabIsHonest
  OBVIOUS
<1>1. RunInv(lab) /\ lab \in LabRecords /\ scenario.revokeAt \in Nat
  BY ScenariosAssumption DEF LabInv, RunInv
<1>2. KeyedEffectHappensOnce
  BY <1>1 DEF KeyedEffectHappensOnce, RunInv, SameKey
<1>3. RevocationHolds
  <2>1. ASSUME NEW i \in DOMAIN lab.trace, NEW j \in DOMAIN lab.trace, lab.trace[i].stage = "authorization.checked",
               ~lab.trace[i].ok, lab.trace[j].stage \in EffectStages
        PROVE  lab.trace[i].attempt # lab.trace[j].attempt
    <3>1. lab.trace[i].attempt \in RefusedAt(lab) /\ lab.trace[j].attempt \in EffectedAt(lab)
      BY <1>1, <2>1, EntriesAreMarked
    <3> QED
      BY <1>1, <3>1 DEF RunInv
  <2>2. ASSUME Revocable, NEW i \in DOMAIN lab.trace, lab.trace[i].stage \in EffectStages,
               lab.trace[i].attempt >= scenario.revokeAt
        PROVE  FALSE
    <3>1. lab.trace[i].attempt \in EffectedAt(lab) /\ lab.trace[i].attempt \in Nat
      BY <1>1, <2>2, EntriesAreMarked, MarkedAreAttempts
    <3>2. lab.trace[i].attempt < scenario.revokeAt
      BY <1>1, <2>2, <3>1 DEF RunInv
    <3> QED
      BY <1>1, <2>2, <3>1, <3>2
  <2>3. Revocable => ~EffectsFrom(lab, scenario.revokeAt)
    BY <2>2 DEF EffectsFrom
  \* Where the runner does not read the revocation, the report does.
  <2>4. ASSUME ~HeedsRevocation, DenialAttested PROVE ~EffectsFrom(lab, scenario.revokeAt)
    <3>1. AuthorityAsExpected(lab)
      BY <1>1, <2>4 DEF RunInv, DenialAttested, LabInv
    <3> QED
      BY <2>4, <3>1 DEF AuthorityAsExpected, DenialAttested
  <2> QED
    BY <2>1, <2>3, <2>4, Zenon DEF RevocationHolds, Revocable
<1>4. OneWinner
  BY <1>1 DEF OneWinner, RunInv, Wins
<1>5. ReportIsHonest
  <2> SUFFICES ASSUME lab.step = "reported" PROVE
        /\ lab.evidence.status = "success" => /\ Len(lab.effects) > 0
                                              /\ \A i \in DOMAIN lab.effects : ~lab.effects[i].partial
        /\ scenario.version # "1" /\ lab.status = "PASS" /\ scenario.expect.evidence.ambiguity = "none" =>
              Cardinality({lab.trace[i].attempt : i \in {j \in DOMAIN lab.trace : lab.trace[j].stage \in EffectStages}})
                 <= lab.responses
    BY DEF ReportIsHonest
  <2>1. /\ lab.evidence = Evidence(lab)
        /\ scenario.version # "1" /\ lab.status = "PASS" => Evidence(lab) = scenario.expect.evidence
    BY <1>1 DEF RunInv
  <2>2. /\ Evidence(lab).status = "success" => lab.effects # <<>> /\ lab.partial = 0
        /\ Evidence(lab).ambiguity = "none" => ~(lab.ambiguous > 0)
    BY DEF Evidence
  <2>3. lab.partial \in Nat /\ lab.ambiguous \in Nat /\ lab.responses \in Nat /\ lab.effects \in Seq(EffectValues)
    BY <1>1 DEF LabRecords
  <2>4. lab.evidence.status = "success" => /\ Len(lab.effects) > 0
                                           /\ \A i \in DOMAIN lab.effects : ~lab.effects[i].partial
    <3>1. lab.effects # <<>> => Len(lab.effects) > 0
      BY <2>3
    <3> QED
      BY <1>1, <2>1, <2>2, <2>3, <3>1 DEF RunInv
  <2>5. EffectedAt(lab) = {lab.trace[i].attempt : i \in {j \in DOMAIN lab.trace : lab.trace[j].stage \in EffectStages}}
    <3>1. \A j \in DOMAIN lab.trace : lab.trace[j].stage \in EffectStages <=> lab.trace[j] \in EffectEntries
      BY <1>1 DEF LabRecords, EffectEntries
    <3> QED
      BY <3>1 DEF EffectedAt, Marked
  <2>6. ASSUME scenario.version # "1", lab.status = "PASS", scenario.expect.evidence.ambiguity = "none"
        PROVE  Cardinality(EffectedAt(lab)) <= lab.responses
    <3>1. lab.ambiguous = 0
      BY <2>1, <2>2, <2>3, <2>6
    <3>2. Cardinality(EffectedAt(lab)) <= lab.responses + lab.ambiguous
      BY <1>1, <2>6 DEF RunInv
    <3> QED
      BY <2>3, <3>1, <3>2
  <2> QED
    BY <2>4, <2>5, <2>6
<1> QED
  BY <1>2, <1>3, <1>4, <1>5 DEF LabIsHonest

\* The runners of crashlab/index.js keep the guarantees they are to test and
\* their reports do not overstate them, in every valid scenario: keyed effects
\* happen once, refused attempts and actors have no effect, one contender wins.
\* Nothing takes effect from a scripted revocation on where the runner reads it;
\* that of the one-use race and that of late visibility do not, and there only
\* the report that expects the denial is proved to demand it.
THEOREM LabIsAlwaysHonest == LabSpec => []LabIsHonest
BY UnstartedIsHonest, LabStepKeeps, HonestByInvariant, PTL DEF LabSpec

=============================================================================
