--------------------------- MODULE ApprovalQueue ---------------------------
(***************************************************************************)
(* The approval queue of the CLI and everyone who reads and writes it: a   *)
(* `ruleoak protect` gate that evaluates calls with the policy it loaded   *)
(* when it started, `ruleoak check`, people who decide pending requests    *)
(* (`ruleoak approve`, the REST API, the gate's own prompt), who apply     *)
(* policy suggestions and who disable and enable exact rules.  They share  *)
(* files and no lock: a pending request is claimed by a rename, and the    *)
(* session file and policy.json are read, changed and written back.        *)
(*                                                                         *)
(* A call stands for its decision key; a policy is the exact rule of each  *)
(* call (no rule: the policy asks) and the edition of the file, because    *)
(* every edit writes a time stamp and so another digest.                   *)
(***************************************************************************)
EXTENDS Naturals, Sequences, FiniteSets

CONSTANTS
    Calls,
    Deciders,           \* processes started by people
    GateProc,           \* the process of the gate
    Slots,              \* approval ids of one call (makeApprovalId)
    ApprovalModes,      \* --approval-mode of the gate
    ChoicesMade,        \* bound: what people choose at a prompt or in a command
    MaxRequests,        \* bound: approval requests made
    MaxEdits,           \* bound: edits of policy.json
    NoRequest           \* no file

ASSUME BoundsAssumption == MaxRequests \in Nat /\ MaxEdits \in Nat
ASSUME GateAssumption == GateProc \notin Deciders
ASSUME ChoicesAssumption == ChoicesMade \subseteq {"allow_once", "deny_once", "allow_session",
                                                   "always_ask", "always_allow", "always_block"}

VARIABLES
    policyFile,         \* policy.json
    pending,            \* pending/<approval id>.json
    claims,             \* pending/<approval id>.json.deciding-<pid>
    sessions,           \* sessions/<session id>.json: calls allowed in it
    suggestions,        \* policy-suggestions/*.json
    decider,            \* what each process is doing
    gate,               \* the running `ruleoak protect`
    rulings,            \* the decisions recorded as evidence
    requests,           \* the ids of the requests made
    spent               \* calls forwarded because of an approval

queueVars == <<policyFile, pending, claims, sessions, suggestions, decider,
               gate, rulings, requests, spent>>

\* safeFileName(sessionId) of `check` without a session, of a call that
\* names no session, and of the cache that the gate opens.
SessionIds == {"ruleoak-check", "default-session", "default"}

People == Deciders \cup {GateProc}

\* What a pending request holds.
RequestFiles == [serial : Nat, session : SessionIds, edition : Nat, fresh : BOOLEAN]

ASSUME NoRequestAssumption == NoRequest \notin RequestFiles \cup People

Resting == [step |-> "idle"]

QueueInit ==
    /\ policyFile = [rules |-> [c \in Calls |-> [effect |-> "none", off |-> FALSE]],
                     edition |-> 0]
    /\ pending = [i \in Calls \X Slots |-> NoRequest]
    /\ claims = {}
    /\ sessions = [s \in SessionIds |-> {}]
    /\ suggestions = {}
    /\ decider = [p \in People |-> Resting]
    /\ gate = Resting
    /\ rulings = {}
    /\ requests = <<>>
    /\ spent = [c \in Calls |-> 0]

-----------------------------------------------------------------------------
(***************************************************************************)
(* Requests.                                                               *)
(***************************************************************************)

\* What an exact rule decides: one that is switched off decides nothing.
ExactVerdict(rules, c) ==
    IF rules[c].effect = "none" \/ rules[c].off THEN "needs_approval"
    ELSE rules[c].effect

\* The verdict after the session cache was consulted.
WithSession(verdict, allowed, c) ==
    IF verdict = "needs_approval" /\ c \in allowed THEN "allow" ELSE verdict

\* createPendingApproval: the request binds the digest of the policy that
\* asked; a request with the same id is overwritten.
NewRequest(c, i, session, edition) ==
    /\ Len(requests) < MaxRequests
    /\ requests' = Append(requests, <<c, i>>)
    /\ pending' = [pending EXCEPT ![<<c, i>>] =
            [serial |-> Len(requests) + 1, session |-> session,
             edition |-> edition, fresh |-> TRUE]]

\* checkCallFile with a call that names its session or none.
CheckCall(c, i, session) ==
    /\ WithSession(ExactVerdict(policyFile.rules, c), sessions[session], c) = "needs_approval"
    /\ NewRequest(c, i, session, policyFile.edition)
    /\ UNCHANGED <<policyFile, claims, sessions, suggestions, decider, gate,
                   rulings, spent>>

\* Five minutes pass over a pending request.
Expire(i) ==
    /\ pending[i] # NoRequest
    /\ pending[i].fresh
    /\ pending' = [pending EXCEPT ![i].fresh = FALSE]
    /\ UNCHANGED <<policyFile, claims, sessions, suggestions, decider, gate,
                   rulings, requests, spent>>

-----------------------------------------------------------------------------
(***************************************************************************)
(* decidePendingApproval, one step for each file it touches.               *)
(***************************************************************************)

StepTo(p, s) == decider' = [decider EXCEPT ![p].step = s]

\* The function returns or throws: a command ends, the gate goes on with it.
Ends(p, s) ==
    decider' = [decider EXCEPT ![p] =
        IF p = GateProc THEN [step |-> s, choice |-> @.choice] ELSE Resting]

\* Mutant of Claim: a claim that leaves the request in the queue.
ClaimedByCopy(p, i, choice) ==
    /\ pending[i] # NoRequest
    /\ pending' = pending
    /\ claims' = claims \cup {[by |-> p, id |-> i, serial |-> pending[i].serial]}
    /\ decider' = [decider EXCEPT ![p] =
            [step |-> "claimed", id |-> i, choice |-> choice, request |-> pending[i]]]

\* The request is taken out of the queue by a rename.  At the gate's prompt
\* `now` is the time of the request, so that it is not expired.
Claim(p, i, choice) ==
    /\ pending[i] # NoRequest
    /\ pending' = [pending EXCEPT ![i] = NoRequest]
    /\ claims' = {k \in claims : ~(k.by = p /\ k.id = i)}
                   \cup {[by |-> p, id |-> i, serial |-> pending[i].serial]}
    /\ decider' = [decider EXCEPT ![p] =
            [step |-> "claimed", id |-> i, choice |-> choice, request |-> pending[i]]]

Decide(p, i, choice) ==
    /\ decider[p].step = "idle"
    /\ Claim(p, i, choice)
    /\ UNCHANGED <<policyFile, sessions, suggestions, gate, rulings, requests, spent>>

\* The policy on disk must still be the one that asked, and the request
\* must not have expired.
CheckClaim(p) ==
    /\ decider[p].step = "claimed"
    /\ StepTo(p, IF /\ decider[p].request.edition = policyFile.edition
                  /\ (p = GateProc \/ decider[p].request.fresh)
               THEN "checked" ELSE "refused")
    /\ UNCHANGED <<policyFile, pending, claims, sessions, suggestions, gate,
                   rulings, requests, spent>>

\* A refused request goes back unless another has taken its name meanwhile,
Refuse(p) ==
    /\ decider[p].step = "refused"
    /\ IF pending[decider[p].id] = NoRequest THEN StepTo(p, "returning") ELSE Ends(p, "failed")
    /\ UNCHANGED <<policyFile, pending, claims, sessions, suggestions, gate,
                   rulings, requests, spent>>

\* which may happen once more between existsSync and renameSync.
Returned(p) ==
    /\ pending' = [pending EXCEPT ![decider[p].id] = decider[p].request]
    /\ claims' = {k \in claims : ~(k.by = p /\ k.id = decider[p].id)}

ReturnClaim(p) ==
    /\ decider[p].step = "returning"
    /\ Returned(p)
    /\ Ends(p, "failed")
    /\ UNCHANGED <<policyFile, sessions, suggestions, gate, rulings, requests, spent>>

\* The choices that are also written to the session file.
SessionChoices == {"allow_session"}

\* The choices that are also written as a policy suggestion.
SuggestingChoices == {"always_ask", "always_allow", "always_block"}

\* recorder.writeEvent; when it throws the claim stays where it is.
RecordRuling(p) ==
    /\ decider[p].step = "checked"
    /\ \/ /\ rulings' = rulings \cup {[serial |-> decider[p].request.serial, by |-> p,
                                       call |-> decider[p].id[1],
                                       choice |-> decider[p].choice]}
          /\ \/ decider[p].choice \in SessionChoices /\ StepTo(p, "session")
             \/ /\ decider[p].choice \notin SessionChoices
                /\ decider' = [decider EXCEPT ![p] =
                        [step |-> IF @.choice \in SuggestingChoices THEN "suggest" ELSE "finish",
                         id |-> @.id, choice |-> @.choice]]
       \/ /\ Ends(p, "failed")
          /\ UNCHANGED rulings
    /\ UNCHANGED <<policyFile, pending, claims, sessions, suggestions, gate,
                   requests, spent>>

\* writeSessionDecision reads the session file and
ReadSession(p) ==
    /\ decider[p].step = "session"
    /\ decider' = [decider EXCEPT ![p] =
            [step |-> "sessionRead", id |-> @.id, choice |-> @.choice, request |-> @.request,
             read |-> sessions[@.request.session]]]
    /\ UNCHANGED <<policyFile, pending, claims, sessions, suggestions, gate,
                   rulings, requests, spent>>

\* writes it back with one more decision.
WriteSession(p) ==
    /\ decider[p].step = "sessionRead"
    /\ sessions' = [sessions EXCEPT ![decider[p].request.session] =
                        decider[p].read \cup {decider[p].id[1]}]
    /\ decider' = [decider EXCEPT ![p] =
            [step |-> "finish", id |-> @.id, choice |-> @.choice]]
    /\ UNCHANGED <<policyFile, pending, claims, suggestions, gate, rulings,
                   requests, spent>>

\* The rule that buildPolicySuggestion proposes for a choice.
SuggestedEffect(choice) ==
    CASE choice = "always_allow" -> "allow"
      [] choice = "always_ask" -> "needs_approval"
      [] OTHER -> "block"

\* writePolicySuggestion: the file is named by the approval and the effect.
Suggest(p) ==
    /\ decider[p].step = "suggest"
    /\ LET effect == SuggestedEffect(decider[p].choice)
       IN  suggestions' = {g \in suggestions : ~(g.id = decider[p].id /\ g.effect = effect)}
               \cup {[id |-> decider[p].id, effect |-> effect, applied |-> FALSE]}
    /\ StepTo(p, "finish")
    /\ UNCHANGED <<policyFile, pending, claims, sessions, gate, rulings,
                   requests, spent>>

\* The record goes to approvals/ and the claim is unlinked.
FinishRuling(p) ==
    /\ decider[p].step = "finish"
    /\ claims' = {k \in claims : ~(k.by = p /\ k.id = decider[p].id)}
    /\ Ends(p, "decided")
    /\ UNCHANGED <<policyFile, pending, sessions, suggestions, gate, rulings,
                   requests, spent>>

\* The session file, the suggestion, the record or the unlink fails after the
\* ruling is recorded: the function throws and the claim stays where it is.
RulingCutShort(p) ==
    /\ decider[p].step \in {"session", "sessionRead", "suggest", "finish"}
    /\ Ends(p, "failed")
    /\ UNCHANGED <<policyFile, pending, claims, sessions, suggestions, gate,
                   rulings, requests, spent>>

\* A process dies where it stands; its claim keeps a name nobody looks for.
Dies(p) ==
    /\ p # GateProc
    /\ decider[p].step # "idle"
    /\ decider' = [decider EXCEPT ![p] = Resting]
    /\ claims' = {IF k.by = p THEN [k EXCEPT !.by = NoRequest] ELSE k : k \in claims}
    /\ UNCHANGED <<policyFile, pending, sessions, suggestions, gate, rulings,
                   requests, spent>>

-----------------------------------------------------------------------------
(***************************************************************************)
(* Edits of policy.json: read the file, write the whole of it.             *)
(***************************************************************************)

Editing(p, rules, suggestion) ==
    decider' = [decider EXCEPT ![p] =
        [step |-> "editing", rules |-> rules, suggestion |-> suggestion]]

\* previewPolicySuggestionApplication: the exact rule of the call is
\* replaced by the suggested one; a suggestion is applied once.
ReadToApply(p, g) ==
    /\ decider[p].step = "idle"
    /\ g \in suggestions
    /\ ~g.applied
    /\ policyFile.edition < MaxEdits
    /\ Editing(p, [policyFile.rules EXCEPT ![g.id[1]] = [effect |-> g.effect, off |-> FALSE]], g)
    /\ UNCHANGED <<policyFile, pending, claims, sessions, suggestions, gate,
                   rulings, requests, spent>>

\* previewPolicyRuleStatusChange: disable and enable keep the rule.
ReadToSwitch(p, c, off) ==
    /\ decider[p].step = "idle"
    /\ policyFile.rules[c].effect # "none"
    /\ policyFile.edition < MaxEdits
    /\ Editing(p, [policyFile.rules EXCEPT ![c].off = off], NoRequest)
    /\ UNCHANGED <<policyFile, pending, claims, sessions, suggestions, gate,
                   rulings, requests, spent>>

\* writeJsonFile(policyPath): whatever was written meanwhile is lost.
WritePolicy(p) ==
    /\ decider[p].step = "editing"
    /\ policyFile.edition < MaxEdits
    /\ policyFile' = [rules |-> decider[p].rules, edition |-> policyFile.edition + 1]
    /\ StepTo(p, "written")
    /\ UNCHANGED <<pending, claims, sessions, suggestions, gate, rulings,
                   requests, spent>>

\* The suggestion is marked applied (or the rule history is written).
MarkApplied(p) ==
    /\ decider[p].step = "written"
    /\ suggestions' =
         IF decider[p].suggestion = NoRequest THEN suggestions
         ELSE (suggestions \ {decider[p].suggestion})
                \cup {[decider[p].suggestion EXCEPT !.applied = TRUE]}
    /\ decider' = [decider EXCEPT ![p] = Resting]
    /\ UNCHANGED <<policyFile, pending, claims, sessions, gate, rulings,
                   requests, spent>>

-----------------------------------------------------------------------------
(***************************************************************************)
(* The gate: runWrapped and #evaluateJsonRpcItem of the inbound gate, with *)
(* the handlers that protectCommand gives it.                              *)
(***************************************************************************)

\* The policy is loaded once.
GateStart(mode) ==
    /\ gate.step = "idle"
    /\ gate' = [step |-> "ready", mode |-> mode, policy |-> policyFile]
    /\ UNCHANGED <<policyFile, pending, claims, sessions, suggestions, decider,
                   rulings, requests, spent>>

\* The call may be forwarded.
Granted(c, via) ==
    gate' = [step |-> "granted", mode |-> gate.mode, policy |-> gate.policy,
             call |-> c, via |-> via]

\* The client got a denialResponse; the call is over.
Answered == gate' = [step |-> "ready", mode |-> gate.mode, policy |-> gate.policy]

\* The session file that protectCommand's sessionDecisionCacheProvider opens
\* for a call whose metadata names no session.
GateSession == "default"

\* The session of such a call as normalizeToolCall writes it.
CallSession == "default-session"

\* A call arrives and is decided by the policy or by the session.
GateEvaluate(c) ==
    /\ gate.step \in {"ready", "forwarded"}
    /\ LET verdict == ExactVerdict(gate.policy.rules, c)
           final == WithSession(verdict, sessions[GateSession], c)
       IN  /\ final # "needs_approval" \/ gate.mode = "none"
           /\ IF final = "allow"
              THEN Granted(c, IF final = verdict THEN "policy" ELSE "session")
              ELSE Answered
    /\ UNCHANGED <<policyFile, pending, claims, sessions, suggestions, decider,
                   rulings, requests, spent>>

\* A call that needs approval is queued.  With a terminal the person is
\* asked at once, without one the answer is needs_approval.
GateAsk(c, i) ==
    /\ gate.step \in {"ready", "forwarded"}
    /\ gate.mode # "none"
    /\ WithSession(ExactVerdict(gate.policy.rules, c), sessions[GateSession], c) = "needs_approval"
    /\ NewRequest(c, i, CallSession, gate.policy.edition)
    /\ \/ Answered
       \/ /\ gate.mode = "tui"
          /\ gate' = [step |-> "prompt", mode |-> "tui", policy |-> gate.policy,
                      call |-> c, id |-> <<c, i>>]
    /\ UNCHANGED <<policyFile, claims, sessions, suggestions, decider, rulings, spent>>

\* The person answers; without a confirmed choice the call is denied once.
GatePrompt(choice) ==
    /\ gate.step = "prompt"
    /\ \/ /\ Claim(GateProc, gate.id, choice)
          /\ gate' = [gate EXCEPT !.step = "deciding"]
       \/ /\ pending[gate.id] = NoRequest
          /\ gate' = [step |-> "broken"]
          /\ UNCHANGED <<pending, claims, decider>>
    /\ UNCHANGED <<policyFile, sessions, suggestions, rulings, requests, spent>>

\* Mutant of GatePermits: a wish to be asked every time permits, too.
GatePermitsAsking(choice) ==
    choice \in {"allow", "allow_once", "allow_session", "always_allow", "always_ask"}

\* The choices that the gate reads as permission.
GatePermits(choice) == choice \in {"allow", "allow_once", "allow_session", "always_allow"}

\* decidePendingApproval returned.  An exception rejects the chain on which
\* every later chunk waits: the gate handles nothing any more.
GateResumes ==
    /\ gate.step = "deciding"
    /\ decider[GateProc].step \in {"decided", "failed"}
    /\ IF decider[GateProc].step = "failed" THEN gate' = [step |-> "broken"]
       ELSE IF GatePermits(decider[GateProc].choice) THEN Granted(gate.call, "approval")
       ELSE Answered
    /\ decider' = [decider EXCEPT ![GateProc] = Resting]
    /\ UNCHANGED <<policyFile, pending, claims, sessions, suggestions, rulings,
                   requests, spent>>

\* The receipt, whose id is fresh, is consumed and the call is forwarded; an
\* error of the marker file breaks the gate.
GateForward ==
    /\ gate.step = "granted"
    /\ \/ /\ gate' = [gate EXCEPT !.step = "forwarded"]
          /\ spent' = [spent EXCEPT ![gate.call] = IF gate.via = "approval" THEN @ + 1 ELSE @]
       \/ /\ gate' = [step |-> "broken"]
          /\ UNCHANGED spent
    /\ UNCHANGED <<policyFile, pending, claims, sessions, suggestions, decider,
                   rulings, requests>>

\* The gate is stopped, or dies, wherever it is.
GateStops ==
    /\ gate.step # "idle"
    /\ gate' = Resting
    /\ decider' = [decider EXCEPT ![GateProc] = Resting]
    /\ claims' = {IF k.by = GateProc THEN [k EXCEPT !.by = NoRequest] ELSE k : k \in claims}
    /\ UNCHANGED <<policyFile, pending, sessions, suggestions, rulings, requests, spent>>

-----------------------------------------------------------------------------
QueueNext ==
    \/ \E c \in Calls, i \in Slots :
          \/ GateAsk(c, i)
          \/ \E s \in {"ruleoak-check", GateSession} : CheckCall(c, i, s)
    \/ \E i \in Calls \X Slots : Expire(i)
    \/ \E p \in Deciders, i \in Calls \X Slots, choice \in ChoicesMade : Decide(p, i, choice)
    \/ \E p \in People :
          \/ CheckClaim(p) \/ Refuse(p) \/ ReturnClaim(p) \/ RecordRuling(p)
          \/ ReadSession(p) \/ WriteSession(p) \/ Suggest(p) \/ FinishRuling(p)
          \/ RulingCutShort(p) \/ WritePolicy(p) \/ MarkApplied(p) \/ Dies(p)
    \/ \E p \in Deciders :
          \/ \E g \in suggestions : ReadToApply(p, g)
          \/ \E c \in Calls, off \in BOOLEAN : ReadToSwitch(p, c, off)
    \/ \E mode \in ApprovalModes : GateStart(mode)
    \/ \E c \in Calls : GateEvaluate(c)
    \/ \E choice \in ChoicesMade : GatePrompt(choice)
    \/ GateResumes \/ GateForward \/ GateStops

QueueSpec == QueueInit /\ [][QueueNext]_queueVars

-----------------------------------------------------------------------------
(***************************************************************************)
(* Properties.                                                             *)
(***************************************************************************)

\* Somebody ruled so on a request for the call.
Ruled(c, choices) == \E r \in rulings : r.call = c /\ r.choice \in choices

\* A forwarded call was allowed by a rule of the policy that the gate loaded,
\* by a person who allowed the call for the session, or by a person who
\* allowed it at the prompt; and each forward on approval has a ruling of its
\* own, so that an approval is not used twice (stream-gate.js:275-297).
ForwardedIsAuthorized ==
    /\ gate.step = "forwarded" =>
          \/ gate.via = "policy" /\ ExactVerdict(gate.policy.rules, gate.call) = "allow"
          \/ gate.via = "session" /\ Ruled(gate.call, {"allow_session"})
          \/ gate.via = "approval"
    /\ \A c \in Calls :
          spent[c] <= Cardinality({r \in rulings :
                        r.call = c /\ r.by = GateProc
                          /\ r.choice \in {"allow_once", "allow_session", "always_allow"}})

\* However many people decide a request at once, one ruling on it is recorded
\* (cli.js:1190-1195).
RuledOnce ==
    \A r, s \in rulings : r.serial = s.serial => r = s

\* No request disappears: it is pending, claimed, ruled on, or another
\* request took its id (cli.js:1204-1215).
RequestAccounted ==
    \A n \in DOMAIN requests :
        \/ \E i \in Calls \X Slots : pending[i] # NoRequest /\ pending[i].serial = n
        \/ \E k \in claims : k.serial = n
        \/ \E r \in rulings : r.serial = n
        \/ \E m \in DOMAIN requests : m # n /\ requests[m] = requests[n]

\* Every standing permission, in policy.json or in a session file, goes back
\* to a person who asked for exactly that on a request for the call, across
\* suggestion, preview, apply and lost updates (cli.js:327-474).
PermissionHasRuling ==
    \A c \in Calls :
        /\ policyFile.rules[c].effect = "allow" => Ruled(c, {"always_allow"})
        /\ \A s \in SessionIds : c \in sessions[s] => Ruled(c, {"allow_session"})

\* A request for approval is ruled on at most once and never disappears,
\* whoever claims it, dies or puts it back (cli.js:1190-1215).
RequestSettledOnce == RuledOnce /\ RequestAccounted

\* Every forwarded call and every standing permission goes back to a rule or
\* to a person's choice, across policy edits, lost updates and restarts.
PermissionsAreGiven == ForwardedIsAuthorized /\ PermissionHasRuling
=============================================================================
