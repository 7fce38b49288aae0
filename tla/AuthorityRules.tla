-------------------------- MODULE AuthorityRules --------------------------
(***************************************************************************)
(* The rules by which authority is narrowed: patterns of actions and       *)
(* resources (core/src/authority/grant.js), obligations (obligations.js),  *)
(* envelopes drawn under a grant (envelope.js) and the shape of a grant    *)
(* (validateAuthorityGrant).  Signatures verify, and what the revocation   *)
(* registry answers is modelled in LeaseAuthority.  Grants are of version  *)
(* 1.1; those of version 1.0 have no budget, obligations or depth.         *)
(***************************************************************************)
EXTENDS Cases, Integers, Sequences, FiniteSets

CONSTANTS
    MaxDepth,       \* MAX_AUTHORITY_DELEGATION_DEPTH
    Horizon,        \* bound: the times asked about are 0 .. Horizon
    Paths           \* the actions and resources asked about

\* An action, a resource or a pattern of them: a sequence of characters, of
\* which "/" is the one that matters.  Values hold no line terminator, which
\* the dot of a regular expression does not match.
CharSeqs == Seq(STRING) \ {<<>>}

ASSUME HorizonAssumption == MaxDepth \in Nat /\ Horizon \in Nat
ASSUME PathsAssumption == Paths \subseteq CharSeqs

Forever == -1       \* a budget field that is absent

---------------------------------------------------------------------------
(* Patterns: "*" is any characters but "/", "?" any character, "**" any    *)
(* characters; "*" or "**" alone matches everything.  They are read from   *)
(* the left, so "*" is followed by neither "*" nor "**".                   *)

Wildcards == {"*", "**", "?"}

Everything(pattern) == pattern \in {<<"*">>, <<"**">>}

\* wildcardToRegExp: the value is cut into one piece for each part of the pattern.
authorityPatternMatches(pattern, value) ==
    \/ Everything(pattern)
    \/ \E cut \in [0 .. Len(pattern) -> 0 .. Len(value)] :
          /\ cut[0] = 0 /\ cut[Len(pattern)] = Len(value)
          /\ \A i \in 1 .. Len(pattern) :
                CASE pattern[i] = "**" -> cut[i] >= cut[i - 1]
                  [] pattern[i] = "*"  -> /\ cut[i] >= cut[i - 1]
                                          /\ \A k \in cut[i - 1] + 1 .. cut[i] : value[k] # "/"
                  [] OTHER -> /\ cut[i] = cut[i - 1] + 1
                              /\ pattern[i] \in {"?", value[cut[i]]}

HasWildcard(pattern) == \E i \in DOMAIN pattern : pattern[i] \in Wildcards

\* The characters before the first wildcard.
staticPrefix(pattern) ==
    LET literal == {n \in 0 .. Len(pattern) : \A i \in 1 .. n : pattern[i] \notin Wildcards}
    IN SubSeq(pattern, 1, CHOOSE n \in literal : \A k \in literal : k <= n)

StartsWith(s, prefix) == Len(prefix) <= Len(s) /\ SubSeq(s, 1, Len(prefix)) = prefix

\* parent.endsWith('**'): three stars in a row are "**" and "*".
EndsInStars(pattern) ==
    LET n == Len(pattern) IN
    pattern[n] = "**" \/ (n > 1 /\ pattern[n] = "*" /\ pattern[n - 1] = "**")

\* Mutant of authorityPatternIsWithin: any parent with a wildcard is compared
\* by its prefix, although "*" does not reach beyond a "/".
withinByPrefix(child, parent) ==
    \/ Everything(parent) \/ child = parent
    \/ HasWildcard(parent) /\ StartsWith(staticPrefix(child), staticPrefix(parent))

authorityPatternIsWithin(child, parent) ==
    \/ Everything(parent) \/ child = parent
    \/ ~HasWildcard(child) /\ authorityPatternMatches(parent, child)
    \/ /\ HasWildcard(child) /\ HasWildcard(parent) /\ EndsInStars(parent)
       /\ StartsWith(staticPrefix(child), staticPrefix(parent))

\* A capability is [actions, resources]; envelopeCapabilitiesAreWithin.
capabilitiesAreWithin(caps, grantCaps) ==
    \A child \in caps : \E parent \in grantCaps :
       /\ \A a \in child.actions : \E p \in parent.actions : authorityPatternIsWithin(a, p)
       /\ \A r \in child.resources : \E p \in parent.resources : authorityPatternIsWithin(r, p)

Permits(caps, action, resource) ==
    \E cap \in caps : /\ \E p \in cap.actions : authorityPatternMatches(p, action)
                      /\ \E p \in cap.resources : authorityPatternMatches(p, resource)

---------------------------------------------------------------------------
(* Obligations: [type, deadline]; only execution_before has a deadline.    *)

\* normalizeObligations drops duplicates and every field but these two, so a
\* set of such records stands for its result; mergeAuthorityObligations.
mergeAuthorityObligations(parent, requested) == parent \cup requested

obligationsAreWithin(child, parent) ==
    \A o \in parent : \E x \in child : x.type = o.type /\ x.deadline <= o.deadline

evaluateObligations(obligations, context, phase) ==
    \A o \in obligations :
       CASE o.type = "require_approval"       -> phase = "pre" => context.approved
         [] o.type = "execution_before"       -> phase = "pre" => context.now < o.deadline
         [] o.type = "require_effect_receipt" -> phase = "post" => context.effectReceipt
         [] OTHER -> TRUE

---------------------------------------------------------------------------
(* Grants                                                                  *)

Within(child, parent) == parent # Forever => child # Forever /\ child <= parent

\* inheritAuthorityBudget: the request wins where it is made, if it fits.
Inherited(parent, requested) == IF requested = Forever THEN parent ELSE requested

validateAuthorityGrant(g) ==
    /\ g.issuedAt <= g.notBefore /\ g.notBefore < g.expiresAt
    /\ g.depth \in 0 .. MaxDepth
    /\ (g.parent = 0) <=> (g.depth = 0)
    /\ Len(g.ancestors) = g.depth
    /\ g.depth > 0 => g.ancestors[g.depth] = g.parent
    /\ \A i, j \in DOMAIN g.ancestors : g.ancestors[i] = g.ancestors[j] => i = j
    /\ \A i \in DOMAIN g.ancestors : g.ancestors[i] # g.id
    /\ g.maxDepth \in g.depth .. MaxDepth
    /\ g.allowed => g.maxDepth > g.depth

verifyAuthorityGrant(g, now) == validateAuthorityGrant(g) /\ now >= g.notBefore /\ now < g.expiresAt

\* delegateAuthorityGrant with a specification of the capabilities alone: the
\* child has its parent's budget, obligations and expiry, and may not delegate
\* further.
delegateAuthorityGrant(g, capabilities, id, now) ==
    [g EXCEPT !.id = id, !.capabilities = capabilities, !.parent = g.id, !.depth = @ + 1, !.ancestors = Append(@, g.id), 
              !.issuedAt = now, !.notBefore = IF @ > now THEN @ ELSE now,
              !.allowed = FALSE, !.maxDepth = g.depth + 1]

\* It does not throw; isAuthorityGrantAttenuated.
Delegates(g, capabilities, now) ==
    verifyAuthorityGrant(g, now) /\ g.allowed /\ capabilitiesAreWithin(capabilities, g.capabilities)

---------------------------------------------------------------------------
(* Envelopes                                                               *)

\* The budget an envelope is compared with: one that the caller names, and which
\* may be no budget at all (Forever), or else the grant's.
GrantsOwn == -2
ParentBudget(g, spec) == IF spec.parentBudget = GrantsOwn THEN g.budget ELSE spec.parentBudget

Latest(times) == CHOOSE t \in times : \A u \in times : u <= t

\* The envelope buildAuthorityEnvelope would draw under g.
Envelope(g, spec, now) ==
    [capabilities |-> spec.capabilities,
     issuedAt     |-> now,
     notBefore    |-> Latest({now, g.notBefore, spec.notBefore}),
     expiresAt    |-> IF spec.expiresAt = Forever THEN g.expiresAt ELSE spec.expiresAt,
     budget       |-> Inherited(ParentBudget(g, spec), spec.budget),
     obligations  |-> mergeAuthorityObligations(g.obligations, spec.obligations),
     delegation   |-> spec.delegation]

\* It does not throw.
BuildsEnvelope(g, spec, now) ==
    LET e == Envelope(g, spec, now) IN
    /\ verifyAuthorityGrant(g, now)
    /\ capabilitiesAreWithin(e.capabilities, g.capabilities)
    /\ Within(e.budget, ParentBudget(g, spec))
    /\ e.delegation => g.allowed
    /\ e.notBefore >= g.notBefore /\ e.expiresAt <= g.expiresAt /\ e.expiresAt > e.notBefore

\* verifyAuthorityEnvelope against its grant.
verifyAuthorityEnvelope(e, g, now) ==
    /\ e.notBefore <= now /\ now < e.expiresAt
    /\ capabilitiesAreWithin(e.capabilities, g.capabilities)
    /\ e.notBefore >= g.notBefore /\ e.expiresAt <= g.expiresAt
    /\ Within(e.budget, g.budget)
    /\ obligationsAreWithin(e.obligations, g.obligations)
    /\ e.delegation => g.allowed

\* authorizeWithAuthorityGrant and authorizeWithAuthorityEnvelope
authorizeWithAuthorityGrant(g, call, now) ==
    verifyAuthorityGrant(g, now) /\ Permits(g.capabilities, call.action, call.resource)

authorizeWithAuthorityEnvelope(e, g, call, now) ==
    /\ authorizeWithAuthorityGrant(g, call, now)
    /\ verifyAuthorityEnvelope(e, g, now)
    /\ Permits(e.capabilities, call.action, call.resource)

---------------------------------------------------------------------------
(* The questions                                                           *)

Times == 0 .. Horizon

AskPattern == Answer("pattern",
    [within |-> authorityPatternIsWithin(given.child, given.parent),
     child  |-> {v \in Paths : authorityPatternMatches(given.child, v)},
     parent |-> {v \in Paths : authorityPatternMatches(given.parent, v)}])

AskObligations == Answer("obligations",
    [within |-> obligationsAreWithin(given.child, given.parent),
     met    |-> [side \in {"child", "parent"} |->
                   {w \in [now : Times, approved : BOOLEAN, effectReceipt : BOOLEAN, phase : {"pre", "post"}] :
                      evaluateObligations(given[side], w, w.phase)}]])

AskEnvelope == Answer("envelope",
    LET e == Envelope(given.grant, given.spec, given.now)
        builds == BuildsEnvelope(given.grant, given.spec, given.now) IN
    [builds   |-> builds,
     envelope |-> e,
     verifies |-> {t \in Times : verifyAuthorityEnvelope(e, given.grant, t)},
     usable   |-> {x \in Paths \X Times :
                     /\ builds
                     /\ authorizeWithAuthorityEnvelope(e, given.grant, [action |-> x[1], resource |-> x[1]], x[2])}])

AskDelegation == Answer("delegation",
    LET child == delegateAuthorityGrant(given.grant, given.capabilities, given.id, given.now)
        reach(g) == {x \in Paths \X Paths : Permits(g.capabilities, x[1], x[2])} IN
    [delegable |-> Delegates(given.grant, given.capabilities, given.now),
     child     |-> child,
     valid     |-> validateAuthorityGrant(child),
     below     |-> reach(child),
     above     |-> reach(given.grant)])

\* Every question that can be put: any patterns, obligations, grants and
\* envelope specifications; the child of a delegation gets an id that is new.
ObligationRecords == [type : STRING, deadline : Nat]
CapabilityRecords == [actions : SUBSET CharSeqs, resources : SUBSET CharSeqs]
BudgetValues == Nat \cup {Forever}
GrantRecords == [id : Nat \ {0}, parent : Nat, depth : Nat, ancestors : Seq(Nat), issuedAt : Nat, notBefore : Nat,
                 expiresAt : Nat, allowed : BOOLEAN, maxDepth : Nat, budget : BudgetValues,
                 obligations : SUBSET ObligationRecords, capabilities : SUBSET CapabilityRecords]

PatternAsked == [child : CharSeqs, parent : CharSeqs]
ObligationsAsked == [child : SUBSET ObligationRecords, parent : SUBSET ObligationRecords]
EnvelopeAsked ==
    [grant : GrantRecords, now : Nat,
     spec : [capabilities : SUBSET CapabilityRecords, notBefore : Nat, expiresAt : Nat \cup {Forever},
             budget : BudgetValues, parentBudget : BudgetValues \cup {GrantsOwn}, obligations : SUBSET ObligationRecords, delegation : BOOLEAN]]
DelegationAsked ==
    {q \in [grant : GrantRecords, capabilities : SUBSET CapabilityRecords, id : Nat \ {0}, now : Nat] :
        q.id # q.grant.id /\ \A i \in DOMAIN q.grant.ancestors : q.grant.ancestors[i] # q.id}

AuthoritySpec == /\ \/ Ask("pattern", PatternAsked) \/ Ask("obligations", ObligationsAsked)
                    \/ Ask("envelope", EnvelopeAsked) \/ Ask("delegation", DelegationAsked)
                 /\ [][AskPattern \/ AskObligations \/ AskEnvelope \/ AskDelegation]_caseVars

---------------------------------------------------------------------------
(* Properties                                                              *)

\* A pattern that ends in "**" has no other wildcard.
Honest(pattern) == EndsInStars(pattern) => \A i \in 1 .. Len(pattern) - 1 : pattern[i] \notin Wildcards

\* What authorityPatternIsWithin calls within is inclusion, if the parent is
\* honest: everything the child's pattern matches, the parent's matches.  For a
\* parent such as docs/*/public/** the code compares prefixes and says yes too
\* often (to docs/a/private/**); but never beyond the parent's static prefix.
WithinIsInclusion == Answered("pattern") /\ answer.within =>
    /\ Honest(given.parent) => answer.child \subseteq answer.parent
    /\ \A v \in answer.child \ answer.parent : StartsWith(v, staticPrefix(given.parent))

\* A child's obligations are within its parent's only if whatever meets the
\* child's (an approval, a receipt, a time before a deadline) in a phase of the
\* execution meets the parent's in that phase.
ObligationsWithinIsImplication == Answered("obligations") /\ answer.within =>
    answer.met["child"] \subseteq answer.met["parent"]

\* An envelope that could be built and whose budget fits its grant's verifies
\* against the grant at every moment of its own window, and at no other.  One
\* that was compared with another budget (spec.parent_budget) and does not fit is
\* built all the same, but it verifies never and nothing can be done with it; and
\* whatever is done is done after issuance and before grant and envelope expire.
BuiltEnvelopeHolds == Answered("envelope") /\ answer.builds =>
    /\ answer.verifies = {t \in Times : /\ Within(answer.envelope.budget, given.grant.budget)
                                       /\ t >= answer.envelope.notBefore /\ t < answer.envelope.expiresAt}
    /\ \A u \in answer.usable : /\ Within(answer.envelope.budget, given.grant.budget)
                                /\ u[2] >= given.now /\ u[2] < given.grant.expiresAt /\ u[2] < answer.envelope.expiresAt

\* A grant that verifies and allows delegation has a valid child, down to the
\* greatest depth: the limits on depth, maximum depth and ancestry leave room
\* for the child they promise, and the child's ancestry is its parent's and the
\* parent, none of them twice.  What the child permits its parent permits, if
\* all the patterns of the parent are honest.
DelegableGrantHasChild == Answered("delegation") /\ answer.delegable =>
    /\ answer.valid
    /\ Cardinality({answer.child.ancestors[i] : i \in DOMAIN answer.child.ancestors}) = given.grant.depth + 1
    /\ (\A cap \in given.grant.capabilities : \A p \in cap.actions \cup cap.resources : Honest(p))
          => answer.below \subseteq answer.above

\* A grant is the "upper bound inherited through a principal chain"
\* (docs/concepts/AUTHORITY_GRANT.md:3): what a delegated grant permits, the
\* grant it was delegated from permits.  It fails for a parent pattern that has a
\* wildcard before its "**" (grant.js:94).
GrantIsUpperBound == Answered("delegation") /\ answer.delegable => answer.below \subseteq answer.above

\* What the rules of authority/*.js call narrower is narrower, in patterns,
\* obligations and windows, and a delegation that is promised can be made.
NarrowedIsNarrower == WithinIsInclusion /\ ObligationsWithinIsImplication /\ BuiltEnvelopeHolds /\ DelegableGrantHasChild
=============================================================================
