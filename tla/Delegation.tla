----------------------------- MODULE Delegation -----------------------------
(***************************************************************************)
(* Delegation of authority grants (version 1.1) by concurrent processes:   *)
(* delegateWorkspaceAuthorityGrant (cli/src/flight-control/store.js),      *)
(* delegateAuthorityGrant and verifyAuthorityGrant (authority/grant.js),   *)
(* DelegationBudgetRegistry.reserve (authority/budget.js), and revocations *)
(* that arrive meanwhile.  A process takes its time stamp once, reads the  *)
(* parent, verifies it twice, reserves budget under the registry's budgetLock    *)
(* and writes the child; it may crash between any two of these.            *)
(*                                                                         *)
(* A capability is the set of things it matches, and one pattern is within *)
(* another if it is a subset: authorityPatternIsWithin for the patterns    *)
(* whose only wildcard is a final **.  A budget gives every field a limit  *)
(* or leaves it unlimited.  Obligations only accumulate and are left out.  *)
(***************************************************************************)
EXTENDS Naturals, FiniteSetsExt

CONSTANTS
    Delegators,
    Ids,            \* grant ids (randomUUID: each is drawn once)
    Root,           \* the id of a grant that was not delegated
    RootGrants,     \* what it may grant
    Things,         \* what capabilities match
    Fields,         \* AUTHORITY_BUDGET_FIELDS
    Specs,          \* bound: what callers ask for
    Revocations,    \* bound: the revocations that may be asked for
    MaxTime,        \* bound on the clock
    MaxRecords,     \* the budget registry's maxRecords
    StoreErrors,    \* TRUE iff replacing a file may fail
    NoGrant, Unlimited

Capabilities == SUBSET Things
Budgets == [Fields -> Nat \cup {Unlimited}]
Modes == {"inherit", "partition"}

Terms == [caps : SUBSET Capabilities, budget : Budgets, notBefore : Nat, expires : Nat,
          allowed : BOOLEAN, maxDepth : Nat, mode : Modes]
GrantRecords == [parent : Ids \cup {NoGrant}, ancestors : SUBSET Ids, depth : Nat,
                 caps : SUBSET Capabilities, budget : Budgets,
                 notBefore : Nat, expires : Nat,
                 allowed : BOOLEAN, maxDepth : Nat, mode : Modes]

ASSUME RootAssumption == /\ Root \in Ids /\ RootGrants \subseteq GrantRecords
                         /\ \A r \in RootGrants : /\ r.parent = NoGrant
                                                  /\ r.ancestors = {} /\ r.depth = 0
ASSUME NoGrantAssumption == NoGrant \notin Ids /\ NoGrant \notin GrantRecords
ASSUME UnlimitedAssumption == Unlimited \notin Nat
ASSUME SpecsAssumption == Specs \subseteq Terms
ASSUME RevocationsAssumption == \A r \in Revocations : r.cascade \in BOOLEAN /\ r.at \in Nat
ASSUME TimeAssumption == MaxTime \in Nat /\ MaxRecords \in Nat /\ StoreErrors \in BOOLEAN

VARIABLES
    now,            \* the wall clock
    grants,         \* authority/grants: the file of each id
    allocations,    \* authority/delegation-budgets.jsonl
    budgetLock,     \* the processes inside its withFileLock
    registry,       \* authority/revocations.jsonl
    drawn,          \* the ids drawn so far
    delegation      \* the delegation each process is in

delegationVars == <<now, grants, allocations, budgetLock, registry, drawn, delegation>>

BudgetLock == INSTANCE Mutex WITH Procs <- Delegators, inside <- budgetLock

Issued == {g \in Ids : grants[g] # NoGrant}

Allocations == [parent : Ids, child : Ids, budget : Budgets]

Idle == [pc |-> "idle", id |-> NoGrant, at |-> 0, child |-> NoGrant, loaded |-> {}]
Labels == {"idle", "delegate", "lockBudget", "reserve", "write", "dead"}

\* Type invariant.
DelegationTypeOK ==
    /\ now \in Nat
    /\ grants \in [Ids -> GrantRecords \cup {NoGrant}]
    /\ allocations \subseteq Allocations
    /\ budgetLock \subseteq Delegators
    /\ registry \subseteq Revocations
    /\ drawn \subseteq Ids
    /\ delegation \in [Delegators -> [pc : Labels, id : Ids \cup {NoGrant}, at : Nat,
                                      child : GrantRecords \cup {NoGrant}, loaded : SUBSET Allocations]]

DelegationInit == /\ now = 0
                  /\ \E r \in RootGrants : grants = [g \in Ids |-> IF g = Root THEN r ELSE NoGrant]
                  /\ allocations = {} /\ budgetLock = {} /\ registry = {}
                  /\ drawn = {Root}
                  /\ delegation = [p \in Delegators |-> Idle]

---------------------------------------------------------------------------
(* verifyAuthorityGrant                                                    *)

\* isRevoked: a direct record counts always, an ancestor's if it cascades.
Revoked(g, t) == \E r \in registry : /\ r.at <= t
                                     /\ \/ r.subject = g
                                        \/ r.cascade /\ r.subject \in grants[g].ancestors

Active(g, t) == /\ grants[g].notBefore <= t /\ t < grants[g].expires
                /\ ~Revoked(g, t)

---------------------------------------------------------------------------
(* delegateAuthorityGrant: the child and isAuthorityGrantAttenuated        *)

\* inheritAuthorityBudget: what the request leaves out is the parent's.
InheritAuthorityBudget(parent, requested) ==
    [f \in Fields |-> IF requested[f] = Unlimited THEN parent[f] ELSE requested[f]]

\* Limited(budget): the fields that have a limit.
Limited(budget) == {f \in Fields : budget[f] # Unlimited}

BudgetIsWithin(child, parent) ==
    \A f \in Limited(parent) : f \in Limited(child) /\ child[f] <= parent[f]

CapabilitiesWithin(child, parent) == \A c \in child : \E d \in parent : c \subseteq d

Latest(a, b) == IF a >= b THEN a ELSE b

AncestorIds(id, parent) == parent.ancestors \cup {id}

\* The child of the grant `parent`, whose id is `id`, delegated at t.  A spec
\* has its defaults filled in (expiry, depth and mode of the parent).
ChildGrant(id, parent, spec, t) ==
    [parent |-> id, ancestors |-> AncestorIds(id, parent),
     depth |-> parent.depth + 1,
     caps |-> spec.caps, budget |-> InheritAuthorityBudget(parent.budget, spec.budget),
     notBefore |-> Latest(t, Latest(parent.notBefore, spec.notBefore)),
     expires |-> spec.expires,
     allowed |-> spec.allowed, maxDepth |-> spec.maxDepth, mode |-> spec.mode]

\* validateAuthorityGrant, for what is not fixed by ChildGrant.
ValidGrant(child) == /\ child.caps # {}
                     /\ child.notBefore < child.expires
                     /\ child.depth <= child.maxDepth
                     /\ child.allowed => child.depth < child.maxDepth

WindowWithin(parent, child) == /\ parent.notBefore <= child.notBefore
                               /\ child.expires <= parent.expires

DelegationPolicyIsWithin(parent, child) ==
    /\ parent.allowed
    /\ child.depth <= parent.maxDepth /\ child.maxDepth <= parent.maxDepth
    /\ parent.mode = "partition" => child.mode = "partition"

IsAuthorityGrantAttenuated(parent, child) ==
    /\ WindowWithin(parent, child)
    /\ CapabilitiesWithin(child.caps, parent.caps)
    /\ BudgetIsWithin(child.budget, parent.budget)
    /\ DelegationPolicyIsWithin(parent, child)

---------------------------------------------------------------------------
(* delegateWorkspaceAuthorityGrant                                         *)

\* loadActiveParentGrant, at the time stamp that all later steps use.
LoadParent(p, g, parent, spec) ==
    /\ delegation[p].pc = "idle" /\ g \in Ids \ drawn /\ parent \in Issued
    /\ Active(parent, now)
    /\ drawn' = drawn \cup {g}
    /\ delegation' = [delegation EXCEPT ![p] = [pc |-> "delegate", id |-> g, at |-> now,
                                                child |-> ChildGrant(parent, grants[parent], spec, now),
                                                loaded |-> {}]]
    /\ UNCHANGED <<now, grants, allocations, budgetLock, registry>>

Done(p) == delegation' = [delegation EXCEPT ![p] = Idle]

ParentOf(p) == delegation[p].child.parent

\* The parent is verified again, at the old time stamp; an inactive parent,
\* an invalid child or one that exceeds its parent ends the call.  Only
\* partition mode reserves.
Delegate(p) ==
    /\ delegation[p].pc = "delegate"
    /\ LET parent == grants[ParentOf(p)] IN
       IF /\ Active(ParentOf(p), delegation[p].at)
          /\ ValidGrant(delegation[p].child)
          /\ IsAuthorityGrantAttenuated(parent, delegation[p].child)
       THEN delegation' = [delegation EXCEPT ![p].pc = IF parent.mode = "partition" THEN "lockBudget" ELSE "write"]
       ELSE Done(p)
    /\ UNCHANGED <<now, grants, allocations, budgetLock, registry, drawn>>

\* Mutant of LockBudget: reserve without withFileLock.
LoadBudgetUnlocked(p) ==
    /\ delegation[p].pc = "lockBudget"
    /\ delegation' = [delegation EXCEPT ![p].pc = "reserve", ![p].loaded = allocations]
    /\ UNCHANGED <<now, grants, allocations, budgetLock, registry, drawn>>

\* const existing = this._loadUnlocked()
LockBudget(p) == /\ delegation[p].pc = "lockBudget"
                 /\ BudgetLock!Enter(p)
                 /\ delegation' = [delegation EXCEPT ![p].pc = "reserve", ![p].loaded = allocations]
                 /\ UNCHANGED <<now, grants, allocations, registry, drawn>>

Amount(budget, f) == IF budget[f] = Unlimited THEN 0 ELSE budget[f]

\* addAuthorityBudgets over the parent's records.
Used(records, id, f) ==
    SumFunctionOnSet([r \in records |-> Amount(r.budget, f)], {r \in records : r.parent = id})

Fits(p) == \A f \in Limited(grants[ParentOf(p)].budget) :
              Used(delegation[p].loaded, ParentOf(p), f) + Amount(delegation[p].child.budget, f)
                 <= grants[ParentOf(p)].budget[f]

Record(p) == [parent |-> ParentOf(p), child |-> delegation[p].id, budget |-> delegation[p].child.budget]

Persisted(p) == delegation[p].loaded \cup {Record(p)}

Unlock(p) == budgetLock' = budgetLock \ {p}

\* The rest of reserve: the file is replaced by _persistUnlocked.  Ids are
\* fresh here, so there is no allocation of the same child.
Reserve(p) == /\ delegation[p].pc = "reserve"
              /\ Fits(p) /\ Cardinality(Persisted(p)) <= MaxRecords
              /\ allocations' = Persisted(p)
              /\ delegation' = [delegation EXCEPT ![p].pc = "write", ![p].loaded = {}]
              /\ Unlock(p)
              /\ UNCHANGED <<now, grants, registry, drawn>>

\* The budget or the registry is exhausted, or the replacement fails, before
\* or after its rename: no grant.
ReserveFails(p) ==
    /\ delegation[p].pc = "reserve"
    /\ \/ ~(Fits(p) /\ Cardinality(Persisted(p)) <= MaxRecords) /\ UNCHANGED allocations
       \/ /\ StoreErrors /\ Fits(p) /\ Cardinality(Persisted(p)) <= MaxRecords
          /\ allocations' \in {allocations, Persisted(p)}
    /\ Done(p) /\ Unlock(p)
    /\ UNCHANGED <<now, grants, registry, drawn>>

\* writeAuthorityArtifact, an atomic creation of the grant's file.  The
\* ledger entry and the list() that follow change nothing here.
WriteGrant(p) == /\ delegation[p].pc = "write"
                 /\ grants' = [grants EXCEPT ![delegation[p].id] = delegation[p].child]
                 /\ Done(p)
                 /\ UNCHANGED <<now, allocations, budgetLock, registry, drawn>>

\* The write fails, before or after the rename.
WriteGrantFails(p) == /\ delegation[p].pc = "write" /\ StoreErrors
                      /\ grants' \in {grants, [grants EXCEPT ![delegation[p].id] = delegation[p].child]}
                      /\ Done(p)
                      /\ UNCHANGED <<now, allocations, budgetLock, registry, drawn>>

BudgetLockTimeout(p) == /\ delegation[p].pc = "lockBudget" /\ budgetLock # {}
                        /\ Done(p)
                        /\ UNCHANGED <<now, grants, allocations, budgetLock, registry, drawn>>

---------------------------------------------------------------------------
(* Revocations, crashes, time                                              *)

\* revokeWorkspaceAuthority; its protocol is LeaseAuthority's subject.
Revoke(r) == /\ registry' = registry \cup {r}
             /\ UNCHANGED <<now, grants, allocations, budgetLock, drawn, delegation>>

DelegatorDies(p) == /\ delegation[p].pc \notin {"idle", "dead"}
                    /\ delegation' = [delegation EXCEPT ![p] = [Idle EXCEPT !.pc = "dead"]]
                    /\ UNCHANGED <<now, grants, allocations, budgetLock, registry, drawn>>

\* A contender removes the stale lock of a dead process.
BreakBudgetLock(p) == /\ delegation[p].pc = "dead"
                      /\ BudgetLock!Leave(p)
                      /\ UNCHANGED <<now, grants, allocations, registry, drawn, delegation>>

Tick == /\ now < MaxTime
        /\ now' = now + 1
        /\ UNCHANGED <<grants, allocations, budgetLock, registry, drawn, delegation>>

DelegationNext == \/ \E p \in Delegators :
                        \/ \E g \in Ids, parent \in Ids, spec \in Specs : LoadParent(p, g, parent, spec)
                        \/ Delegate(p) \/ LockBudget(p) \/ Reserve(p) \/ ReserveFails(p) \/ WriteGrant(p)
                        \/ WriteGrantFails(p) \/ BudgetLockTimeout(p) \/ DelegatorDies(p) \/ BreakBudgetLock(p)
                  \/ \E r \in Revocations : Revoke(r)
                  \/ Tick

DelegationSpec == DelegationInit /\ [][DelegationNext]_delegationVars

---------------------------------------------------------------------------
(* Properties                                                              *)

Parents(gs) == {grants[g].parent : g \in gs \cap Issued} \ {NoGrant}

\* The grants between a grant and the root, from the parent links alone: what
\* is in every set that has the grant's parent and the parents of its members.
Above(g) == {a \in Ids : \A S \in SUBSET Ids :
                             Parents({g}) \subseteq S /\ Parents(S) \subseteq S => a \in S}

Leaf(g) == g \in Issued /\ \A h \in Issued : grants[h].parent # g

LeavesBelow(g) == {h \in Ids : Leaf(h) /\ g \in Above(h)}

\* What all the leaves below a partitioned grant may spend together is
\* within its budget, however many processes delegate at once, at whatever
\* depth, and whichever of them crash (reserve in authority/budget.js).
SubtreeWithinBudget ==
    \A g \in Issued : grants[g].mode = "partition" =>
        \A f \in Limited(grants[g].budget) :
            SumFunctionOnSet([h \in Issued |-> Amount(grants[h].budget, f)], LeavesBelow(g))
               <= grants[g].budget[f]

\* What a grant allows is allowed by a: the times, the things, the spending.
AllowedBy(a, g) ==
    /\ g.notBefore .. g.expires \subseteq a.notBefore .. a.expires
    /\ UNION g.caps \subseteq UNION a.caps
    /\ \A f \in Fields : a.budget[f] # Unlimited =>
          g.budget[f] # Unlimited /\ g.budget[f] <= a.budget[f]

\* No grant allows more than any grant above it, although each delegation
\* compares with the parent only (isAuthorityGrantAttenuated in
\* authority/grant.js; docs/concepts/AUTHORITY_GRANT.md: "upper bound
\* inherited through a principal chain").  And the budget mode stays
\* partition below a partitioned grant.
AuthorityNeverWidens ==
    \A g \in Issued : \A a \in Above(g) :
        /\ a \in Issued /\ AllowedBy(grants[a], grants[g])
        /\ grants[a].mode = "partition" => grants[g].mode = "partition"

\* A cascading revocation stops every grant below its subject, the ones
\* whose delegation was under way when it was recorded included.
CascadeReachesAll ==
    \A r \in registry, g \in Issued :
        r.cascade /\ r.subject \in Above(g) => \A t \in r.at .. MaxTime : ~Active(g, t)

\* However delegations and revocations interleave, budgets hold for whole
\* subtrees, authority narrows along every chain, and a cascade reaches
\* everything below.
GrantsAreSound == DelegationTypeOK /\ SubtreeWithinBudget /\ AuthorityNeverWidens /\ CascadeReachesAll
============================================================================
