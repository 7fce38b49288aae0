-------------------------- MODULE MCLeaseAuthority --------------------------
(* Instances of LeaseAuthority: one grant below a root grant, at most one   *)
(* approval, a clock of a few ticks, and the revocations that matter: a     *)
(* cascading one of the root that takes effect later, a plain one of the    *)
(* root, a cascading one of the grant and one of a lease.                   *)
EXTENDS LeaseAuthority, TLC

CONSTANTS l1, l2, l3, a1, grant, root

MCDirect == (grant :> {grant})
MCAbove == (grant :> {root})
MCFrom == [x \in Bases \cup Approvals |-> 0]
MCUntil == [x \in Bases \cup Approvals |-> IF x = grant THEN 3 ELSE 2]
MCRevocations == { [subject |-> root, cascade |-> TRUE, at |-> 1],
                   [subject |-> root, cascade |-> FALSE, at |-> 0],
                   [subject |-> grant, cascade |-> TRUE, at |-> 0],
                   [subject |-> l1, cascade |-> FALSE, at |-> 0] }

---------------------------------------------------------------------------
(* Two scenes.  In the first, processes consume one lease and revoke, all  *)
(* under the registry's lock.  In the second, at most two at a time issue  *)
(* leases from one approval and consume them, with and without a registry, *)
(* for as long as a lease lasts.                                           *)

VARIABLE scene

InScene ==
    \/ /\ scene = "revocation"
       /\ now <= 1
       /\ \A l \in Leases \ {l1} : lease[l] = Unissued
       /\ \A p \in Procs : /\ job[p].approval = NoKey
                           /\ job[p].pc \in {"verify", "exists", "consume"} => job[p].checked
    \/ /\ scene = "approval"
       /\ lease[l1] = Unissued
       /\ \A p \in Procs : job[p].pc \notin {"lockRevoke", "persist"}
       /\ Cardinality({p \in Procs : job[p].pc # "idle"}) <= 2

MCInit == Init /\ scene \in {"revocation", "approval"}
MCNext == Next /\ UNCHANGED scene /\ InScene'
MCSpec == MCInit /\ [][MCNext]_<<vars, scene>>

Symmetry == Permutations(Procs) \cup Permutations({l2, l3})
=============================================================================
