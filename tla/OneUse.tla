------------------------------- MODULE OneUse -------------------------------
(* What lease issuance and consumption promise: a lease is issued once, an  *)
(* approval stands behind at most one lease, and an issued lease is used at *)
(* most once.  LeaseAuthority implements it.                                *)
EXTENDS Naturals

CONSTANTS Leases, Approvals, NoKey

VARIABLES
    issued,     \* issued[l]: issued already
    behind,     \* behind[l]: the approval l was issued from
    uses        \* uses[l]: successful consumptions

vars == <<issued, behind, uses>>

Init == /\ issued = {}
        /\ behind = [l \in Leases |-> NoKey]
        /\ uses = [l \in Leases |-> 0]

Issue(l, a) == /\ l \notin issued
               /\ a # NoKey => \A m \in issued : behind[m] # a
               /\ issued' = issued \cup {l}
               /\ behind' = [behind EXCEPT ![l] = a]
               /\ UNCHANGED uses

Use(l) == /\ l \in issued /\ uses[l] = 0
          /\ uses' = [uses EXCEPT ![l] = 1]
          /\ UNCHANGED <<issued, behind>>

Next == \E l \in Leases : Use(l) \/ \E a \in Approvals \cup {NoKey} : Issue(l, a)

Spec == Init /\ [][Next]_vars
=============================================================================
