-------------------------- MODULE MCEffectBoundary --------------------------
(* Instances of EffectBoundary: requests that share a JSON-RPC id.          *)
EXTENDS EffectBoundary

MCIdOf == [r \in Requests |-> 1]
=============================================================================
