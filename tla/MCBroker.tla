------------------------------ MODULE MCBroker ------------------------------
(* Instances of the broker for TLC. *)
EXTENDS Broker, TLC

CONSTANTS r1, r2, w1, w2, d1, d2, p1, p2, c1, c2

MCCapability == [d \in Digests |-> IF d = d1 THEN c1 ELSE c2]
MCExpiry == [d \in Digests |-> IF d = d1 THEN 1 ELSE 2]

(* c1 changes from retryable to mutating, or is withdrawn, between builds. *)
MCRegistries ==
    {c1 :> k1 @@ c2 :> "observing" : k1 \in {"retryable", "mutating", "unregistered"}}

Symmetry == Permutations({r1, r2}) \cup Permutations({w1, w2}) \cup Permutations({p1, p2})
=============================================================================
