------------------------------ MODULE MCControl ------------------------------
(* Instances of the authority path for TLC. *)
EXTENDS Control, TLC

CONSTANTS r1, w1, w2, d1, d2, c1, e1, e2, e3, t1, t2, m1, m2, o1, o2, p1

MCCapability == d1 :> c1 @@ d2 :> c1
MCExpiry == d1 :> 2 @@ d2 :> 1
MCRegistries == {c1 :> "retryable"}

MCMailbox == r1 :> m1
MCMailboxOf == e1 :> m1 @@ e2 :> m1 @@ e3 :> m2

(* e1 asks for confirmation of d1 and allows d2, e2 the reverse, and e3    *)
(* serves another mailbox.                                                 *)
MCGrant ==
    e1 :> (d1 :> "confirm" @@ d2 :> "allow") @@
    e2 :> (d1 :> "allow" @@ d2 :> "confirm") @@
    e3 :> (d1 :> "allow" @@ d2 :> "deny")

Symmetry == Permutations({w1, w2}) \cup Permutations({o1, o2})
=============================================================================
