------------------------------- MODULE MCOutbox -------------------------------
(* Instances of the outbox for TLC. *)
EXTENDS Outbox, TLC

CONSTANTS q1, q2, q3, g1, g2, g3, g4, m1, m2, m3

(* g1 and g4 contend for one manifest path with different bytes.           *)
MCManifest == g1 :> m1 @@ g2 :> m2 @@ g3 :> m3 @@ g4 :> m1
=============================================================================
