------------------------------ MODULE WriteOnce ------------------------------
(***************************************************************************)
(* A store of named slots, each written at most once and never changed     *)
(* afterwards: what the outbox branch is to those who read it.             *)
(***************************************************************************)
CONSTANTS Slots, Values, Empty

VARIABLE store

Init == store = [s \in Slots |-> Empty]

Write(s, v) ==
    /\ store[s] = Empty
    /\ store' = [store EXCEPT ![s] = v]

Next == \E s \in Slots, v \in Values : Write(s, v)

Spec == Init /\ [][Next]_store
=============================================================================
