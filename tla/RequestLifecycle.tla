--------------------------- MODULE RequestLifecycle ---------------------------
(***************************************************************************)
(* What the broker promises of every request, without journal rows, locks, *)
(* threads, clocks or crashes: it is admitted once, an effectful run of it *)
(* begins at most once and never after it was closed, only a recorded      *)
(* result is announced, and what is closed stays closed.                   *)
(***************************************************************************)
EXTENDS Naturals

CONSTANT Requests

VARIABLES
    phase,  \* where each request is in its life
    ran     \* the number of effectful runs begun for it

vars == <<phase, ran>>

Phases == {"unknown", "waiting", "executing", "recorded", "announced", "closed"}

Init ==
    /\ phase = [r \in Requests |-> "unknown"]
    /\ ran = [r \in Requests |-> 0]

Move(r, from, to) ==
    /\ phase[r] \in from
    /\ phase' = [phase EXCEPT ![r] = to]

(* A request is taken in, to wait or, when it is refused, closed at once.  *)
Admit(r) ==
    /\ \E to \in {"waiting", "closed"} : Move(r, {"unknown"}, to)
    /\ UNCHANGED ran

(* A run begins; one that may have an effect only if none did before.      *)
Execute(r) ==
    /\ Move(r, {"waiting"}, "executing")
    /\ \/ UNCHANGED ran
       \/ /\ ran[r] = 0
          /\ ran' = [ran EXCEPT ![r] = 1]

Record(r) ==
    /\ Move(r, {"executing"}, "recorded")
    /\ UNCHANGED ran

Announce(r) ==
    /\ Move(r, {"recorded"}, "announced")
    /\ UNCHANGED ran

Close(r) ==
    /\ Move(r, {"waiting", "executing", "recorded", "announced"}, "closed")
    /\ UNCHANGED ran

(* After a restart several interrupted runs are resolved in one step: each *)
(* waits again, if it had no effect, or is closed.  A sweep closes several *)
(* waiting requests in one step.                                           *)
Resolve ==
    /\ phase' \in [Requests -> Phases]
    /\ \A r \in Requests :
         \/ phase'[r] = phase[r]
         \/ phase[r] \in {"executing", "waiting"} /\ phase'[r] = "closed"
         \/ phase[r] = "executing" /\ ran[r] = 0 /\ phase'[r] = "waiting"
    /\ UNCHANGED ran

Next ==
    \/ \E r \in Requests : Admit(r) \/ Execute(r) \/ Record(r) \/ Announce(r) \/ Close(r)
    \/ Resolve

Spec == Init /\ [][Next]_vars
=============================================================================
