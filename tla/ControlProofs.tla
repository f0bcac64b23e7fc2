----------------------------- MODULE ControlProofs -----------------------------
(***************************************************************************)
(* Proofs about module Broker, for every set of requests, threads,         *)
(* contents and capability tables, and, on top of them, about module       *)
(* Control, for any enrollments, grants, targets, commands and operators.  *)
(***************************************************************************)
EXTENDS Control, FiniteSetTheorems, TLAPS

-----------------------------------------------------------------------------
(*                                 Broker                                  *)
-----------------------------------------------------------------------------

Written == States \ {"absent"}

-----------------------------------------------------------------------------
(* Rows.  What each way of writing a row does to its type.                 *)

(* A row that gets another state stays a row (deny, approve, cancel,       *)
(* expire_due, quarantine).                                                *)
LEMMA StateWrite ==
    ASSUME NEW x \in RowType, x.state # "absent", NEW s \in Written
    PROVE  [x EXCEPT !.state = s] \in RowType
BY DEF RowType, Columns, Written

(* What receive inserts is a row.                                          *)
LEMMA InsertedRow ==
    ASSUME NEW d \in Digests, NEW s \in Written
    PROVE  [NoRow EXCEPT !.digest = d, !.state = s] \in RowType
BY DEF RowType, Columns, Written, NoRow, Results

(* A row whose cancellation flag is raised (cancel of a running request)   *)
(* stays a row.                                                            *)
LEMMA CancelWrite ==
    ASSUME NEW x \in RowType
    PROVE  [x EXCEPT !.cancel_requested = TRUE] \in RowType
BY DEF RowType, Columns

(* What start writes is a row.                                             *)
LEMMA StartWrite ==
    ASSUME NEW x \in RowType, x.state # "absent", NEW n \in Nat, NEW b \in BOOLEAN
    PROVE  [x EXCEPT !.state = "running", !.attempt = n,
                     !.possible_effect = b, !.cancel_requested = FALSE] \in RowType
BY DEF RowType, Columns, States, Pending

(* What save_result writes is a row.                                       *)
LEMMA ResultWrite ==
    ASSUME NEW x \in RowType, x.state # "absent", NEW s \in Written, NEW v \in Results
    PROVE  [x EXCEPT !.state = s, !.result = v] \in RowType
BY DEF RowType, Columns, Written

(* What mark_published writes is a row.                                    *)
LEMMA PublicationWrite ==
    ASSUME NEW x \in RowType, x.state # "absent", NEW ref \in Refs
    PROVE  [x EXCEPT !.state = "published", !.publication = ref] \in RowType
BY DEF RowType, Columns, States, Pending, Completed

(* What recover_running writes into a run it makes ready again is a row.   *)
LEMMA RetryWrite ==
    ASSUME NEW x \in RowType, x.state # "absent"
    PROVE  [x EXCEPT !.state = "ready", !.attempt = 0] \in RowType
BY DEF RowType, Columns, States, Pending, Unstarted

(* A table of rows stays one when a single row is replaced by a row.       *)
LEMMA TableWrite ==
    ASSUME row \in [Requests -> RowType], NEW r \in Requests, NEW x \in RowType,
           row' = [row EXCEPT ![r] = x]
    PROVE  row' \in [Requests -> RowType]
OBVIOUS

-----------------------------------------------------------------------------
(* Types of the initial state.                                             *)
LEMMA InitType == Init => TypeOK
<1> SUFFICES ASSUME Init PROVE TypeOK
  OBVIOUS
<1>1. NoRow \in RowType
  BY DEF NoRow, RowType, Columns, States, Results
<1>2. Idle \in WorkerType
  BY DEF Idle, WorkerType, Outcomes
<1>3. registry \in [Capabilities -> Kinds]
  BY RegistryAssumption DEF Init
<1>4. QED
  BY <1>1, <1>2, <1>3 DEF Init, TypeOK

(* Every step keeps the types.  The steps that write the table are the     *)
(* interesting ones.                                                       *)
LEMMA NextType == TypeOK /\ [Next]_vars => TypeOK'
<1> SUFFICES ASSUME TypeOK, [Next]_vars PROVE TypeOK'
  OBVIOUS
<1> DEFINE Rows == row \in [Requests -> RowType]
<1>a. Rows
  BY DEF TypeOK
<1>b. {"awaiting_approval", "ready", "running", "published", "notification_pending",
       "acknowledged", "rejected", "cancelled", "expired", "indeterminate",
       "quarantined", "result_saved", "failed"} \subseteq Written
  BY DEF Written, States, Pending, Unstarted, Completed, Terminal
<1>c. ASSUME Rows', UNCHANGED <<paused, now, up, registry, worker, attempts, effects, told>>
      PROVE  TypeOK'
  BY <1>c DEF TypeOK
<1>1. ASSUME NEW r \in Requests, NEW d \in Digests,
             NEW action \in {"allow", "confirm", "deny"}, NEW t \in Clock,
             Receive(r, d, action, t)
      PROVE  TypeOK'
  <2>1. CASE Admit(r, d, action)
    <3> DEFINE s == CASE action = "deny"    -> "rejected"
                      [] action = "confirm" -> "awaiting_approval"
                      [] action = "allow"   -> "ready"
    <3>1. s \in Written
      BY <1>b
    <3>2. [NoRow EXCEPT !.digest = d, !.state = s] \in RowType
      BY <3>1, InsertedRow
    <3>3. row' = [row EXCEPT ![r] = [NoRow EXCEPT !.digest = d, !.state = s]]
      BY <2>1 DEF Admit
    <3>4. Rows'
      BY <1>a, <3>2, <3>3, TableWrite
    <3>5. QED
      BY <1>1, <1>c, <3>4 DEF Receive
  <2>2. CASE Duplicate(r, d)
    BY <1>1, <1>a, <1>c, <2>2 DEF Receive, Duplicate
  <2>3. CASE Collide(r, d)
    <3>1. Rows'
      BY <1>a, <1>b, <2>3, StateWrite DEF Collide, State, SetState
    <3>2. QED
      BY <1>1, <1>c, <3>1 DEF Receive
  <2>4. QED
    BY <1>1, <2>1, <2>2, <2>3 DEF Receive
<1>2. ASSUME NEW r \in Requests, NEW t \in Clock, Approve(r, t) PROVE TypeOK'
  BY <1>2, <1>a, <1>b, <1>c, StateWrite DEF Approve, State, SetState
<1>3. ASSUME NEW r \in Requests, Deny(r) PROVE TypeOK'
  BY <1>3, <1>a, <1>b, <1>c, StateWrite DEF Deny, State, SetState, Unstarted
<1>4. ASSUME NEW r \in Requests, Cancel(r) PROVE TypeOK'
  <2>1. ASSUME State(r) = "running" PROVE Rows'
    <3>1. row' = [row EXCEPT ![r] = [row[r] EXCEPT !.cancel_requested = TRUE]]
      BY <2>1, <1>4, <1>a DEF Cancel
    <3>2. [row[r] EXCEPT !.cancel_requested = TRUE] \in RowType
      BY <1>a, CancelWrite
    <3>3. QED
      BY <1>a, <3>1, <3>2, TableWrite
  <2>2. ASSUME State(r) # "running" PROVE Rows'
    BY <2>2, <1>4, <1>a, <1>b, StateWrite
       DEF Cancel, State, SetState, Pending, Unstarted, Completed
  <2>3. told' \in [Requests -> BOOLEAN]
    BY <1>4 DEF Cancel, TypeOK
  <2>4. UNCHANGED <<paused, now, up, registry, worker, attempts, effects>>
    BY <1>4 DEF Cancel
  <2>5. Rows'
    BY <2>1, <2>2
  <2>6. QED
    BY <2>3, <2>4, <2>5 DEF TypeOK
<1>5. ASSUME NEW r \in Requests, NEW ref \in Refs, MarkPublished(r, ref) PROVE TypeOK'
  <2>1. row' = [row EXCEPT ![r] = [row[r] EXCEPT !.state = "published",
                                                 !.publication = ref]]
    BY <1>5, <1>a DEF MarkPublished, Publishable
  <2>2. row[r] \in RowType /\ row[r].state # "absent"
    BY <1>5, <1>a DEF MarkPublished, Publishable, State
  <2>3. Rows'
    BY <1>a, <2>1, <2>2, PublicationWrite
  <2>4. QED
    BY <1>5, <1>c, <2>3 DEF MarkPublished, Publishable
<1>6. ASSUME NEW r \in Requests, MarkNotificationPending(r) PROVE TypeOK'
  BY <1>6, <1>a, <1>b, <1>c, StateWrite DEF MarkNotificationPending, State, SetState
<1>7. ASSUME NEW r \in Requests, Acknowledge(r) PROVE TypeOK'
  BY <1>7, <1>a, <1>b, <1>c, StateWrite DEF Acknowledge, State, SetState
<1>8. ASSUME NEW t \in Clock, ExpireDue(t) PROVE TypeOK'
  <2>1. ASSUME NEW r \in Requests PROVE row'[r] \in RowType
    BY <1>8, <1>a, <1>b, StateWrite DEF ExpireDue, State, Unstarted
  <2>2. Rows'
    BY <1>8, <2>1 DEF ExpireDue
  <2>3. QED
    BY <1>8, <1>c, <2>2 DEF ExpireDue
<1>9. ASSUME NEW p \in BOOLEAN, SetPaused(p) PROVE TypeOK'
  BY <1>9 DEF SetPaused, TypeOK
<1>10. ASSUME NEW w \in Workers, NEW r \in Requests, NEW t \in Clock, Start(w, r, t)
       PROVE  TypeOK'
  <2> DEFINE b == (Kind(r) = "mutating")
             n == attempts[r] + 1
  <2>1. n \in Nat /\ b \in BOOLEAN
    BY DEF TypeOK
  <2>2. row[r] \in RowType /\ row[r].state # "absent"
    BY <1>10, <1>a DEF Start, State
  <2>3. [row[r] EXCEPT !.state = "running", !.attempt = n,
                       !.possible_effect = b, !.cancel_requested = FALSE] \in RowType
    BY <2>1, <2>2, StartWrite
  <2>4. row' = [row EXCEPT ![r] = [row[r] EXCEPT !.state = "running", !.attempt = n,
                            !.possible_effect = b, !.cancel_requested = FALSE]]
    BY <1>10, <1>a DEF Start
  <2>5. Rows'
    BY <1>a, <2>3, <2>4, TableWrite
  <2>6. worker' \in [Workers -> WorkerType]
    BY <1>10, <2>1 DEF Start, TypeOK, WorkerType, Outcomes
  <2>7. /\ attempts' \in [Requests -> Nat] /\ effects' \in [Requests -> Nat]
        /\ told' \in [Requests -> BOOLEAN]
    BY <1>10 DEF Start, TypeOK
  <2>8. QED
    BY <1>10, <2>5, <2>6, <2>7 DEF Start, TypeOK
<1>11. ASSUME NEW w \in Workers, WorkerStep(w) PROVE TypeOK'
  <2>1. worker' \in [Workers -> WorkerType]
    <3>1. Idle \in WorkerType
      BY DEF Idle, WorkerType, Outcomes
    <3>2. ASSUME NEW o \in Outcomes, worker' = [worker EXCEPT ![w].outcome = o]
          PROVE  worker' \in [Workers -> WorkerType]
      BY <3>2 DEF TypeOK, WorkerType
    <3>3. {"cancelled", "result_saved", "failed"} \subseteq Outcomes
      BY DEF Outcomes
    <3>4. CASE worker' = [worker EXCEPT ![w] = Idle]
      BY <3>1, <3>4 DEF TypeOK
    <3>5. QED
      BY <1>11, <3>2, <3>3, <3>4
         DEF WorkerStep, HandlerReturns, HandlerFails, RunAbandoned, SaveResult
  <2>2. Rows'
    <3>1. CASE SaveResult(w)
      <4> DEFINE r == worker[w].req
                 o == worker[w].outcome
      <4>1. r \in Requests /\ o \in Written /\ ResultOf(o) \in Results
        BY <3>1, <1>b DEF SaveResult, Busy, TypeOK, WorkerType, Outcomes, ResultOf, Results
      <4>2. CASE State(r) = "running"
        <5>1. row' = [row EXCEPT ![r] = [row[r] EXCEPT !.state = o,
                                                       !.result = ResultOf(o)]]
          BY <3>1, <4>1, <4>2, <1>a DEF SaveResult
        <5>2. row[r] \in RowType /\ row[r].state # "absent"
          BY <4>1, <4>2, <1>a DEF State
        <5>3. [row[r] EXCEPT !.state = o, !.result = ResultOf(o)] \in RowType
          BY <4>1, <5>2, ResultWrite
        <5>4. QED
          BY <1>a, <4>1, <5>1, <5>3, TableWrite
      <4>3. CASE State(r) # "running"
        BY <3>1, <4>3, <1>a DEF SaveResult
      <4>4. QED
        BY <4>2, <4>3
    <3>2. CASE UNCHANGED row
      BY <3>2, <1>a
    <3>3. QED
      BY <1>11, <3>1, <3>2 DEF WorkerStep, HandlerReturns, HandlerFails, RunAbandoned
  <2>3. QED
    BY <1>11, <2>1, <2>2
       DEF WorkerStep, HandlerReturns, HandlerFails, RunAbandoned, SaveResult, TypeOK
<1>12. ASSUME NEW reg \in Registries, BrokerStart(reg) PROVE TypeOK'
  <2>1. ASSUME NEW r \in Requests PROVE row'[r] \in RowType
    <3>1. row[r] \in RowType
      BY <1>a
    <3>2. CASE State(r) # "running"
      BY <1>12, <3>1, <3>2 DEF BrokerStart, RecoverRunning
    <3>3. CASE State(r) = "running"
      <4>1. [row[r] EXCEPT !.state = "ready", !.attempt = 0] \in RowType
        BY <3>1, <3>3, RetryWrite DEF State
      <4>2. [row[r] EXCEPT !.state = "indeterminate"] \in RowType
        BY <3>1, <3>3, <1>b, StateWrite DEF State
      <4>3. QED
        BY <1>12, <3>3, <4>1, <4>2 DEF BrokerStart, RecoverRunning
    <3>4. QED
      BY <3>2, <3>3
  <2>2. Rows'
    BY <1>12, <2>1 DEF BrokerStart, RecoverRunning
  <2>3. QED
    BY <1>12, <2>2, RegistryAssumption DEF BrokerStart, TypeOK
<1>13. CASE BrokerStop
  BY <1>13 DEF BrokerStop, TypeOK
<1>14. CASE Crash
  BY <1>14 DEF Crash, WorkerType, Idle, Outcomes, TypeOK
<1>15. CASE Tick
  BY <1>15 DEF Tick, TypeOK
<1>16. CASE UNCHANGED vars
  BY <1>16 DEF vars, TypeOK
<1>17. QED
  BY <1>1, <1>2, <1>3, <1>4, <1>5, <1>6, <1>7, <1>8, <1>9, <1>10, <1>11, <1>12,
     <1>13, <1>14, <1>15, <1>16
     DEF Next, Operator, Publisher

(* Every variable keeps its type in every behaviour.                       *)
THEOREM TypeCorrect == Spec => []TypeOK
<1>1. QED
  BY InitType, NextType, PTL DEF Spec

-----------------------------------------------------------------------------
(* What one step does to one row, stripped of who did it and why.          *)

Keeps(r) ==
    /\ row'[r].result = row[r].result
    /\ row'[r].publication = row[r].publication
    /\ row'[r].cancel_requested = row[r].cancel_requested
    /\ effects'[r] = effects[r]

Stays(r) == row'[r] = row[r] /\ effects'[r] = effects[r]

Marked(r) ==
    /\ State(r) = "running" /\ State(r)' = "running"
    /\ row'[r].possible_effect = row[r].possible_effect
    /\ row'[r].attempt = row[r].attempt
    /\ row'[r].result = row[r].result
    /\ row'[r].publication = row[r].publication
    /\ row'[r].cancel_requested
    /\ effects'[r] = effects[r]

Inserted(r) ==
    /\ State(r) = "absent"
    /\ State(r)' \in {"rejected", "awaiting_approval", "ready"}
    /\ row'[r].result = "none" /\ row'[r].publication = NoRef
    /\ effects'[r] = effects[r]

Approved(r) ==
    /\ State(r) = "awaiting_approval" /\ State(r)' = "ready"
    /\ Keeps(r)

Started(r) ==
    /\ \E w \in Workers, t \in Clock : Start(w, r, t)
    /\ State(r) = "ready" /\ State(r)' = "running"
    /\ row'[r].result = row[r].result
    /\ row'[r].publication = row[r].publication
    /\ effects'[r] = IF row'[r].possible_effect THEN effects[r] + 1 ELSE effects[r]

Saved(r) ==
    /\ \E w \in Workers : SaveResult(w)
    /\ State(r) = "running"
    /\ \/ State(r)' = "result_saved" /\ row'[r].result = "ok"
       \/ State(r)' \in {"failed", "cancelled"}
    /\ row'[r].publication = row[r].publication
    /\ effects'[r] = effects[r]

Retried(r) ==
    /\ ~up
    /\ State(r) = "running" /\ State(r)' = "ready"
    /\ ~row[r].possible_effect
    /\ Keeps(r)

Published(r) ==
    /\ State(r) \in {"result_saved", "published"} /\ State(r)' = "published"
    /\ row'[r].publication \in Refs
    /\ row[r].publication \in {NoRef, row'[r].publication}
    /\ row'[r].result = row[r].result
    /\ effects'[r] = effects[r]

Notified(r) ==
    /\ State(r) \in {"published", "notification_pending"}
    /\ State(r)' = "notification_pending"
    /\ Keeps(r)

Settled(r) ==
    /\ \/ State(r) \in Pending
             /\ State(r)' \in {"rejected", "expired", "cancelled", "indeterminate"}
       \/ State(r) \in {"published", "notification_pending", "acknowledged"}
             /\ State(r)' = "acknowledged"
       \/ State(r) # "absent" /\ State(r)' = "quarantined"
    /\ Keeps(r)

RowMove(r) ==
    \/ Stays(r) \/ Marked(r) \/ Inserted(r) \/ Approved(r) \/ Started(r)
    \/ Saved(r) \/ Retried(r) \/ Published(r) \/ Notified(r) \/ Settled(r)

(* A write of the state alone is one of the moves below, and leaves every  *)
(* other row alone.                                                        *)
LEMMA StateWriteMoves ==
    ASSUME TypeOK, NEW q \in Requests, NEW s, SetState(q, s), UNCHANGED effects
    PROVE  /\ \A r \in Requests \ {q} : Stays(r)
           /\ State(q)' = s /\ Keeps(q)
<1>1. row \in [Requests -> RowType]
  BY DEF TypeOK
<1>2. row[q] \in RowType
  BY <1>1
<1>3. row' = [row EXCEPT ![q] = [row[q] EXCEPT !.state = s]]
  BY <1>1 DEF SetState
<1>4. row'[q] = [row[q] EXCEPT !.state = s]
  BY <1>1, <1>3
<1>5. QED
  BY <1>1, <1>2, <1>3, <1>4 DEF Stays, Keeps, State, RowType, Columns

(* Every step of the broker moves each row in one of the ways below: the   *)
(* journal has no other writes.                                            *)
LEMMA NextMoves == TypeOK /\ [Next]_vars => \A r \in Requests : RowMove(r)
<1> SUFFICES ASSUME TypeOK, [Next]_vars, NEW r \in Requests PROVE RowMove(r)
  OBVIOUS
<1>a. row \in [Requests -> RowType] /\ row[r] \in RowType
  BY DEF TypeOK
<1>b. ASSUME UNCHANGED <<row, effects>> PROVE RowMove(r)
  BY <1>b DEF RowMove, Stays
<1>1. ASSUME NEW q \in Requests, NEW d \in Digests,
             NEW action \in {"allow", "confirm", "deny"}, NEW t \in Clock,
             Receive(q, d, action, t)
      PROVE  RowMove(r)
  <2>1. CASE Admit(q, d, action)
    <3>1. CASE r # q
      BY <1>1, <1>a, <2>1, <3>1 DEF Receive, Admit, RowMove, Stays
    <3>2. CASE r = q
      <4> DEFINE s == CASE action = "deny"    -> "rejected"
                        [] action = "confirm" -> "awaiting_approval"
                        [] action = "allow"   -> "ready"
      <4>1. s \in {"rejected", "awaiting_approval", "ready"}
        OBVIOUS
      <4>2. row'[r] = [NoRow EXCEPT !.digest = d, !.state = s]
        BY <2>1, <1>a, <3>2 DEF Admit
      <4> HIDE DEF s
      <4>3. /\ row'[r].state = s
            /\ row'[r].result = "none"
            /\ row'[r].publication = NoRef
        BY <4>2 DEF NoRow
      <4>4. Inserted(r)
        BY <1>1, <2>1, <3>2, <4>1, <4>3 DEF Receive, Admit, Inserted, State
      <4>5. QED
        BY <4>4 DEF RowMove
    <3>3. QED
      BY <3>1, <3>2
  <2>2. CASE Duplicate(q, d)
    BY <1>1, <1>b, <2>2 DEF Receive, Duplicate
  <2>3. CASE Collide(q, d)
    BY <1>1, <2>3, StateWriteMoves DEF Receive, Collide, RowMove, Settled, State
  <2>4. QED
    BY <1>1, <2>1, <2>2, <2>3 DEF Receive
<1>2. ASSUME NEW q \in Requests, NEW t \in Clock, Approve(q, t) PROVE RowMove(r)
  BY <1>2, StateWriteMoves DEF Approve, RowMove, Approved
<1>3. ASSUME NEW q \in Requests, Deny(q) PROVE RowMove(r)
  BY <1>3, StateWriteMoves DEF Deny, RowMove, Settled, Pending
<1>4. ASSUME NEW q \in Requests, Cancel(q) PROVE RowMove(r)
  <2>1. CASE State(q) = "running"
    <3>1. CASE r # q
      BY <1>4, <1>a, <2>1, <3>1 DEF Cancel, RowMove, Stays
    <3>2. CASE r = q
      <4>1. row'[r] = [row[r] EXCEPT !.cancel_requested = TRUE]
        BY <1>4, <1>a, <2>1, <3>2 DEF Cancel
      <4>2. Marked(r)
        BY <1>4, <1>a, <2>1, <3>2, <4>1 DEF Cancel, Marked, Keeps, State, RowType, Columns
      <4>3. QED
        BY <4>2 DEF RowMove
    <3>3. QED
      BY <3>1, <3>2
  <2>2. CASE State(q) # "running"
    BY <1>4, <2>2, StateWriteMoves DEF Cancel, RowMove, Settled
  <2>3. QED
    BY <2>1, <2>2
<1>5. ASSUME NEW q \in Requests, NEW ref \in Refs, MarkPublished(q, ref) PROVE RowMove(r)
  <2>1. CASE r # q
    BY <1>5, <1>a, <2>1 DEF MarkPublished, Publishable, RowMove, Stays
  <2>2. CASE r = q
    <3>1. row'[r] = [row[r] EXCEPT !.state = "published", !.publication = ref]
      BY <1>5, <1>a, <2>2 DEF MarkPublished, Publishable
    <3>2. Published(r)
      BY <1>5, <1>a, <2>2, <3>1 DEF MarkPublished, Publishable, Published, State, RowType, Columns
    <3>3. QED
      BY <3>2 DEF RowMove
  <2>3. QED
    BY <2>1, <2>2
<1>6. ASSUME NEW q \in Requests, MarkNotificationPending(q) PROVE RowMove(r)
  BY <1>6, StateWriteMoves DEF MarkNotificationPending, RowMove, Notified
<1>7. ASSUME NEW q \in Requests, Acknowledge(q) PROVE RowMove(r)
  BY <1>7, StateWriteMoves DEF Acknowledge, RowMove, Settled
<1>8. ASSUME NEW t \in Clock, ExpireDue(t) PROVE RowMove(r)
  <2>1. CASE row'[r] = row[r]
    BY <1>8, <2>1 DEF ExpireDue, RowMove, Stays
  <2>2. CASE row'[r] = [row[r] EXCEPT !.state = "expired"] /\ State(r) \in Unstarted
    <3>1. Settled(r)
      BY <1>8, <1>a, <2>2
         DEF ExpireDue, Settled, Keeps, State, Pending, RowType, Columns
    <3>2. QED
      BY <3>1 DEF RowMove
  <2>3. QED
    BY <1>8, <2>1, <2>2 DEF ExpireDue
<1>9. ASSUME NEW p \in BOOLEAN, SetPaused(p) PROVE RowMove(r)
  BY <1>9, <1>b DEF SetPaused
<1>10. ASSUME NEW w \in Workers, NEW q \in Requests, NEW t \in Clock, Start(w, q, t)
       PROVE  RowMove(r)
  <2>1. CASE r # q
    BY <1>10, <1>a, <2>1 DEF Start, RowMove, Stays, TypeOK
  <2>2. CASE r = q
    <3> DEFINE b == (Kind(r) = "mutating")
               n == attempts[r] + 1
    <3>1. row'[r] = [row[r] EXCEPT !.state = "running", !.attempt = n,
                                   !.possible_effect = b, !.cancel_requested = FALSE]
      BY <1>10, <1>a, <2>2 DEF Start
    <3>2. effects'[r] = IF b THEN effects[r] + 1 ELSE effects[r]
      BY <1>10, <2>2 DEF Start, TypeOK
    <3> HIDE DEF b, n
    <3>3. /\ row'[r].state = "running"
          /\ row'[r].possible_effect = b
          /\ row'[r].result = row[r].result
          /\ row'[r].publication = row[r].publication
      BY <1>a, <3>1 DEF RowType, Columns
    <3>4. Started(r)
      BY <1>10, <2>2, <3>2, <3>3 DEF Start, Started, State
    <3>5. QED
      BY <3>4 DEF RowMove
  <2>3. QED
    BY <2>1, <2>2
<1>11. ASSUME NEW w \in Workers, WorkerStep(w) PROVE RowMove(r)
  <2>1. CASE SaveResult(w)
    <3> DEFINE q == worker[w].req
               o == worker[w].outcome
    <3>1. o \in {"result_saved", "cancelled", "failed"}
      BY <2>1 DEF SaveResult, TypeOK, WorkerType, Outcomes
    <3>2. CASE r = q /\ State(q) = "running"
      <4>1. row'[r] = [row[r] EXCEPT !.state = o, !.result = ResultOf(o)]
        BY <2>1, <1>a, <3>2 DEF SaveResult
      <4>2. effects'[r] = effects[r]
        BY <2>1 DEF SaveResult
      <4> HIDE DEF o
      <4>3. /\ row'[r].state = o /\ row'[r].result = ResultOf(o)
            /\ row'[r].publication = row[r].publication
        BY <1>a, <4>1 DEF RowType, Columns
      <4>4. Saved(r)
        BY <2>1, <3>1, <3>2, <4>2, <4>3 DEF Saved, State, ResultOf
      <4>5. QED
        BY <4>4 DEF RowMove
    <3>3. CASE r # q \/ State(q) # "running"
      BY <2>1, <1>a, <3>3 DEF SaveResult, RowMove, Stays
    <3>4. QED
      BY <3>2, <3>3
  <2>2. QED
    BY <1>11, <1>b, <2>1 DEF WorkerStep, HandlerReturns, HandlerFails, RunAbandoned
<1>12. ASSUME NEW reg \in Registries, BrokerStart(reg) PROVE RowMove(r)
  <2>1. CASE row'[r] = row[r]
    BY <1>12, <2>1 DEF BrokerStart, RowMove, Stays
  <2>2. CASE /\ State(r) = "running" /\ ~row[r].possible_effect
             /\ row'[r] = [row[r] EXCEPT !.state = "ready", !.attempt = 0]
    <3>1. Retried(r)
      BY <1>12, <1>a, <2>2 DEF BrokerStart, Retried, Keeps, State, RowType, Columns
    <3>2. QED
      BY <3>1 DEF RowMove
  <2>3. CASE /\ State(r) = "running"
             /\ row'[r] = [row[r] EXCEPT !.state = "indeterminate"]
    <3>1. Settled(r)
      BY <1>12, <1>a, <2>3
         DEF BrokerStart, Settled, Keeps, State, RowType, Columns, Pending
    <3>2. QED
      BY <3>1 DEF RowMove
  <2>4. QED
    BY <1>12, <2>1, <2>2, <2>3 DEF BrokerStart, RecoverRunning, MayRetry
<1>13. CASE BrokerStop
  BY <1>13, <1>b DEF BrokerStop
<1>14. CASE Crash
  BY <1>14, <1>b DEF Crash
<1>15. CASE Tick
  BY <1>15, <1>b DEF Tick
<1>16. CASE UNCHANGED vars
  BY <1>16, <1>b DEF vars
<1>17. QED
  BY <1>1, <1>2, <1>3, <1>4, <1>5, <1>6, <1>7, <1>8, <1>9, <1>10, <1>11, <1>12,
     <1>13, <1>14, <1>15, <1>16
     DEF Next, Operator, Publisher

-----------------------------------------------------------------------------
(* The inductive invariant about rows.  EffectAtMostOnce alone is not      *)
(* inductive: that a run may have begun must be visible in every state     *)
(* from which recovery could make the request ready again, which is what   *)
(* possible_effect records.  Likewise a saved result must be confined to   *)
(* the states no run can be resumed from.                                  *)
Consistent(r) ==
    /\ State(r) \in {"absent"} \cup Unstarted =>
         row[r].result = "none" /\ row[r].publication = NoRef /\ effects[r] = 0
    /\ State(r) = "running" =>
         /\ row[r].result = "none" /\ row[r].publication = NoRef
         /\ effects[r] = IF row[r].possible_effect THEN 1 ELSE 0
    /\ State(r) \in Completed \cup {"acknowledged"} => row[r].result = "ok"
    /\ State(r) \in {"published", "notification_pending", "acknowledged"} =>
         row[r].publication # NoRef
    /\ effects[r] <= 1

RowInv == \A r \in Requests : Consistent(r)

(* The row invariant holds of an empty journal.                            *)
LEMMA InitRowInv == Init => RowInv
BY DEF Init, RowInv, Consistent, State, NoRow, Completed, Unstarted

(* Every step of the broker preserves the row invariant.                   *)
LEMMA NextRowInv == TypeOK /\ RowInv /\ [Next]_vars => RowInv'
<1> SUFFICES ASSUME TypeOK, RowInv, [Next]_vars, NEW r \in Requests
             PROVE  Consistent(r)'
  BY DEF RowInv
<1>1. Consistent(r)
  BY DEF RowInv
<1>2. /\ row[r].possible_effect \in BOOLEAN
      /\ effects[r] \in Nat
  BY DEF TypeOK, RowType, Columns
<1> USE DEF Consistent, State, Unstarted, Completed, Keeps
<1>3. CASE Stays(r)
  BY <1>1, <1>3 DEF Stays
<1>4. CASE Marked(r)
  BY <1>1, <1>4 DEF Marked
<1>5. CASE Inserted(r)
  BY <1>1, <1>5 DEF Inserted
<1>6. CASE Approved(r)
  BY <1>1, <1>6 DEF Approved
<1>7. CASE Started(r)
  BY <1>1, <1>2, <1>7 DEF Started
<1>8. CASE Saved(r)
  BY <1>1, <1>8 DEF Saved
<1>9. CASE Retried(r)
  BY <1>1, <1>9 DEF Retried
<1>10. CASE Published(r)
  BY <1>1, <1>10, RefsAssumption DEF Published
<1>11. CASE Notified(r)
  BY <1>1, <1>11 DEF Notified
<1>12. CASE Settled(r)
  BY <1>1, <1>12 DEF Settled
<1>13. QED
  BY <1>3, <1>4, <1>5, <1>6, <1>7, <1>8, <1>9, <1>10, <1>11, <1>12, NextMoves
     DEF RowMove

(* Every reachable row is consistent: a started row has an attempt, a      *)
(* completed one its result, and possible_effect records every effect.     *)
THEOREM RowInvariant == Spec => []RowInv
<1>1. QED
  BY InitRowInv, NextRowInv, TypeCorrect, PTL DEF Spec

(* A mutating handler runs at most once for a request, for any number of   *)
(* requests, threads, restarts and capability tables.                      *)
THEOREM EffectOnce == Spec => []EffectAtMostOnce
<1>1. RowInv => EffectAtMostOnce
  BY DEF RowInv, Consistent, EffectAtMostOnce
<1>2. QED
  BY <1>1, RowInvariant, PTL

(* What is published or acknowledged has a durable successful result and   *)
(* the publication it is bound to.                                         *)
THEOREM PublishedIsDurable == Spec => []PublishedHasResult
<1>1. RowInv => PublishedHasResult
  BY DEF RowInv, Consistent, PublishedHasResult, Completed
<1>2. QED
  BY <1>1, RowInvariant, PTL

(* Settled requests keep their outcome, unless a collision quarantines     *)
(* them.                                                                   *)
THEOREM TerminalIsFinal == Spec => TerminalFinal
<1>1. TypeOK /\ [Next]_vars =>
        [\A r \in Requests :
           State(r) \in Terminal => State(r)' \in {State(r), "quarantined"}]_vars
  <2> SUFFICES ASSUME TypeOK, [Next]_vars, NEW r \in Requests, State(r) \in Terminal
               PROVE  State(r)' \in {State(r), "quarantined"}
    OBVIOUS
  <2>1. RowMove(r)
    BY NextMoves
  <2>2. QED
    BY <2>1
       DEF RowMove, Stays, Marked, Inserted, Approved, Started, Saved, Retried,
           Published, Notified, Settled, State, Terminal, Pending, Unstarted, Completed
<1>2. QED
  BY <1>1, TypeCorrect, PTL DEF Spec, TerminalFinal

(* Results and publication bindings are written once.                      *)
THEOREM DurableIsFixed == Spec => DurableFixed
<1>1. TypeOK /\ RowInv /\ [Next]_vars =>
        [\A r \in Requests :
           /\ row[r].result # "none" => row'[r].result = row[r].result
           /\ row[r].publication # NoRef =>
                row'[r].publication = row[r].publication]_vars
  <2> SUFFICES ASSUME TypeOK, RowInv, [Next]_vars, NEW r \in Requests
               PROVE  /\ row[r].result # "none" => row'[r].result = row[r].result
                      /\ row[r].publication # NoRef =>
                           row'[r].publication = row[r].publication
    OBVIOUS
  <2>1. RowMove(r)
    BY NextMoves
  <2>2. Consistent(r)
    BY DEF RowInv
  <2>3. QED
    BY <2>1, <2>2
       DEF RowMove, Stays, Marked, Inserted, Approved, Started, Saved, Retried,
           Published, Notified, Settled, State, Consistent, Keeps
<1>2. QED
  BY <1>1, TypeCorrect, RowInvariant, PTL DEF Spec, DurableFixed

-----------------------------------------------------------------------------
(* The inductive invariant about threads: while no process owns the state  *)
(* directory none is busy, and what a thread works on is never waiting to  *)
(* be started, so that no second thread can start it.                      *)
WriterInv ==
    /\ ~up => \A w \in Workers : ~Busy(w)
    /\ \A w \in Workers :
         Busy(w) => State(worker[w].req) \notin {"absent"} \cup Unstarted
    /\ SingleWriter

(* The thread invariant holds when no thread runs.                         *)
LEMMA InitWriterInv == Init => WriterInv
BY DEF Init, WriterInv, SingleWriter, Busy, Idle

(* Steps after which each thread is idle or still where it was.            *)
LEMMA NoNewRun ==
    ASSUME TypeOK, WriterInv, [Next]_vars,
           ~up' => \A w \in Workers : ~Busy(w)',
           \A w \in Workers :
             \/ worker'[w].req = NoRequest
             \/ /\ worker'[w].req = worker[w].req
                /\ worker'[w].attempt = worker[w].attempt
    PROVE  WriterInv'
<1>1. ASSUME NEW w \in Workers, Busy(w)'
      PROVE  /\ Busy(w) /\ up
             /\ worker'[w].req = worker[w].req /\ worker'[w].attempt = worker[w].attempt
             /\ worker[w].req \in Requests
  BY <1>1 DEF Busy, TypeOK, WorkerType, WriterInv
<1>2. ASSUME NEW w \in Workers, Busy(w)', NEW r \in Requests, r = worker[w].req
      PROVE  /\ row'[r].state \notin {"absent"} \cup Unstarted
             /\ row'[r].state = "running" => row'[r].attempt = worker[w].attempt
  <2>1. up /\ State(r) \notin {"absent"} \cup Unstarted
    BY <1>1, <1>2 DEF WriterInv
  <2>2. State(r) = "running" => row[r].attempt = worker[w].attempt
    BY <1>1, <1>2 DEF WriterInv, SingleWriter
  <2>3. RowMove(r)
    BY NextMoves
  <2>4. QED
    BY <2>1, <2>2, <2>3
       DEF RowMove, Stays, Marked, Inserted, Approved, Started, Saved, Retried,
           Published, Notified, Settled, State, Unstarted
<1>3. ASSUME NEW w \in Workers, NEW v \in Workers, Busy(w)',
             worker'[v].req = worker'[w].req
      PROVE  v = w
  BY <1>1, <1>3 DEF WriterInv, SingleWriter, Busy
<1>4. QED
  BY <1>1, <1>2, <1>3 DEF WriterInv, SingleWriter, Busy, State

(* Every step of the broker preserves the thread invariant; recovery does  *)
(* because the lock leaves no thread alive when it runs.                   *)
LEMMA NextWriterInv == TypeOK /\ WriterInv /\ [Next]_vars => WriterInv'
<1> SUFFICES ASSUME TypeOK, WriterInv, [Next]_vars PROVE WriterInv'
  OBVIOUS
<1>1. ASSUME UNCHANGED <<worker, up>> PROVE WriterInv'
  <2>1. ~up' => \A w \in Workers : ~Busy(w)'
    BY <1>1 DEF WriterInv, Busy
  <2>2. QED
    BY <1>1, <2>1, NoNewRun
<1>2. ASSUME NEW w \in Workers, NEW q \in Requests, NEW t \in Clock, Start(w, q, t)
      PROVE  WriterInv'
  <2> DEFINE n == attempts[q] + 1
  <2>1. /\ up /\ up' = up /\ State(q) = "ready"
        /\ worker' = [worker EXCEPT ![w] = [req |-> q, attempt |-> n, outcome |-> "open"]]
    BY <1>2 DEF Start
  <2>2. /\ worker'[w].req = q /\ worker'[w].attempt = n
        /\ \A v \in Workers \ {w} : worker'[v] = worker[v]
    BY <2>1 DEF TypeOK
  <2>3. State(q)' = "running" /\ row'[q].attempt = n
    <3> DEFINE b == (Kind(q) = "mutating")
    <3>1. row[q] \in RowType
      BY DEF TypeOK
    <3>2. row'[q] = [row[q] EXCEPT !.state = "running", !.attempt = n,
                                   !.possible_effect = b, !.cancel_requested = FALSE]
      BY <1>2 DEF Start, TypeOK
    <3> HIDE DEF n, b
    <3>3. QED
      BY <3>1, <3>2 DEF State, RowType, Columns
  <2>4. \A r \in Requests \ {q} : row'[r] = row[r]
    BY <1>2 DEF Start, TypeOK
  <2>5. \A v \in Workers : Busy(v) => worker[v].req \in Requests \ {q}
    BY <2>1 DEF WriterInv, Busy, TypeOK, WorkerType, Unstarted
  <2> HIDE DEF n
  <2>6. ASSUME NEW v \in Workers, Busy(v)'
        PROVE  /\ row'[worker'[v].req].state \notin {"absent"} \cup Unstarted
               /\ row'[worker'[v].req].state = "running" =>
                    row'[worker'[v].req].attempt = worker'[v].attempt
    <3>1. CASE v = w
      BY <2>2, <2>3, <3>1 DEF State, Unstarted
    <3>2. CASE v # w
      <4>1. Busy(v) /\ worker'[v] = worker[v]
        BY <2>2, <2>6, <3>2 DEF Busy
      <4>2. row'[worker[v].req] = row[worker[v].req]
        BY <2>4, <2>5, <4>1
      <4>3. /\ row[worker[v].req].state \notin {"absent"} \cup Unstarted
            /\ row[worker[v].req].state = "running" =>
                 row[worker[v].req].attempt = worker[v].attempt
        BY <4>1 DEF WriterInv, SingleWriter, State
      <4>4. QED
        BY <4>1, <4>2, <4>3
    <3>3. QED
      BY <3>1, <3>2
  <2>7. ASSUME NEW v \in Workers, NEW u \in Workers, Busy(v)',
               worker'[u].req = worker'[v].req
        PROVE  u = v
    <3>1. Busy(u)'
      BY <2>7 DEF Busy
    <3>2. CASE v = w \/ u = w
      BY <2>2, <2>5, <2>7, <3>1, <3>2 DEF Busy
    <3>3. CASE v # w /\ u # w
      <4>1. worker'[u] = worker[u] /\ worker'[v] = worker[v]
        BY <2>2, <3>3
      <4>2. Busy(v) /\ worker[u].req = worker[v].req
        BY <2>7, <4>1 DEF Busy
      <4>3. QED
        BY <4>2 DEF WriterInv, SingleWriter
    <3>4. QED
      BY <3>2, <3>3
  <2>8. QED
    BY <2>1, <2>6, <2>7 DEF WriterInv, SingleWriter, State, Busy
<1>3. ASSUME NEW w \in Workers, WorkerStep(w) PROVE WriterInv'
  <2>1. /\ UNCHANGED up /\ Busy(w)
        /\ \/ worker' = [worker EXCEPT ![w] = Idle]
           \/ \E o \in Outcomes : worker' = [worker EXCEPT ![w].outcome = o]
    BY <1>3
       DEF WorkerStep, HandlerReturns, HandlerFails, RunAbandoned, SaveResult, Outcomes
  <2>2. \A v \in Workers :
          \/ worker'[v].req = NoRequest
          \/ /\ worker'[v].req = worker[v].req
             /\ worker'[v].attempt = worker[v].attempt
    BY <2>1 DEF TypeOK, WorkerType, Idle
  <2>3. ~up' => \A v \in Workers : ~Busy(v)'
    BY <2>1 DEF WriterInv
  <2>4. QED
    BY <2>2, <2>3, NoNewRun
<1>4. ASSUME NEW reg \in Registries, BrokerStart(reg) PROVE WriterInv'
  <2>1. up' = TRUE /\ UNCHANGED worker
    BY <1>4 DEF BrokerStart
  <2>2. QED
    BY <2>1, NoNewRun
<1>5. CASE BrokerStop
  <2>1. UNCHANGED worker /\ \A w \in Workers : ~Busy(w)
    BY <1>5 DEF BrokerStop
  <2>2. QED
    BY <2>1, NoNewRun DEF Busy
<1>6. CASE Crash
  <2>1. \A w \in Workers : worker'[w].req = NoRequest
    BY <1>6 DEF Crash, Idle
  <2>2. QED
    BY <2>1, NoNewRun DEF Busy
<1>7. QED
  BY <1>1, <1>2, <1>3, <1>4, <1>5, <1>6
     DEF Next, vars, Operator, Publisher, Receive, Approve, Deny, Cancel,
         MarkPublished, MarkNotificationPending, Acknowledge, ExpireDue, SetPaused, Tick

(* At any moment a request is in the hands of one thread at most, and a    *)
(* thread that saves saves into its own attempt.                           *)
THEOREM OneWriter == Spec => []SingleWriter
<1>1. WriterInv => SingleWriter
  BY DEF WriterInv
<1>2. QED
  BY <1>1, InitWriterInv, NextWriterInv, TypeCorrect, PTL DEF Spec

-----------------------------------------------------------------------------
(* Cancellation.  A request at a thread has no result yet, and a thread    *)
(* whose handler was at work when the cancel came either finds the flag    *)
(* when the handler returns or has settled on another outcome than a       *)
(* result.                                                                 *)
Hears(r) ==
    /\ told[r] => row[r].result # "ok"
    /\ \A w \in Workers : worker[w].req = r =>
         /\ row[r].result = "none"
         /\ told[r] /\ State(r) = "running" =>
              IF worker[w].outcome = "open" THEN row[r].cancel_requested
                                            ELSE worker[w].outcome # "result_saved"

HearInv == \A r \in Requests : Hears(r)

(* Nothing has been told when the journal is empty.                        *)
LEMMA InitHearInv == Init => HearInv
BY RequestsAssumption DEF Init, HearInv, Hears, Idle

(* Neither a start nor a save touches the row: its result stays, and a     *)
(* running request keeps its flag.                                         *)
LEMMA CalmRow ==
    ASSUME TypeOK, RowInv, [Next]_vars, NEW r \in Requests,
           \A w \in Workers : ~SaveResult(w),
           \A w \in Workers, t \in Clock : ~Start(w, r, t)
    PROVE  /\ row'[r].result = row[r].result
           /\ State(r)' = "running" =>
                /\ State(r) = "running"
                /\ row[r].cancel_requested => row'[r].cancel_requested
<1>1. RowMove(r)
  BY NextMoves
<1>2. Consistent(r)
  BY DEF RowInv
<1>3. ~Started(r) /\ ~Saved(r)
  BY DEF Started, Saved
<1>4. CASE Inserted(r)
  BY <1>2, <1>4 DEF Inserted, Consistent
<1>5. CASE Stays(r) \/ Marked(r)
  BY <1>5 DEF Stays, Marked, State
<1>6. CASE Approved(r) \/ Retried(r) \/ Published(r) \/ Notified(r) \/ Settled(r)
  BY <1>6 DEF Approved, Retried, Published, Notified, Settled, Keeps
<1>7. QED
  BY <1>1, <1>3, <1>4, <1>5, <1>6 DEF RowMove

(* While the threads stand still, what was told stays heard.               *)
LEMMA CalmHears ==
    ASSUME TypeOK, RowInv, [Next]_vars, NEW r \in Requests, Hears(r),
           UNCHANGED worker, told'[r] = told[r],
           \A w \in Workers : ~SaveResult(w),
           \A w \in Workers, t \in Clock : ~Start(w, r, t)
    PROVE  Hears(r)'
<1>1. /\ row'[r].result = row[r].result
      /\ State(r)' = "running" =>
           /\ State(r) = "running"
           /\ row[r].cancel_requested => row'[r].cancel_requested
  BY CalmRow
<1>2. QED
  BY <1>1 DEF Hears

(* A start forgets what an earlier run was told; the other requests are    *)
(* not concerned.                                                          *)
LEMMA StartHears ==
    ASSUME TypeOK, RowInv, HearInv, NEW w \in Workers, NEW q \in Requests, NEW t \in Clock,
           Start(w, q, t), NEW r \in Requests
    PROVE  Hears(r)'
<1>0. row \in [Requests -> RowType] /\ row[q] \in RowType
  BY DEF TypeOK
<1>1. CASE r = q
  <2> DEFINE b == (Kind(r) = "mutating")
             n == attempts[r] + 1
  <2>1. row'[r] = [row[r] EXCEPT !.state = "running", !.attempt = n,
                                 !.possible_effect = b, !.cancel_requested = FALSE]
    BY <1>0, <1>1 DEF Start
  <2>2. told'[r] = FALSE
    BY <1>1 DEF Start, TypeOK
  <2>3. row[r].result = "none"
    BY <1>1 DEF Start, RowInv, Consistent, Unstarted
  <2> HIDE DEF b, n
  <2>4. row'[r].result = row[r].result
    BY <1>0, <1>1, <2>1 DEF RowType, Columns
  <2> QED
    BY <2>2, <2>3, <2>4 DEF Hears
<1>2. CASE r # q
  <2>1. row'[r] = row[r] /\ told'[r] = told[r]
    BY <1>0, <1>2 DEF Start, TypeOK
  <2>2. \A v \in Workers : worker'[v].req = r => worker'[v] = worker[v]
    BY <1>2 DEF Start, TypeOK
  <2> QED
    BY <2>1, <2>2 DEF HearInv, Hears, State
<1> QED
  BY <1>1, <1>2

(* A thread that saves leaves the request; it saves no result that the     *)
(* cancel came in time for, and nobody else works on the request.          *)
LEMMA SaveHears ==
    ASSUME TypeOK, WriterInv, HearInv, NEW w \in Workers, SaveResult(w),
           NEW r \in Requests
    PROVE  Hears(r)'
<1> DEFINE q == worker[w].req
           o == worker[w].outcome
<1>0. /\ row \in [Requests -> RowType] /\ row[r] \in RowType
      /\ o \in {"result_saved", "cancelled", "failed"}
      /\ UNCHANGED told /\ Busy(w) /\ worker' = [worker EXCEPT ![w] = Idle]
  BY DEF SaveResult, TypeOK, WorkerType, Outcomes
<1>1. \A v \in Workers : worker'[v].req = r =>
        v # w /\ worker'[v] = worker[v] /\ worker[v].req = r
  BY <1>0, RequestsAssumption DEF TypeOK, Idle
<1>2. CASE r = q /\ State(q) = "running"
  <2>1. row'[r] = [row[r] EXCEPT !.state = o, !.result = ResultOf(o)]
    BY <1>0, <1>2 DEF SaveResult
  <2>2. told[r] => o # "result_saved"
    BY <1>0, <1>2 DEF HearInv, Hears
  <2>3. \A v \in Workers : worker'[v].req # r
    BY <1>0, <1>1, <1>2 DEF WriterInv, SingleWriter
  <2> HIDE DEF o, q
  <2>4. row'[r].result = ResultOf(o)
    BY <1>0, <2>1 DEF RowType, Columns
  <2> QED
    BY <1>0, <2>2, <2>3, <2>4 DEF Hears, ResultOf
<1>3. CASE r # q \/ State(q) # "running"
  <2>1. row'[r] = row[r]
    BY <1>0, <1>3 DEF SaveResult
  <2> QED
    BY <1>0, <1>1, <2>1 DEF HearInv, Hears, State
<1> QED
  BY <1>2, <1>3

(* A handler that returns finds the flag; a run that fails or is abandoned *)
(* has no result.                                                          *)
LEMMA ThreadHears ==
    ASSUME TypeOK, WriterInv, HearInv, NEW w \in Workers, WorkerStep(w),
           NEW r \in Requests
    PROVE  Hears(r)'
<1>1. CASE HandlerReturns(w)
  <2>1. UNCHANGED <<row, told>> /\ worker[w].outcome = "open"
        /\ worker' = [worker EXCEPT ![w].outcome =
             IF row[worker[w].req].cancel_requested THEN "cancelled" ELSE "result_saved"]
    BY <1>1 DEF HandlerReturns
  <2>2. /\ \A v \in Workers \ {w} : worker'[v] = worker[v]
        /\ worker'[w].req = worker[w].req
        /\ worker'[w].outcome =
             IF row[worker[w].req].cancel_requested THEN "cancelled" ELSE "result_saved"
    BY <2>1 DEF TypeOK, WorkerType
  <2> QED
    BY <2>1, <2>2 DEF HearInv, Hears, State
<1>2. CASE HandlerFails(w)
  <2>1. UNCHANGED <<row, told>> /\ worker' = [worker EXCEPT ![w].outcome = "failed"]
    BY <1>2 DEF HandlerFails
  <2>2. /\ \A v \in Workers \ {w} : worker'[v] = worker[v]
        /\ worker'[w].req = worker[w].req /\ worker'[w].outcome = "failed"
    BY <2>1 DEF TypeOK, WorkerType
  <2> QED
    BY <2>1, <2>2 DEF HearInv, Hears, State
<1>3. CASE RunAbandoned(w)
  <2>1. UNCHANGED <<row, told>> /\ worker' = [worker EXCEPT ![w] = Idle]
    BY <1>3 DEF RunAbandoned
  <2>2. \A v \in Workers : worker'[v].req = r => worker'[v] = worker[v]
    BY <2>1, RequestsAssumption DEF TypeOK, Idle
  <2> QED
    BY <2>1, <2>2 DEF HearInv, Hears, State
<1>4. CASE SaveResult(w)
  BY <1>4, SaveHears
<1> QED
  BY <1>1, <1>2, <1>3, <1>4 DEF WorkerStep

(* A cancel that finds a handler at work raises the flag in the same       *)
(* transaction.                                                            *)
LEMMA CancelHears ==
    ASSUME TypeOK, RowInv, WriterInv, HearInv, [Next]_vars, NEW q \in Requests, Cancel(q),
           NEW r \in Requests
    PROVE  Hears(r)'
<1>0. row \in [Requests -> RowType] /\ row[r] \in RowType /\ UNCHANGED worker
  BY DEF Cancel, TypeOK
<1>1. CASE r # q
  <2>1. row'[r] = row[r] /\ told'[r] = told[r]
    BY <1>0, <1>1 DEF Cancel, SetState, TypeOK
  <2> QED
    BY <1>0, <2>1 DEF HearInv, Hears, State
<1>2. CASE r = q
  <2>1. /\ row'[r].result = row[r].result
        /\ State(r)' = "running" => State(r) = "running" /\ row'[r].cancel_requested
    <3>1. CASE State(r) = "running"
      <4>1. row'[r] = [row[r] EXCEPT !.cancel_requested = TRUE]
        BY <1>0, <1>2, <3>1 DEF Cancel
      <4> QED
        BY <1>0, <3>1, <4>1 DEF RowType, Columns
    <3>2. CASE State(r) # "running"
      <4>1. row'[r] = [row[r] EXCEPT !.state = "cancelled"]
        BY <1>0, <1>2, <3>2 DEF Cancel, SetState
      <4> QED
        BY <1>0, <4>1 DEF RowType, Columns, State
    <3> QED
      BY <3>1, <3>2
  <2>2. told'[r] /\ ~told[r] =>
          \E w \in Workers : worker[w].req = r /\ worker[w].outcome = "open"
    BY <1>2 DEF Cancel
  <2>3. ASSUME told'[r] PROVE row'[r].result # "ok"
    BY <2>1, <2>2, <2>3 DEF HearInv, Hears
  <2>4. ASSUME NEW v \in Workers, worker'[v].req = r
        PROVE  /\ row'[r].result = "none"
               /\ told'[r] /\ State(r)' = "running" =>
                    IF worker'[v].outcome = "open" THEN row'[r].cancel_requested
                                                   ELSE worker'[v].outcome # "result_saved"
    <3>1. worker'[v] = worker[v] /\ worker[v].req = r /\ row[r].result = "none"
      BY <1>0, <2>4 DEF HearInv, Hears
    <3>2. \A w \in Workers : worker[w].req = r => w = v
      BY <3>1, RequestsAssumption DEF WriterInv, SingleWriter, Busy
    <3>3. told[r] /\ State(r) = "running" /\ worker[v].outcome # "open" =>
            worker[v].outcome # "result_saved"
      BY <3>1 DEF HearInv, Hears
    <3> QED
      BY <2>1, <2>2, <3>1, <3>2, <3>3
  <2> QED
    BY <2>3, <2>4 DEF Hears
<1> QED
  BY <1>1, <1>2

(* Every step keeps what was told heard.                                   *)
LEMMA NextHearInv == TypeOK /\ RowInv /\ WriterInv /\ HearInv /\ [Next]_vars => HearInv'
<1> SUFFICES ASSUME TypeOK, RowInv, WriterInv, HearInv, [Next]_vars, NEW r \in Requests
             PROVE  Hears(r)'
  BY DEF HearInv
<1>0. Hears(r)
  BY DEF HearInv
<1>1. CASE \E w \in Workers, q \in Requests, t \in Clock : Start(w, q, t)
  BY <1>1, StartHears
<1>2. CASE \E w \in Workers : WorkerStep(w)
  BY <1>2, ThreadHears
<1>3. CASE \E q \in Requests : Cancel(q)
  BY <1>3, CancelHears
<1>4. CASE Crash
  <2>1. UNCHANGED <<row, told>> /\ \A w \in Workers : worker'[w].req # r
    BY <1>4, RequestsAssumption DEF Crash, Idle
  <2> QED
    BY <1>0, <2>1 DEF Hears
<1>5. CASE /\ ~\E w \in Workers, q \in Requests, t \in Clock : Start(w, q, t)
           /\ ~\E w \in Workers : WorkerStep(w)
           /\ ~\E q \in Requests : Cancel(q)
           /\ ~Crash
  <2>1. UNCHANGED <<worker, told>>
    BY <1>5 DEF Next, vars, Operator, Publisher, Receive, Approve, Deny, MarkPublished,
                MarkNotificationPending, Acknowledge, ExpireDue, SetPaused, BrokerStart,
                BrokerStop, Tick
  <2>2. \A w \in Workers : ~SaveResult(w)
    BY <1>5 DEF WorkerStep
  <2> QED
    BY <1>0, <1>5, <2>1, <2>2, CalmHears
<1> QED
  BY <1>1, <1>2, <1>3, <1>4, <1>5

(* A cancel accepted while the handler runs keeps that run from ever       *)
(* leaving a result, with any number of threads, crashes and restarts.     *)
THEOREM CancelHeard == Spec => []CancelIsHeard
<1>1. HearInv => CancelIsHeard
  BY DEF HearInv, Hears, CancelIsHeard
<1> QED
  BY <1>1, InitHearInv, NextHearInv, InitWriterInv, NextWriterInv, TypeCorrect,
     RowInvariant, PTL DEF Spec

-----------------------------------------------------------------------------
(* The shape of a step: it inserts one row into a queue with room, or it   *)
(* rewrites one existing row, or it is a sweep or a recovery, which may    *)
(* touch many rows but inserts none.                                       *)
Insertion ==
    \E q \in Requests :
      /\ State(q) = "absent" /\ PendingCount < QueueLimit
      /\ \A r \in Requests \ {q} : Stays(r)

Rewrite ==
    \E q \in Requests :
      /\ State(q) # "absent"
      /\ \A r \in Requests \ {q} : Stays(r)

Sweep ==
    /\ UNCHANGED effects
    /\ \A r \in Requests :
         \/ Stays(r)
         \/ Retried(r)
         \/ State(r) \in Unstarted \cup {"running"} /\ State(r)' \in Terminal

(* Every step of the broker inserts one row, rewrites one row, or sweeps   *)
(* the table.                                                              *)
LEMMA NextShape == TypeOK /\ [Next]_vars => Insertion \/ Rewrite \/ Sweep
<1> SUFFICES ASSUME TypeOK, [Next]_vars PROVE Insertion \/ Rewrite \/ Sweep
  OBVIOUS
<1>a. row \in [Requests -> RowType]
  BY DEF TypeOK
<1>b. ASSUME UNCHANGED <<row, effects>> PROVE Sweep
  BY <1>b DEF Sweep, Stays
<1>c. ASSUME NEW q \in Requests, NEW x, State(q) # "absent",
             row' = [row EXCEPT ![q] = x], UNCHANGED effects
      PROVE  Rewrite
  BY <1>a, <1>c DEF Rewrite, Stays
<1>d. ASSUME NEW q \in Requests, NEW s, State(q) # "absent", SetState(q, s),
             UNCHANGED effects
      PROVE  Rewrite
  BY <1>d, StateWriteMoves DEF Rewrite
<1>1. ASSUME NEW q \in Requests, NEW d \in Digests,
             NEW action \in {"allow", "confirm", "deny"}, NEW t \in Clock,
             Receive(q, d, action, t)
      PROVE  Insertion \/ Rewrite \/ Sweep
  <2>1. CASE Admit(q, d, action)
    <3>1. \A r \in Requests \ {q} : Stays(r)
      BY <1>1, <1>a, <2>1 DEF Receive, Admit, Stays
    <3>2. QED
      BY <2>1, <3>1 DEF Insertion, Admit, QueueHasRoom
  <2>2. CASE Duplicate(q, d)
    BY <1>1, <1>b, <2>2 DEF Receive, Duplicate
  <2>3. CASE Collide(q, d)
    BY <1>1, <1>d, <2>3 DEF Receive, Collide
  <2>4. QED
    BY <1>1, <2>1, <2>2, <2>3 DEF Receive
<1>2. ASSUME NEW q \in Requests, NEW t \in Clock, Approve(q, t) PROVE Rewrite
  BY <1>2, <1>d DEF Approve
<1>3. ASSUME NEW q \in Requests, Deny(q) PROVE Rewrite
  BY <1>3, <1>d DEF Deny, Unstarted
<1>4. ASSUME NEW q \in Requests, Cancel(q) PROVE Rewrite
  <2>1. State(q) # "absent"
    BY <1>4 DEF Cancel, Pending, Unstarted, Completed
  <2>2. CASE State(q) = "running"
    BY <1>4, <1>a, <2>1, <2>2 DEF Cancel, Rewrite, Stays
  <2>3. CASE State(q) # "running"
    BY <1>4, <1>d, <2>1, <2>3 DEF Cancel
  <2>4. QED
    BY <2>2, <2>3
<1>5. ASSUME NEW q \in Requests, NEW ref \in Refs, MarkPublished(q, ref) PROVE Rewrite
  BY <1>5, <1>a DEF MarkPublished, Publishable, Rewrite, Stays
<1>6. ASSUME NEW q \in Requests, MarkNotificationPending(q) PROVE Rewrite
  BY <1>6, <1>d DEF MarkNotificationPending
<1>7. ASSUME NEW q \in Requests, Acknowledge(q) PROVE Rewrite
  BY <1>7, <1>d DEF Acknowledge
<1>8. ASSUME NEW t \in Clock, ExpireDue(t) PROVE Sweep
  <2>1. ASSUME NEW r \in Requests
        PROVE  Stays(r) \/ (State(r) \in Unstarted /\ row'[r].state \in Terminal)
    BY <1>8, <1>a DEF ExpireDue, Stays, Terminal, RowType, Columns
  <2>2. QED
    BY <1>8, <2>1 DEF ExpireDue, Sweep, State
<1>9. ASSUME NEW w \in Workers, NEW q \in Requests, NEW t \in Clock, Start(w, q, t)
      PROVE  Rewrite
  BY <1>9, <1>a DEF Start, Rewrite, Stays, TypeOK
<1>10. ASSUME NEW w \in Workers, WorkerStep(w) PROVE Rewrite \/ Sweep
  <2>1. CASE SaveResult(w) /\ State(worker[w].req) = "running"
    <3>1. PICK q \in Requests : q = worker[w].req
      BY <2>1 DEF SaveResult, Busy, TypeOK, WorkerType
    <3>2. \A r \in Requests \ {q} : Stays(r)
      BY <2>1, <1>a, <3>1 DEF SaveResult, Stays
    <3>3. QED
      BY <2>1, <3>1, <3>2 DEF Rewrite
  <2>2. CASE UNCHANGED <<row, effects>>
    BY <1>b, <2>2
  <2>3. QED
    BY <1>10, <2>1, <2>2
       DEF WorkerStep, HandlerReturns, HandlerFails, RunAbandoned, SaveResult
<1>11. ASSUME NEW reg \in Registries, BrokerStart(reg) PROVE Sweep
  <2>1. ASSUME NEW r \in Requests
        PROVE  Stays(r) \/ Retried(r) \/ (State(r) = "running" /\ row'[r].state \in Terminal)
    <3>1. row[r] \in RowType
      BY <1>a
    <3>2. CASE State(r) # "running"
      BY <1>11, <3>2 DEF BrokerStart, RecoverRunning, Stays
    <3>3. CASE State(r) = "running" /\ MayRetry(r, reg)
      BY <1>11, <3>1, <3>3
         DEF BrokerStart, RecoverRunning, MayRetry, Retried, Keeps, State, RowType, Columns
    <3>4. CASE State(r) = "running" /\ ~MayRetry(r, reg)
      BY <1>11, <3>1, <3>4 DEF BrokerStart, RecoverRunning, Terminal, RowType, Columns
    <3>5. QED
      BY <3>2, <3>3, <3>4
  <2>2. QED
    BY <1>11, <2>1 DEF BrokerStart, Sweep, State
<1>12. QED
  BY <1>1, <1>2, <1>3, <1>4, <1>5, <1>6, <1>7, <1>8, <1>9, <1>10, <1>11, <1>b
     DEF Next, vars, Operator, Publisher, SetPaused, BrokerStop, Crash, Tick

(* Only finitely many requests are pending.                                *)
LEMMA PendingFinite == IsFiniteSet(PendingRequests)
BY RequestsAssumption, FS_Subset DEF PendingRequests

(* No step takes the number of pending requests past queue_limit: an       *)
(* insertion checks it, and nothing else brings a request into the queue.  *)
LEMMA NextPendingBound == TypeOK /\ PendingBound /\ [Next]_vars => PendingBound'
<1> SUFFICES ASSUME TypeOK, PendingBound, [Next]_vars PROVE PendingBound'
  OBVIOUS
<1>1. \A r \in Requests : RowMove(r)
  BY NextMoves
<1>2. PendingCount \in Nat
  BY PendingFinite, FS_CardinalityType DEF PendingCount
<1>3. ASSUME NEW r \in Requests, State(r) # "absent", State(r)' \in Pending
      PROVE  State(r) \in Pending
  BY <1>1, <1>3
     DEF RowMove, Stays, Marked, Inserted, Approved, Started, Saved, Retried,
         Published, Notified, Settled, State, Pending, Unstarted, Completed
<1>4. ASSUME PendingRequests' \subseteq PendingRequests PROVE PendingBound'
  <2>1. PendingCount' <= PendingCount
    BY <1>4, PendingFinite, FS_Subset DEF PendingCount
  <2>2. PendingCount' \in Nat
    BY <1>4, PendingFinite, FS_Subset, FS_CardinalityType DEF PendingCount
  <2>3. QED
    BY <1>2, <2>1, <2>2, BoundsAssumption DEF PendingBound
<1>5. CASE Insertion
  <2>1. PICK q \in Requests : /\ State(q) = "absent" /\ PendingCount < QueueLimit
                              /\ \A r \in Requests \ {q} : Stays(r)
    BY <1>5 DEF Insertion
  <2>2. PendingRequests' \subseteq PendingRequests \cup {q}
    BY <2>1 DEF PendingRequests, Stays, State
  <2>3. q \notin PendingRequests
    BY <2>1 DEF PendingRequests, Pending, Unstarted, Completed
  <2>4. /\ IsFiniteSet(PendingRequests \cup {q})
        /\ Cardinality(PendingRequests \cup {q}) = PendingCount + 1
    BY <2>3, PendingFinite, FS_AddElement DEF PendingCount
  <2>5. /\ PendingCount' <= PendingCount + 1
        /\ PendingCount' \in Nat
    BY <2>2, <2>4, FS_Subset, FS_CardinalityType DEF PendingCount
  <2>6. QED
    BY <1>2, <2>1, <2>5, BoundsAssumption DEF PendingBound
<1>6. CASE Rewrite
  <2>1. PICK q \in Requests : /\ State(q) # "absent"
                              /\ \A r \in Requests \ {q} : Stays(r)
    BY <1>6 DEF Rewrite
  <2>2. PendingRequests' \subseteq PendingRequests
    BY <1>3, <2>1 DEF PendingRequests, Stays, State
  <2>3. QED
    BY <1>4, <2>2
<1>7. CASE Sweep
  <2>1. PendingRequests' \subseteq PendingRequests
    BY <1>7
       DEF Sweep, PendingRequests, Stays, Retried, State, Pending, Terminal,
           Unstarted, Completed
  <2>2. QED
    BY <1>4, <2>1
<1>8. QED
  BY <1>5, <1>6, <1>7, NextShape

(* The queue never holds more than queue_limit requests, for any limit.    *)
THEOREM QueueIsBounded == Spec => []PendingBound
<1>1. Init => PendingBound
  <2> SUFFICES ASSUME Init PROVE PendingBound
    OBVIOUS
  <2>1. PendingRequests = {}
    BY DEF Init, PendingRequests, State, NoRow, Pending, Unstarted, Completed
  <2>2. QED
    BY <2>1, FS_EmptySet, BoundsAssumption DEF PendingBound, PendingCount
<1>2. QED
  BY <1>1, NextPendingBound, TypeCorrect, PTL DEF Spec

-----------------------------------------------------------------------------
(* The journal implements the life cycle of module RequestLifecycle.       *)

phase == [r \in Requests |-> Phase(State(r))]

(* The abstract phase of each state of the journal.                        *)
LEMMA PhaseOf ==
    /\ Phase("absent") = "unknown"
    /\ \A s \in Unstarted : Phase(s) = "waiting"
    /\ Phase("running") = "executing"
    /\ Phase("result_saved") = "recorded"
    /\ \A s \in {"published", "notification_pending"} : Phase(s) = "announced"
    /\ \A s \in Terminal : Phase(s) = "closed"
BY DEF Phase, Unstarted, Terminal

(* One row moves as the life cycle of its request allows.                  *)
LEMMA RowRefines ==
    ASSUME TypeOK, TypeOK', RowInv, NEW q \in Requests, RowMove(q), ~Retried(q),
           \A r \in Requests \ {q} : Stays(r)
    PROVE  Lifecycle!Next \/ UNCHANGED <<phase, effects>>
<1> DEFINE Goes(from, to) == phase[q] \in from /\ phase' = [phase EXCEPT ![q] = to]
<1>1. \A r \in Requests \ {q} : phase'[r] = phase[r] /\ effects'[r] = effects[r]
  BY DEF phase, Stays, State
<1>2. phase[q] = Phase(State(q)) /\ phase'[q] = Phase(State(q)')
  BY DEF phase
<1>3. ASSUME effects'[q] = effects[q] PROVE effects' = effects
  BY <1>1, <1>3 DEF TypeOK
<1>4. ASSUME NEW from, NEW to, phase[q] \in from, phase'[q] = to PROVE Goes(from, to)
  BY <1>1, <1>4 DEF phase
<1>5. ASSUME phase'[q] = phase[q] PROVE phase' = phase
  BY <1>1, <1>5 DEF phase
<1> HIDE DEF Goes
<1> USE PhaseOf DEF Keeps
<1>6. CASE Stays(q)
  BY <1>2, <1>3, <1>5, <1>6 DEF Stays, State
<1>7. CASE Marked(q) \/ Approved(q) \/ Notified(q)
  BY <1>2, <1>3, <1>5, <1>7 DEF Marked, Approved, Notified, Unstarted
<1>8. CASE Inserted(q)
  <2>1. \E to \in {"waiting", "closed"} : Goes({"unknown"}, to)
    BY <1>2, <1>4, <1>8 DEF Inserted, Unstarted, Terminal
  <2>2. Lifecycle!Admit(q)
    BY <1>3, <1>8, <2>1 DEF Inserted, Goes, Lifecycle!Admit, Lifecycle!Move, phase
  <2>3. QED
    BY <2>2 DEF Lifecycle!Next
<1>9. CASE Started(q)
  <2>1. Goes({"waiting"}, "executing")
    BY <1>2, <1>4, <1>9 DEF Started, Unstarted
  <2>2. effects[q] = 0
    BY <1>9 DEF Started, RowInv, Consistent, Unstarted
  <2>3. effects' = effects \/ effects' = [effects EXCEPT ![q] = 1]
    BY <1>1, <1>9, <2>2 DEF Started, TypeOK
  <2>4. Lifecycle!Execute(q)
    BY <2>1, <2>2, <2>3 DEF Goes, Lifecycle!Execute, Lifecycle!Move, phase
  <2>5. QED
    BY <2>4 DEF Lifecycle!Next
<1>10. CASE Saved(q)
  <2>1. effects' = effects
    BY <1>3, <1>10 DEF Saved
  <2>2. \/ Goes({"executing"}, "recorded")
        \/ Goes({"waiting", "executing", "recorded", "announced"}, "closed")
    BY <1>2, <1>4, <1>10 DEF Saved, Terminal
  <2>3. Lifecycle!Record(q) \/ Lifecycle!Close(q)
    BY <2>1, <2>2 DEF Goes, Lifecycle!Record, Lifecycle!Close, Lifecycle!Move, phase
  <2>4. QED
    BY <2>3 DEF Lifecycle!Next
<1>11. CASE Published(q)
  <2>1. effects' = effects
    BY <1>3, <1>11 DEF Published
  <2>2. phase'[q] = phase[q] \/ Goes({"recorded"}, "announced")
    BY <1>2, <1>4, <1>11 DEF Published
  <2>3. phase' = phase \/ Lifecycle!Announce(q)
    BY <1>5, <2>1, <2>2 DEF Goes, Lifecycle!Announce, Lifecycle!Move, phase
  <2>4. QED
    BY <2>1, <2>3 DEF Lifecycle!Next
<1>12. CASE Settled(q)
  <2>1. effects' = effects
    BY <1>3, <1>12 DEF Settled
  <2>2. State(q) \in (Pending \cup Terminal) /\ State(q)' \in Terminal
    BY <1>12 DEF Settled, TypeOK, RowType, Columns, States, State, Pending,
                 Unstarted, Completed, Terminal
  <2>3. \/ phase'[q] = phase[q]
        \/ Goes({"waiting", "executing", "recorded", "announced"}, "closed")
    BY <1>2, <1>4, <2>2 DEF Pending, Completed
  <2>4. phase' = phase \/ Lifecycle!Close(q)
    BY <1>5, <2>1, <2>3 DEF Goes, Lifecycle!Close, Lifecycle!Move, phase
  <2>5. QED
    BY <2>1, <2>4 DEF Lifecycle!Next
<1>13. QED
  BY <1>6, <1>7, <1>8, <1>9, <1>10, <1>11, <1>12 DEF RowMove

(* A sweep or a recovery resolves many requests at once.                   *)
LEMMA SweepRefines ==
    ASSUME TypeOK, TypeOK', RowInv, Sweep
    PROVE  Lifecycle!Next
<1>1. phase' \in [Requests -> Lifecycle!Phases]
  <2>1. ASSUME NEW s \in States PROVE Phase(s) \in Lifecycle!Phases
    BY PhaseOf DEF States, Pending, Completed, Lifecycle!Phases
  <2>2. \A r \in Requests : State(r)' \in States
    BY DEF TypeOK, RowType, Columns, State
  <2>3. QED
    BY <2>1, <2>2 DEF phase
<1>2. ASSUME NEW r \in Requests
      PROVE  \/ phase'[r] = phase[r]
             \/ phase[r] \in {"executing", "waiting"} /\ phase'[r] = "closed"
             \/ phase[r] = "executing" /\ effects[r] = 0 /\ phase'[r] = "waiting"
  <2>1. phase[r] = Phase(State(r)) /\ phase'[r] = Phase(State(r)')
    BY DEF phase
  <2>2. CASE Stays(r)
    BY <2>1, <2>2 DEF Stays, State
  <2>3. CASE Retried(r)
    BY <2>1, <2>3, PhaseOf DEF Retried, RowInv, Consistent, Unstarted
  <2>4. CASE State(r) \in Unstarted \cup {"running"} /\ State(r)' \in Terminal
    BY <2>1, <2>4, PhaseOf
  <2>5. QED
    BY <2>2, <2>3, <2>4 DEF Sweep
<1>3. Lifecycle!Resolve
  BY <1>1, <1>2 DEF Lifecycle!Resolve, Sweep, phase
<1>4. QED
  BY <1>3 DEF Lifecycle!Next

(* Every step of the broker is a step of the life cycle or leaves it       *)
(* alone.                                                                  *)
LEMMA NextRefines ==
    TypeOK /\ TypeOK' /\ RowInv /\ [Next]_vars => [Lifecycle!Next]_(Lifecycle!vars)
<1> SUFFICES ASSUME TypeOK, TypeOK', RowInv, [Next]_vars
             PROVE  Lifecycle!Next \/ UNCHANGED <<phase, effects>>
  BY DEF Lifecycle!vars, phase
<1>1. CASE Sweep
  BY <1>1, SweepRefines
<1>2. CASE Insertion \/ Rewrite
  <2>1. PICK q \in Requests : \A r \in Requests \ {q} : Stays(r)
    BY <1>2 DEF Insertion, Rewrite
  <2>2. RowMove(q)
    BY NextMoves
  <2>3. CASE Retried(q)
    <3>1. Sweep
      BY <2>1, <2>3 DEF Sweep, Stays, Retried, Keeps, TypeOK
    <3>2. QED
      BY <3>1, SweepRefines
  <2>4. CASE ~Retried(q)
    BY <2>1, <2>2, <2>4, RowRefines
  <2>5. QED
    BY <2>3, <2>4
<1>3. QED
  BY <1>1, <1>2, NextShape

(* Every behaviour of the broker is, request by request, a behaviour of    *)
(* the abstract life cycle.                                                *)
THEOREM ImplementsLifecycle == Spec => LifecycleSpec
<1>1. Init => Lifecycle!Init
  BY PhaseOf DEF Init, Lifecycle!Init, NoRow, State
<1>2. TypeOK /\ TypeOK' /\ RowInv /\ [Next]_vars => [Lifecycle!Next]_(Lifecycle!vars)
  BY NextRefines
<1>3. QED
  BY <1>1, <1>2, TypeCorrect, RowInvariant, PTL DEF Spec, LifecycleSpec, Lifecycle!Spec

-----------------------------------------------------------------------------
(*                                 Control                                 *)
-----------------------------------------------------------------------------
(* The authority's own state.                                              *)

AuthTypes ==
    /\ enrollment \in Enrollments
    /\ target \in [Requests -> Targets]
    /\ binding \in [Requests -> BindingType \cup {NoBinding}]
    /\ approval \in [Requests -> Nat]
    /\ review \in [Operators -> PreviewType]
    /\ \A o \in Operators : review[o] # NoPreview => review[o].req \in Requests
    /\ dispatching \in [Workers -> Requests \cup {NoRequest}]
    /\ consent \in [Requests -> ConsentType \cup {NoConsent}]

(* What is stored of a request is what a human saw: an approval belongs to *)
(* the binding of its admission, and there is one exactly where the policy *)
(* asked for it.                                                           *)
Backed(r) ==
    /\ State(r) = "absent" => approval[r] = 0
    /\ State(r) # "absent" => binding[r] \in BindingType
    /\ approval[r] # 0 =>
         /\ consent[r] \in ConsentType
         /\ consent[r].enrollment = binding[r].enrollment
         /\ consent[r].target = binding[r].target
         /\ consent[r].digest = row[r].digest
         /\ approval[r] <= consent[r].at + Lifetime
    /\ State(r) \in {"ready", "running"} /\ Grant[binding[r].enrollment][row[r].digest] = "confirm"
         => approval[r] # 0
    /\ State(r) \in {"awaiting_approval", "rejected"} => approval[r] = 0

Inv == TypeOK /\ AuthTypes /\ \A r \in Requests : Backed(r)

LEMMA ControlInitInv == ControlInit => Inv
<1> SUFFICES ASSUME ControlInit PROVE Inv
  OBVIOUS
<1>1. TypeOK
  BY InitType DEF ControlInit
<1>2. AuthTypes
  BY DEF ControlInit, AuthTypes, NoPreview, PreviewType, States
<1>3. ASSUME NEW r \in Requests PROVE Backed(r)
  BY DEF ControlInit, Init, NoRow, State, Backed
<1> QED
  BY <1>1, <1>2, <1>3 DEF Inv

-----------------------------------------------------------------------------
(* The journal's part of a step.                                           *)

LEMMA EvaluateType ==
    ASSUME NEW e \in Enrollments, NEW r \in Requests, NEW d \in Digests, NEW ok \in BOOLEAN
    PROVE  Evaluate(e, r, d, ok) \in {"allow", "confirm", "deny"}
  BY EnrollmentAssumption DEF Evaluate, Actions

LEMMA NowIsFresh == ASSUME TypeOK PROVE now \in Clock
  BY BoundsAssumption DEF TypeOK, Clock

(* Every step of the service is a step of the journal, or none.            *)
LEMMA JournalStep == Inv /\ [ControlNext]_controlVars => [Next]_vars
<1> SUFFICES ASSUME Inv, [ControlNext]_controlVars PROVE [Next]_vars
  OBVIOUS
<1>1. CASE UNCHANGED controlVars
  BY <1>1 DEF controlVars
<1>2. ASSUME NEW r \in Requests, NEW d \in Digests, NEW ok \in BOOLEAN, NEW t \in Clock,
             ServiceAdmit(r, d, ok, t)
      PROVE  Next
  <2>1. Evaluate(enrollment, r, d, ok) \in {"allow", "confirm", "deny"}
    BY EvaluateType DEF Inv, AuthTypes
  <2> QED
    BY <1>2, <2>1 DEF ServiceAdmit, Next, Operator
<1>3. ASSUME NEW o \in Operators, ServiceApprove(o)
      PROVE  Next
  <2>1. Approve(review[o].req, now) /\ review[o].req \in Requests /\ now \in Clock
    BY <1>3, NowIsFresh DEF ServiceApprove, Inv, AuthTypes
  <2> QED
    BY <2>1 DEF Next, Operator
<1>4. ASSUME NEW r \in Requests, ServiceDeny(r)
      PROVE  Next
  BY <1>4 DEF ServiceDeny, Next, Operator
<1>5. ASSUME NEW w \in Workers, NEW r \in Requests, NEW t \in Clock, DispatchSweep(w, r, t)
      PROVE  Next
  BY <1>5 DEF DispatchSweep, Next
<1>6. ASSUME NEW w \in Workers, NEW t \in Clock, DispatchStart(w, t)
      PROVE  Next
  <2>1. Start(w, dispatching[w], t) /\ dispatching[w] \in Requests
    BY <1>6 DEF DispatchStart, Inv, AuthTypes
  <2> QED
    BY <2>1 DEF Next
<1>7. CASE BrokerProcess
  BY <1>7 DEF BrokerProcess, Next, Operator
<1>8. ASSUME \/ \E o \in Operators, r \in Requests : ServicePreview(o, r)
             \/ \E o \in Operators : ReviewEnds(o)
             \/ \E w \in Workers : DispatchRefused(w)
             \/ \E e \in Enrollments : EnrollmentChanges(e)
             \/ \E r \in Requests, s \in Targets : TargetChanges(r, s)
      PROVE  UNCHANGED vars
  BY <1>8 DEF ServicePreview, ReviewEnds, DispatchRefused, EnrollmentChanges, TargetChanges
<1> QED
  BY <1>1, <1>2, <1>3, <1>4, <1>5, <1>6, <1>7, <1>8 DEF ControlNext

(* A step of the journal that neither admits, approves, denies nor starts  *)
(* the request: it runs, waits or is ready only if it did so before, or    *)
(* was recovered.                                                          *)
Quiet(r) ==
    /\ row'[r].digest = row[r].digest
    /\ State(r)' = "absent" <=> State(r) = "absent"
    /\ State(r)' = "ready" => State(r) \in {"ready", "running"}
    /\ \A s \in {"running", "awaiting_approval", "rejected"} : State(r)' = s => State(r) = s

LEMMA SetStateRow ==
    ASSUME TypeOK, NEW q \in Requests, NEW s, SetState(q, s)
    PROVE  /\ State(q)' = s /\ row'[q].digest = row[q].digest
           /\ \A r \in Requests : r # q => row'[r] = row[r]
<1>1. row \in [Requests -> RowType] /\ row[q] \in RowType
  BY DEF TypeOK
<1> QED
  BY <1>1 DEF SetState, State, RowType, Columns

LEMMA QuietRow == ASSUME NEW r \in Requests, row'[r] = row[r] PROVE Quiet(r)
  BY DEF Quiet, State

LEMMA QuietSet ==
    ASSUME TypeOK, NEW q \in Requests, State(q) # "absent", NEW s, SetState(q, s),
           s \notin {"absent", "ready", "running", "awaiting_approval", "rejected"},
           NEW r \in Requests
    PROVE  Quiet(r)
  BY SetStateRow, QuietRow DEF Quiet, State

LEMMA SweepQuiet ==
    ASSUME TypeOK, NEW t, ExpireDue(t), NEW r \in Requests
    PROVE  Quiet(r)
<1>1. row \in [Requests -> RowType] /\ row[r] \in RowType
  BY DEF TypeOK
<1>2. CASE row'[r] = row[r]
  BY <1>2, QuietRow
<1>3. CASE State(r) \in Unstarted /\ row'[r] = [row[r] EXCEPT !.state = "expired"]
  BY <1>1, <1>3 DEF Quiet, State, RowType, Columns, Unstarted
<1> QED
  BY <1>2, <1>3 DEF ExpireDue

LEMMA RecoveryQuiet ==
    ASSUME TypeOK, NEW reg, BrokerStart(reg), NEW r \in Requests
    PROVE  Quiet(r)
<1>1. row \in [Requests -> RowType] /\ row[r] \in RowType
  BY DEF TypeOK
<1>2. CASE row'[r] = row[r]
  BY <1>2, QuietRow
<1>3. CASE /\ State(r) = "running"
           /\ \/ row'[r] = [row[r] EXCEPT !.state = "ready", !.attempt = 0]
              \/ row'[r] = [row[r] EXCEPT !.state = "indeterminate"]
  BY <1>1, <1>3 DEF Quiet, State, RowType, Columns
<1> QED
  BY <1>2, <1>3 DEF BrokerStart, RecoverRunning

LEMMA CancelQuiet ==
    ASSUME TypeOK, NEW q \in Requests, Cancel(q), NEW r \in Requests
    PROVE  Quiet(r)
<1>1. row \in [Requests -> RowType] /\ row[r] \in RowType
  BY DEF TypeOK
<1>2. CASE State(q) = "running" /\ row' = [row EXCEPT ![q].cancel_requested = TRUE]
  BY <1>1, <1>2 DEF Quiet, State, RowType, Columns
<1>3. CASE State(q) \in Pending /\ SetState(q, "cancelled")
  <2>1. State(q) # "absent"
    BY <1>3 DEF Pending, Unstarted, Completed
  <2> QED
    BY <1>3, <2>1, QuietSet
<1> QED
  BY <1>2, <1>3 DEF Cancel

LEMMA PublisherQuiet ==
    ASSUME TypeOK, NEW q \in Requests, Publisher(q), NEW r \in Requests
    PROVE  Quiet(r)
<1>1. row \in [Requests -> RowType] /\ row[r] \in RowType
  BY DEF TypeOK
<1>2. ASSUME NEW ref \in Refs, MarkPublished(q, ref) PROVE Quiet(r)
  BY <1>1, <1>2 DEF MarkPublished, Publishable, Quiet, State, RowType, Columns
<1>3. CASE MarkNotificationPending(q)
  BY <1>3, QuietSet DEF MarkNotificationPending
<1>4. CASE Acknowledge(q)
  BY <1>4, QuietSet DEF Acknowledge
<1> QED
  BY <1>2, <1>3, <1>4 DEF Publisher

LEMMA WorkerQuiet ==
    ASSUME TypeOK, NEW w \in Workers, WorkerStep(w), NEW r \in Requests
    PROVE  Quiet(r)
<1>1. row \in [Requests -> RowType] /\ row[r] \in RowType /\ worker[w] \in WorkerType
  BY DEF TypeOK
<1>2. CASE row' = row
  BY <1>2, QuietRow
<1>3. CASE SaveResult(w) /\ row' # row
  <2> DEFINE q == worker[w].req
             s == worker[w].outcome
  <2>1. /\ State(q) = "running" /\ s \in {"result_saved", "cancelled", "failed"} /\ q \in Requests
        /\ row' = [row EXCEPT ![q].state = s, ![q].result = ResultOf(s)]
    BY <1>1, <1>3 DEF SaveResult, WorkerType, Outcomes, Busy
  <2> HIDE DEF q, s
  <2> QED
    BY <1>1, <2>1 DEF Quiet, State, RowType, Columns
<1> QED
  BY <1>2, <1>3 DEF WorkerStep, HandlerReturns, HandlerFails, RunAbandoned

LEMMA BrokerProcessQuiet ==
    ASSUME TypeOK, BrokerProcess, NEW r \in Requests
    PROVE  Quiet(r) /\ UNCHANGED <<enrollment, target, binding, approval, review, consent>>
<1>1. CASE row' = row
  BY <1>1, QuietRow DEF BrokerProcess, authVars
<1>2. CASE row' # row
  <2>1. \/ \E w \in Workers : WorkerStep(w)
        \/ \E reg \in Registries : BrokerStart(reg)
        \/ \E q \in Requests : Cancel(q) \/ Publisher(q)
    BY <1>2 DEF BrokerProcess, SetPaused, Tick, BrokerStop, Crash
  <2>2. UNCHANGED <<enrollment, target, binding, approval, review, consent>>
    BY DEF BrokerProcess, authVars
  <2> QED
    BY <2>1, <2>2, WorkerQuiet, RecoveryQuiet, CancelQuiet, PublisherQuiet
<1> QED
  BY <1>1, <1>2

-----------------------------------------------------------------------------
(* The invariant is kept.                                                  *)

LEMMA BackedQuiet ==
    ASSUME NEW r \in Requests, Backed(r), Quiet(r),
           binding'[r] = binding[r], approval'[r] = approval[r], consent'[r] = consent[r]
    PROVE  Backed(r)'
  BY DEF Backed, Quiet, State

LEMMA AdmitKeeps ==
    ASSUME Inv, NEW q \in Requests, NEW d \in Digests, NEW ok \in BOOLEAN, NEW t \in Clock,
           ServiceAdmit(q, d, ok, t)
    PROVE  AuthTypes' /\ \A r \in Requests : Backed(r)'
<1> DEFINE a == Evaluate(enrollment, q, d, ok)
<1>0. /\ UNCHANGED <<enrollment, target, approval, review, dispatching, consent>>
      /\ row \in [Requests -> RowType] /\ binding \in [Requests -> BindingType \cup {NoBinding}]
      /\ enrollment \in Enrollments /\ target \in [Requests -> Targets] /\ Backed(q)
  BY DEF ServiceAdmit, Inv, AuthTypes, TypeOK
<1>1. a \in {"allow", "confirm", "deny"} /\ (a = "allow" => Grant[enrollment][d] = "allow")
  BY <1>0, EvaluateType DEF Evaluate
<1> HIDE DEF a
<1>2. CASE State(q) = "absent"
  <2> DEFINE s == CASE a = "deny" -> "rejected" [] a = "confirm" -> "awaiting_approval"
                    [] a = "allow" -> "ready"
             b == [enrollment |-> enrollment, target |-> target[q]]
  <2>1. row' = [row EXCEPT ![q] = [NoRow EXCEPT !.digest = d, !.state = s]]
        /\ binding' = [binding EXCEPT ![q] = b]
    BY <1>2 DEF ServiceAdmit, Receive, Admit, Duplicate, Collide, a
  <2>2. /\ b \in BindingType /\ b.enrollment = enrollment
        /\ binding'[q] = b /\ \A r \in Requests : r # q => binding'[r] = binding[r]
        /\ binding' \in [Requests -> BindingType \cup {NoBinding}]
    BY <1>0, <2>1 DEF BindingType
  <2>3. s \in {"rejected", "awaiting_approval", "ready"} /\ (s = "ready" => a = "allow")
    BY <1>1
  <2> HIDE DEF s, b
  <2>4. /\ row'[q].state = s /\ row'[q].digest = d /\ \A r \in Requests : r # q => row'[r] = row[r]
    BY <1>0, <2>1 DEF NoRow
  <2>5. AuthTypes'
    BY <1>0, <2>2 DEF Inv, AuthTypes
  <2>6. Backed(q)'
    BY <1>0, <1>1, <1>2, <2>2, <2>3, <2>4 DEF Backed, State
  <2>7. ASSUME NEW r \in Requests, r # q PROVE Backed(r)'
    BY <1>0, <2>2, <2>4, <2>7, QuietRow, BackedQuiet DEF Inv
  <2> QED
    BY <2>5, <2>6, <2>7
<1>3. CASE State(q) # "absent"
  <2>1. binding' = binding /\ (row' = row \/ SetState(q, "quarantined"))
    BY <1>3 DEF ServiceAdmit, Receive, Admit, Duplicate, Collide
  <2>2. AuthTypes'
    BY <1>0, <2>1 DEF Inv, AuthTypes
  <2>3. ASSUME NEW r \in Requests PROVE Quiet(r)
    BY <1>3, <2>1, QuietRow, QuietSet DEF Inv
  <2> QED
    BY <1>0, <2>1, <2>2, <2>3, BackedQuiet DEF Inv
<1> QED
  BY <1>2, <1>3

(* What an operator confirms is recorded as it is at that moment.          *)
LEMMA ApproveFacts ==
    ASSUME Inv, NEW o \in Operators, ServiceApprove(o)
    PROVE  \E q \in Requests, until \in Nat, c \in ConsentType :
             /\ Unchanged(q) /\ until # 0 /\ until <= c.at + Lifetime
             /\ c.enrollment = enrollment /\ c.target = target[q] /\ c.digest = row[q].digest
             /\ row'[q].state = "ready" /\ row'[q].digest = row[q].digest
             /\ \A r \in Requests : r # q => row'[r] = row[r]
             /\ State(q) = "awaiting_approval"
             /\ approval' = [approval EXCEPT ![q] = until]
             /\ consent' = [consent EXCEPT ![q] = c]
             /\ review' = [review EXCEPT ![o] = NoPreview]
             /\ UNCHANGED <<enrollment, target, binding, dispatching>>
<1>1. PICK q \in Requests : q = review[o].req
  BY DEF ServiceApprove, Inv, AuthTypes
<1> DEFINE until == Earlier(Expiry[row[q].digest], now + Lifetime)
           c == [enrollment |-> enrollment, target |-> target[q], digest |-> row[q].digest,
                 at |-> now]
<1>2. /\ Unchanged(q) /\ State(q) = "awaiting_approval" /\ SetState(q, "ready")
      /\ approval' = [approval EXCEPT ![q] = until] /\ consent' = [consent EXCEPT ![q] = c]
      /\ review' = [review EXCEPT ![o] = NoPreview]
      /\ UNCHANGED <<enrollment, target, binding, dispatching>>
  BY <1>1 DEF ServiceApprove, Approve
<1>3. row[q] \in RowType /\ row[q].digest \in Digests /\ now \in Nat
  BY <1>2 DEF Inv, TypeOK, RowType, Columns, State
<1>4. Expiry[row[q].digest] \in Nat /\ now < Expiry[row[q].digest]
  BY <1>2, <1>3, ContentAssumption DEF Unchanged
<1>5. until \in Nat /\ until # 0 /\ until <= now + Lifetime
  BY <1>3, <1>4, LifetimeAssumption DEF Earlier
<1>6. /\ c \in ConsentType /\ c.enrollment = enrollment /\ c.target = target[q]
      /\ c.digest = row[q].digest /\ c.at = now
  BY <1>3 DEF ConsentType, Inv, AuthTypes
<1>7. /\ row'[q].state = "ready" /\ row'[q].digest = row[q].digest
      /\ \A r \in Requests : r # q => row'[r] = row[r]
  BY <1>2, SetStateRow DEF Inv, State
<1> HIDE DEF until, c
<1> QED
  BY <1>2, <1>5, <1>6, <1>7

LEMMA ApproveKeeps ==
    ASSUME Inv, NEW o \in Operators, ServiceApprove(o)
    PROVE  AuthTypes' /\ \A r \in Requests : Backed(r)'
<1>1. PICK q \in Requests, until \in Nat, c \in ConsentType :
        /\ Unchanged(q) /\ until # 0 /\ until <= c.at + Lifetime
        /\ c.enrollment = enrollment /\ c.target = target[q] /\ c.digest = row[q].digest
        /\ row'[q].state = "ready" /\ row'[q].digest = row[q].digest
        /\ \A r \in Requests : r # q => row'[r] = row[r]
        /\ State(q) = "awaiting_approval"
        /\ approval' = [approval EXCEPT ![q] = until]
        /\ consent' = [consent EXCEPT ![q] = c]
        /\ review' = [review EXCEPT ![o] = NoPreview]
        /\ UNCHANGED <<enrollment, target, binding, dispatching>>
  BY ApproveFacts
<1>2. enrollment = binding[q].enrollment /\ target[q] = binding[q].target
      /\ binding[q] \in BindingType
  BY <1>1 DEF Unchanged, Inv, Backed
<1>3. AuthTypes'
  <2>1. approval' \in [Requests -> Nat] /\ consent' \in [Requests -> ConsentType \cup {NoConsent}]
    BY <1>1 DEF Inv, AuthTypes
  <2>2. NoPreview \in PreviewType
    BY DEF NoPreview, PreviewType, States
  <2>3. review' \in [Operators -> PreviewType]
        /\ \A p \in Operators : review'[p] # NoPreview => review'[p].req \in Requests
    BY <1>1, <2>2 DEF Inv, AuthTypes
  <2> QED
    BY <1>1, <2>1, <2>3 DEF Inv, AuthTypes
<1>4. approval'[q] = until /\ consent'[q] = c
      /\ \A r \in Requests : r # q => approval'[r] = approval[r] /\ consent'[r] = consent[r]
  BY <1>1 DEF Inv, AuthTypes
<1>5. Backed(q)'
  BY <1>1, <1>2, <1>4 DEF Backed, State
<1>6. ASSUME NEW r \in Requests, r # q PROVE Backed(r)'
  BY <1>1, <1>4, <1>6, QuietRow, BackedQuiet DEF Inv
<1> QED
  BY <1>3, <1>5, <1>6

LEMMA DenyKeeps ==
    ASSUME Inv, NEW q \in Requests, ServiceDeny(q)
    PROVE  AuthTypes' /\ \A r \in Requests : Backed(r)'
<1>1. /\ State(q) # "absent" /\ SetState(q, "rejected")
      /\ approval' = [approval EXCEPT ![q] = 0] /\ consent' = [consent EXCEPT ![q] = NoConsent]
      /\ UNCHANGED <<enrollment, target, binding, review, dispatching>>
  BY DEF ServiceDeny, Addressable, Deny
<1>2. AuthTypes'
  BY <1>1 DEF Inv, AuthTypes
<1>3. /\ State(q)' = "rejected" /\ row'[q].digest = row[q].digest
      /\ \A r \in Requests : r # q => row'[r] = row[r]
  BY <1>1, SetStateRow DEF Inv
<1>4. approval'[q] = 0
      /\ \A r \in Requests : r # q => approval'[r] = approval[r] /\ consent'[r] = consent[r]
  BY <1>1 DEF Inv, AuthTypes
<1>5. Backed(q)'
  BY <1>1, <1>3, <1>4 DEF Inv, Backed
<1>6. ASSUME NEW r \in Requests, r # q PROVE Backed(r)'
  BY <1>1, <1>3, <1>4, <1>6, QuietRow, BackedQuiet DEF Inv
<1> QED
  BY <1>2, <1>5, <1>6

(* A start changes the state of one request, which was ready.              *)
LEMMA StartRow ==
    ASSUME Inv, NEW w \in Workers, NEW t \in Clock, DispatchStart(w, t)
    PROVE  \E q \in Requests :
             /\ Authorised(q)
             /\ State(q) = "ready" /\ row'[q].state = "running" /\ row'[q].digest = row[q].digest
             /\ \A r \in Requests : r # q => row'[r] = row[r]
<1>1. PICK q \in Requests : q = dispatching[w]
  BY DEF DispatchStart, Inv, AuthTypes
<1>2. Authorised(q) /\ Start(w, q, t)
  BY <1>1 DEF DispatchStart
<1>3. State(q) = "ready"
      /\ row' = [row EXCEPT ![q].state = "running", ![q].attempt = attempts[q] + 1,
                            ![q].possible_effect = (Kind(q) = "mutating"),
                            ![q].cancel_requested = FALSE]
  BY <1>2 DEF Start
<1>4. row \in [Requests -> RowType] /\ row[q] \in RowType
  BY DEF Inv, TypeOK
<1>5. row'[q].state = "running" /\ row'[q].digest = row[q].digest
      /\ \A r \in Requests : r # q => row'[r] = row[r]
  BY <1>3, <1>4 DEF RowType, Columns
<1> QED
  BY <1>2, <1>3, <1>5

LEMMA DispatchKeeps ==
    ASSUME Inv, NEW w \in Workers, NEW t \in Clock, DispatchStart(w, t)
    PROVE  AuthTypes' /\ \A r \in Requests : Backed(r)'
<1>1. /\ dispatching' = [dispatching EXCEPT ![w] = NoRequest]
      /\ UNCHANGED <<enrollment, target, binding, approval, review, consent>>
  BY DEF DispatchStart
<1>2. AuthTypes'
  BY <1>1 DEF Inv, AuthTypes
<1>3. PICK q \in Requests :
        /\ Authorised(q)
        /\ State(q) = "ready" /\ row'[q].state = "running" /\ row'[q].digest = row[q].digest
        /\ \A r \in Requests : r # q => row'[r] = row[r]
  BY StartRow
<1>4. Backed(q)'
  BY <1>1, <1>3 DEF Inv, Backed, State
<1>5. ASSUME NEW r \in Requests, r # q PROVE Backed(r)'
  BY <1>1, <1>3, <1>5, QuietRow, BackedQuiet DEF Inv
<1> QED
  BY <1>2, <1>4, <1>5

(* All other steps leave binding, approval and consent alone.              *)
LEMMA OtherKeeps ==
    ASSUME Inv,
           \/ \E o \in Operators, r \in Requests : ServicePreview(o, r)
           \/ \E o \in Operators : ReviewEnds(o)
           \/ \E w \in Workers, r \in Requests, t \in Clock : DispatchSweep(w, r, t)
           \/ \E w \in Workers : DispatchRefused(w)
           \/ \E e \in Enrollments : EnrollmentChanges(e)
           \/ \E r \in Requests, s \in Targets : TargetChanges(r, s)
           \/ BrokerProcess
           \/ UNCHANGED controlVars
    PROVE  AuthTypes' /\ \A r \in Requests : Backed(r)' /\ Quiet(r)
<1>1. UNCHANGED <<binding, approval, consent>>
  BY DEF ServicePreview, ReviewEnds, DispatchSweep, DispatchRefused, EnrollmentChanges, TargetChanges,
         BrokerProcess, authVars, controlVars
<1>2. ASSUME NEW r \in Requests PROVE Quiet(r)
  <2>1. CASE row' = row
    BY <2>1, QuietRow
  <2>2. CASE row' # row
    <3>1. (\E w \in Workers, q \in Requests, t \in Clock : DispatchSweep(w, q, t)) \/ BrokerProcess
      BY <2>2 DEF ServicePreview, ReviewEnds, DispatchRefused, EnrollmentChanges, TargetChanges,
                  controlVars, vars
    <3> QED
      BY <3>1, SweepQuiet, BrokerProcessQuiet DEF DispatchSweep, Inv
  <2> QED
    BY <2>1, <2>2
<1>3. AuthTypes'
  <2>1. ASSUME NEW o \in Operators, NEW r \in Requests, ServicePreview(o, r) PROVE AuthTypes'
    <3>1. [req |-> r, state |-> State(r)] \in PreviewType
      BY DEF PreviewType, State, Inv, TypeOK, RowType, Columns
    <3> QED
      BY <2>1, <3>1 DEF ServicePreview, Inv, AuthTypes
  <2>2. ASSUME NEW o \in Operators, ReviewEnds(o) PROVE AuthTypes'
    <3>1. NoPreview \in PreviewType
      BY DEF NoPreview, PreviewType, States
    <3> QED
      BY <2>2, <3>1 DEF ReviewEnds, Inv, AuthTypes
  <2>3. ASSUME NEW w \in Workers, NEW r \in Requests, NEW t \in Clock, DispatchSweep(w, r, t)
        PROVE  AuthTypes'
    BY <2>3 DEF DispatchSweep, Inv, AuthTypes
  <2>4. ASSUME NEW w \in Workers, DispatchRefused(w) PROVE AuthTypes'
    BY <2>4 DEF DispatchRefused, Inv, AuthTypes
  <2>5. ASSUME \/ \E e \in Enrollments : EnrollmentChanges(e)
               \/ \E r \in Requests, s \in Targets : TargetChanges(r, s)
        PROVE  AuthTypes'
    BY <2>5 DEF EnrollmentChanges, TargetChanges, Inv, AuthTypes
  <2>6. ASSUME BrokerProcess PROVE AuthTypes'
    <3>1. UNCHANGED dispatching \/ dispatching' = [w \in Workers |-> NoRequest]
      BY <2>6 DEF BrokerProcess, authVars
    <3>2. UNCHANGED <<enrollment, target, binding, approval, review, consent>>
      BY <2>6 DEF BrokerProcess, authVars
    <3> QED
      BY <3>1, <3>2 DEF Inv, AuthTypes
  <2>7. ASSUME UNCHANGED controlVars PROVE AuthTypes'
    BY <2>7 DEF controlVars, authVars, Inv, AuthTypes
  <2> QED
    BY <2>1, <2>2, <2>3, <2>4, <2>5, <2>6, <2>7
<1> QED
  BY <1>1, <1>2, <1>3, BackedQuiet DEF Inv

LEMMA ControlStepInv == Inv /\ [ControlNext]_controlVars => Inv'
<1> SUFFICES ASSUME Inv, [ControlNext]_controlVars PROVE Inv'
  OBVIOUS
<1>1. TypeOK'
  BY JournalStep, NextType DEF Inv
<1>2. AuthTypes' /\ \A r \in Requests : Backed(r)'
  BY AdmitKeeps, ApproveKeeps, DenyKeeps, DispatchKeeps, OtherKeeps DEF ControlNext
<1> QED
  BY <1>1, <1>2 DEF Inv

-----------------------------------------------------------------------------
(* The stored authority is backed by what a human saw, in every behaviour. *)
THEOREM ControlInvariant == ControlSpec => []Inv
  BY ControlInitInv, ControlStepInv, PTL DEF ControlSpec

(* Approvals are stored exactly where the state says so.                   *)
THEOREM ApprovalsMatch == ControlSpec => []ApprovalMatchesState
<1>1. Inv => ApprovalMatchesState
  BY DEF Inv, Backed, ApprovalMatchesState
<1> QED
  BY <1>1, ControlInvariant, PTL

LEMMA ConsentIsSome == ASSUME NEW c \in ConsentType PROVE c # NoConsent
<1>1. DOMAIN c = {"enrollment", "target", "digest", "at"}
  BY DEF ConsentType
<1>2. DOMAIN NoConsent = {}
  BY DEF NoConsent
<1> QED
  BY <1>1, <1>2

-----------------------------------------------------------------------------
(* Only a dispatch makes a request run.                                    *)

LEMMA AdmitStartsNothing ==
    ASSUME Inv, NEW q \in Requests, NEW d \in Digests, NEW ok \in BOOLEAN, NEW t \in Clock,
           ServiceAdmit(q, d, ok, t), NEW r \in Requests, State(r)' = "running"
    PROVE  State(r) = "running"
<1> DEFINE a == Evaluate(enrollment, q, d, ok)
<1>0. a \in {"allow", "confirm", "deny"} /\ row \in [Requests -> RowType]
  BY EvaluateType DEF Inv, AuthTypes, TypeOK
<1>1. Admit(q, d, a) \/ Duplicate(q, d) \/ Collide(q, d)
  BY DEF ServiceAdmit, Receive
<1> HIDE DEF a
<1>2. CASE Admit(q, d, a)
  <2> DEFINE s == CASE a = "deny" -> "rejected" [] a = "confirm" -> "awaiting_approval"
                    [] a = "allow" -> "ready"
  <2>1. row' = [row EXCEPT ![q] = [NoRow EXCEPT !.digest = d, !.state = s]]
    BY <1>2 DEF Admit
  <2>2. s # "running"
    BY <1>0
  <2> HIDE DEF s
  <2>3. row'[q].state = s /\ (r # q => row'[r] = row[r])
    BY <1>0, <2>1 DEF NoRow
  <2> QED
    BY <2>2, <2>3 DEF State
<1>3. CASE Duplicate(q, d)
  BY <1>3 DEF Duplicate, State
<1>4. CASE Collide(q, d)
  <2>1. Quiet(r)
    BY <1>4, QuietSet DEF Collide, Inv
  <2> QED
    BY <2>1 DEF Quiet
<1> QED
  BY <1>1, <1>2, <1>3, <1>4

LEMMA OnlyDispatchStarts ==
    ASSUME Inv, [ControlNext]_controlVars, NEW r \in Requests,
           State(r) # "running", State(r)' = "running"
    PROVE  Authorised(r)
<1>1. ASSUME NEW q \in Requests, NEW d \in Digests, NEW ok \in BOOLEAN, NEW t \in Clock,
             ServiceAdmit(q, d, ok, t)
      PROVE  FALSE
  BY <1>1, AdmitStartsNothing
<1>2. ASSUME NEW o \in Operators, ServiceApprove(o) PROVE FALSE
  <2>1. PICK q \in Requests : /\ row'[q].state = "ready"
                              /\ \A x \in Requests : x # q => row'[x] = row[x]
    BY <1>2, ApproveFacts
  <2> QED
    BY <2>1 DEF State
<1>3. ASSUME NEW q \in Requests, ServiceDeny(q) PROVE FALSE
  <2>1. SetState(q, "rejected")
    BY <1>3 DEF ServiceDeny, Deny
  <2> QED
    BY <2>1, SetStateRow DEF Inv, State
<1>4. ASSUME NEW w \in Workers, NEW t \in Clock, DispatchStart(w, t) PROVE Authorised(r)
  <2>1. PICK q \in Requests : Authorised(q) /\ \A x \in Requests : x # q => row'[x] = row[x]
    BY <1>4, StartRow
  <2> QED
    BY <2>1 DEF State
<1>5. ~Quiet(r)
  BY DEF Quiet
<1> QED
  BY <1>1, <1>2, <1>3, <1>4, <1>5, OtherKeeps DEF ControlNext

LEMMA AuthorityInForce ==
    ASSUME Inv, NEW r \in Requests, Authorised(r)
    PROVE  /\ now < Expiry[row[r].digest]
           /\ \/ Evaluate(enrollment, r, row[r].digest, TRUE) = "allow"
              \/ /\ consent[r] # NoConsent
                 /\ consent[r].enrollment = enrollment
                 /\ consent[r].target = target[r]
                 /\ consent[r].digest = row[r].digest
                 /\ now < consent[r].at + Lifetime
<1>1. /\ enrollment = binding[r].enrollment /\ target[r] = binding[r].target
      /\ now < Expiry[row[r].digest]
  BY DEF Authorised, Unchanged
<1>2. Evaluate(enrollment, r, row[r].digest, TRUE) = "allow" \/ now < approval[r]
  BY DEF Authorised, Permitted
<1>3. CASE now < approval[r]
  <2>1. now \in Nat /\ approval[r] \in Nat /\ approval[r] # 0 /\ Lifetime \in Nat
    BY <1>3, LifetimeAssumption DEF Inv, TypeOK, AuthTypes
  <2>2. /\ consent[r] \in ConsentType
        /\ consent[r].enrollment = binding[r].enrollment
        /\ consent[r].target = binding[r].target
        /\ consent[r].digest = row[r].digest
        /\ approval[r] <= consent[r].at + Lifetime
    BY <2>1 DEF Inv, Backed
  <2>3. consent[r].at \in Nat
    BY <2>2 DEF ConsentType
  <2>4. now < consent[r].at + Lifetime
    BY <1>3, <2>1, <2>2, <2>3
  <2> QED
    BY <1>1, <2>2, <2>4, ConsentIsSome
<1> QED
  BY <1>1, <1>2, <1>3

(* Whatever is done to enrollment, target and journal in between, a        *)
(* handler starts only on authority that is in force at that moment.       *)
THEOREM StartsAuthorised == ControlSpec => StartsAreAuthorised
<1> DEFINE A == \A r \in Requests :
                  State(r) # "running" /\ State(r)' = "running" =>
                    /\ now < Expiry[row[r].digest]
                    /\ \/ Evaluate(enrollment, r, row[r].digest, TRUE) = "allow"
                       \/ /\ consent[r] # NoConsent
                          /\ consent[r].enrollment = enrollment
                          /\ consent[r].target = target[r]
                          /\ consent[r].digest = row[r].digest
                          /\ now < consent[r].at + Lifetime
<1>1. Inv /\ [ControlNext]_controlVars => [A]_controlVars
  BY OnlyDispatchStarts, AuthorityInForce
<1> QED
  BY <1>1, ControlInvariant, PTL DEF ControlSpec, StartsAreAuthorised

=============================================================================
