------------------------------- MODULE Broker -------------------------------
(***************************************************************************)
(* The durable request journal (broker/core.py, class Journal), the        *)
(* dispatcher that runs capability handlers over it (class Dispatcher) and *)
(* the broker process that owns the state directory (class BrokerLock).    *)
(*                                                                         *)
(* Every journal method is one BEGIN IMMEDIATE transaction, hence one      *)
(* action.  The dispatcher's worker threads hold no transaction while a    *)
(* handler runs, so a run is three steps: start, return, save.  The policy *)
(* decision handed to Receive, Approve and Start is an input here; module  *)
(* Control supplies the one the program computes.                          *)
(***************************************************************************)
EXTENDS Integers, FiniteSets

CONSTANTS
    Requests,      \* request keys (repository, mailbox epoch, request id)
    Digests,       \* canonical request contents, named by their SHA-256
    Capabilities,  \* capability names
    Capability,    \* the capability each content asks for
    Expiry,        \* the expires_at each content carries
    Registries,    \* the capability tables a broker process may be built with
    Refs,          \* publication references
    Workers,       \* dispatcher threads of the broker process
    QueueLimit,    \* Journal.queue_limit
    MaxTime,       \* bound: the last instant of the clock
    MaxLag,        \* bound: how long a caller may wait for the writer lock
    MaxAttempts,   \* bound: runs of one request
    NoRequest, NoDigest, NoRef

Kinds == {"unregistered", "observing", "retryable", "mutating"}

(* CapabilitySpec.validate refuses a mutating capability that may be       *)
(* retried after a crash, so a registered capability has one of three      *)
(* kinds.                                                                  *)
ASSUME RequestsAssumption == IsFiniteSet(Requests) /\ NoRequest \notin Requests
ASSUME ContentAssumption ==
    /\ Capability \in [Digests -> Capabilities]
    /\ Expiry \in [Digests -> Nat]
    /\ NoDigest \notin Digests
ASSUME RegistryAssumption ==
    Registries # {} /\ Registries \subseteq [Capabilities -> Kinds]
ASSUME RefsAssumption == NoRef \notin Refs
ASSUME BoundsAssumption ==
    /\ QueueLimit \in Nat \ {0}
    /\ MaxTime \in Nat /\ MaxLag \in Nat /\ MaxAttempts \in Nat

VARIABLES
    row,       \* table requests; state "absent" where there is no row
    paused,    \* table control_state
    now,       \* the wall clock
    up,        \* a broker process holds the lock on the state directory
    registry,  \* the capability table of that process
    worker,    \* what each dispatcher thread is doing
    attempts,  \* history: how often each request was started
    effects,   \* history: how often its handler was a mutating one
    told       \* history: whether a cancel found its current run's handler at work

vars == <<row, paused, now, up, registry, worker, attempts, effects, told>>

-----------------------------------------------------------------------------
(* States.  "received" and "validated" are declared by the source but no   *)
(* code ever assigns them.                                                 *)
Unstarted == {"awaiting_approval", "ready"}
Completed == {"result_saved", "published", "notification_pending"}
Pending   == Unstarted \cup {"running"} \cup Completed
Terminal  == {"acknowledged", "rejected", "expired", "cancelled", "failed",
              "indeterminate", "quarantined"}
States    == {"absent"} \cup Pending \cup Terminal

Results == {"none", "ok", "cancelled", "failed"}

Columns == [state            : States,
            digest           : Digests \cup {NoDigest},
            attempt          : Nat,            \* attempt_id, 0 for NULL
            possible_effect  : BOOLEAN,
            cancel_requested : BOOLEAN,
            result           : Results,        \* result_json, "none" for NULL
            publication      : Refs \cup {NoRef}]

RowType == {x \in Columns : x.state # "absent" => x.digest \in Digests}

NoRow == [state |-> "absent", digest |-> NoDigest, attempt |-> 0,
          possible_effect |-> FALSE, cancel_requested |-> FALSE,
          result |-> "none", publication |-> NoRef]

(* A thread runs a handler (outcome "open") or is about to save the        *)
(* outcome it has settled on.                                              *)
Outcomes == {"open", "result_saved", "cancelled", "failed"}
WorkerType == [req     : Requests \cup {NoRequest},
               attempt : Nat,
               outcome : Outcomes]
Idle == [req |-> NoRequest, attempt |-> 0, outcome |-> "open"]
Busy(w) == worker[w].req # NoRequest

State(r) == row[r].state
PendingRequests == {r \in Requests : State(r) \in Pending}
PendingCount == Cardinality(PendingRequests)

(* A caller reads the clock before it waits for the writer lock, so the    *)
(* instant an operation works with may lie in the recent past.             *)
Clock == {t \in 0 .. now : now - t <= MaxLag}
Kind(r) == registry[Capability[row[r].digest]]

SetState(r, s) == row' = [row EXCEPT ![r].state = s]

(* Definitions commented as a bug are mutants, named in PROJECT.json: one  *)
(* replaces the definition after it, to show that a property can break.    *)

-----------------------------------------------------------------------------
Init ==
    /\ row = [r \in Requests |-> NoRow]
    /\ paused = FALSE
    /\ now = 0
    /\ up = FALSE
    /\ registry \in Registries
    /\ worker = [w \in Workers |-> Idle]
    /\ attempts = [r \in Requests |-> 0]
    /\ effects = [r \in Requests |-> 0]
    /\ told = [r \in Requests |-> FALSE]

-----------------------------------------------------------------------------
(* Journal.receive: the same content again changes nothing, another        *)
(* content under the same key quarantines the row whatever its state, and  *)
(* a new key is inserted in the state the policy decision gives.           *)

(* Bug: the bound is checked before the row is counted.                    *)
QueueHasRoomForOneMore == PendingCount <= QueueLimit
QueueHasRoom == PendingCount < QueueLimit

Admit(r, d, action) ==
    /\ State(r) = "absent"
    /\ ~paused
    /\ QueueHasRoom
    /\ row' = [row EXCEPT ![r] = [NoRow EXCEPT
                 !.digest = d,
                 !.state = CASE action = "deny"    -> "rejected"
                             [] action = "confirm" -> "awaiting_approval"
                             [] action = "allow"   -> "ready"]]

Duplicate(r, d) ==
    /\ State(r) # "absent"
    /\ row[r].digest = d
    /\ UNCHANGED row

Collide(r, d) ==
    /\ State(r) # "absent"
    /\ row[r].digest # d
    /\ SetState(r, "quarantined")

Receive(r, d, action, t) ==
    /\ t < Expiry[d]
    /\ Admit(r, d, action) \/ Duplicate(r, d) \/ Collide(r, d)
    /\ UNCHANGED <<paused, now, up, registry, worker, attempts, effects, told>>

(* Journal.approve with an allow bound to this request.                    *)
Approve(r, t) ==
    /\ State(r) = "awaiting_approval"
    /\ t < Expiry[row[r].digest]
    /\ ~paused
    /\ SetState(r, "ready")
    /\ UNCHANGED <<paused, now, up, registry, worker, attempts, effects, told>>

(* Journal.deny: too late once the work has started.                       *)
Deny(r) ==
    /\ State(r) \in Unstarted
    /\ SetState(r, "rejected")
    /\ UNCHANGED <<paused, now, up, registry, worker, attempts, effects, told>>

(* Journal.cancel: only a flag while the handler runs; any other pending   *)
(* request, a completed one included, becomes "cancelled".                 *)
Cancel(r) ==
    /\ State(r) \in Pending
    /\ IF State(r) = "running"
         THEN row' = [row EXCEPT ![r].cancel_requested = TRUE]
         ELSE SetState(r, "cancelled")
    /\ told' = IF \E w \in Workers : worker[w].req = r /\ worker[w].outcome = "open"
                 THEN [told EXCEPT ![r] = TRUE] ELSE told
    /\ UNCHANGED <<paused, now, up, registry, worker, attempts, effects>>

(* Bug: requests nobody approves are forgotten by the sweep.               *)
ExpireApprovedOnly(t) ==
    /\ row' = [r \in Requests |->
                 IF State(r) = "ready" /\ Expiry[row[r].digest] <= t
                   THEN [row[r] EXCEPT !.state = "expired"]
                   ELSE row[r]]
    /\ UNCHANGED <<paused, now, up, registry, worker, attempts, effects, told>>

(* Journal.expire_due: every unstarted request whose time has come.        *)
ExpireDue(t) ==
    /\ row' = [r \in Requests |->
                 IF State(r) \in Unstarted /\ Expiry[row[r].digest] <= t
                   THEN [row[r] EXCEPT !.state = "expired"]
                   ELSE row[r]]
    /\ UNCHANGED <<paused, now, up, registry, worker, attempts, effects, told>>

SetPaused(p) ==
    /\ paused' = p
    /\ UNCHANGED <<row, now, up, registry, worker, attempts, effects, told>>

-----------------------------------------------------------------------------
(* Dispatcher.execute.  The first transaction looks the capability up,     *)
(* re-authorises the request and performs Journal.start.                   *)

Start(w, r, t) ==
    /\ up
    /\ ~Busy(w)
    /\ State(r) = "ready"
    /\ Kind(r) # "unregistered"
    /\ ~paused
    /\ t < Expiry[row[r].digest]
    /\ attempts[r] < MaxAttempts
    /\ attempts' = [attempts EXCEPT ![r] = @ + 1]
    /\ row' = [row EXCEPT ![r].state = "running",
                          ![r].attempt = attempts[r] + 1,
                          ![r].possible_effect = (Kind(r) = "mutating"),
                          ![r].cancel_requested = FALSE]
    /\ effects' = [effects EXCEPT ![r] = IF Kind(r) = "mutating" THEN @ + 1 ELSE @]
    /\ worker' = [worker EXCEPT ![w] = [req |-> r, attempt |-> attempts[r] + 1,
                                        outcome |-> "open"]]
    /\ told' = [told EXCEPT ![r] = FALSE]
    /\ UNCHANGED <<paused, now, up, registry>>

(* Bug: the handler alone looks at the cancellation flag.                  *)
ReturnsRegardless(w) ==
    /\ Busy(w)
    /\ worker[w].outcome = "open"
    /\ worker' = [worker EXCEPT ![w].outcome = "result_saved"]
    /\ UNCHANGED <<row, paused, now, up, registry, attempts, effects, told>>

(* The handler returns; the cancellation flag is read in a transaction of  *)
(* its own, before the one that saves.                                     *)
HandlerReturns(w) ==
    /\ Busy(w)
    /\ worker[w].outcome = "open"
    /\ worker' = [worker EXCEPT ![w].outcome =
                    IF row[worker[w].req].cancel_requested
                      THEN "cancelled" ELSE "result_saved"]
    /\ UNCHANGED <<row, paused, now, up, registry, attempts, effects, told>>

(* An exception other than BrokerError, from the handler or from the first *)
(* attempt to save (the database is locked, the result does not encode):   *)
(* the run is to be saved as failed.                                       *)
HandlerFails(w) ==
    /\ Busy(w)
    /\ worker[w].outcome # "failed"
    /\ worker' = [worker EXCEPT ![w].outcome = "failed"]
    /\ UNCHANGED <<row, paused, now, up, registry, attempts, effects, told>>

(* A BrokerError from the handler, a malformed artifact list, or a second  *)
(* error while saving "failed" leaves the row as it is.                    *)
RunAbandoned(w) ==
    /\ Busy(w)
    /\ worker[w].outcome # "cancelled"
    /\ worker' = [worker EXCEPT ![w] = Idle]
    /\ UNCHANGED <<row, paused, now, up, registry, attempts, effects, told>>

ResultOf(outcome) == IF outcome = "result_saved" THEN "ok" ELSE outcome

(* Bug: the result is saved whatever has become of the row.                *)
SaveAlways(w) ==
    LET r == worker[w].req
        outcome == worker[w].outcome
    IN  /\ Busy(w)
        /\ outcome # "open"
        /\ row' = [row EXCEPT ![r].state = outcome, ![r].result = ResultOf(outcome)]
        /\ worker' = [worker EXCEPT ![w] = Idle]
        /\ UNCHANGED <<paused, now, up, registry, attempts, effects, told>>

(* Journal.save_result refuses unless the row is still running, and never  *)
(* compares attempt ids.                                                   *)
SaveResult(w) ==
    LET r == worker[w].req
        outcome == worker[w].outcome
    IN  /\ Busy(w)
        /\ outcome # "open"
        /\ row' = IF State(r) = "running"
                    THEN [row EXCEPT ![r].state = outcome,
                                     ![r].result = ResultOf(outcome)]
                    ELSE row
        /\ worker' = [worker EXCEPT ![w] = Idle]
        /\ UNCHANGED <<paused, now, up, registry, attempts, effects, told>>

-----------------------------------------------------------------------------
(* Publication of a saved result.                                          *)

(* Bug: a second publication rebinds the request.                          *)
PublishableAnywhere(r, ref) == State(r) \in {"result_saved", "published"}

Publishable(r, ref) ==
    /\ State(r) \in {"result_saved", "published"}
    /\ row[r].publication \in {NoRef, ref}

MarkPublished(r, ref) ==
    /\ ~paused
    /\ Publishable(r, ref)
    /\ row' = [row EXCEPT ![r].state = "published", ![r].publication = ref]
    /\ UNCHANGED <<paused, now, up, registry, worker, attempts, effects, told>>

MarkNotificationPending(r) ==
    /\ ~paused
    /\ State(r) \in {"published", "notification_pending"}
    /\ SetState(r, "notification_pending")
    /\ UNCHANGED <<paused, now, up, registry, worker, attempts, effects, told>>

Acknowledge(r) ==
    /\ State(r) \in {"published", "notification_pending", "acknowledged"}
    /\ SetState(r, "acknowledged")
    /\ UNCHANGED <<paused, now, up, registry, worker, attempts, effects, told>>

-----------------------------------------------------------------------------
(* The broker process.                                                     *)

(* Bug: the registry alone decides, not what the run was started as.       *)
RetryIfRegistered(r, reg) == reg[Capability[row[r].digest]] = "retryable"

(* Journal.recover_running with the capability table reg: possible_effect  *)
(* is what the interrupted run was started with, under the table of its    *)
(* own process.                                                            *)
MayRetry(r, reg) ==
    /\ reg[Capability[row[r].digest]] = "retryable"
    /\ ~row[r].possible_effect

(* Bug: runs of a capability that is no longer registered are skipped.     *)
RecoverRegistered(reg) ==
    row' = [r \in Requests |->
              IF State(r) # "running"
                  \/ reg[Capability[row[r].digest]] = "unregistered" THEN row[r]
              ELSE IF MayRetry(r, reg)
                THEN [row[r] EXCEPT !.state = "ready", !.attempt = 0]
                ELSE [row[r] EXCEPT !.state = "indeterminate"]]

RecoverRunning(reg) ==
    row' = [r \in Requests |->
              IF State(r) # "running" THEN row[r]
              ELSE IF MayRetry(r, reg)
                THEN [row[r] EXCEPT !.state = "ready", !.attempt = 0]
                ELSE [row[r] EXCEPT !.state = "indeterminate"]]

(* Bug: a second process does not notice that the lock is held.            *)
StartUnlocked(reg) ==
    /\ up' = TRUE
    /\ registry' = reg
    /\ RecoverRunning(reg)
    /\ UNCHANGED <<paused, now, worker, attempts, effects, told>>

(* A process takes the lock, which only one process can hold, and recovers *)
(* the runs an earlier process left behind before it dispatches.  The      *)
(* source provides both calls; that a host makes them in this order is the *)
(* protocol its tests follow, for no module under src/ is the host.        *)
BrokerStart(reg) ==
    /\ ~up
    /\ up' = TRUE
    /\ registry' = reg
    /\ RecoverRunning(reg)
    /\ UNCHANGED <<paused, now, worker, attempts, effects, told>>

(* An orderly stop waits for its threads; a crash takes them along.  Both  *)
(* release the lock.                                                       *)
BrokerStop ==
    /\ up
    /\ \A w \in Workers : ~Busy(w)
    /\ up' = FALSE
    /\ UNCHANGED <<row, paused, now, registry, worker, attempts, effects, told>>

Crash ==
    /\ up
    /\ \E w \in Workers : Busy(w)
    /\ up' = FALSE
    /\ worker' = [w \in Workers |-> Idle]
    /\ UNCHANGED <<row, paused, now, registry, attempts, effects, told>>

Tick ==
    /\ now < MaxTime
    /\ now' = now + 1
    /\ UNCHANGED <<row, paused, up, registry, worker, attempts, effects, told>>

-----------------------------------------------------------------------------
WorkerStep(w) ==
    \/ HandlerReturns(w)
    \/ HandlerFails(w)
    \/ RunAbandoned(w)
    \/ SaveResult(w)

Operator(r) ==
    \/ \E d \in Digests, action \in {"allow", "confirm", "deny"}, t \in Clock :
         Receive(r, d, action, t)
    \/ \E t \in Clock : Approve(r, t)
    \/ Deny(r)
    \/ Cancel(r)

Publisher(r) ==
    \/ \E ref \in Refs : MarkPublished(r, ref)
    \/ MarkNotificationPending(r)
    \/ Acknowledge(r)

Next ==
    \/ \E r \in Requests : Operator(r) \/ Publisher(r)
    \/ \E t \in Clock : ExpireDue(t)
    \/ \E p \in BOOLEAN : SetPaused(p)
    \/ \E w \in Workers, r \in Requests, t \in Clock : Start(w, r, t)
    \/ \E w \in Workers : WorkerStep(w)
    \/ \E reg \in Registries : BrokerStart(reg)
    \/ BrokerStop
    \/ Crash
    \/ Tick

Spec == Init /\ [][Next]_vars

(* The clock runs, handlers end (each adapter bounds its own run time) and *)
(* a stopped broker is started again.  Nothing obliges an operator, the    *)
(* publisher or a running broker to act, nor anybody to dispatch.          *)
Fairness ==
    /\ WF_vars(Tick)
    /\ \A w \in Workers : WF_vars(WorkerStep(w))
    /\ WF_vars(\E reg \in Registries : BrokerStart(reg))

FairSpec == Spec /\ Fairness

-----------------------------------------------------------------------------
(* Types of all variables.                                                 *)
TypeOK ==
    /\ row \in [Requests -> RowType]
    /\ paused \in BOOLEAN
    /\ now \in Nat
    /\ up \in BOOLEAN
    /\ registry \in [Capabilities -> Kinds]
    /\ worker \in [Workers -> WorkerType]
    /\ attempts \in [Requests -> Nat]
    /\ effects \in [Requests -> Nat]
    /\ told \in [Requests -> BOOLEAN]

(* The number of pending requests never exceeds queue_limit: admission     *)
(* counts under the writer lock, and no operation, crash recovery          *)
(* included, brings a settled request back into the queue.                 *)
PendingBound == PendingCount <= QueueLimit

(* A request's mutating handler runs at most once, whatever crashes,       *)
(* restarts with another capability table, and retries of observations     *)
(* happen (possible_effect is saved before the handler runs).              *)
EffectAtMostOnce == \A r \in Requests : effects[r] <= 1

(* What was published or acknowledged has a durable successful result and  *)
(* a publication it is bound to.                                           *)
PublishedHasResult ==
    \A r \in Requests :
      State(r) \in {"published", "notification_pending", "acknowledged"} =>
        row[r].result = "ok" /\ row[r].publication # NoRef

(* save_result does not look at attempt ids, so nothing in it keeps a      *)
(* thread from saving into another thread's run: that no two threads ever  *)
(* hold one request, and that a thread about to save into a running row    *)
(* belongs to the row's current attempt, is the work of the broker lock    *)
(* and of recovery before dispatch.                                        *)
SingleWriter ==
    \A w \in Workers : Busy(w) =>
      LET r == worker[w].req IN
        /\ State(r) = "running" => row[r].attempt = worker[w].attempt
        /\ \A v \in Workers : worker[v].req = r => v = w

(* A settled request stays settled in its outcome: late saves, recovery,   *)
(* sweeps and replays change nothing, save that a colliding content        *)
(* quarantines it.                                                         *)
TerminalFinal ==
    [][\A r \in Requests :
         State(r) \in Terminal => State(r)' \in {State(r), "quarantined"}]_vars

(* A durable result and a publication binding are written once: a replayed *)
(* publication, a second save or a restart never replaces them.            *)
DurableFixed ==
    [][\A r \in Requests :
         /\ row[r].result # "none" => row'[r].result = row[r].result
         /\ row[r].publication # NoRef => row'[r].publication = row[r].publication]_vars

(* A cancel that is accepted while the handler still runs is heard: that   *)
(* run never leaves a result to publish, whatever its thread, another      *)
(* cancel, a crash or recovery do meanwhile.  A later run may, for         *)
(* recovery makes a retryable request ready again and start clears the     *)
(* flag.                                                                   *)
CancelIsHeard ==
    \A r \in Requests : row[r].result = "ok" => ~told[r]

-----------------------------------------------------------------------------
(* If somebody keeps dispatching, whatever request, none waits for ever:   *)
(* from some point on it is neither awaiting approval nor ready, because   *)
(* it ran, was settled or expired, even when crashes keep putting it back. *)
(* The sweep is the first thing that a dispatch does (control.py:210) and  *)
(* nothing else in the program calls it, so the condition is one on those  *)
(* who use the program; it asks that no request that is due be passed over *)
(* for ever.                                                               *)
WaitingDrains ==
    WF_vars(ExpireDue(now)) => \A r \in Requests : <>[](State(r) \notin Unstarted)

(* If the broker goes down again and again, no request stays running: a    *)
(* run a handler abandoned or a crash cut off is resolved by a restart.    *)
RestartsResolveRuns ==
    []<>(~up) => \A r \in Requests : (State(r) = "running") ~> (State(r) # "running")

(* Refinement: the journal implements the life cycle of RequestLifecycle.  *)
Phase(s) ==
    CASE s = "absent"                                -> "unknown"
      [] s \in Unstarted                             -> "waiting"
      [] s = "running"                               -> "executing"
      [] s = "result_saved"                          -> "recorded"
      [] s \in {"published", "notification_pending"} -> "announced"
      [] s \in Terminal                              -> "closed"

Lifecycle == INSTANCE RequestLifecycle
    WITH phase <- [r \in Requests |-> Phase(State(r))], ran <- effects

(* Every behaviour of the journal, its workers, crashes and restarts is    *)
(* one of the abstract life cycle: one effectful run at most, announced    *)
(* only when recorded, closed for good.                                    *)
LifecycleSpec == Lifecycle!Spec

=============================================================================
