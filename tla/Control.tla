------------------------------- MODULE Control -------------------------------
(***************************************************************************)
(* The local authority path (cli/control.py, class ControlService, with    *)
(* policy/model.py, evaluate and Approval) over the journal of module      *)
(* Broker: which contents are admitted in which state, what an operator    *)
(* approves, and what is checked again when a request is dispatched.       *)
(*                                                                         *)
(* The enrollment file and the target of a request change at any moment,   *)
(* between an admission, a preview, the typed confirmation and the         *)
(* dispatch.  Every operation of the service is one journal transaction,   *)
(* save preview and approve, which are two steps with the human prompt in  *)
(* between, and dispatch, whose sweep commits before it authorises.        *)
(***************************************************************************)
EXTENDS Broker

CONSTANTS
    Enrollments,  \* contents the local enrollment file may have
    Targets,      \* target states a provider may report
    Mailboxes,    \* repository and mailbox epoch
    Mailbox,      \* the mailbox each request key belongs to
    MailboxOf,    \* the mailbox each enrollment names
    Grant,        \* the decision of each enrollment on each content
    Operators,    \* interactive approve commands
    Lifetime      \* approval lifetime, at most 300 seconds in the code

Actions == {"allow", "confirm", "deny"}

ASSUME EnrollmentAssumption ==
    /\ Mailbox \in [Requests -> Mailboxes]
    /\ MailboxOf \in [Enrollments -> Mailboxes]
    /\ Grant \in [Enrollments -> [Digests -> Actions]]
ASSUME LifetimeAssumption == Lifetime \in Nat \ {0}

VARIABLES
    enrollment,   \* the enrollment file
    target,       \* the target state reported for each request
    binding,      \* local_authority.binding_json, written at admission
    approval,     \* local_authority.approval_json: its expires_at, 0 for NULL
    review,       \* the preview each approve command has shown
    dispatching,  \* the request each thread has swept for and not started
    consent       \* history: what was in force when a human last approved

authVars == <<enrollment, target, binding, approval, review, dispatching, consent>>
controlVars == <<vars, authVars>>

BindingType == [enrollment : Enrollments, target : Targets]
NoBinding == <<>>

PreviewType == [req : Requests \cup {NoRequest}, state : States]
NoPreview == [req |-> NoRequest, state |-> "absent"]

ConsentType == [enrollment : Enrollments, target : Targets, digest : Digests, at : Nat]
NoConsent == <<>>

Earlier(a, b) == IF a <= b THEN a ELSE b

-----------------------------------------------------------------------------
ControlInit ==
    /\ Init
    /\ enrollment \in Enrollments
    /\ target \in [Requests -> Targets]
    /\ binding = [r \in Requests |-> NoBinding]
    /\ approval = [r \in Requests |-> 0]
    /\ review = [o \in Operators |-> NoPreview]
    /\ dispatching = [w \in Workers |-> NoRequest]
    /\ consent = [r \in Requests |-> NoConsent]

-----------------------------------------------------------------------------
(* policy.evaluate without an approval: a wrong origin or mailbox, or no   *)
(* grant, is a denial.                                                     *)
Evaluate(e, r, d, origin_ok) ==
    IF ~origin_ok \/ MailboxOf[e] # Mailbox[r] THEN "deny" ELSE Grant[e][d]

(* Bug: the target state is hashed but not compared.                       *)
EnrollmentUnchanged(r) ==
    /\ enrollment = binding[r].enrollment
    /\ now < Expiry[row[r].digest]

(* ControlService._decision reaches a decision only while the request is   *)
(* valid and enrollment and target are those of its admission.             *)
Unchanged(r) ==
    /\ enrollment = binding[r].enrollment
    /\ target[r] = binding[r].target
    /\ now < Expiry[row[r].digest]

(* Approval.valid_for.  Its digest, revision and target are the row's own, *)
(* which Unchanged compares; its expiry is its own.                        *)
Permitted(r, until) ==
    LET action == Evaluate(enrollment, r, row[r].digest, TRUE)
    IN  action = "allow" \/ (action = "confirm" /\ now < until)

(* ControlService.authorize: the stored approval against today's policy.   *)
Authorised(r) == Unchanged(r) /\ Permitted(r, approval[r])

-----------------------------------------------------------------------------
(* ControlService.admit: policy first, then Journal.receive, which binds   *)
(* the row it inserts to the enrollment and target the decision used.      *)
ServiceAdmit(r, d, origin_ok, t) ==
    /\ Receive(r, d, Evaluate(enrollment, r, d, origin_ok), t)
    /\ binding' = IF State(r) = "absent"
                    THEN [binding EXCEPT ![r] = [enrollment |-> enrollment,
                                                 target |-> target[r]]]
                    ELSE binding
    /\ UNCHANGED <<enrollment, target, approval, review, dispatching, consent>>

(* The key an operator's command addresses lies in the enrolled mailbox.   *)
Addressable(r) == State(r) # "absent" /\ MailboxOf[enrollment] = Mailbox[r]

(* ControlService.preview, shown before the prompt.                        *)
ServicePreview(o, r) ==
    /\ review[o] = NoPreview
    /\ Addressable(r)
    /\ Unchanged(r)
    /\ review' = [review EXCEPT ![o] = [req |-> r, state |-> State(r)]]
    /\ UNCHANGED <<vars, enrollment, target, binding, approval, dispatching, consent>>

(* ControlService.approve, after the digest was typed: everything is       *)
(* recomputed and the row and the approval are written together.           *)
ServiceApprove(o) ==
    LET r == review[o].req
        until == Earlier(Expiry[row[r].digest], now + Lifetime)
    IN  /\ review[o] # NoPreview
        /\ Unchanged(r)
        /\ review[o].state = State(r)
        /\ Permitted(r, until)
        /\ Approve(r, now)
        /\ approval' = [approval EXCEPT ![r] = until]
        /\ consent' = [consent EXCEPT ![r] =
                         [enrollment |-> enrollment, target |-> target[r],
                          digest |-> row[r].digest, at |-> now]]
        /\ review' = [review EXCEPT ![o] = NoPreview]
        /\ UNCHANGED <<enrollment, target, binding, dispatching>>

(* Enter, a mismatch, a refusal or an interrupt ends the command.          *)
ReviewEnds(o) ==
    /\ review[o] # NoPreview
    /\ review' = [review EXCEPT ![o] = NoPreview]
    /\ UNCHANGED <<vars, enrollment, target, binding, approval, dispatching, consent>>

(* Bug: the revoked approval stays in local_authority.                     *)
DenyKeepsApproval(r) ==
    /\ Addressable(r)
    /\ Deny(r)
    /\ consent' = [consent EXCEPT ![r] = NoConsent]
    /\ UNCHANGED <<enrollment, target, binding, approval, review, dispatching>>

(* ControlService.deny and revoke.                                         *)
ServiceDeny(r) ==
    /\ Addressable(r)
    /\ Deny(r)
    /\ approval' = [approval EXCEPT ![r] = 0]
    /\ consent' = [consent EXCEPT ![r] = NoConsent]
    /\ UNCHANGED <<enrollment, target, binding, review, dispatching>>

(* ControlService.dispatch: the sweep is a transaction of its own ...      *)
DispatchSweep(w, r, t) ==
    /\ up
    /\ ~Busy(w)
    /\ dispatching[w] = NoRequest
    /\ State(r) # "absent"
    /\ ExpireDue(t)
    /\ dispatching' = [dispatching EXCEPT ![w] = r]
    /\ UNCHANGED <<enrollment, target, binding, approval, review, consent>>

(* ... and the start re-authorises the request with a fresh clock, however *)
(* old the instant is that Journal.start works with.                       *)
DispatchStart(w, t) ==
    /\ dispatching[w] # NoRequest
    /\ Authorised(dispatching[w])
    /\ Start(w, dispatching[w], t)
    /\ dispatching' = [dispatching EXCEPT ![w] = NoRequest]
    /\ UNCHANGED <<enrollment, target, binding, approval, review, consent>>

DispatchRefused(w) ==
    /\ dispatching[w] # NoRequest
    /\ \/ ~Authorised(dispatching[w])
       \/ State(dispatching[w]) # "ready"
       \/ paused
       \/ Kind(dispatching[w]) = "unregistered"
    /\ dispatching' = [dispatching EXCEPT ![w] = NoRequest]
    /\ UNCHANGED <<vars, enrollment, target, binding, approval, review, consent>>

-----------------------------------------------------------------------------
(* The file is edited; a provider reports another target state.            *)
EnrollmentChanges(e) ==
    /\ enrollment' = e
    /\ UNCHANGED <<vars, target, binding, approval, review, dispatching, consent>>

TargetChanges(r, s) ==
    /\ target' = [target EXCEPT ![r] = s]
    /\ UNCHANGED <<vars, enrollment, binding, approval, review, dispatching, consent>>

(* The remaining steps of the broker do not touch the authority.  Results  *)
(* and publication are the journal's own affair.                           *)
BrokerProcess ==
    \/ /\ \/ \E w \in Workers : WorkerStep(w)
          \/ \E reg \in Registries : BrokerStart(reg)
          \/ \E r \in Requests : Cancel(r) \/ Publisher(r)
          \/ \E p \in BOOLEAN : SetPaused(p)
          \/ Tick
       /\ UNCHANGED authVars
    \/ /\ BrokerStop
       /\ \A w \in Workers : dispatching[w] = NoRequest
       /\ UNCHANGED authVars
    \/ /\ Crash
       /\ dispatching' = [w \in Workers |-> NoRequest]
       /\ UNCHANGED <<enrollment, target, binding, approval, review, consent>>

ControlNext ==
    \/ \E r \in Requests, d \in Digests, origin_ok \in BOOLEAN, t \in Clock :
         ServiceAdmit(r, d, origin_ok, t)
    \/ \E o \in Operators, r \in Requests : ServicePreview(o, r)
    \/ \E o \in Operators : ServiceApprove(o) \/ ReviewEnds(o)
    \/ \E r \in Requests : ServiceDeny(r)
    \/ \E w \in Workers, r \in Requests, t \in Clock : DispatchSweep(w, r, t)
    \/ \E w \in Workers, t \in Clock : DispatchStart(w, t)
    \/ \E w \in Workers : DispatchRefused(w)
    \/ \E e \in Enrollments : EnrollmentChanges(e)
    \/ \E r \in Requests, s \in Targets : TargetChanges(r, s)
    \/ BrokerProcess

ControlSpec == ControlInit /\ [][ControlNext]_controlVars

-----------------------------------------------------------------------------
(* Types of the authority's variables.                                     *)
ControlTypeOK ==
    /\ TypeOK
    /\ enrollment \in Enrollments
    /\ target \in [Requests -> Targets]
    /\ binding \in [Requests -> BindingType \cup {NoBinding}]
    /\ \A r \in Requests : State(r) # "absent" => binding[r] # NoBinding
    /\ approval \in [Requests -> Nat]
    /\ review \in [Operators -> PreviewType]
    /\ dispatching \in [Workers -> Requests \cup {NoRequest}]
    /\ consent \in [Requests -> ConsentType \cup {NoConsent}]

(* A handler starts only on authority that is in force at that moment: the *)
(* current enrollment allows the content outright, or a human confirmed    *)
(* this very content at most Lifetime ago, under this enrollment and this  *)
(* target, and has not revoked it since.  This holds across previews gone  *)
(* stale, edits of the policy file and back, crash recovery that makes a   *)
(* request ready again, and dispatches that waited for the writer lock.    *)
StartsAreAuthorised ==
    [][\A r \in Requests :
         State(r) # "running" /\ State(r)' = "running" =>
           /\ now < Expiry[row[r].digest]
           /\ \/ Evaluate(enrollment, r, row[r].digest, TRUE) = "allow"
              \/ /\ consent[r] # NoConsent
                 /\ consent[r].enrollment = enrollment
                 /\ consent[r].target = target[r]
                 /\ consent[r].digest = row[r].digest
                 /\ now < consent[r].at + Lifetime]_controlVars

(* The two tables agree: a request made ready by a confirmation has its    *)
(* approval stored, and one that still waits or was rejected has none, so  *)
(* that a revoked approval can never be found again.                       *)
ApprovalMatchesState ==
    \A r \in Requests :
      /\ State(r) = "ready" /\ Grant[binding[r].enrollment][row[r].digest] = "confirm"
           => approval[r] # 0
      /\ State(r) \in {"awaiting_approval", "rejected"} => approval[r] = 0

=============================================================================
