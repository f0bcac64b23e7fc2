------------------------------- MODULE Observe -------------------------------
(***************************************************************************)
(* One observation by the read adapters (capabilities/github): of a Git    *)
(* worktree, or of an object on GitHub.  Nothing that is observed holds    *)
(* still: files, HEAD, the branch and the index are read one by one while  *)
(* others work in the worktree, a repository can be renamed between two    *)
(* requests, and the policy that permits the observation can be edited     *)
(* meanwhile.  ReadAdapters.observe therefore looks at everything twice.   *)
(***************************************************************************)
EXTENDS Naturals, FiniteSets

CONSTANTS
    Paths,           \* files of the worktree, present or not
    Revisions,       \* Enrollment.revision
    NoPolicy,
    MaxChanges       \* bound: changes of what is observed and of the policy

Metadata == {"place", "head", "ref", "index"}
Parts == Paths \cup Metadata

ASSUME PathsAssumption == Paths \cap Metadata = {} /\ IsFiniteSet(Paths)
ASSUME ChangesAssumption == MaxChanges \in Nat

(* An enrollment, as far as the grant for this request goes.               *)
Policies == [grant : {"allow", "confirm", "deny"}, revision : Revisions]
ASSUME NoPolicyAssumption == NoPolicy \notin Policies

VARIABLES
    tree,        \* the worktree: a version of each file, of HEAD, of the branch and of the index,
                 \* and of the directories themselves, which are enrolled as version 0
    signature,   \* of each version of a file: the version whose name, mode, size, time and inode
                 \* it has, which is another one if it was made to look so
    remote,      \* the repository that has the enrolled name is the enrolled one
    mailbox,     \* the enrollment that the loader returns
    approval,    \* the enrollment that the approval was given for
    stops,       \* why the observation should stop
    obs,         \* the observation
    changes,     \* history: number of changes of tree, remote and mailbox
    worlds,      \* history: the states of the worktree since the observation began
    returned,    \* history: the parts that went back to an earlier version, or looked like one
    renames,     \* history: changes of remote while the observation runs
    edits,       \* history: changes of mailbox and approval since mailbox was read first
    withdrawn    \* history: since then the observation was not permitted for a while

surroundings == <<tree, signature, remote, mailbox, approval, stops>>
history == <<changes, worlds, returned, renames, edits, withdrawn>>
vars == <<surroundings, obs, history>>

-----------------------------------------------------------------------------
Versions == 0 .. MaxChanges
Tree == [Parts -> Versions]
Stops == {"disabled", "cancelled", "expired"}
Capabilities == {"worktree", "github"}
Points == {"idle", "target", "policy", "validate", "scan", "head", "ref", "index", "status",
           "verify", "fetch", "guard", "targetAgain", "policyAgain", "ended"}
Codes == {"none", "OK", "EXTENSION_DISABLED", "CANCELLED", "EXPIRED", "POLICY_DENIED",
          "APPROVAL_REQUIRED", "WORKTREE_IDENTITY_CHANGED", "WORKTREE_CHANGED",
          "REMOTE_IDENTITY_CHANGED", "AUTHORITY_CHANGED", "UNAVAILABLE"}
ObsType == [at : Points, capability : Capabilities, again : BOOLEAN, left : SUBSET Paths,
            target : Policies \cup {NoPolicy}, seen : Tree, status : [Paths -> Versions],
            differs : BOOLEAN, fromEnrolled : BOOLEAN, code : Codes]

NoSnapshot == [p \in Parts |-> 0]

Init ==
    /\ tree = [p \in Parts |-> 0]
    /\ signature = [v \in Versions |-> v]
    /\ remote \in BOOLEAN
    /\ mailbox \in Policies
    /\ approval \in Policies \cup {NoPolicy}
    /\ stops = {}
    /\ \E capability \in Capabilities :
         obs = [at |-> "idle", capability |-> capability, again |-> FALSE, left |-> {},
                target |-> NoPolicy, seen |-> NoSnapshot, status |-> [p \in Paths |-> 0],
                differs |-> FALSE, fromEnrolled |-> FALSE, code |-> "none"]
    /\ changes = 0
    /\ worlds = {tree}
    /\ returned = {}
    /\ renames = 0
    /\ edits = 0
    /\ withdrawn = FALSE

(* policy.evaluate.  An approval is for one target state, which has the    *)
(* digest of the enrollment in it, and for one revision of the policy.     *)
Permits(policy, approved, target) ==
    \/ policy.grant = "allow"
    \/ policy.grant = "confirm" /\ approved # NoPolicy /\ approved = target
                                /\ approved.revision = policy.revision

-----------------------------------------------------------------------------
(* What happens around the observation.                                    *)

Running == obs.at \notin {"idle", "ended"}
MayChange == Running /\ changes < MaxChanges /\ changes' = changes + 1

Authorised == obs.at \notin {"idle", "target", "ended"}

(* Somebody works in the worktree.                                         *)
Write(p) ==
    /\ MayChange
    /\ obs.capability = "worktree"
    /\ tree' = [tree EXCEPT ![p] = changes + 1]
    /\ worlds' = worlds \cup {tree'}
    /\ UNCHANGED <<signature, remote, mailbox, approval, stops, obs, returned, renames, edits, withdrawn>>

(* Anything can be what it was again: a checkout and one back, a file that *)
(* is renamed away and back with its time and its inode.                   *)
PutBack(p) ==
    /\ MayChange
    /\ \E old \in {w[p] : w \in worlds} \ {tree[p]} : tree' = [tree EXCEPT ![p] = old]
    /\ worlds' = worlds \cup {tree'}
    /\ returned' = returned \cup {p}
    /\ UNCHANGED <<signature, remote, mailbox, approval, stops, obs, renames, edits, withdrawn>>

(* A file is written in its place, with as many bytes as a version that it *)
(* had, and its time is set to that one's (utime).                         *)
Imitate(p) ==
    /\ MayChange
    /\ obs.capability = "worktree"
    /\ tree' = [tree EXCEPT ![p] = changes + 1]
    /\ \E old \in {w[p] : w \in worlds} :
         signature' = [signature EXCEPT ![changes + 1] = signature[old]]
    /\ worlds' = worlds \cup {tree'}
    /\ returned' = returned \cup {p}
    /\ UNCHANGED <<remote, mailbox, approval, stops, obs, renames, edits, withdrawn>>

(* The name of the repository goes to another one, or comes back.          *)
Rename ==
    /\ MayChange
    /\ obs.capability = "github"
    /\ remote' = ~remote
    /\ renames' = renames + 1
    /\ UNCHANGED <<tree, signature, mailbox, approval, stops, obs, worlds, returned, edits, withdrawn>>

EditPolicy(policy) ==
    /\ MayChange
    /\ policy # mailbox
    /\ mailbox' = policy
    /\ edits' = IF Authorised THEN edits + 1 ELSE edits
    /\ withdrawn' = (withdrawn \/ (Authorised /\ ~Permits(policy, approval, obs.target)))
    /\ UNCHANGED <<tree, signature, remote, approval, stops, obs, worlds, returned, renames>>

(* An approval expires or is revoked; it is not given while this runs.     *)
ApprovalLapses ==
    /\ Running
    /\ approval # NoPolicy
    /\ approval' = NoPolicy
    /\ edits' = IF Authorised THEN edits + 1 ELSE edits
    /\ withdrawn' = (withdrawn \/ (Authorised /\ ~Permits(mailbox, NoPolicy, obs.target)))
    /\ UNCHANGED <<tree, signature, remote, mailbox, stops, obs, changes, worlds, returned, renames>>

Halt(reason) ==
    /\ obs.at # "ended"
    /\ reason \notin stops
    /\ stops' = stops \cup {reason}
    /\ UNCHANGED <<tree, signature, remote, mailbox, approval, obs, history>>

Surroundings ==
    \/ \E p \in Parts : Write(p) \/ PutBack(p)
    \/ \E p \in Paths : Imitate(p)
    \/ Rename
    \/ \E policy \in Policies : EditPolicy(policy)
    \/ ApprovalLapses
    \/ \E reason \in Stops : Halt(reason)

-----------------------------------------------------------------------------
(* The observation.                                                        *)

Quiet == UNCHANGED <<surroundings, history>>
End(code) == obs' = [obs EXCEPT !.at = "ended", !.code = code]
Goto(point) == obs' = [obs EXCEPT !.at = point]
StartScan(point) == obs' = [obs EXCEPT !.at = point, !.left = Paths]

(* guard() names the reason itself.                                        *)
Reason == IF "disabled" \in stops THEN "EXTENSION_DISABLED"
          ELSE IF "expired" \in stops THEN "EXPIRED"
          ELSE "CANCELLED"

(* stopped() only says that there is one; the handler at the end of        *)
(* observe looks for it.                                                   *)
ReasonAfterwards == IF "expired" \in stops THEN "EXPIRED"
                    ELSE IF "disabled" \in stops THEN "EXTENSION_DISABLED"
                    ELSE "CANCELLED"

Start ==
    /\ obs.at = "idle"
    /\ IF stops # {} THEN End(Reason) ELSE Goto("target")
    /\ worlds' = {tree}
    /\ UNCHANGED <<surroundings, changes, returned, renames, edits, withdrawn>>

(* target_state                                                            *)
ReadTarget ==
    /\ obs.at = "target"
    /\ obs' = [obs EXCEPT !.at = "policy", !.target = mailbox]
    /\ withdrawn' = ~Permits(mailbox, approval, mailbox)
    /\ UNCHANGED <<surroundings, changes, worlds, returned, renames, edits>>

EvaluatePolicy ==
    /\ obs.at = "policy"
    /\ IF Permits(mailbox, approval, obs.target)
       THEN Goto(IF obs.capability = "worktree" THEN "validate" ELSE "verify")
       ELSE End(IF mailbox.grant = "confirm" THEN "APPROVAL_REQUIRED" ELSE "POLICY_DENIED")
    /\ Quiet

(* Worktree.validate                                                       *)
Validate ==
    /\ obs.at = "validate"
    /\ IF tree["place"] # 0 THEN End("WORKTREE_IDENTITY_CHANGED")
       ELSE IF obs.again THEN Goto("head") ELSE StartScan("scan")
    /\ Quiet

(* _inventory: the signatures of the files, one after the other.           *)
Scan(p) ==
    /\ obs.at = "scan" /\ p \in obs.left
    /\ IF stops # {} THEN End(ReasonAfterwards)
       ELSE IF obs.again
       THEN obs' = [obs EXCEPT !.left = @ \ {p}, !.differs = @ \/ signature[tree[p]] # obs.seen[p]]
       ELSE obs' = [obs EXCEPT !.left = @ \ {p}, !.seen[p] = signature[tree[p]]]
    /\ Quiet

ScanEnds ==
    /\ obs.at = "scan" /\ obs.left = {}
    /\ IF ~obs.again THEN Goto("head")
       ELSE IF obs.differs THEN End("WORKTREE_CHANGED")
       ELSE Goto("guard")
    /\ Quiet

(* _head is HEAD, then the branch it names; then the index.                *)
AfterPart == [head |-> "ref", ref |-> "index", index |-> "status"]

ReadPart(part) ==
    /\ obs.at = part /\ ~obs.again
    /\ obs' = [obs EXCEPT !.seen[part] = tree[part], !.at = AfterPart[part],
                          !.left = IF part = "index" THEN Paths ELSE {}]
    /\ Quiet

(* Bug: HEAD still names the branch, so the branch is not compared.        *)
BranchByName(part) ==
    /\ obs.at = part /\ obs.again
    /\ LET differs == obs.differs \/ (part # "ref" /\ tree[part] # obs.seen[part])
       IN  IF differs /\ part # "head" THEN End("WORKTREE_CHANGED")
           ELSE IF part = "index" THEN StartScan("scan")
           ELSE obs' = [obs EXCEPT !.at = AfterPart[part], !.differs = differs]
    /\ Quiet

(* HEAD and the branch are compared when both are read.                    *)
ReadPartAgain(part) ==
    /\ obs.at = part /\ obs.again
    /\ LET differs == obs.differs \/ tree[part] # obs.seen[part]
       IN  IF differs /\ part # "head" THEN End("WORKTREE_CHANGED")
           ELSE IF part = "index" THEN StartScan("scan")
           ELSE obs' = [obs EXCEPT !.at = AfterPart[part], !.differs = differs]
    /\ Quiet

(* git status compares the files with the copies of HEAD and index.        *)
Status(p) ==
    /\ obs.at = "status" /\ p \in obs.left
    /\ IF stops # {} THEN End(ReasonAfterwards)
       ELSE obs' = [obs EXCEPT !.left = @ \ {p}, !.status[p] = tree[p]]
    /\ Quiet

StatusEnds ==
    /\ obs.at = "status" /\ obs.left = {}
    /\ obs' = [obs EXCEPT !.at = "validate", !.again = TRUE]
    /\ Quiet

(* GitHub: who has the name, the object itself, who has the name.  Each is *)
(* a guard and a request, which may be stopped too.                        *)
RequestStopped == End(Reason) \/ End(ReasonAfterwards)

Verify ==
    /\ obs.at = "verify"
    /\ IF stops # {} THEN RequestStopped
       ELSE IF ~remote THEN End("REMOTE_IDENTITY_CHANGED")
       ELSE Goto(IF obs.again THEN "guard" ELSE "fetch")
    /\ Quiet

(* Bug: the repository is verified before the request only.                *)
FetchLast ==
    /\ obs.at = "fetch"
    /\ IF stops # {} THEN RequestStopped
       ELSE obs' = [obs EXCEPT !.at = "guard", !.fromEnrolled = remote]
    /\ Quiet

Fetch ==
    /\ obs.at = "fetch"
    /\ IF stops # {} THEN RequestStopped
       ELSE obs' = [obs EXCEPT !.at = "verify", !.again = TRUE, !.fromEnrolled = remote]
    /\ Quiet

Guard ==
    /\ obs.at = "guard"
    /\ IF stops # {} THEN End(Reason) ELSE Goto("targetAgain")
    /\ Quiet

(* Bug: the policy is evaluated again, but for the state it was read in.   *)
TargetKept ==
    /\ obs.at = "targetAgain"
    /\ Goto("policyAgain")
    /\ Quiet

ReadTargetAgain ==
    /\ obs.at = "targetAgain"
    /\ IF mailbox # obs.target THEN End("AUTHORITY_CHANGED") ELSE Goto("policyAgain")
    /\ Quiet

EvaluatePolicyAgain ==
    /\ obs.at = "policyAgain"
    /\ End(IF Permits(mailbox, approval, obs.target) THEN "OK" ELSE "AUTHORITY_CHANGED")
    /\ Quiet

(* A file cannot be read or changes in the middle of a read, a limit or a  *)
(* deadline is passed, gh or git fails.                                    *)
StepFails ==
    /\ obs.at \in {"target", "validate", "scan", "head", "ref", "index", "status", "verify",
                   "fetch", "targetAgain"}
    /\ End("UNAVAILABLE")
    /\ Quiet

Observation ==
    \/ Start \/ ReadTarget \/ EvaluatePolicy \/ Validate \/ ScanEnds \/ StatusEnds
    \/ \E p \in Paths : Scan(p) \/ Status(p)
    \/ \E part \in {"head", "ref", "index"} : ReadPart(part) \/ ReadPartAgain(part)
    \/ Verify \/ Fetch \/ Guard \/ ReadTargetAgain \/ EvaluatePolicyAgain \/ StepFails

Next == Surroundings \/ Observation

Spec == Init /\ [][Next]_vars

-----------------------------------------------------------------------------
TypeOK ==
    /\ tree \in Tree /\ signature \in [Versions -> Versions]
    /\ remote \in BOOLEAN
    /\ mailbox \in Policies
    /\ approval \in Policies \cup {NoPolicy}
    /\ stops \subseteq Stops
    /\ obs \in ObsType
    /\ changes \in Versions /\ renames \in Nat /\ edits \in Nat
    /\ worlds \subseteq Tree
    /\ returned \subseteq Parts
    /\ withdrawn \in BOOLEAN

(* Files, HEAD, branch and index are read one after the other, and git     *)
(* reads the files at times of its own.  That is no atomic snapshot: the   *)
(* second look sees neither what went away and came back, nor a file that  *)
(* was made to look like an earlier version of itself.  Of all the other   *)
(* parts the result says the truth of one and the same instant, that of    *)
(* the first look at the index, which may itself have changed and changed  *)
(* back: then they all were what was seen of them, the worktree was at its *)
(* enrolled place, and the files had the content that git saw.             *)
SnapshotIsConsistent ==
    obs.code = "OK" /\ obs.capability = "worktree" =>
        \E w \in worlds : /\ w["index"] = obs.seen["index"]
                          /\ \A p \in Parts \ returned : w[p] = obs.seen[p]
                          /\ "place" \notin returned => w["place"] = 0
                          /\ \A p \in Paths \ returned : obs.status[p] = w[p]

(* An object that is returned is one of the enrolled repository, unless    *)
(* its name was taken away and given back around the request.              *)
RepositoryIsTheOne ==
    obs.code = "OK" /\ obs.capability = "github" /\ renames <= 1 => obs.fromEnrolled

(* The policy is read four times.  If the observation is returned and the  *)
(* enrollment and the approval changed no more than once meanwhile, the    *)
(* observation was permitted at the first time, at the last and at every   *)
(* instant between.                                                        *)
PermittedThroughout == obs.code = "OK" /\ edits <= 1 => ~withdrawn

(* An observation that ends as cancelled, expired or disabled was.  The    *)
(* process runner and the scans only learn that they are to stop; what for *)
(* is looked up when they have.                                            *)
StopIsTruthful ==
    /\ obs.code = "CANCELLED" => "cancelled" \in stops
    /\ obs.code = "EXPIRED" => "expired" \in stops
    /\ obs.code = "EXTENSION_DISABLED" => "disabled" \in stops

=============================================================================
