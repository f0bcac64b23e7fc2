-------------------------------- MODULE Outbox --------------------------------
(***************************************************************************)
(* Publication to the outbox branch (transport/github/core.py,             *)
(* GitHubMailbox.publish_group): several publishers, threads of one broker *)
(* or a replayed call after a restart, add groups to one remote branch by  *)
(* building a commit on the head they read and moving the branch without   *)
(* force.                                                                  *)
(*                                                                         *)
(* The remote is the hosting service.  Its objects are immutable and what  *)
(* is unreachable is invisible, so only the read of the branch and the     *)
(* move of the branch are points where publishers meet.                    *)
(***************************************************************************)
EXTENDS Naturals, SequencesExt

CONSTANTS
    Publishers,  \* concurrent calls of publish_group
    Groups,      \* publication groups: a manifest with its bytes and its data
    Paths,       \* manifest paths
    Manifest,    \* the manifest path of each group
    Retries,     \* argument retries, 3 by default
    MaxErrors,   \* bound: failed requests and lost answers
    NoGroup

ASSUME ManifestAssumption == Manifest \in [Groups -> Paths] /\ NoGroup \notin Groups
ASSUME RetriesAssumption == Retries \in Nat \ {0} /\ MaxErrors \in Nat

VARIABLES
    head,    \* the commit the outbox branch points to
    call,    \* the call each publisher is in, or the Publication it was given
    errors   \* history: failed requests and lost answers so far

vars == <<head, call, errors>>

-----------------------------------------------------------------------------
(* A commit is its tree, which manifest holds which group, and its         *)
(* ancestry: the groups added, in order, and by whom.                      *)
Trees == [Paths -> Groups \cup {NoGroup}]
Entries == [group : Groups, by : Publishers]
Commits == [tree : Trees, past : Seq(Entries)]
Root == [tree |-> [p \in Paths |-> NoGroup], past |-> <<>>]

Stages == {"idle", "ref", "manifest", "build", "patch", "returned"}
Done == {"idle", "returned"}
Calls == [at : Stages, group : Groups \cup {NoGroup}, base : Commits, attempt : 0 .. Retries - 1,
          since : Nat]  \* history: the length of the branch when it began
NoCall == [at |-> "idle", group |-> NoGroup, base |-> Root, attempt |-> 0, since |-> 0]

(* Bug: the new tree is made without base_tree.                            *)
ChildAlone(c, g, p) == [tree |-> [Root.tree EXCEPT ![Manifest[g]] = g],
                        past |-> Append(c.past, [group |-> g, by |-> p])]

(* A commit that adds a group to the tree of its parent.                   *)
Child(c, g, p) == [tree |-> [c.tree EXCEPT ![Manifest[g]] = g],
                   past |-> Append(c.past, [group |-> g, by |-> p])]

(* Moving a branch without force needs a commit that descends from it.     *)
FastForward(c) == IsPrefix(head.past, c.past)

-----------------------------------------------------------------------------
Init ==
    /\ head = Root
    /\ call = [p \in Publishers |-> NoCall]
    /\ errors = 0

(* A returned call keeps the commit its Publication names as its base.     *)
Return(p, c) ==
    call' = [call EXCEPT ![p] = [NoCall EXCEPT !.at = "returned", !.base = c,
                                               !.group = call[p].group]]
Raise(p) == call' = [call EXCEPT ![p] = NoCall]

Publish(p, g) ==
    /\ call[p].at \in Done
    /\ call' = [call EXCEPT ![p] = [NoCall EXCEPT !.at = "ref", !.group = g,
                                                  !.since = Len(head.past)]]
    /\ UNCHANGED <<head, errors>>

(* _ref                                                                    *)
ReadRef(p) ==
    /\ call[p].at = "ref"
    /\ call' = [call EXCEPT ![p].at = "manifest", ![p].base = head]
    /\ UNCHANGED <<head, errors>>

(* Bug: whatever is there under the manifest path is taken for the group.  *)
SameBytesAnyway(p, g) == call[p].base.tree[Manifest[g]] # NoGroup

SameBytes(p, g) == call[p].base.tree[Manifest[g]] = g

(* The manifest at the head that was read: there with the same bytes, the  *)
(* group was published before; with others, it never can be.               *)
ManifestExists(p) ==
    LET g == call[p].group IN
    /\ call[p].at = "manifest"
    /\ call[p].base.tree[Manifest[g]] # NoGroup
    /\ IF SameBytes(p, g) THEN Return(p, call[p].base) ELSE Raise(p)
    /\ UNCHANGED <<head, errors>>

ManifestMissing(p) ==
    /\ call[p].at = "manifest"
    /\ call[p].base.tree[Manifest[call[p].group]] = NoGroup
    /\ call' = [call EXCEPT ![p].at = "build"]
    /\ UNCHANGED <<head, errors>>

(* The blobs, the tree and the commit are created, unreachable so far.     *)
Build(p) ==
    /\ call[p].at = "build"
    /\ call' = [call EXCEPT ![p].at = "patch"]
    /\ UNCHANGED <<head, errors>>

Built(p) == Child(call[p].base, call[p].group, p)

(* The move of the branch.  A lost answer looks like a failed request.     *)
PatchAccepted(p) ==
    /\ call[p].at = "patch"
    /\ FastForward(Built(p))
    /\ head' = Built(p)
    /\ \/ Return(p, Built(p)) /\ UNCHANGED errors
       \/ Raise(p) /\ errors < MaxErrors /\ errors' = errors + 1

(* Bug: the next attempt goes on with the head read by the first.          *)
TryAgainThere(p) == [call[p] EXCEPT !.at = "manifest", !.attempt = @ + 1]

(* Bug: so does it, and nobody counts.                                     *)
TryAgainForEver(p) == [call[p] EXCEPT !.at = "manifest"]

TryAgain(p) == [call[p] EXCEPT !.at = "ref", !.attempt = @ + 1]

MayTryAgain(p) == call[p].attempt + 1 < Retries

PatchRefused(p) ==
    /\ call[p].at = "patch"
    /\ ~FastForward(Built(p))
    /\ IF MayTryAgain(p)
         THEN call' = [call EXCEPT ![p] = TryAgain(p)]
         ELSE Raise(p)
    /\ UNCHANGED <<head, errors>>

(* Any request may fail, or the process die.                               *)
CallFails(p) ==
    /\ call[p].at \notin Done
    /\ errors < MaxErrors
    /\ errors' = errors + 1
    /\ Raise(p)
    /\ UNCHANGED head

Step(p) ==
    \/ ReadRef(p)
    \/ ManifestExists(p)
    \/ ManifestMissing(p)
    \/ Build(p)
    \/ PatchAccepted(p)
    \/ PatchRefused(p)

Next ==
    \E p \in Publishers :
      \/ \E g \in Groups : Publish(p, g)
      \/ Step(p)
      \/ CallFails(p)

Spec == Init /\ [][Next]_vars

(* A call goes on; each request it makes has a timeout of its own.         *)
FairSpec == Spec /\ \A p \in Publishers : WF_vars(Step(p))

-----------------------------------------------------------------------------
(* Types of all variables.                                                 *)
TypeOK ==
    /\ head \in Commits
    /\ call \in [Publishers -> Calls]
    /\ errors \in Nat

(* The branch holds each group at most once and loses none: two calls for  *)
(* one group, a replay after a lost answer, and calls that raced with      *)
(* others leave exactly one entry per manifest, and the tree holds all of  *)
(* them.                                                                   *)
BranchIsLedger ==
    /\ \A i, j \in DOMAIN head.past :
         Manifest[head.past[i].group] = Manifest[head.past[j].group] => i = j
    /\ \A i \in DOMAIN head.past :
         head.tree[Manifest[head.past[i].group]] = head.past[i].group

(* A Publication names a commit at which the group's own bytes are found   *)
(* and which the branch keeps, reused or not.                              *)
AnswersHold ==
    \A p \in Publishers : call[p].at = "returned" =>
      /\ call[p].base.tree[Manifest[call[p].group]] = call[p].group
      /\ IsPrefix(call[p].base.past, head.past)

(* An attempt is used up only because another publisher moved the branch   *)
(* during the call: as many publications as attempts, so that contention   *)
(* cannot starve everybody.                                                *)
ConflictIsProgress ==
    \A p \in Publishers : call[p].at \notin Done =>
      call[p].attempt + call[p].since <= Len(head.past)

(* Every call returns or raises.                                           *)
CallsEnd == \A p \in Publishers : (call[p].at \notin Done) ~> (call[p].at \in Done)

(* The branch is a store in which every manifest path is written once.     *)
Ledger == INSTANCE WriteOnce WITH
    Slots <- Paths, Values <- Groups, Empty <- NoGroup, store <- head.tree

(* Whatever publishers do concurrently, and whatever fails, the branch     *)
(* behaves as the write-once store of module WriteOnce.                    *)
LedgerSpec == Ledger!Spec

=============================================================================
