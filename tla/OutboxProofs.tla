----------------------------- MODULE OutboxProofs -----------------------------
(***************************************************************************)
(* Proofs about module Outbox for any number of publishers, groups and     *)
(* manifest paths, any number of errors, and any bound on the retries.     *)
(***************************************************************************)
EXTENDS Outbox, SequenceTheorems, TLAPS

-----------------------------------------------------------------------------
(* Prefixes.                                                               *)

(* A prefix, entry by entry.                                               *)
LEMMA PrefixByEntry ==
    ASSUME NEW S, NEW s \in Seq(S), NEW t \in Seq(S)
    PROVE  IsPrefix(s, t) <=> /\ Len(s) <= Len(t)
                              /\ \A i \in 1 .. Len(s) : s[i] = t[i]
<1>1. CASE Len(s) <= Len(t)
  <2>1. SubSeq(s, 1, Len(s)) = [i \in 1 .. Len(s) |-> s[i]]
    OBVIOUS
  <2>2. SubSeq(t, 1, Len(s)) = [i \in 1 .. Len(s) |-> t[i]]
    BY <1>1
  <2>3. QED
    BY <1>1, <2>1, <2>2 DEF IsPrefix
<1>2. CASE ~(Len(s) <= Len(t))
  BY <1>2 DEF IsPrefix
<1>3. QED
  BY <1>1, <1>2

(* What is between a sequence and the sequence with one more entry.        *)
LEMMA PrefixOfAppend ==
    ASSUME NEW S, NEW s \in Seq(S), NEW t \in Seq(S), NEW e \in S,
           IsPrefix(s, t), IsPrefix(t, Append(s, e))
    PROVE  t = s \/ t = Append(s, e)
<1>1. /\ Append(s, e) \in Seq(S) /\ Len(Append(s, e)) = Len(s) + 1
      /\ \A i \in 1 .. Len(s) : Append(s, e)[i] = s[i]
  BY AppendProperties
<1>2. /\ Len(s) <= Len(t) /\ Len(t) <= Len(s) + 1
      /\ \A i \in 1 .. Len(s) : s[i] = t[i]
      /\ \A i \in 1 .. Len(t) : t[i] = Append(s, e)[i]
  <2> DEFINE a == Append(s, e)
  <2>1. a \in Seq(S) /\ Len(a) = Len(s) + 1
    BY <1>1
  <2>2. Len(s) <= Len(t) /\ \A i \in 1 .. Len(s) : s[i] = t[i]
    BY PrefixByEntry
  <2>3. IsPrefix(t, a)
    OBVIOUS
  <2>4. Len(t) <= Len(a) /\ \A i \in 1 .. Len(t) : t[i] = a[i]
    <3> HIDE DEF a
    <3>1. QED
      BY <2>1, <2>3, PrefixByEntry
  <2>5. QED
    BY <2>1, <2>2, <2>4
<1>3. CASE Len(t) = Len(s)
  BY <1>2, <1>3
<1>4. CASE Len(t) = Len(s) + 1
  BY <1>1, <1>2, <1>4
<1>5. QED
  BY <1>2, <1>3, <1>4

(* A sequence is a prefix of what is appended to what it is a prefix of.   *)
LEMMA PrefixAppend ==
    ASSUME NEW S, NEW s \in Seq(S), NEW t \in Seq(S), NEW e \in S, IsPrefix(s, t)
    PROVE  IsPrefix(s, Append(t, e))
<1> DEFINE a == Append(t, e)
<1>1. /\ a \in Seq(S) /\ Len(a) = Len(t) + 1
      /\ \A i \in 1 .. Len(t) : a[i] = t[i]
  BY AppendProperties
<1>2. Len(s) <= Len(t) /\ \A i \in 1 .. Len(s) : s[i] = t[i]
  BY PrefixByEntry
<1> HIDE DEF a
<1>3. Len(s) <= Len(a) /\ \A i \in 1 .. Len(s) : s[i] = a[i]
  BY <1>1, <1>2
<1>4. IsPrefix(s, a)
  BY <1>1, <1>3, PrefixByEntry
<1>5. QED
  BY <1>4 DEF a

(* A sequence is a prefix of itself.                                       *)
LEMMA PrefixRefl == ASSUME NEW S, NEW s \in Seq(S) PROVE IsPrefix(s, s)
BY PrefixByEntry

-----------------------------------------------------------------------------
(* Commits whose tree is exactly what their ancestry added.                *)

Unique(c) == \A i, j \in 1 .. Len(c.past) :
               Manifest[c.past[i].group] = Manifest[c.past[j].group] => i = j
Holds(c) == \A i \in 1 .. Len(c.past) : c.tree[Manifest[c.past[i].group]] = c.past[i].group
Only(c) == \A m \in Paths : c.tree[m] # NoGroup =>
             \E i \in 1 .. Len(c.past) : c.past[i].group = c.tree[m] /\ Manifest[c.tree[m]] = m
Good(c) == c \in Commits /\ Unique(c) /\ Holds(c) /\ Only(c)

(* The root commit is good.                                                *)
LEMMA RootGood == Good(Root)
BY DEF Good, Root, Commits, Trees, Unique, Holds, Only

(* So is the commit publish_group builds on a good one that lacks the      *)
(* manifest.                                                               *)
LEMMA ChildGood ==
    ASSUME NEW c, Good(c), NEW g \in Groups, NEW p \in Publishers,
           c.tree[Manifest[g]] = NoGroup
    PROVE  Good(Child(c, g, p)) /\ Child(c, g, p).past = Append(c.past, [group |-> g, by |-> p])
<1> DEFINE e == [group |-> g, by |-> p]
           d == Child(c, g, p)
           n == Len(c.past) + 1
<1>1. c.past \in Seq(Entries) /\ c.tree \in Trees /\ e \in Entries /\ Manifest[g] \in Paths
  BY ManifestAssumption DEF Good, Commits, Entries
<1>2. d.past = Append(c.past, e) /\ d.tree = [c.tree EXCEPT ![Manifest[g]] = g]
  BY DEF Child
<1>3. /\ d.past \in Seq(Entries) /\ Len(d.past) = n /\ d.past[n] = e
      /\ \A i \in 1 .. Len(c.past) : d.past[i] = c.past[i]
  BY <1>1, <1>2, AppendProperties
<1>4. d \in Commits
  BY <1>1, <1>3 DEF Child, Commits, Trees
<1>5. \A i \in 1 .. Len(c.past) : /\ c.past[i] \in Entries
                                  /\ c.tree[Manifest[c.past[i].group]] = c.past[i].group
  BY <1>1 DEF Good, Holds
<1>6. \A i \in 1 .. Len(c.past) : Manifest[c.past[i].group] # Manifest[g]
  BY <1>5, ManifestAssumption DEF Entries
<1>7. Unique(d)
  <2> SUFFICES ASSUME NEW i \in 1 .. Len(d.past), NEW j \in 1 .. Len(d.past),
                      Manifest[d.past[i].group] = Manifest[d.past[j].group]
               PROVE  i = j
    BY DEF Unique
  <2>1. CASE i < n /\ j < n
    <3>1. i \in 1 .. Len(c.past) /\ j \in 1 .. Len(c.past)
      BY <2>1, <1>1, <1>3
    <3>2. Manifest[c.past[i].group] = Manifest[c.past[j].group]
      BY <3>1, <1>3
    <3>3. Unique(c)
      BY DEF Good
    <3>4. QED
      BY <3>1, <3>2, <3>3 DEF Unique
  <2>2. CASE i = n /\ j < n
    BY <2>2, <1>1, <1>3, <1>6
  <2>3. CASE i < n /\ j = n
    BY <2>3, <1>1, <1>3, <1>6
  <2>4. QED
    BY <1>1, <1>3, <2>1, <2>2, <2>3
<1>8. Holds(d)
  <2> SUFFICES ASSUME NEW i \in 1 .. Len(d.past)
               PROVE  d.tree[Manifest[d.past[i].group]] = d.past[i].group
    BY DEF Holds
  <2>1. CASE i = n
    BY <2>1, <1>1, <1>2, <1>3 DEF Trees
  <2>2. CASE i < n
    <3>1. i \in 1 .. Len(c.past)
      BY <2>2, <1>1, <1>3
    <3>2. Manifest[c.past[i].group] \in Paths
      BY <3>1, <1>5, ManifestAssumption DEF Entries
    <3>3. QED
      BY <3>1, <3>2, <1>1, <1>2, <1>3, <1>5, <1>6 DEF Trees
  <2>3. QED
    BY <1>1, <1>3, <2>1, <2>2
<1>9. Only(d)
  <2> SUFFICES ASSUME NEW m \in Paths, d.tree[m] # NoGroup
               PROVE  \E i \in 1 .. Len(d.past) :
                        d.past[i].group = d.tree[m] /\ Manifest[d.tree[m]] = m
    BY DEF Only
  <2>1. CASE m = Manifest[g]
    <3>1. d.tree[m] = g /\ n \in 1 .. Len(d.past)
      BY <2>1, <1>1, <1>2, <1>3 DEF Trees
    <3>2. QED
      BY <2>1, <3>1, <1>3
  <2>2. CASE m # Manifest[g]
    <3>1. d.tree[m] = c.tree[m]
      BY <2>2, <1>1, <1>2 DEF Trees
    <3>2. PICK i \in 1 .. Len(c.past) : c.past[i].group = c.tree[m] /\ Manifest[c.tree[m]] = m
      BY <3>1 DEF Good, Only
    <3>3. i \in 1 .. Len(d.past) /\ d.past[i] = c.past[i]
      BY <3>2, <1>1, <1>3
    <3>4. QED
      BY <3>1, <3>2, <3>3
  <2>3. QED
    BY <2>1, <2>2
<1>10. QED
  BY <1>2, <1>4, <1>7, <1>8, <1>9 DEF Good

(* The ancestry of a good commit determines its tree.                      *)
LEMMA SameTree ==
    ASSUME NEW c, NEW d, Good(c), Good(d), c.past = d.past
    PROVE  c.tree = d.tree
<1>1. ASSUME NEW m \in Paths, NEW x, NEW y, Good(x), Good(y), x.past = y.past,
             x.tree[m] # NoGroup
      PROVE  y.tree[m] = x.tree[m]
  <2>1. PICK i \in 1 .. Len(x.past) : x.past[i].group = x.tree[m] /\ Manifest[x.tree[m]] = m
    BY <1>1 DEF Good, Only
  <2>2. QED
    BY <1>1, <2>1 DEF Good, Holds
<1>2. ASSUME NEW m \in Paths PROVE c.tree[m] = d.tree[m]
  BY <1>1
<1>3. QED
  BY <1>2 DEF Good, Commits, Trees

-----------------------------------------------------------------------------
(* The inductive invariant.  A call that is still going on builds on a     *)
(* good commit of the branch, and what the branch got since then it did    *)
(* not get from this call: that is why the fast-forward check, which only  *)
(* compares ancestries, accepts a built commit exactly when the branch has *)
(* not moved.                                                              *)

OnBranch(p) == Good(call[p].base) /\ IsPrefix(call[p].base.past, head.past)
OthersSince(p) ==
    \A i \in 1 .. Len(head.past) : i > Len(call[p].base.past) => head.past[i].by # p
Counted(p) == call[p].attempt + call[p].since

CallInv(p) ==
    /\ call[p].at # "idle" => call[p].group \in Groups
    /\ call[p].at = "ref" => Counted(p) <= Len(head.past)
    /\ call[p].at \in {"manifest", "build", "patch"} =>
         OnBranch(p) /\ OthersSince(p) /\ Counted(p) <= Len(call[p].base.past)
    /\ call[p].at \in {"build", "patch"} =>
         call[p].base.tree[Manifest[call[p].group]] = NoGroup
    /\ call[p].at = "returned" =>
         OnBranch(p) /\ call[p].base.tree[Manifest[call[p].group]] = call[p].group

IInv == TypeOK /\ Good(head) /\ \A p \in Publishers : CallInv(p)

(* A call not yet begun, or begun and still reading the branch, or raised. *)
LEMMA InitInv == Init => IInv
<1> SUFFICES ASSUME Init PROVE IInv
  OBVIOUS
<1>1. NoCall \in Calls
  BY RootGood, RetriesAssumption DEF NoCall, Calls, Stages, Good
<1>2. TypeOK
  BY <1>1, RootGood, RetriesAssumption DEF Init, TypeOK, Good
<1>3. Good(head)
  BY RootGood DEF Init
<1>4. ASSUME NEW p \in Publishers PROVE CallInv(p)
  BY DEF Init, CallInv, NoCall
<1>5. QED
  BY <1>2, <1>3, <1>4 DEF IInv

(* A step that leaves the branch and a call alone preserves what the       *)
(* invariant says of the call.                                             *)
LEMMA CallInvFrame ==
    ASSUME NEW p \in Publishers, CallInv(p), UNCHANGED head, call'[p] = call[p]
    PROVE  CallInv(p)'
BY DEF CallInv, OnBranch, OthersSince, Counted, Good, Unique, Holds, Only

(* Nor does what a call is based on depend on anything else.               *)
LEMMA OnBranchFrame ==
    ASSUME NEW p \in Publishers, OnBranch(p), UNCHANGED head, call'[p].base = call[p].base
    PROVE  OnBranch(p)'
<1> DEFINE b == call[p].base
           c == call'[p].base
<1>1. Good(b) /\ IsPrefix(b.past, head.past) /\ c = b /\ head' = head
  BY DEF OnBranch
<1> HIDE DEF b, c
<1>2. Good(c) /\ IsPrefix(c.past, head'.past)
  BY <1>1
<1>3. QED
  BY <1>2 DEF OnBranch, Good, Unique, Holds, Only, c

(* A step of a call that does not move the branch.                         *)
LEMMA OneCall ==
    ASSUME IInv, UNCHANGED head, errors' \in Nat, NEW p \in Publishers, NEW c \in Calls,
           call' = [call EXCEPT ![p] = c], CallInv(p)'
    PROVE  IInv'
<1>1. Good(head)' /\ head \in Commits /\ head' = head
  BY DEF IInv, Good, Unique, Holds, Only
<1>2. call \in [Publishers -> Calls]
  BY DEF IInv, TypeOK
<1>3. TypeOK'
  BY <1>1, <1>2 DEF TypeOK
<1>4. ASSUME NEW q \in Publishers PROVE CallInv(q)'
  <2>1. CASE q = p
    BY <2>1
  <2>2. CASE q # p
    BY <1>2, <2>2, CallInvFrame DEF IInv
  <2>3. QED
    BY <2>1, <2>2
<1>5. QED
  BY <1>1, <1>3, <1>4 DEF IInv

(* Facts about a call under the invariant.                                 *)
LEMMA CallType ==
    ASSUME IInv, NEW p \in Publishers
    PROVE  /\ call[p] \in Calls /\ CallInv(p) /\ Good(head)
           /\ head.past \in Seq(Entries) /\ call[p].base.past \in Seq(Entries)
           /\ Len(head.past) \in Nat /\ Len(call[p].base.past) \in Nat
           /\ call \in [Publishers -> Calls] /\ NoCall \in Calls
<1>1. NoCall \in Calls
  BY RootGood, RetriesAssumption DEF NoCall, Calls, Stages, Good
<1>2. call \in [Publishers -> Calls] /\ head \in Commits
  BY DEF IInv, TypeOK
<1>3. call[p] \in Calls
  BY <1>2
<1>4. head.past \in Seq(Entries) /\ call[p].base.past \in Seq(Entries)
  BY <1>2, <1>3 DEF Calls, Commits
<1>5. QED
  BY <1>1, <1>2, <1>3, <1>4 DEF IInv

(* Raising, and so failing, preserves the invariant.                       *)
LEMMA RaiseInv ==
    ASSUME IInv, NEW p \in Publishers, UNCHANGED head, errors' \in Nat, Raise(p)
    PROVE  IInv'
<1>1. NoCall \in Calls /\ call'[p] = NoCall
  BY CallType DEF Raise
<1>2. CallInv(p)'
  BY <1>1 DEF CallInv, NoCall
<1>3. QED
  BY <1>1, <1>2, OneCall DEF Raise

(* Beginning a call, and reading the branch.                               *)
LEMMA PublishInv ==
    ASSUME IInv, NEW p \in Publishers, NEW g \in Groups, Publish(p, g) PROVE IInv'
<1> DEFINE c == [NoCall EXCEPT !.at = "ref", !.group = g, !.since = Len(head.past)]
<1>1. c \in Calls
  BY CallType DEF Calls, Stages
<1>2. c.at = "ref" /\ c.group = g /\ c.since = Len(head.past) /\ c.attempt = 0
  BY DEF NoCall
<1> HIDE DEF c
<1>3. /\ head' = head /\ errors' \in Nat
      /\ call' = [call EXCEPT ![p] = c] /\ call'[p] = c
  BY CallType DEF Publish, IInv, TypeOK, c
<1>4. CallInv(p)'
  BY <1>2, <1>3, CallType DEF CallInv, Counted
<1>5. QED
  BY <1>1, <1>3, <1>4, OneCall

LEMMA ReadRefInv == ASSUME IInv, NEW p \in Publishers, ReadRef(p) PROVE IInv'
<1> DEFINE c == [call[p] EXCEPT !.at = "manifest", !.base = head]
<1>1. c \in Calls
  BY CallType DEF Calls, Stages, Good
<1>2. /\ c.at = "manifest" /\ c.group = call[p].group /\ c.base = head
      /\ c.since = call[p].since /\ c.attempt = call[p].attempt
  BY CallType DEF Calls
<1> HIDE DEF c
<1>3. /\ head' = head /\ errors' \in Nat /\ call[p].at = "ref"
      /\ call' = [call EXCEPT ![p] = c] /\ call'[p] = c
  BY CallType DEF ReadRef, IInv, TypeOK, c
<1>4. CallInv(p) /\ Good(head) /\ IsPrefix(head.past, head.past)
  BY CallType, PrefixRefl
<1>5. CallInv(p)'
  <2>1. (Good(call[p].base) /\ IsPrefix(call[p].base.past, head.past))'
    BY <1>2, <1>3, <1>4 DEF Good, Unique, Holds, Only
  <2>2. OthersSince(p)'
    BY <1>2, <1>3, CallType DEF OthersSince
  <2>3. (Counted(p) <= Len(call[p].base.past))'
    BY <1>2, <1>3, <1>4 DEF Counted, CallInv
  <2>4. call'[p].group \in Groups
    BY <1>2, <1>3, <1>4 DEF CallInv
  <2>5. QED
    BY <1>2, <1>3, <2>1, <2>2, <2>3, <2>4 DEF CallInv, OnBranch
<1>6. QED
  BY <1>1, <1>3, <1>5, OneCall

(* The invariant of a call only depends on its base and group while it     *)
(* keeps its count and moves on.                                           *)
LEMMA ManifestExistsInv ==
    ASSUME IInv, NEW p \in Publishers, ManifestExists(p) PROVE IInv'
<1>1. CASE Raise(p)
  BY <1>1, RaiseInv DEF ManifestExists, IInv, TypeOK
<1>2. CASE SameBytes(p, call[p].group) /\ Return(p, call[p].base)
  <2> DEFINE c == [NoCall EXCEPT !.at = "returned", !.base = call[p].base,
                                 !.group = call[p].group]
  <2>1. c \in Calls
    BY CallType DEF Calls, Stages
  <2>2. c.at = "returned" /\ c.group = call[p].group /\ c.base = call[p].base
    BY DEF NoCall
  <2> HIDE DEF c
  <2>3. /\ head' = head /\ errors' \in Nat /\ call[p].at = "manifest"
        /\ call' = [call EXCEPT ![p] = c] /\ call'[p] = c
    BY <1>2, CallType DEF ManifestExists, Return, IInv, TypeOK, c
  <2>4. call[p].group \in Groups /\ OnBranch(p)
    BY <2>3, CallType DEF CallInv
  <2>5. OnBranch(p)'
    BY <2>2, <2>3, <2>4, OnBranchFrame
  <2>6. CallInv(p)'
    BY <1>2, <2>2, <2>3, <2>4, <2>5 DEF CallInv, SameBytes
  <2>7. QED
    BY <2>1, <2>3, <2>6, OneCall
<1>3. QED
  BY <1>1, <1>2 DEF ManifestExists

LEMMA GoesOn ==
    ASSUME IInv, NEW p \in Publishers, NEW s \in {"build", "patch"},
           call' = [call EXCEPT ![p].at = s], UNCHANGED <<head, errors>>,
           call[p].at \in {"manifest", "build"},
           call[p].base.tree[Manifest[call[p].group]] = NoGroup
    PROVE  IInv'
<1> DEFINE c == [call[p] EXCEPT !.at = s]
<1>1. c \in Calls
  BY CallType DEF Calls, Stages
<1>2. /\ c.at = s /\ c.group = call[p].group /\ c.base = call[p].base
      /\ c.since = call[p].since /\ c.attempt = call[p].attempt
  BY CallType DEF Calls
<1> HIDE DEF c
<1>3. /\ head' = head /\ errors' \in Nat
      /\ call' = [call EXCEPT ![p] = c] /\ call'[p] = c
  BY CallType DEF IInv, TypeOK, c
<1>4. /\ call[p].group \in Groups /\ OnBranch(p) /\ OthersSince(p)
      /\ Counted(p) <= Len(call[p].base.past)
  BY CallType DEF CallInv
<1>5. OnBranch(p)' /\ OthersSince(p)' /\ (Counted(p) <= Len(call[p].base.past))'
  <2>1. OnBranch(p)'
    BY <1>2, <1>3, <1>4, OnBranchFrame
  <2>2. OthersSince(p)'
    BY <1>2, <1>3, <1>4 DEF OthersSince
  <2>3. (Counted(p) <= Len(call[p].base.past))'
    BY <1>2, <1>3, <1>4 DEF Counted
  <2>4. QED
    BY <2>1, <2>2, <2>3
<1>6. CallInv(p)'
  BY <1>2, <1>3, <1>4, <1>5 DEF CallInv
<1>7. QED
  BY <1>1, <1>3, <1>6, OneCall

LEMMA ManifestMissingInv ==
    ASSUME IInv, NEW p \in Publishers, ManifestMissing(p) PROVE IInv'
BY GoesOn DEF ManifestMissing

LEMMA BuildInv == ASSUME IInv, NEW p \in Publishers, Build(p) PROVE IInv'
<1>1. call[p].base.tree[Manifest[call[p].group]] = NoGroup
  BY CallType DEF Build, CallInv
<1>2. QED
  BY <1>1, GoesOn DEF Build

(* What a move of the branch that was accepted did: the branch was still   *)
(* the commit that was read, and got the one entry.                        *)
LEMMA Accepted ==
    ASSUME IInv, NEW p \in Publishers, PatchAccepted(p)
    PROVE  /\ call[p].group \in Groups
           /\ Good(head)' /\ Good(head') /\ head' = Built(p)
           /\ head'.past = Append(head.past, [group |-> call[p].group, by |-> p])
           /\ head'.tree = [head.tree EXCEPT ![Manifest[call[p].group]] = call[p].group]
           /\ head.tree[Manifest[call[p].group]] = NoGroup
<1> DEFINE b == call[p].base
           g == call[p].group
           e == [group |-> g, by |-> p]
           a == Append(b.past, e)
<1>1. /\ g \in Groups /\ Good(b) /\ IsPrefix(b.past, head.past) /\ OthersSince(p)
      /\ b.tree[Manifest[g]] = NoGroup
  BY CallType DEF PatchAccepted, CallInv, OnBranch
<1>2. e \in Entries /\ b.past \in Seq(Entries) /\ head.past \in Seq(Entries)
  BY <1>1, CallType DEF Entries
<1>3. a \in Seq(Entries) /\ Len(a) = Len(b.past) + 1 /\ a[Len(b.past) + 1] = e
  BY <1>2, AppendProperties
<1>4. Good(Built(p)) /\ Built(p).past = a
  BY <1>1, ChildGood DEF Built
<1>5. IsPrefix(head.past, a) /\ head' = Built(p)
  BY <1>4 DEF PatchAccepted, FastForward
<1>6. head.past = b.past \/ head.past = a
  BY <1>1, <1>2, <1>5, PrefixOfAppend
<1>7. head.past # a
  <2> SUFFICES ASSUME head.past = a PROVE FALSE
    OBVIOUS
  <2> DEFINE n == Len(b.past) + 1
  <2>1. n \in 1 .. Len(head.past) /\ n > Len(b.past)
    BY <1>2, <1>3, SMTT(30)
  <2> HIDE DEF n
  <2>2. head.past[n].by # p
    BY <1>1, <2>1 DEF OthersSince
  <2>3. QED
    BY <1>3, <2>2 DEF n
<1>8. head.past = b.past
  BY <1>6, <1>7
<1>9. head.tree = b.tree
  BY <1>1, <1>8, SameTree, CallType
<1>10. Good(head')
  BY <1>4, <1>5
<1>11. Good(head)'
  BY <1>10 DEF Good, Unique, Holds, Only
<1>12. head'.tree = [b.tree EXCEPT ![Manifest[g]] = g] /\ head'.past = Append(b.past, e)
  BY <1>5 DEF Built, Child
<1>13. QED
  BY <1>1, <1>5, <1>8, <1>9, <1>10, <1>11, <1>12

LEMMA PatchAcceptedInv == ASSUME IInv, NEW p \in Publishers, PatchAccepted(p) PROVE IInv'
<1> DEFINE e == [group |-> call[p].group, by |-> p]
           r == [NoCall EXCEPT !.at = "returned", !.base = Built(p), !.group = call[p].group]
<1>1. /\ e \in Entries /\ head.past \in Seq(Entries) /\ head'.past = Append(head.past, e)
      /\ Good(head) /\ Good(head') /\ Good(head)' /\ head' = Built(p)
      /\ head'.tree[Manifest[call[p].group]] = call[p].group /\ call[p].group \in Groups
  BY Accepted, CallType, ManifestAssumption DEF Entries, Good, Commits, Trees
<1>2. /\ head'.past \in Seq(Entries) /\ Len(head'.past) = Len(head.past) + 1
      /\ head'.past[Len(head.past) + 1] = e
      /\ \A i \in 1 .. Len(head.past) : head'.past[i] = head.past[i]
  BY <1>1, AppendProperties
<1>3. \/ call' = [call EXCEPT ![p] = r] /\ call'[p] = r
      \/ call' = [call EXCEPT ![p] = NoCall] /\ call'[p] = NoCall
  BY CallType DEF PatchAccepted, Return, Raise
<1>4. /\ r.at = "returned" /\ r.base = Built(p) /\ r.group = call[p].group
  BY DEF NoCall
<1>5. r \in Calls
  BY <1>1, CallType DEF Calls, Stages, Good
<1> HIDE DEF e, r
<1>6. TypeOK'
  BY <1>1, <1>3, <1>5, CallType, SMTT(30) DEF TypeOK, IInv, PatchAccepted, Good
<1>7. CallInv(p)'
  <2>1. CASE call'[p] = NoCall
    BY <2>1 DEF CallInv, NoCall
  <2>2. CASE call'[p] = r
    <3> DEFINE b == call'[p].base
    <3>1. b = head' /\ call'[p].at = "returned" /\ call'[p].group = call[p].group
      BY <1>1, <1>4, <2>2
    <3> HIDE DEF b
    <3>2. Good(b) /\ IsPrefix(b.past, head'.past)
      BY <1>1, <1>2, <3>1, PrefixRefl
    <3>3. OnBranch(p)'
      BY <3>2 DEF OnBranch, Good, Unique, Holds, Only, b
    <3>4. (call[p].base.tree[Manifest[call[p].group]] = call[p].group)'
      BY <1>1, <3>1 DEF b
    <3>5. QED
      BY <1>1, <3>1, <3>3, <3>4 DEF CallInv
  <2>3. QED
    BY <1>3, <2>1, <2>2
<1>8. ASSUME NEW q \in Publishers, q # p PROVE CallInv(q)'
  <2>1. call'[q] = call[q] /\ CallInv(q) /\ call[q] \in Calls
    BY <1>3, <1>8, CallType
  <2>2. OnBranch(q) => OnBranch(q)'
    <3> DEFINE b == call[q].base
               c == call'[q].base
    <3> SUFFICES ASSUME OnBranch(q) PROVE OnBranch(q)'
      OBVIOUS
    <3>1. Good(b) /\ IsPrefix(b.past, head.past) /\ c = b /\ b.past \in Seq(Entries)
      BY <2>1, CallType DEF OnBranch
    <3> HIDE DEF b, c
    <3>2. Good(c) /\ IsPrefix(c.past, head'.past)
      BY <1>1, <3>1, PrefixAppend
    <3>3. QED
      BY <3>2 DEF OnBranch, Good, Unique, Holds, Only, c
  <2>3. OthersSince(q) => OthersSince(q)'
    <3> SUFFICES ASSUME OthersSince(q), NEW i \in 1 .. Len(head'.past),
                        i > Len(call[q].base.past)
                 PROVE  head'.past[i].by # q
      BY <2>1 DEF OthersSince
    <3>1. CASE i = Len(head.past) + 1
      BY <1>2, <1>8, <3>1 DEF e
    <3>2. CASE i # Len(head.past) + 1
      <4>1. i \in 1 .. Len(head.past)
        BY <1>1, <1>2, <3>2
      <4>2. QED
        BY <1>2, <4>1 DEF OthersSince
    <3>3. QED
      BY <3>1, <3>2
  <2>4. /\ Counted(q)' = Counted(q)
        /\ Counted(q) <= Len(head.past) => Counted(q) <= Len(head'.past)
    BY <1>1, <1>2, <2>1 DEF Counted, Calls
  <2>5. QED
    BY <2>1, <2>2, <2>3, <2>4 DEF CallInv
<1>9. QED
  BY <1>1, <1>6, <1>7, <1>8 DEF IInv

LEMMA PatchRefusedInv == ASSUME IInv, NEW p \in Publishers, PatchRefused(p) PROVE IInv'
<1>1. CASE Raise(p)
  BY <1>1, RaiseInv DEF PatchRefused, IInv, TypeOK
<1>2. CASE MayTryAgain(p) /\ call' = [call EXCEPT ![p] = TryAgain(p)]
  <2> DEFINE b == call[p].base
             e == [group |-> call[p].group, by |-> p]
             c == TryAgain(p)
  <2>1. /\ call[p].group \in Groups /\ IsPrefix(b.past, head.past)
        /\ Good(b) /\ b.tree[Manifest[call[p].group]] = NoGroup
        /\ Counted(p) <= Len(b.past) /\ head' = head /\ errors' \in Nat
    BY CallType DEF PatchRefused, CallInv, OnBranch, IInv, TypeOK
  <2>2. Built(p).past = Append(b.past, e) /\ e \in Entries
    BY <2>1, ChildGood DEF Built, Entries
  <2>3. head.past # b.past
    BY <2>1, <2>2, CallType, PrefixRefl, PrefixAppend DEF PatchRefused, FastForward
  <2>4. Len(b.past) < Len(head.past)
    <3>1. Len(b.past) <= Len(head.past) /\ \A i \in 1 .. Len(b.past) : b.past[i] = head.past[i]
      BY <2>1, CallType, PrefixByEntry
    <3>2. Len(b.past) # Len(head.past)
      BY <2>3, <3>1, CallType, SeqEqual
    <3>3. QED
      BY <3>1, <3>2, CallType
  <2>5. /\ c \in Calls /\ c.at = "ref" /\ c.group = call[p].group
        /\ c.attempt = call[p].attempt + 1 /\ c.since = call[p].since
    <3>1. call[p] \in Calls /\ call[p].attempt + 1 \in 0 .. Retries - 1
      BY <1>2, CallType, RetriesAssumption DEF Calls, MayTryAgain
    <3>2. c = [call[p] EXCEPT !.at = "ref", !.attempt = call[p].attempt + 1]
      BY DEF TryAgain
    <3> HIDE DEF c
    <3>3. c \in Calls
      BY <3>1, <3>2 DEF Calls, Stages
    <3>4. QED
      BY <3>1, <3>2, <3>3 DEF Calls
  <2>6. call'[p] = c
    BY <1>2, CallType
  <2> HIDE DEF b, e, c
  <2>7. (Counted(p) <= Len(head.past))'
    BY <2>1, <2>4, <2>5, <2>6, CallType DEF Counted, b, Calls
  <2>8. CallInv(p)'
    BY <2>1, <2>5, <2>6, <2>7 DEF CallInv
  <2>9. QED
    BY <1>2, <2>1, <2>5, <2>8, OneCall DEF c
<1>3. QED
  BY <1>1, <1>2 DEF PatchRefused

LEMMA CallFailsInv == ASSUME IInv, NEW p \in Publishers, CallFails(p) PROVE IInv'
<1>1. head' = head /\ errors' \in Nat /\ Raise(p)
  BY DEF CallFails, IInv, TypeOK
<1>2. QED
  BY <1>1, RaiseInv

LEMMA StepInv == ASSUME IInv, [Next]_vars PROVE IInv'
<1>1. ASSUME NEW p \in Publishers, Step(p) PROVE IInv'
  BY <1>1, ReadRefInv, ManifestExistsInv, ManifestMissingInv, BuildInv, PatchAcceptedInv,
     PatchRefusedInv DEF Step
<1>2. CASE UNCHANGED vars
  <2>1. head' = head /\ call' = call /\ errors' = errors
    BY <1>2 DEF vars
  <2>2. \A p \in Publishers : CallInv(p)'
    BY <2>1, CallInvFrame DEF IInv
  <2>3. TypeOK' /\ Good(head)'
    BY <2>1 DEF IInv, TypeOK, Good, Unique, Holds, Only
  <2>4. QED
    BY <2>2, <2>3 DEF IInv
<1>3. QED
  BY <1>1, <1>2, PublishInv, CallFailsInv DEF Next

(* The inductive invariant holds in every reachable state, whatever        *)
(* publish_group calls run concurrently.                                   *)
THEOREM Invariance == Spec => []IInv
BY InitInv, StepInv, PTL DEF Spec

-----------------------------------------------------------------------------
(* Type correctness.                                                       *)
THEOREM TypeCorrect == Spec => []TypeOK
<1>1. IInv => TypeOK
  BY DEF IInv
<1>2. QED
  BY <1>1, Invariance, PTL

(* No group is on the branch twice, and the branch holds every group that  *)
(* was ever added: replays and races of publish_group neither duplicate    *)
(* nor lose a publication.                                                 *)
THEOREM LedgerSafe == Spec => []BranchIsLedger
<1>1. IInv => BranchIsLedger
  <2> SUFFICES ASSUME IInv PROVE BranchIsLedger
    OBVIOUS
  <2>1. Good(head) /\ head.past \in Seq(Entries)
    BY DEF IInv, Good, Commits
  <2>2. DOMAIN head.past = 1 .. Len(head.past)
    BY <2>1
  <2>3. QED
    BY <2>1, <2>2 DEF BranchIsLedger, Good, Unique, Holds
<1>2. QED
  BY <1>1, Invariance, PTL

(* What publish_group returned stays true: the group is in the commit the  *)
(* Publication names, and the branch never loses that commit.              *)
THEOREM AnswersSafe == Spec => []AnswersHold
<1>1. IInv => AnswersHold
  BY DEF IInv, AnswersHold, CallInv, OnBranch
<1>2. QED
  BY <1>1, Invariance, PTL

(* An attempt of publish_group is lost only to another publication.        *)
THEOREM ConflictSafe == Spec => []ConflictIsProgress
<1>1. IInv => ConflictIsProgress
  <2> SUFFICES ASSUME IInv, NEW p \in Publishers, call[p].at \notin Done
               PROVE  Counted(p) <= Len(head.past)
    BY DEF ConflictIsProgress, Counted
  <2>1. call[p] \in Calls /\ CallInv(p) /\ Counted(p) \in Nat
    BY CallType DEF Calls, Counted
  <2>2. CASE call[p].at = "ref"
    BY <2>1, <2>2 DEF CallInv
  <2>3. CASE call[p].at \in {"manifest", "build", "patch"}
    <3>1. IsPrefix(call[p].base.past, head.past) /\ Counted(p) <= Len(call[p].base.past)
      BY <2>1, <2>3 DEF CallInv, OnBranch
    <3>2. Len(call[p].base.past) <= Len(head.past)
      BY <3>1, CallType, PrefixByEntry
    <3>3. QED
      BY <2>1, <3>1, <3>2, CallType
  <2>4. QED
    BY <2>1, <2>2, <2>3 DEF Calls, Stages, Done
<1>2. QED
  BY <1>1, Invariance, PTL

(* Concurrent publishers implement the write-once store: the branch is     *)
(* initially empty, and every step writes one empty slot or none.          *)
THEOREM Implements == Spec => LedgerSpec
<1>1. Init => Ledger!Init
  BY DEF Init, Ledger!Init, Root
<1>2. ASSUME IInv, [Next]_vars PROVE [Ledger!Next]_(head.tree)
  <2>1. ASSUME NEW p \in Publishers, PatchAccepted(p) PROVE Ledger!Next
    <3>1. /\ Manifest[call[p].group] \in Paths /\ call[p].group \in Groups
          /\ head.tree[Manifest[call[p].group]] = NoGroup
          /\ head'.tree = [head.tree EXCEPT ![Manifest[call[p].group]] = call[p].group]
      BY <1>2, <2>1, Accepted, ManifestAssumption
    <3>2. QED
      BY <3>1 DEF Ledger!Next, Ledger!Write
  <2>2. CASE UNCHANGED head
    BY <2>2
  <2>3. QED
    BY <1>2, <2>1, <2>2 DEF Next, Step, vars, Publish, ReadRef, ManifestExists, ManifestMissing,
       Build, PatchRefused, CallFails
<1>3. QED
  BY <1>1, <1>2, Invariance, PTL DEF Spec, LedgerSpec, Ledger!Spec
=============================================================================
