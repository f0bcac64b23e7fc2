----------------------------- MODULE InboxProofs -----------------------------
(***************************************************************************)
(* Proofs about module Inbox: for any files, contents, page sizes and page *)
(* limits, and any number of commits, rewrites and failed polls.           *)
(***************************************************************************)
EXTENDS Inbox, SequenceTheorems, TLAPS

-----------------------------------------------------------------------------
(* Commits are numbered in the order they are made, so the numbers on the  *)
(* branch increase.                                                        *)
BranchOK ==
    /\ Len(branch) >= 1
    /\ \A i, j \in 1 .. Len(branch) : i < j => branch[i] < branch[j]
    /\ \A i \in 1 .. Len(branch) : branch[i] <= made

(* A file of a tree was there before, or a commit since then lists it as   *)
(* it is.                                                                  *)
History ==
    \A i, j \in 1 .. Len(branch) : i < j =>
      \A p \in Paths : tree[branch[j]][p] # NoContent =>
        \/ tree[branch[i]][p] = tree[branch[j]][p]
        \/ \E m \in i + 1 .. j : /\ p \in touched[branch[m]]
                                 /\ tree[branch[m]][p] = tree[branch[j]][p]

Known == cursor <= made /\ poll.head <= made

(* A listing is whole as long as the branch was not rewritten under it.    *)
Whole == poll.at = "list" /\ ~torn

(* While it is, the branch keeps the head the poll reads up to.            *)
OnBranch == Whole => Contains(branch, poll.head)

Ahead == poll.at \in {"list", "commits"} /\ Contains(branch, cursor) => cursor < poll.head

(* What is behind the pages that were read, up to the head, was listed;    *)
(* pushes only move more of the branch behind them.                        *)
Listing ==
    Whole =>
      \A i \in 1 .. Len(branch) :
        i > Len(branch) - (poll.page - 1) * PageSize /\ branch[i] <= poll.head =>
          branch[i] \in ToSet(poll.commits)

(* In the end everything between the cursor and the head was, and a        *)
(* rewrite that leaves the head leaves what is older too.                  *)
Caught ==
    poll.at = "commits" /\ ~torn /\ Contains(branch, poll.head) =>
      /\ Contains(branch, cursor)
      /\ \A i \in 1 .. Len(branch) :
           cursor < branch[i] /\ branch[i] <= poll.head => branch[i] \in ToSet(poll.commits)

Base == TypeOK /\ BranchOK /\ History /\ Known
Steady == OnBranch /\ Ahead /\ Listing /\ Caught /\ CursorCovers

-----------------------------------------------------------------------------
(* Lemmas about sequences.                                                 *)

LEMMA ToSetConcat ==
    ASSUME NEW S, NEW s \in Seq(S), NEW t \in Seq(S)
    PROVE  ToSet(s) \subseteq ToSet(s \o t) /\ ToSet(t) \subseteq ToSet(s \o t)
<1>1. /\ s \o t \in Seq(S) /\ Len(s \o t) = Len(s) + Len(t)
      /\ Len(s) \in Nat /\ Len(t) \in Nat
      /\ DOMAIN s = 1 .. Len(s) /\ DOMAIN t = 1 .. Len(t) /\ DOMAIN (s \o t) = 1 .. Len(s \o t)
  BY ConcatProperties, LenProperties
<1>2. \A i \in 1 .. Len(s) : (s \o t)[i] = s[i]
  BY <1>1, ConcatProperties
<1>3. \A i \in 1 .. Len(t) : (s \o t)[Len(s) + i] = t[i]
  <2> SUFFICES ASSUME NEW i \in 1 .. Len(t) PROVE (s \o t)[Len(s) + i] = t[i]
    OBVIOUS
  <2>1. Len(s) + i \in 1 .. Len(s) + Len(t) /\ ~(Len(s) + i <= Len(s)) /\ Len(s) + i - Len(s) = i
    BY <1>1
  <2> QED
    BY <2>1, ConcatProperties
<1>4. \A i \in 1 .. Len(t) : Len(s) + i \in 1 .. Len(s \o t)
  BY <1>1
<1>5. \A i \in 1 .. Len(s) : i \in 1 .. Len(s \o t)
  BY <1>1
<1>6. ToSet(s) \subseteq ToSet(s \o t)
  BY <1>1, <1>2, <1>5 DEF ToSet
<1>7. ToSet(t) \subseteq ToSet(s \o t)
  BY <1>1, <1>3, <1>4 DEF ToSet
<1> QED
  BY <1>6, <1>7

(* What SelectInSeq returns for a test of equality.                        *)
Place(s, c) == LET I == {i \in 1 .. Len(s) : s[i] = c} IN IF I # {} THEN Min(I) ELSE 0

(* In a sequence without repetition the first place is the only one.       *)
LEMMA OnlyPlace ==
    ASSUME NEW S, NEW s \in Seq(S), NEW c,
           \A i, j \in 1 .. Len(s) : s[i] = s[j] => i = j
    PROVE  /\ Contains(s, c) => Place(s, c) \in 1 .. Len(s) /\ s[Place(s, c)] = c
           /\ ~Contains(s, c) => Place(s, c) = 0
<1> DEFINE I == {i \in 1 .. Len(s) : s[i] = c}
<1>1. Place(s, c) = IF I # {} THEN Min(I) ELSE 0
  BY DEF Place
<1>2. ~Contains(s, c) => I = {}
  BY DEF Contains
<1>3. ASSUME NEW j \in I PROVE Min(I) = j
  <2>1. I = {j}
    BY <1>3
  <2>2. j \in Int
    BY LenProperties
  <2>3. Min({j}) = j
    BY <2>2 DEF Min
  <2> QED
    BY <2>1, <2>3
<1>4. Contains(s, c) => I # {}
  BY DEF Contains
<1> QED
  BY <1>1, <1>2, <1>3, <1>4

(* A page shows a stretch of the branch, the newest commit first.          *)
Shows(page, a, L) ==
    /\ page \in Seq(Commits) /\ Len(page) \in Nat /\ a \in Nat /\ L \in Nat
    /\ \A i \in 1 .. Len(page) : L - a - i + 1 \in 1 .. L /\ page[i] = branch[L - a - i + 1]
    /\ \A j \in 1 .. L : j <= L - a /\ j > L - a - PageSize => L - a - j + 1 \in 1 .. Len(page)

LEMMA PageShows ==
    ASSUME branch \in Seq(Commits), NEW n \in Nat \ {0}, NEW a, a = (n - 1) * PageSize,
           NEW L, L = Len(branch), NEW page, page = PageOf(n)
    PROVE  Shows(page, a, L) /\ n * PageSize = a + PageSize
<1>1. a \in Nat /\ n * PageSize = a + PageSize /\ PageSize \in Nat \ {0} /\ Len(branch) \in Nat
  BY PagesAssumption, LenProperties
<1>2. L \in Nat
  BY <1>1
<1>3. PICK h \in Int : h = IF a + PageSize <= L THEN a + PageSize ELSE L
  BY <1>1
<1>4. PICK r : r = Reverse(branch)
  OBVIOUS
<1>5. page = SubSeq(r, a + 1, h)
  BY <1>1, <1>3, <1>4 DEF PageOf
<1>6. \A i \in 1 .. L : r[i] = branch[(L - i) + 1] /\ branch[(L - i) + 1] \in Commits
  <2>1. \A i \in 1 .. L : (L - i) + 1 \in 1 .. L
    OBVIOUS
  <2>2. \A i \in 1 .. L : branch[i] \in Commits
    BY <1>2, ElementOfSeq
  <2> QED
    BY <1>2, <1>4, <2>1, <2>2 DEF Reverse
<1>7. h <= L /\ a + 1 >= 1
  BY <1>1, <1>3
<1>8. \A i \in a + 1 .. h : r[i] \in Commits
  BY <1>1, <1>6, <1>7
<1>9. /\ page \in Seq(Commits)
      /\ Len(page) = IF a + 1 <= h THEN h - a ELSE 0
      /\ \A i \in 1 .. h - a : page[i] = r[a + i]
  <2>1. a + 1 \in Int /\ h \in Int
    BY <1>1
  <2>2. /\ SubSeq(r, a + 1, h) \in Seq(Commits)
        /\ Len(SubSeq(r, a + 1, h)) = IF a + 1 <= h THEN h - (a + 1) + 1 ELSE 0
        /\ \A i \in 1 .. h - (a + 1) + 1 : SubSeq(r, a + 1, h)[i] = r[a + 1 + i - 1]
    BY <1>8, <2>1, SubSeqProperties
  <2>3. h - (a + 1) + 1 = h - a /\ \A i \in 1 .. h - a : a + 1 + i - 1 = a + i
    BY <1>1
  <2> QED
    BY <1>5, <2>2, <2>3
<1>10. ASSUME NEW i \in 1 .. Len(page)
       PROVE  L - a - i + 1 \in 1 .. L /\ page[i] = branch[L - a - i + 1]
  <2>1. i \in 1 .. h - a /\ a + i \in 1 .. L /\ L - a - i + 1 \in 1 .. L /\ (L - (a + i)) + 1 = L - a - i + 1
    BY <1>1, <1>7, <1>9
  <2> QED
    BY <1>6, <1>9, <2>1
<1>11. ASSUME NEW j \in 1 .. L, j <= L - a, j > L - a - PageSize
       PROVE  L - a - j + 1 \in 1 .. Len(page)
  <2>1. Len(page) = h - a
    <3>1. a + 1 <= h
      BY <1>1, <1>2, <1>3, <1>11
    <3> QED
      BY <1>9, <3>1
  <2> QED
    BY <1>1, <1>2, <1>3, <1>11, <2>1
<1>12. Len(page) \in Nat
  BY <1>9, LenProperties
<1> QED
  BY <1>1, <1>2, <1>9, <1>10, <1>11, <1>12 DEF Shows

LEMMA PollFields == ASSUME NEW x \in Polls
    PROVE  /\ x.at \in {"idle", "list", "commits", "tree"} /\ x.head \in Commits
           /\ x.page \in 1 .. MaxPages /\ x.commits \in Seq(Commits)
  BY DEF Polls

LEMMA NoPollType == NoPoll \in Polls /\ NoPoll.at = "idle"
  BY PagesAssumption, InboxBoundsAssumption DEF NoPoll, Polls, Commits, Root

-----------------------------------------------------------------------------
(* The branch grows.                                                       *)

(* What the invariant says of the branch, in the form the steps use.       *)
LEMMA BranchFacts ==
    ASSUME Base
    PROVE  /\ branch \in Seq(Commits) /\ Len(branch) \in Nat \ {0}
           /\ \A i \in 1 .. Len(branch) : branch[i] \in Commits /\ branch[i] \in Nat /\ branch[i] <= made
           /\ made \in Nat /\ Commits \subseteq Nat
           /\ Last(branch) = branch[Len(branch)] /\ Last(branch) \in Commits
<1>1. branch \in Seq(Commits) /\ Len(branch) \in Nat \ {0} /\ made \in Commits
  BY LenProperties DEF Base, TypeOK, BranchOK
<1>2. Commits \subseteq Nat
  BY InboxBoundsAssumption DEF Commits
<1>3. \A i \in 1 .. Len(branch) : branch[i] \in Commits
  BY <1>1, ElementOfSeq
<1>4. Len(branch) \in 1 .. Len(branch)
  BY <1>1
<1> QED
  BY <1>1, <1>2, <1>3, <1>4 DEF Base, BranchOK, Last

(* What a push of commit c to a branch of length L does.                    *)
Pushed(p, v, c, L) ==
    /\ c \in Commits /\ made' = c /\ branch' \in Seq(Commits)
    /\ Len(branch') = L + 1
    /\ \A i \in 1 .. L : branch'[i] = branch[i] /\ branch[i] # c
    /\ branch'[L + 1] = c
    /\ \A d \in Commits \ {c} : tree'[d] = tree[d] /\ touched'[d] = touched[d]
    /\ \A q \in Paths : tree'[c][q] = IF q = p THEN v ELSE tree[branch[L]][q]
    /\ touched'[c] = IF v = NoContent THEN {} ELSE {p}
    /\ tree' \in [Commits -> Trees] /\ touched' \in [Commits -> SUBSET Paths]
    /\ rewrites' = rewrites /\ cursor' = cursor /\ poll' = poll
    /\ delivered' = delivered /\ errors' = errors
    /\ torn' = torn /\ doubtful' = doubtful

LEMMA PushFacts ==
    ASSUME Base, NEW p \in Paths, NEW v \in Contents \cup {NoContent}, Push(p, v),
           NEW c, c = made + 1, NEW L, L = Len(branch)
    PROVE  Pushed(p, v, c, L)
<1>2. c \in Commits /\ made' = c /\ \A i \in 1 .. Len(branch) : branch[i] # c
  <2>1. c \in Commits
    BY BranchFacts, InboxBoundsAssumption DEF Push, Commits
  <2>2. \A i \in 1 .. Len(branch) : branch[i] # c
    BY BranchFacts
  <2> QED
    BY <2>1, <2>2 DEF Push
<1>3. branch' = Append(branch, c)
  BY DEF Push
<1>4. /\ branch' \in Seq(Commits) /\ Len(branch') = Len(branch) + 1
      /\ \A i \in 1 .. Len(branch) : branch'[i] = branch[i]
      /\ branch'[Len(branch) + 1] = c
  BY <1>2, <1>3, BranchFacts, AppendProperties
<1>5. PICK t : t = tree[branch[Len(branch)]]
  OBVIOUS
<1>6. t \in Trees /\ tree \in [Commits -> Trees] /\ touched \in [Commits -> SUBSET Paths]
  BY <1>5, BranchFacts DEF Base, TypeOK
<1>7. tree' = [tree EXCEPT ![c] = [t EXCEPT ![p] = v]]
  BY <1>5, BranchFacts DEF Push
<1>8. [t EXCEPT ![p] = v] \in Trees /\ \A q \in Paths : [t EXCEPT ![p] = v][q] = IF q = p THEN v ELSE t[q]
  BY <1>6 DEF Trees
<1>9. PICK w : w = IF v = NoContent THEN {} ELSE {p}
  OBVIOUS
<1>10. w \in SUBSET Paths /\ touched' = [touched EXCEPT ![c] = w]
  BY <1>9 DEF Push
<1>11. /\ tree' \in [Commits -> Trees] /\ tree'[c] = [t EXCEPT ![p] = v]
       /\ \A d \in Commits \ {c} : tree'[d] = tree[d]
  BY <1>2, <1>6, <1>7, <1>8
<1>12. /\ touched' \in [Commits -> SUBSET Paths] /\ touched'[c] = w
       /\ \A d \in Commits \ {c} : touched'[d] = touched[d]
  BY <1>2, <1>6, <1>10
<1>13. UNCHANGED <<rewrites, cursor, poll, delivered, torn, doubtful, errors>>
  BY DEF Push, history
<1> QED
  BY <1>2, <1>4, <1>5, <1>8, <1>9, <1>11, <1>12, <1>13 DEF Pushed

LEMMA PushBase ==
    ASSUME Base, NEW p \in Paths, NEW v \in Contents \cup {NoContent}, Push(p, v)
    PROVE  Base'
<1>1. PICK c : c = made + 1
  OBVIOUS
<1>2. PICK L \in Nat \ {0} : L = Len(branch)
  BY BranchFacts
<1>3. Pushed(p, v, c, L)
  BY <1>1, <1>2, PushFacts
<1>4. TypeOK'
  BY <1>3 DEF Base, TypeOK, Pushed
<1>5. /\ \A i \in 1 .. L : branch[i] \in Commits /\ branch[i] \in Nat /\ branch[i] <= made
      /\ made \in Nat /\ cursor \in Int /\ cursor <= made
      /\ poll.head \in Nat /\ poll.head <= made
  <2>1. cursor \in Int /\ cursor <= made /\ poll.head \in Nat /\ poll.head <= made
    BY BranchFacts, PollFields DEF Base, TypeOK, Known, NoCursor
  <2> QED
    BY <1>2, <2>1, BranchFacts
<1>6. BranchOK'
  <2>1. \A i \in 1 .. L + 1 : i \in 1 .. L \/ i = L + 1
    OBVIOUS
  <2>2. \A i \in 1 .. L + 1 : branch'[i] <= made'
    BY <1>1, <1>3, <1>5, <2>1 DEF Pushed
  <2>3. \A i, j \in 1 .. L + 1 : i < j => branch'[i] < branch'[j]
    BY <1>1, <1>2, <1>3, <1>5, <2>1 DEF Base, BranchOK, Pushed
  <2>4. Len(branch') = L + 1 /\ L + 1 >= 1
    BY <1>2, <1>3 DEF Pushed
  <2> QED
    BY <2>2, <2>3, <2>4 DEF BranchOK
<1>7. Known'
  BY <1>1, <1>3, <1>5 DEF Known, Pushed
<1>8. History'
  <2> SUFFICES ASSUME NEW i \in 1 .. L + 1, NEW j \in 1 .. L + 1, i < j,
                      NEW q \in Paths, tree'[branch'[j]][q] # NoContent,
                      tree'[branch'[i]][q] # tree'[branch'[j]][q]
               PROVE  \E m \in i + 1 .. j : /\ q \in touched'[branch'[m]]
                                            /\ tree'[branch'[m]][q] = tree'[branch'[j]][q]
    BY <1>3 DEF History, Pushed
  <2>1. i \in 1 .. L /\ branch'[i] = branch[i] /\ tree'[branch'[i]] = tree[branch[i]]
    BY <1>3, <1>5 DEF Pushed
  <2>2. ASSUME NEW m \in 1 .. L
        PROVE  /\ branch'[m] = branch[m] /\ tree'[branch'[m]] = tree[branch[m]]
               /\ touched'[branch'[m]] = touched[branch[m]]
    BY <1>3, <1>5 DEF Pushed
  <2>3. CASE j \in 1 .. L
    <3>1. tree'[branch'[j]] = tree[branch[j]]
      BY <2>2, <2>3
    <3>2. PICK m \in i + 1 .. j : q \in touched[branch[m]] /\ tree[branch[m]][q] = tree[branch[j]][q]
      BY <1>2, <2>1, <2>3, <3>1 DEF Base, History
    <3>3. m \in 1 .. L
      BY <2>1, <2>3
    <3> QED
      BY <2>2, <3>1, <3>2, <3>3
  <2>4. CASE j = L + 1
    <3>1. branch'[j] = c
      BY <1>3, <2>4 DEF Pushed
    <3>2. CASE q = p
      <4>1. tree'[c][q] = v /\ v # NoContent /\ q \in touched'[c]
        BY <1>3, <3>1, <3>2 DEF Pushed
      <4>2. j \in i + 1 .. j
        OBVIOUS
      <4> QED
        BY <3>1, <4>1, <4>2
    <3>3. CASE q # p
      <4>1. tree'[branch'[j]][q] = tree[branch[L]][q]
        BY <1>3, <3>1, <3>3 DEF Pushed
      <4>2. i # L
        BY <2>1, <4>1
      <4>3. i < L /\ L \in 1 .. L
        BY <2>1, <4>2
      <4>4. PICK m \in i + 1 .. L : q \in touched[branch[m]] /\ tree[branch[m]][q] = tree[branch[L]][q]
        BY <1>2, <2>1, <4>1, <4>3 DEF Base, History
      <4>5. m \in 1 .. L /\ m \in i + 1 .. j
        BY <2>1, <2>4
      <4> QED
        BY <2>2, <4>1, <4>4, <4>5
    <3> QED
      BY <3>2, <3>3
  <2> QED
    BY <2>3, <2>4
<1> QED
  BY <1>4, <1>6, <1>7, <1>8 DEF Base

LEMMA PushSteady ==
    ASSUME Base, Steady, NEW p \in Paths, NEW v \in Contents \cup {NoContent}, Push(p, v)
    PROVE  Steady'
<1>1. PICK c : c = made + 1
  OBVIOUS
<1>2. PICK L \in Nat \ {0} : L = Len(branch)
  BY BranchFacts
<1>3. Pushed(p, v, c, L)
  BY <1>1, <1>2, PushFacts
<1>4. \A i \in 1 .. L + 1 : i \in 1 .. L \/ i = L + 1
  OBVIOUS
<1>5. \A i \in 1 .. L : i \in 1 .. L + 1
  OBVIOUS
<1>6. \A d : Contains(branch, d) => Contains(branch', d)
  BY <1>2, <1>3, <1>5 DEF Contains, Pushed
<1>7. \A d : d # c /\ Contains(branch', d) => Contains(branch, d)
  BY <1>2, <1>3, <1>4 DEF Contains, Pushed
<1>8. cursor \in Int /\ cursor <= made /\ made \in Nat
  BY BranchFacts DEF Base, TypeOK, Known, NoCursor
<1>9. cursor # c
  BY <1>1, <1>8
<1>10. poll.head \in Nat /\ poll.head <= made
  BY BranchFacts, PollFields DEF Base, TypeOK, Known
<1>11. ~(c <= poll.head) /\ poll.head # c
  BY <1>1, <1>8, <1>10
<1>12. OnBranch'
  BY <1>3, <1>6 DEF Steady, OnBranch, Whole, Pushed
<1>13. Ahead'
  BY <1>3, <1>7, <1>9 DEF Steady, Ahead, Pushed
<1>14. Caught'
  <2> SUFFICES ASSUME poll.at = "commits", ~torn, Contains(branch', poll.head)
               PROVE  /\ Contains(branch', cursor)
                      /\ \A i \in 1 .. L + 1 :
                           cursor < branch'[i] /\ branch'[i] <= poll.head =>
                             branch'[i] \in ToSet(poll.commits)
    BY <1>3 DEF Caught, Pushed
  <2>1. /\ Contains(branch, cursor)
        /\ \A i \in 1 .. L :
             cursor < branch[i] /\ branch[i] <= poll.head => branch[i] \in ToSet(poll.commits)
    BY <1>2, <1>7, <1>11 DEF Steady, Caught
  <2> QED
    BY <1>3, <1>4, <1>6, <1>11, <2>1 DEF Pushed
<1>15. Listing'
  <2>1. PICK a : a = (poll.page - 1) * PageSize
    OBVIOUS
  <2>2. poll.at = "list" => a \in Int
    BY <2>1, PollFields, PagesAssumption DEF Base, TypeOK
  <2>3. poll' = poll /\ a = (poll'.page - 1) * PageSize
    BY <1>3, <2>1 DEF Pushed
  <2>4. ASSUME Whole, NEW i \in 1 .. L + 1, i > L + 1 - a, branch'[i] <= poll.head
        PROVE  branch'[i] \in ToSet(poll.commits)
    <3>1. i \in 1 .. L /\ branch'[i] = branch[i]
      BY <1>3, <1>4, <1>11, <2>4 DEF Pushed
    <3>2. i > L - a
      BY <2>2, <2>4, <3>1 DEF Whole
    <3> QED
      BY <1>2, <2>1, <2>4, <3>1, <3>2 DEF Steady, Listing
  <2>5. Len(branch') = L + 1 /\ (Whole' => Whole)
    BY <1>3 DEF Pushed, Whole
  <2> QED
    BY <2>3, <2>4, <2>5 DEF Listing
<1>16. CursorCovers'
  <2> SUFFICES ASSUME ~doubtful, Contains(branch', cursor)
               PROVE  FilesOf(cursor, Paths)' \subseteq delivered
    BY <1>3 DEF CursorCovers, Pushed
  <2>1. Contains(branch, cursor)
    BY <1>7, <1>9
  <2>2. cursor \in Commits
    BY <1>2, <2>1, BranchFacts DEF Contains
  <2>3. tree'[cursor] = tree[cursor]
    BY <1>3, <1>9, <2>2 DEF Pushed
  <2>4. FilesOf(cursor, Paths)' = FilesOf(cursor, Paths)
    BY <1>3, <2>3 DEF FilesOf, Pushed
  <2> QED
    BY <2>1, <2>4 DEF Steady, CursorCovers
<1> QED
  BY <1>12, <1>13, <1>14, <1>15, <1>16 DEF Steady

-----------------------------------------------------------------------------
(* The branch is rewritten.                                                *)

(* What is left is a prefix.                                               *)
LEMMA RewriteFacts ==
    ASSUME Base, NEW n \in 1 .. MaxCommits, Rewrite(n)
    PROVE  /\ branch' \in Seq(Commits) /\ Len(branch') = n /\ n \in Nat \ {0}
           /\ \A i \in 1 .. n : i \in 1 .. Len(branch) /\ branch'[i] = branch[i]
<1>1. n \in 1 .. Len(branch) - 1 /\ branch' = SubSeq(branch, 1, n)
  BY DEF Rewrite
<1>2. n \in Nat \ {0} /\ \A i \in 1 .. n : i \in 1 .. Len(branch)
  BY <1>1, BranchFacts
<1>3. \A i \in 1 .. n : branch[i] \in Commits
  BY <1>2, BranchFacts
<1>4. /\ SubSeq(branch, 1, n) \in Seq(Commits)
      /\ Len(SubSeq(branch, 1, n)) = IF 1 <= n THEN n - 1 + 1 ELSE 0
      /\ \A i \in 1 .. n - 1 + 1 : SubSeq(branch, 1, n)[i] = branch[1 + i - 1]
  BY <1>2, <1>3, SubSeqProperties
<1>5. n - 1 + 1 = n /\ 1 <= n /\ \A i \in 1 .. n : 1 + i - 1 = i
  BY <1>2
<1> QED
  BY <1>1, <1>2, <1>4, <1>5

LEMMA RewriteBase ==
    ASSUME Base, NEW n \in 1 .. MaxCommits, Rewrite(n)
    PROVE  Base'
<1>1. /\ branch' \in Seq(Commits) /\ Len(branch') = n /\ n \in Nat \ {0}
      /\ \A i \in 1 .. n : i \in 1 .. Len(branch) /\ branch'[i] = branch[i]
  BY RewriteFacts
<1>2. /\ tree' = tree /\ touched' = touched /\ made' = made /\ cursor' = cursor
      /\ poll' = poll /\ delivered' = delivered /\ errors' = errors
      /\ rewrites' = rewrites + 1 /\ rewrites < MaxRewrites
      /\ torn' = (torn \/ poll.at = "list") /\ doubtful' = doubtful
  BY DEF Rewrite
<1>3. TypeOK'
  BY <1>1, <1>2, InboxBoundsAssumption DEF Base, TypeOK
<1>4. BranchOK'
  BY <1>1, <1>2 DEF Base, BranchOK
<1>5. Known'
  BY <1>2 DEF Base, Known
<1>6. History'
  <2> SUFFICES ASSUME NEW i \in 1 .. n, NEW j \in 1 .. n, i < j,
                      NEW q \in Paths, tree[branch[j]][q] # NoContent,
                      tree[branch[i]][q] # tree[branch[j]][q]
               PROVE  \E m \in i + 1 .. j : /\ q \in touched[branch'[m]]
                                            /\ tree[branch'[m]][q] = tree[branch[j]][q]
    BY <1>1, <1>2 DEF History
  <2>0. i \in 1 .. Len(branch) /\ j \in 1 .. Len(branch) /\ History
    BY <1>1 DEF Base
  <2>1. PICK m \in i + 1 .. j : q \in touched[branch[m]] /\ tree[branch[m]][q] = tree[branch[j]][q]
    BY <2>0 DEF History
  <2>2. m \in 1 .. n
    BY <2>1
  <2> QED
    BY <1>1, <2>1, <2>2
<1> QED
  BY <1>3, <1>4, <1>5, <1>6 DEF Base

LEMMA RewriteSteady ==
    ASSUME Base, Steady, NEW n \in 1 .. MaxCommits, Rewrite(n)
    PROVE  Steady'
<1>1. /\ branch' \in Seq(Commits) /\ Len(branch') = n /\ n \in Nat \ {0}
      /\ \A i \in 1 .. n : i \in 1 .. Len(branch) /\ branch'[i] = branch[i]
  BY RewriteFacts
<1>2. /\ tree' = tree /\ cursor' = cursor /\ poll' = poll /\ delivered' = delivered
      /\ torn' = (torn \/ poll.at = "list") /\ doubtful' = doubtful
  BY DEF Rewrite
<1>3. OnBranch' /\ Listing'
  <2>1. ~Whole'
    BY <1>2 DEF Whole
  <2> QED
    BY <2>1 DEF OnBranch, Listing
<1>4. \A c : Contains(branch', c) => Contains(branch, c)
  BY <1>1 DEF Contains
<1>5. Ahead'
  BY <1>2, <1>4 DEF Steady, Ahead
<1>6. Caught'
  <2> SUFFICES ASSUME poll.at = "commits", ~torn, Contains(branch', poll.head)
               PROVE  /\ Contains(branch', cursor)
                      /\ \A i \in 1 .. n :
                           cursor < branch'[i] /\ branch'[i] <= poll.head =>
                             branch'[i] \in ToSet(poll.commits)
    BY <1>1, <1>2 DEF Caught
  <2>1. /\ Contains(branch, cursor)
        /\ \A i \in 1 .. Len(branch) :
             cursor < branch[i] /\ branch[i] <= poll.head => branch[i] \in ToSet(poll.commits)
    BY <1>4 DEF Steady, Caught
  <2>2. cursor < poll.head
    BY <2>1 DEF Steady, Ahead
  <2>3. PICK x \in 1 .. Len(branch) : branch[x] = cursor
    BY <2>1 DEF Contains
  <2>4. PICK y \in 1 .. n : y \in 1 .. Len(branch) /\ branch[y] = poll.head
    BY <1>1 DEF Contains
  <2>5. x < y
    <3>1. y < x => branch[y] < branch[x]
      BY <2>3, <2>4 DEF Base, BranchOK
    <3>2. branch[x] \in Nat /\ branch[y] \in Nat /\ branch[x] < branch[y]
      BY <2>2, <2>3, <2>4, BranchFacts
    <3> QED
      BY <2>3, <2>4, <3>1, <3>2
  <2>6. x \in 1 .. n
    BY <1>1, <2>3, <2>4, <2>5
  <2>7. Contains(branch', cursor)
    BY <1>1, <2>3, <2>6 DEF Contains
  <2> QED
    BY <1>1, <2>1, <2>7
<1>7. CursorCovers'
  BY <1>2, <1>4 DEF Steady, CursorCovers, FilesOf
<1> QED
  BY <1>3, <1>5, <1>6, <1>7 DEF Steady

-----------------------------------------------------------------------------
(* A poll reads, page by page.                                             *)

(* A step of the reader: the repository is left alone.                     *)
LEMMA BaseKept ==
    ASSUME Base, UNCHANGED remote, cursor' \in Commits \cup {NoCursor}, cursor' <= made,
           poll' \in Polls, poll'.head <= made, delivered' \subseteq Requests,
           torn' \in BOOLEAN, doubtful' \in BOOLEAN, errors' \in 0 .. MaxErrors
    PROVE  Base'
<1>1. /\ branch' = branch /\ tree' = tree /\ touched' = touched /\ made' = made
      /\ rewrites' = rewrites
  BY DEF remote
<1>2. TypeOK'
  BY <1>1 DEF Base, TypeOK
<1>3. (BranchOK /\ History /\ Known)'
  BY <1>1 DEF Base, BranchOK, History, Known
<1> QED
  BY <1>2, <1>3 DEF Base

LEMMA ReadHeadFacts ==
    ASSUME Base, ReadHead
    PROVE  /\ poll' \in Polls /\ poll'.head = Last(branch) /\ poll'.page = 1
           /\ poll'.at = IF cursor = NoCursor THEN "tree" ELSE "list"
           /\ Last(branch) <= made
<1>1. PICK h \in Commits : h = Last(branch) /\ h <= made
  BY BranchFacts
<1>2. PICK w \in {"tree", "list"} : w = IF cursor = NoCursor THEN "tree" ELSE "list"
  OBVIOUS
<1>3. poll' = [NoPoll EXCEPT !.at = w, !.head = h]
  BY <1>1, <1>2 DEF ReadHead
<1>4. poll' = [at |-> w, head |-> h, page |-> 1, commits |-> <<>>]
  BY <1>3 DEF NoPoll
<1>5. 1 \in 1 .. MaxPages /\ <<>> \in Seq(Commits)
  BY PagesAssumption
<1>6. poll' \in Polls
  BY <1>4, <1>5, ZenonT(30) DEF Polls
<1> QED
  BY <1>1, <1>2, <1>4, <1>6

LEMMA ReadHeadBase == ASSUME Base, ReadHead PROVE Base'
<1>1. /\ UNCHANGED remote /\ cursor' = cursor /\ delivered' = delivered /\ errors' = errors
      /\ torn' = FALSE /\ doubtful' = doubtful
  BY DEF ReadHead
<1>2. poll' \in Polls /\ poll'.head <= made
  BY ReadHeadFacts
<1> QED
  BY <1>1, <1>2, BaseKept DEF Base, TypeOK, Known

LEMMA ReadHeadSteady == ASSUME Base, Steady, ReadHead PROVE Steady'
<1>1. /\ branch' = branch /\ tree' = tree /\ cursor' = cursor /\ delivered' = delivered
      /\ cursor # Last(branch) /\ torn' = FALSE /\ doubtful' = doubtful
  BY DEF ReadHead, remote
<1>2. PICK L \in Nat \ {0} : L = Len(branch)
  BY BranchFacts
<1>3. /\ poll'.head = branch[L] /\ poll'.page = 1 /\ poll'.at # "commits"
      /\ cursor # branch[L]
  BY <1>1, <1>2, ReadHeadFacts, BranchFacts
<1>4. L \in 1 .. L
  OBVIOUS
<1>5. Contains(branch, branch[L])
  BY <1>2, <1>4 DEF Contains
<1>6. OnBranch'
  BY <1>1, <1>3, <1>5 DEF OnBranch
<1>7. Ahead'
  <2>1. ASSUME NEW i \in 1 .. L, branch[i] # branch[L] PROVE branch[i] < branch[L]
    <3>1. i < L
      BY <2>1
    <3> QED
      BY <1>2, <1>4, <3>1 DEF Base, BranchOK
  <2>2. Contains(branch, cursor) => cursor < branch[L]
    BY <1>2, <1>3, <2>1 DEF Contains
  <2> QED
    BY <1>1, <1>3, <2>2 DEF Ahead
<1>8. Listing'
  <2>1. (1 - 1) * PageSize = 0
    BY PagesAssumption
  <2>2. \A i \in 1 .. L : ~(i > L - 0)
    OBVIOUS
  <2> QED
    BY <1>1, <1>2, <1>3, <2>1, <2>2 DEF Listing
<1>9. Caught'
  BY <1>3 DEF Caught
<1>10. CursorCovers'
  BY <1>1 DEF Steady, CursorCovers, FilesOf
<1> QED
  BY <1>6, <1>7, <1>8, <1>9, <1>10 DEF Steady

(* The pages up to the one that holds the cursor.                          *)
LEMMA FoundFacts ==
    ASSUME Base, CursorFound, NEW page, page = PageOf(poll.page)
    PROVE  \E i \in 1 .. Len(page) :
             /\ page \in Seq(Commits) /\ page[i] = cursor
             /\ SubSeq(page, 1, i - 1) \in Seq(Commits)
             /\ \A k \in 1 .. i - 1 : page[k] \in ToSet(SubSeq(page, 1, i - 1))
             /\ poll' = [poll EXCEPT !.at = "commits",
                                     !.commits = poll.commits \o SubSeq(page, 1, i - 1)]
<1> DEFINE i == SelectInSeq(page, LAMBDA c : c = cursor)
<1>1. /\ i # 0
      /\ poll' = [poll EXCEPT !.at = "commits",
                              !.commits = poll.commits \o SubSeq(page, 1, i - 1)]
  BY DEF CursorFound, Listed
<1>2. PICK a : a = (poll.page - 1) * PageSize
  OBVIOUS
<1>3. poll.page \in Nat \ {0} /\ branch \in Seq(Commits)
  BY PollFields, BranchFacts, PagesAssumption DEF Base, TypeOK
<1>4. PICK L \in Nat \ {0} : L = Len(branch)
  BY BranchFacts
<1>5. page \in Seq(Commits) /\ Len(page) \in Nat /\ \A j, k \in 1 .. Len(page) : page[j] = page[k] => j = k
  <2>1. Shows(page, a, L)
    BY <1>2, <1>3, <1>4, PageShows
  <2>2. ASSUME NEW x \in 1 .. L, NEW y \in 1 .. L, branch[x] = branch[y] PROVE x = y
    <3>1. branch[x] \in Nat /\ branch[y] \in Nat
      BY <1>4, BranchFacts
    <3>2. (x < y => branch[x] < branch[y]) /\ (y < x => branch[y] < branch[x])
      BY <1>4 DEF Base, BranchOK
    <3> QED
      BY <2>2, <3>1, <3>2
  <2>3. ASSUME NEW j \in 1 .. Len(page), NEW k \in 1 .. Len(page), page[j] = page[k] PROVE j = k
    <3>1. L - a - j + 1 = L - a - k + 1
      BY <2>1, <2>2, <2>3 DEF Shows
    <3> QED
      BY <2>1, <3>1 DEF Shows
  <2> QED
    BY <2>1, <2>3 DEF Shows
<1>6. i \in 1 .. Len(page) /\ page[i] = cursor
  <2>1. i = Place(page, cursor)
    BY DEF SelectInSeq, Place
  <2> HIDE DEF i
  <2> QED
    BY <1>1, <1>5, <2>1, OnlyPlace
<1> HIDE DEF i
<1>7. \A k \in 1 .. i - 1 : page[k] \in Commits
  BY <1>5, <1>6, ElementOfSeq
<1>8. i - 1 \in Int /\ 1 \in Int /\ (1 <= i - 1 => i - 1 - 1 + 1 = i - 1)
  BY <1>5, <1>6
<1>9. /\ SubSeq(page, 1, i - 1) \in Seq(Commits)
      /\ Len(SubSeq(page, 1, i - 1)) = IF 1 <= i - 1 THEN i - 1 - 1 + 1 ELSE 0
      /\ \A k \in 1 .. i - 1 - 1 + 1 : SubSeq(page, 1, i - 1)[k] = page[1 + k - 1]
  BY <1>7, <1>8, SubSeqProperties
<1>10. ASSUME NEW k \in 1 .. i - 1
       PROVE  page[k] \in ToSet(SubSeq(page, 1, i - 1))
  <2>1. k \in 1 .. i - 1 - 1 + 1 /\ 1 + k - 1 = k /\ 1 <= i - 1
    BY <1>5, <1>6
  <2>2. SubSeq(page, 1, i - 1)[k] = page[k] /\ Len(SubSeq(page, 1, i - 1)) = i - 1
    BY <1>8, <1>9, <2>1
  <2>3. DOMAIN SubSeq(page, 1, i - 1) = 1 .. i - 1
    BY <1>9, <2>2, LenProperties
  <2> QED
    BY <2>2, <2>3 DEF ToSet
<1> QED
  BY <1>1, <1>5, <1>6, <1>9, <1>10

LEMMA CursorFoundBase == ASSUME Base, CursorFound PROVE Base'
<1>1. /\ UNCHANGED remote /\ cursor' = cursor /\ delivered' = delivered /\ errors' = errors
      /\ torn' = torn /\ doubtful' = doubtful
  BY DEF CursorFound, history
<1>2. PICK s \in Seq(Commits) : poll' = [poll EXCEPT !.at = "commits", !.commits = poll.commits \o s]
  <2>1. PICK page : page = PageOf(poll.page)
    OBVIOUS
  <2> QED
    BY <2>1, FoundFacts
<1>3. PICK t \in Seq(Commits) : t = poll.commits \o s
  BY PollFields, ConcatProperties DEF Base, TypeOK
<1>4. poll' = [poll EXCEPT !.at = "commits", !.commits = t]
  BY <1>2, <1>3
<1>5. poll \in Polls
  BY DEF Base, TypeOK
<1>6. poll' \in Polls /\ poll'.head = poll.head
  BY <1>4, <1>5 DEF Polls
<1> QED
  BY <1>1, <1>6, BaseKept DEF Base, TypeOK, Known

LEMMA CursorFoundSteady == ASSUME Base, Steady, CursorFound PROVE Steady'
<1>1. /\ branch' = branch /\ tree' = tree /\ cursor' = cursor /\ delivered' = delivered
      /\ torn' = torn /\ doubtful' = doubtful /\ poll.at = "list" /\ poll \in Polls
  BY DEF CursorFound, remote, history, Base, TypeOK
<1>2. PICK page : page = PageOf(poll.page)
  OBVIOUS
<1>3. PICK i \in 1 .. Len(page) :
        /\ page \in Seq(Commits) /\ page[i] = cursor
        /\ SubSeq(page, 1, i - 1) \in Seq(Commits)
        /\ \A k \in 1 .. i - 1 : page[k] \in ToSet(SubSeq(page, 1, i - 1))
        /\ poll' = [poll EXCEPT !.at = "commits",
                                !.commits = poll.commits \o SubSeq(page, 1, i - 1)]
  BY <1>2, FoundFacts
<1>4. PICK s \in Seq(Commits) : s = SubSeq(page, 1, i - 1)
  BY <1>3
<1>5. PICK t : t = poll.commits \o s
  OBVIOUS
<1>6. poll'.at = "commits" /\ poll'.head = poll.head /\ poll'.commits = t
  <2>1. poll' = [poll EXCEPT !.at = "commits", !.commits = t]
    BY <1>3, <1>4, <1>5
  <2> QED
    BY <1>1, <2>1 DEF Polls
<1>7. ToSet(poll.commits) \subseteq ToSet(t) /\ ToSet(s) \subseteq ToSet(t)
  BY <1>1, <1>4, <1>5, PollFields, ToSetConcat
<1>8. PICK L \in Nat \ {0} : L = Len(branch)
  BY BranchFacts
<1>9. PICK a : a = (poll.page - 1) * PageSize
  OBVIOUS
<1>10. /\ a \in Nat /\ Len(page) \in Nat
       /\ \A k \in 1 .. Len(page) : L - a - k + 1 \in 1 .. L /\ page[k] = branch[L - a - k + 1]
  <2>1. poll.page \in Nat \ {0} /\ branch \in Seq(Commits)
    BY <1>1, PollFields, BranchFacts, PagesAssumption
  <2>2. Shows(page, a, L)
    BY <1>2, <1>8, <1>9, <2>1, PageShows
  <2> QED
    BY <2>2 DEF Shows
<1>11. PICK q \in 1 .. L : q = L - a - i + 1 /\ branch[q] = cursor
  BY <1>3, <1>10
<1>12. ASSUME ~torn, NEW j \in 1 .. L, cursor < branch[j], branch[j] <= poll.head
       PROVE  branch[j] \in ToSet(t)
  <2>1. CASE j > L - a
    BY <1>1, <1>7, <1>8, <1>9, <1>12, <2>1 DEF Steady, Listing, Whole
  <2>2. CASE ~(j > L - a)
    <3>1. j > q
      <4>1. j < q => branch[j] < branch[q]
        BY <1>8 DEF Base, BranchOK
      <4>2. \A x \in 1 .. L : branch[x] \in Nat
        BY <1>8, BranchFacts
      <4> QED
        BY <1>11, <1>12, <4>1, <4>2
    <3>2. PICK k \in 1 .. i - 1 : k = L - a - j + 1
      <4>1. i \in Nat /\ a \in Nat /\ q = L - a - i + 1
        BY <1>3, <1>10, <1>11
      <4>2. L - a - j + 1 \in 1 .. i - 1
        BY <2>2, <3>1, <4>1
      <4> QED
        BY <4>2
    <3>3. k \in 1 .. Len(page) /\ L - a - k + 1 = j
      <4>1. i \in 1 .. Len(page) /\ Len(page) \in Nat /\ a \in Nat
        BY <1>3, <1>10
      <4> QED
        BY <1>8, <3>2, <4>1
    <3>4. page[k] = branch[j]
      BY <1>10, <3>3
    <3> QED
      BY <1>3, <1>4, <1>7, <3>2, <3>4
  <2> QED
    BY <2>1, <2>2
<1>13. Contains(branch, cursor)
  BY <1>8, <1>11 DEF Contains
<1>14. OnBranch' /\ Listing'
  BY <1>6 DEF OnBranch, Listing, Whole
<1>15. Ahead'
  BY <1>1, <1>6 DEF Steady, Ahead
<1>16. Caught'
  BY <1>1, <1>6, <1>8, <1>12, <1>13 DEF Caught
<1>17. CursorCovers'
  BY <1>1 DEF Steady, CursorCovers, FilesOf
<1> QED
  BY <1>14, <1>15, <1>16, <1>17 DEF Steady

(* The cursor is not on the page: the next page, or the tree.              *)
LEMMA NotFoundFacts ==
    ASSUME Base, CursorNotFound, NEW page, page = PageOf(poll.page)
    PROVE  /\ poll' \in Polls /\ poll'.head = poll.head /\ page \in Seq(Commits)
           /\ poll'.at # "tree" =>
                /\ poll'.at = "list" /\ poll'.page = poll.page + 1
                /\ poll'.commits = poll.commits \o page
<1>1. poll \in Polls
  BY DEF Base, TypeOK
<1>2. /\ poll.page \in 1 .. MaxPages /\ poll.commits \in Seq(Commits) /\ MaxPages \in Nat
      /\ poll.at = "list"
  BY <1>1, PollFields, PagesAssumption DEF CursorNotFound
<1>3. page \in Seq(Commits)
  <2>1. poll.page \in Nat \ {0} /\ branch \in Seq(Commits)
    BY <1>2, BranchFacts
  <2>2. PICK a : a = (poll.page - 1) * PageSize
    OBVIOUS
  <2>3. PICK L : L = Len(branch)
    OBVIOUS
  <2>4. Shows(page, a, L)
    BY <2>1, <2>2, <2>3, PageShows
  <2> QED
    BY <2>4 DEF Shows
<1>4. PICK t \in Seq(Commits) : t = poll.commits \o page
  BY <1>2, <1>3, ConcatProperties
<1>5. CASE LastPage(page)
  <2>1. poll' = [poll EXCEPT !.at = "tree", !.commits = <<>>]
    BY <1>5 DEF CursorNotFound
  <2>2. <<>> \in Seq(Commits)
    OBVIOUS
  <2> QED
    BY <1>1, <1>3, <2>1, <2>2 DEF Polls
<1>6. CASE ~LastPage(page)
  <2>1. PICK n \in 1 .. MaxPages : n = poll.page + 1
    BY <1>2, <1>6 DEF LastPage
  <2>2. poll' = [poll EXCEPT !.page = n, !.commits = t]
    BY <1>4, <1>6, <2>1 DEF CursorNotFound, Listed
  <2>3. /\ poll' \in Polls /\ poll'.head = poll.head /\ poll'.at = poll.at
        /\ poll'.page = n /\ poll'.commits = t
    BY <1>1, <2>1, <2>2 DEF Polls
  <2> QED
    BY <1>2, <1>3, <1>4, <2>1, <2>3
<1> QED
  BY <1>5, <1>6

LEMMA CursorNotFoundBase == ASSUME Base, CursorNotFound PROVE Base'
<1>1. /\ UNCHANGED remote /\ cursor' = cursor /\ delivered' = delivered /\ errors' = errors
      /\ torn' = torn /\ doubtful' = doubtful
  BY DEF CursorNotFound, history
<1>2. PICK page : page = PageOf(poll.page)
  OBVIOUS
<1>3. poll' \in Polls /\ poll'.head = poll.head
  BY <1>2, NotFoundFacts
<1> QED
  BY <1>1, <1>3, BaseKept DEF Base, TypeOK, Known

LEMMA CursorNotFoundSteady == ASSUME Base, Steady, CursorNotFound PROVE Steady'
<1>1. /\ branch' = branch /\ tree' = tree /\ cursor' = cursor /\ delivered' = delivered
      /\ torn' = torn /\ doubtful' = doubtful /\ poll.at = "list" /\ poll \in Polls
  BY DEF CursorNotFound, remote, history, Base, TypeOK
<1>2. PICK page : page = PageOf(poll.page)
  OBVIOUS
<1>3. /\ poll' \in Polls /\ poll'.head = poll.head /\ page \in Seq(Commits)
      /\ poll'.at # "tree" =>
           /\ poll'.at = "list" /\ poll'.page = poll.page + 1
           /\ poll'.commits = poll.commits \o page
  BY <1>2, NotFoundFacts
<1>4. PICK L \in Nat \ {0} : L = Len(branch)
  BY BranchFacts
<1>5. PICK a : a = (poll.page - 1) * PageSize
  OBVIOUS
<1>6. /\ a \in Nat /\ poll.page * PageSize = a + PageSize /\ Len(page) \in Nat
      /\ poll.page \in Nat \ {0} /\ PageSize \in Nat
      /\ \A k \in 1 .. Len(page) : page[k] = branch[L - a - k + 1]
      /\ \A j \in 1 .. L : j <= L - a /\ j > L - a - PageSize => L - a - j + 1 \in 1 .. Len(page)
  <2>1. poll.page \in Nat \ {0} /\ branch \in Seq(Commits)
    BY <1>1, PollFields, BranchFacts, PagesAssumption
  <2>2. Shows(page, a, L) /\ poll.page * PageSize = a + PageSize
    BY <1>2, <1>4, <1>5, <2>1, PageShows
  <2>3. PageSize \in Nat
    BY PagesAssumption
  <2> QED
    BY <2>1, <2>2, <2>3 DEF Shows
<1>7. ASSUME ~torn, poll'.at # "tree", NEW j \in 1 .. L, j > L - (a + PageSize), branch[j] <= poll.head
      PROVE  branch[j] \in ToSet(poll'.commits)
  <2>1. ToSet(poll.commits) \subseteq ToSet(poll.commits \o page) /\ ToSet(page) \subseteq ToSet(poll.commits \o page)
    BY <1>1, <1>3, PollFields, ToSetConcat
  <2>2. poll'.commits = poll.commits \o page
    BY <1>3, <1>7
  <2>3. CASE j > L - a
    BY <1>1, <1>4, <1>5, <1>7, <2>1, <2>2, <2>3 DEF Steady, Listing, Whole
  <2>4. CASE ~(j > L - a)
    <3>1. PICK k \in 1 .. Len(page) : k = L - a - j + 1
      <4>1. j <= L - a /\ j > L - a - PageSize
        BY <1>4, <1>6, <1>7, <2>4
      <4> QED
        BY <1>6, <4>1
    <3>2. L - a - k + 1 = j
      BY <1>6, <3>1
    <3>3. page[k] = branch[j]
      BY <1>6, <3>2
    <3>4. DOMAIN page = 1 .. Len(page)
      BY <1>3, LenProperties
    <3> QED
      BY <2>1, <2>2, <3>3, <3>4 DEF ToSet
  <2> QED
    BY <2>3, <2>4
<1>8. OnBranch'
  BY <1>1, <1>3 DEF Steady, OnBranch, Whole
<1>9. Ahead'
  BY <1>1, <1>3 DEF Steady, Ahead
<1>10. Listing'
  <2>1. poll'.at # "tree" => (poll'.page - 1) * PageSize = a + PageSize
    <3>1. PICK n \in Nat : n = poll.page
      BY <1>6
    <3>2. (n + 1) - 1 = n
      OBVIOUS
    <3>3. poll'.at # "tree" => poll'.page - 1 = poll.page
      BY <1>3, <3>1, <3>2
    <3> QED
      BY <1>6, <3>3
  <2>2. poll'.at = "list" => poll'.at # "tree"
    OBVIOUS
  <2> QED
    BY <1>1, <1>3, <1>4, <1>7, <2>1, <2>2 DEF Listing, Whole
<1>11. Caught'
  BY <1>3 DEF Caught
<1>12. CursorCovers'
  BY <1>1 DEF Steady, CursorCovers, FilesOf
<1> QED
  BY <1>8, <1>9, <1>10, <1>11, <1>12 DEF Steady

-----------------------------------------------------------------------------
(* A poll ends.                                                            *)

LEMMA FilesType ==
    ASSUME Base, NEW c \in Commits, NEW paths \in SUBSET Paths
    PROVE  FilesOf(c, paths) \subseteq Requests
<1>1. ASSUME NEW q \in paths, tree[c][q] # NoContent PROVE <<q, tree[c][q]>> \in Requests
  BY <1>1 DEF Base, TypeOK, Trees, Requests
<1> QED
  BY <1>1 DEF FilesOf

(* The poll is over, however it ended.                                     *)
LEMMA IdleSteady ==
    ASSUME poll'.at = "idle", CursorCovers' PROVE Steady'
  BY DEF Steady, OnBranch, Whole, Ahead, Listing, Caught

LEMMA DeliverBase ==
    ASSUME Base, NEW files \in SUBSET Requests, Deliver(files), doubtful' \in BOOLEAN
    PROVE  Base'
<1>1. /\ UNCHANGED remote /\ cursor' = poll.head /\ errors' = errors /\ poll' = NoPoll
      /\ delivered' = delivered \cup files /\ torn' = torn
  BY DEF Deliver
<1>2. poll.head \in Commits /\ poll.head <= made
  BY PollFields DEF Base, TypeOK, Known
<1>3. NoPoll \in Polls /\ NoPoll.head <= made
  BY NoPollType, BranchFacts DEF NoPoll, Root
<1>4. delivered' \subseteq Requests /\ torn' \in BOOLEAN /\ errors' \in 0 .. MaxErrors
  BY <1>1 DEF Base, TypeOK
<1> QED
  BY <1>1, <1>2, <1>3, <1>4, BaseKept

LEMMA DeliverCommitsBase == ASSUME Base, DeliverCommits PROVE Base'
<1> DEFINE files == UNION {FilesIn(c) : c \in ToSet(poll.commits)}
<1>1. Deliver(files) /\ doubtful' \in BOOLEAN
  BY DEF DeliverCommits
<1>2. \A c \in ToSet(poll.commits) : c \in Commits
  <2>1. poll.commits \in Seq(Commits)
    BY PollFields DEF Base, TypeOK
  <2> QED
    BY <2>1, ElementOfSeq, LenProperties DEF ToSet
<1>3. \A c \in Commits : FilesIn(c) \subseteq Requests
  <2>1. \A c \in Commits : touched[c] \in SUBSET Paths
    BY DEF Base, TypeOK
  <2> QED
    BY <2>1, FilesType DEF FilesIn
<1>4. files \in SUBSET Requests
  BY <1>2, <1>3
<1> QED
  BY <1>1, <1>4, DeliverBase

LEMMA DeliverTreeBase == ASSUME Base, DeliverTree PROVE Base'
<1>1. poll.head \in Commits
  BY PollFields DEF Base, TypeOK
<1>2. FilesOf(poll.head, Paths) \in SUBSET Requests
  BY <1>1, FilesType
<1>3. Deliver(FilesOf(poll.head, Paths)) /\ doubtful' \in BOOLEAN
  BY DEF DeliverTree
<1> QED
  BY <1>2, <1>3, DeliverBase

(* What was pushed after the cursor, up to the head, is handed over.       *)
LEMMA Handed ==
    ASSUME Base, Steady, DeliverCommits, ~torn, Contains(branch, poll.head),
           NEW m \in 1 .. Len(branch),
           cursor < branch[m], branch[m] <= poll.head
    PROVE  FilesIn(branch[m]) \subseteq delivered'
<1>1. branch[m] \in ToSet(poll.commits)
  BY DEF DeliverCommits, Steady, Caught
<1>2. delivered' = delivered \cup UNION {FilesIn(c) : c \in ToSet(poll.commits)}
  BY DEF DeliverCommits, Deliver
<1> QED
  BY <1>1, <1>2

(* The head has what the cursor had, already delivered, or what a commit   *)
(* between the two lists.                                                  *)
LEMMA HeadCovered ==
    ASSUME Base, Steady, DeliverCommits, ~torn, ~doubtful, Contains(branch, poll.head)
    PROVE  FilesOf(poll.head, Paths) \subseteq delivered'
<1>1. /\ poll.at = "commits" /\ poll' = NoPoll /\ cursor' = poll.head /\ tree' = tree
      /\ branch' = branch /\ delivered \subseteq delivered'
  BY DEF DeliverCommits, Deliver, remote
<1>2. PICK L \in Nat \ {0} : L = Len(branch)
  BY BranchFacts
<1>3. \A i \in 1 .. L : branch[i] \in Nat
  BY <1>2, BranchFacts
<1>4. PICK x \in 1 .. L : branch[x] = cursor
  BY <1>1, <1>2 DEF Steady, Caught, Contains
<1>5. PICK y \in 1 .. L : branch[y] = poll.head
  BY <1>2 DEF Contains
<1>6. cursor < poll.head
  BY <1>1 DEF Steady, Ahead, Caught
<1>7. x < y
  <2>1. (y < x => branch[y] < branch[x]) /\ branch[x] < branch[y]
    BY <1>2, <1>4, <1>5, <1>6 DEF Base, BranchOK
  <2> QED
    BY <1>3, <1>4, <1>5, <2>1
<1>8. ASSUME NEW q \in Paths, tree[poll.head][q] # NoContent
      PROVE  <<q, tree[poll.head][q]>> \in delivered'
  <2>1. CASE tree[cursor][q] = tree[poll.head][q]
    <3>1. <<q, tree[cursor][q]>> \in FilesOf(cursor, Paths)
      BY <1>8, <2>1 DEF FilesOf
    <3>2. FilesOf(cursor, Paths) \subseteq delivered
      BY <1>1 DEF Steady, Caught, CursorCovers
    <3> QED
      BY <1>1, <2>1, <3>1, <3>2
  <2>2. CASE tree[cursor][q] # tree[poll.head][q]
    <3>1. PICK m \in x + 1 .. y : /\ q \in touched[branch[m]]
                                  /\ tree[branch[m]][q] = tree[branch[y]][q]
      BY <1>2, <1>4, <1>5, <1>7, <1>8, <2>2 DEF Base, History
    <3>2. m \in 1 .. L /\ x < m /\ (m < y \/ m = y)
      OBVIOUS
    <3>3. cursor < branch[m] /\ branch[m] <= poll.head
      <4>1. branch[x] < branch[m] /\ (m < y => branch[m] < branch[y])
        BY <1>2, <3>2 DEF Base, BranchOK
      <4>2. branch[m] \in Nat /\ branch[y] \in Nat
        BY <1>3, <3>2
      <4> QED
        BY <1>4, <1>5, <3>2, <4>1, <4>2
    <3>4. FilesIn(branch[m]) \subseteq delivered'
      BY <1>2, <3>2, <3>3, Handed
    <3>5. <<q, tree[branch[m]][q]>> \in FilesIn(branch[m])
      BY <1>5, <1>8, <3>1 DEF FilesIn, FilesOf
    <3> QED
      BY <1>5, <3>1, <3>4, <3>5
  <2> QED
    BY <2>1, <2>2
<1> QED
  BY <1>8 DEF FilesOf

LEMMA DeliverCommitsSteady == ASSUME Base, Steady, DeliverCommits PROVE Steady'
<1>1. /\ poll' = NoPoll /\ cursor' = poll.head /\ tree' = tree /\ branch' = branch
      /\ doubtful' = (doubtful \/ torn)
  BY DEF DeliverCommits, Deliver, remote
<1>2. CursorCovers'
  <2> SUFFICES ASSUME ~doubtful, ~torn, Contains(branch, poll.head)
               PROVE  FilesOf(cursor, Paths)' \subseteq delivered'
    BY <1>1 DEF CursorCovers
  <2>1. FilesOf(poll.head, Paths) \subseteq delivered'
    BY HeadCovered
  <2>2. FilesOf(cursor, Paths)' = FilesOf(poll.head, Paths)
    BY <1>1 DEF FilesOf
  <2> QED
    BY <2>1, <2>2
<1> QED
  BY <1>1, <1>2, NoPollType, IdleSteady

LEMMA DeliverTreeSteady == ASSUME Base, Steady, DeliverTree PROVE Steady'
<1>1. /\ poll' = NoPoll /\ cursor' = poll.head /\ tree' = tree
      /\ FilesOf(poll.head, Paths) \subseteq delivered'
  BY DEF DeliverTree, Deliver, remote
<1>2. FilesOf(cursor, Paths)' = FilesOf(poll.head, Paths)
  BY <1>1 DEF FilesOf
<1>3. CursorCovers'
  BY <1>1, <1>2 DEF CursorCovers
<1> QED
  BY <1>1, <1>3, NoPollType, IdleSteady

LEMMA PollFailsBase == ASSUME Base, PollFails PROVE Base'
<1>1. /\ UNCHANGED remote /\ cursor' = cursor /\ delivered' = delivered /\ poll' = NoPoll
      /\ torn' = torn /\ doubtful' = doubtful /\ errors' = errors + 1 /\ errors < MaxErrors
  BY DEF PollFails
<1>2. errors' \in 0 .. MaxErrors
  BY <1>1, InboxBoundsAssumption DEF Base, TypeOK
<1>3. NoPoll \in Polls /\ NoPoll.head <= made
  BY NoPollType, BranchFacts DEF NoPoll, Root
<1> QED
  BY <1>1, <1>2, <1>3, BaseKept DEF Base, TypeOK, Known

LEMMA PollFailsSteady == ASSUME Steady, PollFails PROVE Steady'
<1>1. /\ branch' = branch /\ tree' = tree /\ cursor' = cursor /\ delivered' = delivered
      /\ poll' = NoPoll /\ doubtful' = doubtful
  BY DEF PollFails, remote
<1>2. CursorCovers'
  BY <1>1 DEF Steady, CursorCovers, FilesOf
<1> QED
  BY <1>1, <1>2, NoPollType, IdleSteady

LEMMA ForgetBase == ASSUME Base, Forget PROVE Base'
<1>1. /\ UNCHANGED remote /\ cursor' = NoCursor /\ delivered' = delivered /\ poll' = poll
      /\ torn' = torn /\ doubtful' = FALSE /\ errors' = errors
  BY DEF Forget
<1>2. NoCursor <= made
  BY BranchFacts DEF NoCursor
<1> QED
  BY <1>1, <1>2, BaseKept DEF Base, TypeOK, Known

LEMMA ForgetSteady == ASSUME Base, Forget PROVE Steady'
<1>1. poll' = poll /\ poll.at = "idle" /\ cursor' = NoCursor /\ branch' = branch
  BY DEF Forget, remote
<1>2. ~Contains(branch, NoCursor)
  BY BranchFacts DEF Contains, NoCursor
<1>3. CursorCovers'
  BY <1>1, <1>2 DEF CursorCovers
<1> QED
  BY <1>1, <1>3, IdleSteady

-----------------------------------------------------------------------------
(* The whole specification.                                                *)

LEMMA InitFacts ==
    ASSUME Init
    PROVE  /\ branch = <<0>> /\ Len(branch) = 1 /\ branch[1] = 0 /\ 0 \in Commits
           /\ branch \in Seq(Commits) /\ made = 0 /\ cursor = -1 /\ poll = NoPoll
<1>1. branch = <<0>> /\ made = 0 /\ cursor = -1 /\ poll = NoPoll
  BY DEF Init, Root, NoCursor
<1>2. 0 \in Commits
  BY InboxBoundsAssumption DEF Commits
<1> QED
  BY <1>1, <1>2

LEMMA InitBase == Init => Base
<1> SUFFICES ASSUME Init PROVE Base
  OBVIOUS
<1>1. TypeOK
  <2>1. [p \in Paths |-> NoContent] \in Trees
    BY DEF Trees
  <2>2. tree \in [Commits -> Trees] /\ touched \in [Commits -> SUBSET Paths]
    BY <2>1 DEF Init
  <2>3. rewrites \in 0 .. MaxRewrites /\ errors \in 0 .. MaxErrors /\ delivered \subseteq Requests
    BY InboxBoundsAssumption DEF Init
  <2>4. torn \in BOOLEAN /\ doubtful \in BOOLEAN
    BY DEF Init
  <2> QED
    BY <2>2, <2>3, <2>4, InitFacts, NoPollType DEF TypeOK, NoCursor
<1>2. BranchOK
  <2>1. \A i, j \in 1 .. 1 : ~(i < j)
    OBVIOUS
  <2>2. \A i \in 1 .. 1 : branch[i] <= made
    <3>1. \A i \in 1 .. 1 : i = 1
      OBVIOUS
    <3> QED
      BY <3>1, InitFacts
  <2>3. Len(branch) = 1 /\ 1 >= 1
    BY InitFacts
  <2> QED
    BY <2>1, <2>2, <2>3 DEF BranchOK
<1>3. History
  <2>1. \A i, j \in 1 .. 1 : ~(i < j)
    OBVIOUS
  <2> QED
    BY <2>1, InitFacts DEF History
<1>4. Known
  BY InitFacts DEF Known, NoPoll, Root
<1> QED
  BY <1>1, <1>2, <1>3, <1>4 DEF Base

LEMMA InitSteady == Init => Steady
<1> SUFFICES ASSUME Init PROVE Steady
  OBVIOUS
<1>1. ~Contains(branch, cursor)
  BY InitFacts DEF Contains
<1>2. poll.at = "idle"
  BY InitFacts, NoPollType
<1> QED
  BY <1>1, <1>2 DEF Steady, OnBranch, Whole, Ahead, Listing, Caught, CursorCovers

LEMMA BaseStep == Base /\ [Next]_vars => Base'
<1> SUFFICES ASSUME Base, [Next]_vars PROVE Base'
  OBVIOUS
<1>1. CASE Poll
  BY <1>1, ReadHeadBase, CursorFoundBase, CursorNotFoundBase, DeliverCommitsBase, DeliverTreeBase DEF Poll
<1>2. CASE PollFails
  BY <1>2, PollFailsBase
<1>3. ASSUME NEW p \in Paths, NEW v \in Contents \cup {NoContent}, Push(p, v) PROVE Base'
  BY <1>3, PushBase
<1>4. ASSUME NEW n \in 1 .. MaxCommits, Rewrite(n) PROVE Base'
  BY <1>4, RewriteBase
<1>5. CASE Forget
  BY <1>5, ForgetBase
<1>6. CASE UNCHANGED vars
  <2>1. /\ UNCHANGED remote /\ cursor' = cursor /\ delivered' = delivered /\ poll' = poll
        /\ torn' = torn /\ doubtful' = doubtful /\ errors' = errors
    BY <1>6 DEF vars, history
  <2> QED
    BY <2>1, BaseKept DEF Base, TypeOK, Known
<1> QED
  BY <1>1, <1>2, <1>3, <1>4, <1>5, <1>6 DEF Next

LEMMA SteadyStep == Base /\ Steady /\ [Next]_vars => Steady'
<1> SUFFICES ASSUME Base, Steady, [Next]_vars PROVE Steady'
  OBVIOUS
<1>1. CASE Poll
  BY <1>1, ReadHeadSteady, CursorFoundSteady, CursorNotFoundSteady, DeliverCommitsSteady,
     DeliverTreeSteady DEF Poll
<1>2. CASE PollFails
  BY <1>2, PollFailsSteady
<1>3. ASSUME NEW p \in Paths, NEW v \in Contents \cup {NoContent}, Push(p, v) PROVE Steady'
  BY <1>3, PushSteady
<1>4. ASSUME NEW n \in 1 .. MaxCommits, Rewrite(n) PROVE Steady'
  BY <1>4, RewriteSteady
<1>5. CASE Forget
  BY <1>5, ForgetSteady
<1>6. CASE UNCHANGED vars
  BY <1>6 DEF vars, remote, history, Steady, OnBranch, Whole, Ahead, Listing, Caught,
            CursorCovers, FilesOf
<1> QED
  BY <1>1, <1>2, <1>3, <1>4, <1>5, <1>6 DEF Next

(* What holds of the branch and of the poll whatever others do to the      *)
(* branch: commits in the order of their making, no file in a tree without *)
(* the commit that lists it.                                               *)
THEOREM BaseCorrect == Spec => []Base
<1> QED
  BY InitBase, BaseStep, PTL DEF Spec

(* The types of all variables, GitHubMailbox.discover_requests among       *)
(* pushes and rewrites of the branch: in particular the page stays within  *)
(* max_pages.                                                              *)
THEOREM TypeCorrect == Spec => []TypeOK
<1>1. Base => TypeOK
  BY DEF Base
<1> QED
  BY <1>1, BaseCorrect, PTL

(* A cursor that is on the branch promises that every request file in its  *)
(* tree was delivered, for any page size, page limit and history of        *)
(* pushes, rewrites at any moment and failed polls, unless the cursor goes *)
(* back to a listing under which the branch was rewritten.                 *)
THEOREM CursorSafe == Spec => []CursorCovers
<1>1. Base /\ Steady /\ [Next]_vars => (Base /\ Steady)'
  BY BaseStep, SteadyStep
<1>2. Init => Base /\ Steady
  BY InitBase, InitSteady
<1>3. Base /\ Steady => CursorCovers
  BY DEF Steady
<1> QED
  BY <1>1, <1>2, <1>3, PTL DEF Spec

(* The one step that is not vacuous is the delivery of listed commits.     *)
LEMMA NothingSkipped ==
    ASSUME Base, Steady, [Next]_vars, ~torn, poll.at = "commits",
           cursor' = poll.head, Contains(branch, poll.head), NEW c \in Between(cursor, poll.head)
    PROVE  FilesOf(c, touched[c]) \subseteq delivered'
<1>1. Contains(branch, cursor) /\ cursor < poll.head
  BY DEF Steady, Caught, Ahead
<1>2. PICK L \in Nat \ {0} : L = Len(branch)
  BY BranchFacts
<1>3. ASSUME NEW x \in 1 .. L, NEW y \in 1 .. L
      PROVE  /\ branch[x] \in Nat /\ branch[y] \in Nat
             /\ x < y => branch[x] < branch[y]
             /\ y < x => branch[y] < branch[x]
  BY <1>2, BranchFacts DEF Base, BranchOK
<1>4. cursor # poll.head
  BY <1>1, <1>2, <1>3 DEF Contains
<1>5. DeliverCommits
  <2>1. cursor' # cursor
    BY <1>4
  <2>2. ~ReadHead /\ ~CursorFound /\ ~CursorNotFound /\ ~DeliverTree /\ ~Forget
    BY DEF ReadHead, CursorFound, CursorNotFound, DeliverTree, Forget
  <2>3. ~PollFails
    BY <2>1 DEF PollFails
  <2>4. \A p \in Paths, v \in Contents \cup {NoContent} : ~Push(p, v)
    BY <2>1 DEF Push
  <2>5. \A n \in 1 .. MaxCommits : ~Rewrite(n)
    BY <2>1 DEF Rewrite
  <2>6. ~(UNCHANGED vars)
    BY <2>1 DEF vars
  <2> QED
    BY <2>2, <2>3, <2>4, <2>5, <2>6 DEF Next, Poll
<1>6. Between(cursor, poll.head) =
        {branch[i] : i \in Place(branch, cursor) + 1 .. Place(branch, poll.head)}
  BY DEF Between, SelectInSeq, Place
<1>7. PICK x \in 1 .. L, y \in 1 .. L :
        /\ x = Place(branch, cursor) /\ branch[x] = cursor
        /\ y = Place(branch, poll.head) /\ branch[y] = poll.head
  <2>1. \A i, j \in 1 .. L : branch[i] = branch[j] => i = j
    <3> SUFFICES ASSUME NEW i \in 1 .. L, NEW j \in 1 .. L, branch[i] = branch[j] PROVE i = j
      OBVIOUS
    <3> QED
      BY <1>3
  <2> QED
    BY <1>1, <1>2, <2>1, OnlyPlace, BranchFacts
<1>8. PICK m \in x + 1 .. y : c = branch[m]
  BY <1>6, <1>7
<1>9. m \in 1 .. L /\ x < m /\ (m < y \/ m = y)
  OBVIOUS
<1>10. cursor < branch[m] /\ branch[m] <= poll.head
  <2>1. branch[x] < branch[m] /\ branch[m] \in Nat /\ branch[y] \in Nat
    BY <1>3, <1>9
  <2>2. m < y => branch[m] < branch[y]
    BY <1>3, <1>9
  <2> QED
    BY <1>7, <1>9, <2>1, <2>2
<1>11. FilesIn(branch[m]) \subseteq delivered'
  BY <1>2, <1>5, <1>9, <1>10, Handed
<1> QED
  BY <1>8, <1>11 DEF FilesIn

(* Catching up by commits skips no version of a file, though pushes shift  *)
(* the pages while they are read and rewrites come before or after, unless *)
(* the branch was rewritten under this very listing.                       *)
THEOREM VersionsSafe == Spec => NoVersionSkipped
<1> DEFINE Skipless == ~torn /\ poll.at = "commits" /\ cursor' = poll.head /\ Contains(branch, poll.head) =>
                         \A c \in Between(cursor, poll.head) :
                           FilesOf(c, touched[c]) \subseteq delivered'
<1>1. Base /\ Steady /\ [Next]_vars => (Base /\ Steady)'
  BY BaseStep, SteadyStep
<1>2. Init => Base /\ Steady
  BY InitBase, InitSteady
<1>3. Base /\ Steady /\ [Next]_vars => Skipless
  BY NothingSkipped
<1>4. Spec => [][Skipless]_vars
  BY <1>1, <1>2, <1>3, PTL DEF Spec
<1> QED
  BY <1>4 DEF NoVersionSkipped

=============================================================================
