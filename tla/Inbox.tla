-------------------------------- MODULE Inbox --------------------------------
(***************************************************************************)
(* Discovery of requests on the inbox branch (transport/github/core.py,    *)
(* GitHubMailbox.discover_requests): the commits since the cursor, listed  *)
(* page by page while others push to the branch or rewrite it, or the      *)
(* whole tree when the cursor is not among them.                           *)
(*                                                                         *)
(* Requests, pages and commits are read from the hosting service.  Commits *)
(* are immutable, so everything that is read by SHA is read in one step;   *)
(* the branch is not, and every request that names it is a step.           *)
(***************************************************************************)
EXTENDS Integers, SequencesExt

CONSTANTS
    Paths,        \* request files of this device
    Contents,     \* what a request file may hold
    PageSize,     \* commits per page, 100 in the code
    MaxPages,     \* max_pages
    MaxCommits,   \* bound: commits ever made
    MaxRewrites,  \* bound: the branch is reset to an earlier commit
    MaxErrors,    \* bound: failed calls
    NoContent

ASSUME PagesAssumption == PageSize \in Nat \ {0} /\ MaxPages \in Nat \ {0}
ASSUME InboxBoundsAssumption == {MaxCommits, MaxRewrites, MaxErrors} \subseteq Nat

NoCursor == -1
Commits == 0 .. MaxCommits
Root == 0

VARIABLES
    branch,     \* the commits of the branch, oldest first
    tree,       \* the request files in each commit's tree
    touched,    \* the files each commit lists as added or modified
    made,       \* the number of commits ever made
    rewrites,   \* how often the branch was rewritten
    cursor,     \* last_seen_sha, kept by the caller
    poll,       \* the call of discover_requests in progress
    delivered,  \* history: the requests handed to the caller
    torn,       \* history: the branch was rewritten while this poll listed it
    doubtful,   \* history: the cursor goes back to a torn listing
    errors      \* history: failed calls so far

remote == <<branch, tree, touched, made, rewrites>>
history == <<delivered, torn, doubtful, errors>>
vars == <<remote, cursor, poll, history>>

-----------------------------------------------------------------------------
Trees == [Paths -> Contents \cup {NoContent}]
Requests == Paths \X Contents

(* The listing starts at the newest commit.                                *)
Polls == [at : {"idle", "list", "commits", "tree"}, head : Commits, page : 1 .. MaxPages,
          commits : Seq(Commits)]
NoPoll == [at |-> "idle", head |-> Root, page |-> 1, commits |-> <<>>]

FilesOf(c, paths) == {<<p, tree[c][p]>> : p \in {q \in paths : tree[c][q] # NoContent}}

Init ==
    /\ branch = <<Root>>
    /\ tree = [c \in Commits |-> [p \in Paths |-> NoContent]]
    /\ touched = [c \in Commits |-> {}]
    /\ made = 0
    /\ rewrites = 0
    /\ cursor = NoCursor
    /\ poll = NoPoll
    /\ delivered = {}
    /\ torn = FALSE
    /\ doubtful = FALSE
    /\ errors = 0

-----------------------------------------------------------------------------
(* Others.                                                                 *)

(* A commit that adds, changes or removes one request file.                *)
Push(p, v) ==
    LET c == made + 1 IN
    /\ made < MaxCommits
    /\ made' = c
    /\ tree[Last(branch)][p] # v
    /\ tree' = [tree EXCEPT ![c] = [tree[Last(branch)] EXCEPT ![p] = v]]
    /\ touched' = [touched EXCEPT ![c] = IF v = NoContent THEN {} ELSE {p}]
    /\ branch' = Append(branch, c)
    /\ UNCHANGED <<rewrites, cursor, poll, history>>

(* The newest commits are dropped, at any moment.  A commit that was       *)
(* dropped is not pushed again.                                            *)
Rewrite(n) ==
    /\ rewrites < MaxRewrites
    /\ n \in 1 .. Len(branch) - 1
    /\ rewrites' = rewrites + 1
    /\ branch' = SubSeq(branch, 1, n)
    /\ torn' = (torn \/ poll.at = "list")
    /\ UNCHANGED <<tree, touched, made, cursor, poll, delivered, doubtful, errors>>

(* The caller starts again without a cursor.                               *)
Forget ==
    /\ poll.at = "idle"
    /\ cursor' = NoCursor
    /\ doubtful' = FALSE
    /\ UNCHANGED <<remote, poll, delivered, torn, errors>>

-----------------------------------------------------------------------------
(* A page of the listing, of the branch as it is now.                      *)
PageOf(n) == SubSeq(Reverse(branch), (n - 1) * PageSize + 1,
                    IF n * PageSize <= Len(branch) THEN n * PageSize ELSE Len(branch))

(* Bug: each page replaces the one before.                                 *)
LastPageOnly(page) == page

Listed(page) == poll.commits \o page

LastPage(page) == Len(page) < PageSize \/ poll.page = MaxPages

(* Bug: a commit's files are read at the head.                             *)
FilesAtHead(c) == FilesOf(poll.head, touched[c])

FilesIn(c) == FilesOf(c, touched[c])

ReadHead ==
    /\ poll.at = "idle"
    /\ cursor # Last(branch)
    /\ poll' = [NoPoll EXCEPT !.at = IF cursor = NoCursor THEN "tree" ELSE "list",
                              !.head = Last(branch)]
    /\ torn' = FALSE
    /\ UNCHANGED <<remote, cursor, delivered, doubtful, errors>>

(* The cursor is on this page: the commits before it are the new ones.     *)
CursorFound ==
    LET page == PageOf(poll.page)
        i == SelectInSeq(page, LAMBDA c : c = cursor)
    IN  /\ poll.at = "list"
        /\ i # 0
        /\ poll' = [poll EXCEPT !.at = "commits", !.commits = Listed(SubSeq(page, 1, i - 1))]
        /\ UNCHANGED <<remote, cursor, history>>

(* Bug: a backlog beyond the last page is left for the next poll.          *)
CursorNotFoundYet ==
    LET page == PageOf(poll.page) IN
    /\ poll.at = "list"
    /\ ~Contains(page, cursor)
    /\ poll' = IF LastPage(page) THEN NoPoll
               ELSE [poll EXCEPT !.page = @ + 1, !.commits = Listed(page)]
    /\ UNCHANGED <<remote, cursor, history>>

(* It is not: on to the next page, or, after the last one, to the tree.    *)
CursorNotFound ==
    LET page == PageOf(poll.page) IN
    /\ poll.at = "list"
    /\ ~Contains(page, cursor)
    /\ poll' = IF LastPage(page)
                 THEN [poll EXCEPT !.at = "tree", !.commits = <<>>]
                 ELSE [poll EXCEPT !.page = @ + 1, !.commits = Listed(page)]
    /\ UNCHANGED <<remote, cursor, history>>

Deliver(files) ==
    /\ delivered' = delivered \cup files
    /\ cursor' = poll.head
    /\ poll' = NoPoll
    /\ UNCHANGED <<remote, torn, errors>>

DeliverCommits ==
    /\ poll.at = "commits"
    /\ Deliver(UNION {FilesIn(c) : c \in ToSet(poll.commits)})
    /\ doubtful' = (doubtful \/ torn)

DeliverTree ==
    /\ poll.at = "tree"
    /\ Deliver(FilesOf(poll.head, Paths))
    /\ doubtful' = FALSE

(* A request fails, a response is malformed or exceeds a limit: nothing is *)
(* delivered and the cursor stays.                                         *)
PollFails ==
    /\ poll.at # "idle"
    /\ errors < MaxErrors
    /\ errors' = errors + 1
    /\ poll' = NoPoll
    /\ UNCHANGED <<remote, cursor, delivered, torn, doubtful>>

Poll == ReadHead \/ CursorFound \/ CursorNotFound \/ DeliverCommits \/ DeliverTree

Next ==
    \/ Poll
    \/ PollFails
    \/ \E p \in Paths, v \in Contents \cup {NoContent} : Push(p, v)
    \/ \E n \in 1 .. MaxCommits : Rewrite(n)
    \/ Forget

Spec == Init /\ [][Next]_vars

(* Polling is repeated, and a poll goes on.                                *)
FairSpec == Spec /\ WF_vars(Poll)

-----------------------------------------------------------------------------
(* Types of all variables.                                                 *)
TypeOK ==
    /\ branch \in Seq(Commits)
    /\ tree \in [Commits -> Trees]
    /\ touched \in [Commits -> SUBSET Paths]
    /\ made \in Commits
    /\ rewrites \in 0 .. MaxRewrites
    /\ cursor \in Commits \cup {NoCursor}
    /\ poll \in Polls
    /\ delivered \subseteq Requests
    /\ torn \in BOOLEAN
    /\ doubtful \in BOOLEAN
    /\ errors \in 0 .. MaxErrors

(* A cursor is a promise: if it is on the branch, every request file in    *)
(* its tree was delivered, though the branch grew between the requests of  *)
(* the poll that returned it, was rewritten before it or since, was too    *)
(* long to be listed, or an earlier poll failed.  One case is excepted     *)
(* because the code does not handle it: the pages are listed by branch     *)
(* name, so that a rewrite between two of them can make the listing skip   *)
(* commits, and every cursor that goes back to such a listing is in doubt  *)
(* until a tree is read.  The evidence for IL-005 makes no exception:      *)
(* "long/history-gap recovery by complete recursive inbox tree".           *)
CursorCovers ==
    ~doubtful /\ Contains(branch, cursor) => FilesOf(cursor, Paths) \subseteq delivered

(* Without the exception the code does not keep the promise: this fails    *)
(* when a commit pushed after the head was resolved is listed on one page  *)
(* and dropped before the next, which then starts below the head.          *)
HistoryGapRecovered ==
    Contains(branch, cursor) => FilesOf(cursor, Paths) \subseteq delivered

(* Catching up by commits skips no version of a file, not even one that    *)
(* was changed or removed since: what was pushed between the old cursor    *)
(* and the new one is delivered as it was pushed, if the new one is still  *)
(* on the branch, although pushes shifted the pages while they were read.  *)
(* The same case is excepted.                                              *)
Between(old, new) ==
    LET position(c) == SelectInSeq(branch, LAMBDA d : d = c)
    IN  {branch[i] : i \in position(old) + 1 .. position(new)}

NoVersionSkipped ==
    [][~torn /\ poll.at = "commits" /\ cursor' = poll.head /\ Contains(branch, poll.head) =>
         \A c \in Between(cursor, poll.head) :
           FilesOf(c, touched[c]) \subseteq delivered']_vars

(* A request file that stays as it is on the branch is delivered at last,  *)
(* unless the cursor remains in doubt: a caller that starts without one,   *)
(* or a cursor that leaves the branch, ends the doubt, for the next poll   *)
(* reads the tree.                                                         *)
EventuallyDelivered ==
    \A p \in Paths, v \in Contents :
      <>[](tree[Last(branch)][p] = v /\ ~doubtful) => <>(<<p, v>> \in delivered)

=============================================================================
