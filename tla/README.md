# Interloc in TLA+

Interloc is a local broker: a private mailbox carries requests from a remote agent to a
workstation, the workstation decides locally whether each request may run, runs it at most
once where it may have an effect, and publishes the result. Everything that matters is durable
(two SQLite databases and a directory of payload files), several threads and several commands
work on it at once, and any of them may die between two writes. This directory holds TLA+
modules that model that core, TLC configurations that check them on small instances, and
proofs of the most important theorems that TLAPS checks for every instance.

All source paths below are relative to `src/`.

## 1. The system

| Component | State it keeps | Operations | What makes it correct |
|---|---|---|---|
| Request journal (`src/interloc/broker/core.py`, `Journal`) | table `requests` (state, digest, attempt, flags, result, publication), `control_state` | `receive approve deny cancel expire_due start save_result mark_published mark_notification_pending acknowledge set_paused recover_running` | bounded queue; settled stays settled; an effect at most once; results and publications written once |
| Dispatcher and registry (same file) | thread pool, capability table of the process | `execute`, `recover` | a late thread never saves into another thread's run |
| Broker process (same file, `BrokerLock`) | a file lock on the state directory | acquire, close | one dispatcher per state directory; recovery before dispatch |
| Control service (`src/interloc/cli/control.py`) | table `local_authority` (binding, approval) | `admit preview approve deny revoke dispatch` | nothing starts on authority that is no longer in force |
| Policy (`src/interloc/policy/model.py`) | the enrollment file | `evaluate`, `Approval.valid_for` | default deny, approvals bound to content, policy, target, time |
| Protocol (`src/interloc/protocol/`) | none | parse and validate documents | strictness |
| Retention store (`src/interloc/retention/core.py`) | tables `objects` and `control`; `.bin` and `.part` files; in-memory gate | `put describe read acknowledge expire maintain reconcile pause_incident resume status` | catalog and files agree after any crash; protected evidence stays; budgets; losses are counted |
| Incident recovery (`src/interloc/retention/recovery.py`) | none of its own | `preview`, `revoke_pending` | cancels exactly what was previewed |
| Evidence sanitizer (`src/interloc/evidence/core.py`) | a literal prefix that may continue in the next chunk | `feed`, `finish` | no configured literal is given out, whatever the fragments |
| Collectors (`src/interloc/collectors/core.py`) | per call a child, two reader threads and a queue; log cursor | `collect_command`, `tail_log` | output complete, outcome true, calls end; no line twice, rotation noticed |
| Mailbox transport (`src/interloc/transport/github/core.py`) | two remote branches; the caller keeps the cursor | `discover_requests`, `publish_group` | no request skipped; publications neither duplicated nor lost under races and lost answers |
| Ansible telemetry (`src/interloc/integrations/ansible/read.py`) | a checkpoint | `poll`, `accept_checkpoint` | no event skipped, changes of the files reported truthfully |
| Greenshot capture (`src/interloc/capabilities/capture/greenshot.py`, `win32.py`) | window leases, capture and artifact directories | `list_windows`, `capture` | what is stored is one whole picture of the leased window |
| Process runner (`src/interloc/capabilities/github/process.py`) | per call a child, two reader threads and a queue | `run_bounded` | as for `collect_command`; nothing is left running |
| GitHub read adapters (`src/interloc/capabilities/github/read.py`, `worktree.py`) | none between calls | `observe` | no atomic snapshot, but what did not go and come back was true together; of the enrolled object, and permitted throughout |
| `config.py`, `platforms.py`, `experiments/`, `tools/` | none | | |

The control service calls the journal inside the journal's own transaction; the dispatcher
calls the journal in three transactions per run; handlers (the read adapters, the capture
provider) are called between them with no lock held. The publisher and the retention store are
independent of the journal's transactions. What is hard here:

* **interleaving**: dispatcher threads, approve commands waiting for a human, the sweep and
  edits of the enrollment file, in any order;
* **crashes**: between the start and the save of a run, and between any two of the up to five
  durable writes of one retention operation;
* **stale reads**: clocks read before the writer lock is granted, previews answered minutes
  later, a resume that was decided on an earlier status;
* **the remote**: branches that move between two requests of one poll or publication, requests
  that fail, and answers that are lost after the remote acted;
* **children and threads**: a child that ends while its output is still in a pipe or a queue, and
  descendants that keep its pipes;
* **files and windows of others**: read one after the other while their owner replaces them; a
  picture is waited for that another program may or may not make, of whatever is in front by then;
* **restarts with another build**: a capability can change its class or vanish between the start
  of a run and its recovery;
* **limits**: queue length, storage budgets, saturating counters.

`PROJECT.json` lists each hazard at its line with the properties that cover it, or the reason
none does yet.

## 2. The modules

### `Broker.tla` - journal, dispatcher, process

One action per journal method. Every method is one `BEGIN IMMEDIATE` transaction, so each is one
atomic step (`Receive` with its three outcomes `Admit`, `Duplicate`, `Collide`; `Approve`,
`Deny`, `Cancel`, `ExpireDue`, `SetPaused`, `MarkPublished`, `MarkNotificationPending`,
`Acknowledge`). `Dispatcher.execute` holds no transaction while a handler runs and is therefore
`Start`, then `HandlerReturns` (which reads the cancellation flag in a transaction of its own)
or `HandlerFails`, then `SaveResult`; or it leaves by an exception, `RunAbandoned`, with the row
still running. `BrokerStart` is the lock and `recover_running`, `BrokerStop` and `Crash` release
the lock. No module of the source is the host that makes these two calls; their order is the
one the repository's tests use.

`row` is the table, one record per request with the columns the code tests. The variables
`attempts`, `effects` and `told` (whether a cancel found the handler of the request's latest run at work) are history. A caller reads the clock before it waits for the writer
lock, hence `Clock`, a set of recent instants. The decision of the policy is an input.

### `RequestLifecycle.tla` - what the journal promises

Six phases and a counter of effectful runs, no rows, threads, clocks or crashes. `Broker!Lifecycle`
instantiates it (`phase` is a function of `row`, `ran` is `effects`), and `LifecycleSpec` is the
refinement: checked by TLC and proved.

### `Control.tla` - local authority

Extends `Broker` with `local_authority`, the enrollment file, the targets providers report and
the approve commands. `ServicePreview` and `ServiceApprove` are two steps with the prompt
between them; `DispatchSweep` and `DispatchStart` are the two transactions of `dispatch`.
`EnrollmentChanges` and `TargetChanges` may happen at any moment. Each of its steps is one of `Broker`'s
actions or leaves `Broker`'s variables alone, so what is shown there carries over.

### `Retention.tla` - the evidence store

A mutex and a lock file make one operation run at a time, but an operation is a sequence of
durable writes. The variable `op` is the program counter of the running operation (`at`), with
the artifact it works on (`on`), the artifacts still to visit (`todo`), where a helper returns to
(`back`), the operation (`name`), and for `put` the artifact and what is to be stored (`key`, `intake`). Each action
makes at most one durable write; between any two of them `Crash` may end the process, `IOFails` may end the operation (it records a gap if the
catalog can still be written, and closes the in-memory gate if not), and `Damage` may remove or
change a payload. `seen` is history: nothing was written since the operator last read the
status.

### `Outbox.tla` and `WriteOnce.tla` - publication

`Outbox` models `publish_group` for any number of concurrent callers: `Publish` begins a call (and
is also the retry of a caller that saw an error), `ReadRef` is the read of the branch,
`ManifestExists` and `ManifestMissing` the look at the manifest at that commit, `Build` the blobs,
tree and commit, `PatchAccepted` and `PatchRefused` the move of the branch without force,
`CallFails` any failed request or the death of the process. A move whose answer is lost is the
second disjunct of `PatchAccepted`. Git objects are immutable, so what is read by SHA is part of
the step that got the SHA. A commit is its tree (`Manifest` path to group) and its ancestry, the
list of groups added. Assumed of the remote: it refuses a move without force exactly when the new commit does not descend
from the branch. The data files of a group are one with its manifest: their paths are taken to
belong to one group only.

`WriteOnce` is what the outbox promises to its readers: a store in which a slot is written at most
once and never changes. `LedgerSpec` is the refinement, with `head.tree` as the store.

### `Inbox.tla` - discovery

`discover_requests` as a sequence of the requests that name the branch: `ReadHead`, one page of the
commit listing per `CursorFound` or `CursorNotFound` step, then `DeliverCommits` or `DeliverTree`, which read
by SHA only and are one step each. Between any two of them `Push` adds a commit and `Rewrite` drops
the newest; `PollFails` is any error, after which the caller keeps its cursor. `Forget` is a caller that
starts without one. History is linear. `Rewrite` may happen at any moment, also between two pages of one poll, for
the pages are listed by branch name. Two histories keep track of that case, which the code does not handle: `torn`, the branch was
rewritten while this poll listed it, and `doubtful`, the cursor goes back to such a listing and no tree was read since. The
properties except it openly; section 4 says what happens in it. A commit with more files
than the listing allows ends the poll, as every other error does; that it does so for good, until the
branch is rewritten, is not modelled.

### `Supervisor.tla` - child processes

`collect_command` and `run_bounded` have one plan: a child, one reader thread per pipe, one bounded queue,
and a loop that takes from the queue and watches a cancellation and a deadline. `Supervisor` models
both; the variable `caller` says which of the two is called, and the guards and steps they do not share name it.
Chunks of output are a count; a descendant of the child may inherit the pipes (`Fork`) and outlive it. It is born into the
child's process group and may leave it for one of its own (`HeirLeaves`: `setsid`; on POSIX only, no process leaves a Windows job); `KillGroup`, which is
`killpg`, does not reach it then, so it survives and keeps what it holds of the pipes.
`gaps` names the streams that were not read to their end; the event of `collect_command` does not, so the model's record is finer than the report.
Each of `poll`, `read`, `put`, `get` and `terminate` is a step, so the child, the readers and
the loop interleave as they do in the code. `DeadlinePasses` and `CancelIsWanted` may happen at any moment.
A reader that was told to stop leaves only after its `read` returned. Not modelled: a process that survives its kill, the
failure to set up the Windows job (which stands with the process group), decoding, and the Git snapshots around a command.

### `Telemetry.tla` - the job status of another program

`poll` is three reads, `ReadMetadata`, `ReadStatus`, `ReadCopy`, with the producer in between, who may append,
rotate, truncate, corrupt or rewrite. The status file is a hash chain, so an event id and a prefix digest
are the records up to that point. What `poll` checks in turn is `Refusals`, the set of all objections of which the code
reports the first. The caller is external, modelled as `docs/ANSIBLE_TELEMETRY.md` requires it: `Retain` the batch, then
`Save` the checkpoint (both durable) and `AcceptCheckpoint`; `Crash` loses the reader and
the batch, `Open` starts from the saved checkpoint, perhaps for another job. Not modelled: the labels (age, a last line without
newline), the sanitizer, whose budget may shorten a batch, and checkpoints nobody proposed.

### `Capture.tla` - a picture made by another program

`capture` looks at the desktop three times, before the hotkey, when a picture has come and when it
has been read (`CheckIdentity`, `CheckForeground`, with `round` saying which look it is), and
between them reads Greenshot's preferences, lists the directory, sends the hotkey, polls
until one new file has not changed from one poll to the next (`LookAt`), and reads it between two looks at its signature
(`ReadBegins`, `ReadEnds`). Windows, handles that are used again, process numbers that are used again, the
foreground, the preferences, Greenshot and other people who save pictures in the same directory are
external and owe nothing: a file is written in one step or in several, under a new name or an old one, and
what Greenshot takes is what is in front when it comes to it. A file is how much was written
of which shot, so it is also its signature; this takes for granted that every write
changes size or time. `moves`, `began` and `disturbed` are history. Not modelled: the walk
through the chunks of a PNG file and the syntax of the preferences, which are a verdict; the Win32 calls;
the hotkey failing because Greenshot does not run, which is a hotkey that is not sent.

### `Observe.tla` - one observation

`ReadAdapters.observe` reads the policy, decides, observes, reads the policy again and decides
again. For a worktree, `inspect_worktree` reads the signature of one file after the other (`Scan`), HEAD, the branch
and the index (`ReadPart`), lets git look at the files (`Status`), and then reads all of it again in another order. For
GitHub, `Verify`, `Fetch`, `Verify`. Files, metadata, the repository's name, policy, approval and the reasons to stop
change between any two of these. Any part may go back to an earlier version (`PutBack`: a checkout and one back, a file renamed away and back
with its time and inode), and a file may be rewritten and have its time set back (`Imitate`: `utime`), which gives new content the
`signature` (name, mode, size, time, inode) of an old version; `Scan` sees signatures only. The histories `worlds`, `returned`, `renames`, `edits`, `withdrawn` say what
happened meanwhile. Not modelled: reading a file in pieces, `GhReadApi`'s own budget, the fields of the responses.

### `Redactor.tla` - redaction across fragments

One character is one step, for the code works character by character, so fragments do not matter.

### The MC modules

`MCBroker`, `MCControl`, `MCRetention`, `MCOutbox`, `MCInbox`, `MCSupervisor`, `MCTelemetry`, `MCCapture`, `MCObserve`, `MCRedactor` give the constants their values. A definition commented
as a bug in a specification is a plausible mistake in the definition that follows it; putting it
in that place makes the property named with it in `PROJECT.json` fail, which shows that the
property can fail at all.

## 3. What the runs check

| Run | Instance | Shows |
|---|---|---|
| `broker` | 2 requests, 1 content, 2 threads, 2 references, 3 capability tables, queue of 1, 2 attempts | `EffectAtMostOnce`, `SingleWriter`, `CancelIsHeard`, `DurableFixed`, refinement `LifecycleSpec`; `PendingBound` under contention for one place; under fairness `RestartsResolveRuns`, and `WaitingDrains` if somebody keeps dispatching |
| `control_safety` | 1 request, 2 contents, 3 enrollments, 2 targets, 1 approve command, 2 threads | `StartsAreAuthorised`, `ApprovalMatchesState`; `TerminalFinal` when two contents collide under one id |
| `retention_safety` | 2 artifacts of 2 sizes that compete for the budget, a deadline, one I/O error, one damaged payload | `FilesMatchCatalog`, `ProtectedStays`, `WithinBudget`, `IdleIsSettled`, `TombstoneFinal`, `ResumeIsReviewed` |
| `outbox` | 2 publishers, 4 groups on 3 paths (two contend for one), 3 attempts, 1 error | `BranchIsLedger`, `AnswersHold`, `ConflictIsProgress`, refinement `LedgerSpec`; under fairness `CallsEnd` |
| `inbox` | 2 files, 2 contents, 3 commits, pages of 1, 3 pages, 1 rewrite at any moment, 1 error | `CursorCovers`, `NoVersionSkipped`; under fairness `EventuallyDelivered`; each but for a listing that a rewrite tore |
| `command` | both callers, queue and pipes of 1, 2 chunks, a descendant that may leave the group, a failed read, a cancellation, a deadline | `ResultIsComplete`, `OutcomeIsTruthful`, `NothingLeftBehind` in the group; under fairness `EndsInTime`, and `ReadersEnd` unless a descendant outside the group holds a pipe for ever |
| `telemetry` | 2 jobs, 2 records in all, one change beside appends, one failed read | `NothingSkipped`, `DiagnosticIsTruthful`; under fairness `EventuallyRetained` |
| `capture` | 1 handle, 2 processes (1 in scope), 1 lease, 1 call, 1 picture of somebody else, 2 names, 2 changes of desktop or preferences | `ShowsTheLease`, `ArtifactIsWhole`; under fairness `OutputIsTaken` |
| `observe` | 2 files, 2 revisions, 2 changes | `SnapshotIsConsistent`, `RepositoryIsTheOne`, `PermittedThroughout` |
| `retention_gap`, `command_hang`, `redactor` | the smallest | the findings below, each a counterexample |

Every module also has a `TypeOK`. It is proved where the module has proofs, for every instance; `retention_safety`
also checks that of the store on its instance.

**Bounds.** `MaxTime`, `MaxLag`, `MaxAttempts`, `MaxFaults`, `MaxDamage` bound the clock, the lag
between a clock reading and its use, the number of runs of one request, and outside events. Two
requests are enough because requests interact only through the queue count and the threads, and
two threads are enough to hold one request twice. Two instants separate a content that expires
from one that does not, and a lag of one makes a stale reading. Two attempts are a run, a crash and a run again,
under any two of three capability tables (one in which the capability changed class, one where
it is gone). In the store one fault suffices to leave an intent behind and a second operation to
meet it; two artifacts make one displace the other.
Two publishers suffice for every race of the outbox, because a call meets the others only through the
branch; three attempts let a call lose twice. Pages of one commit put a page boundary between any two
commits, and four commits on three pages exceed the limit.

A queue and a pipe of one make every put and every write wait at some point, and two chunks leave one in each
place when the child ends. In the telemetry instance one change is a rotation to a new or an old identity, a truncation, a rewrite or a
corruption; two records suffice for a chain that is delivered, truncated and read again, for one that is replaced by another of equal length, and
for the same chain in two jobs. The lengths of the two kinds of record differ, so an offset is not a sequence number. Its bound on time lets a
record be ahead of the reader's clock.
In the capture instance two changes are what it takes to swap a window and swap it back, or to close it and
use its handle again; one picture of somebody else can be alone in the directory or make it ambiguous, and two names
let it be another file or the same. Two changes during an observation are what could deceive two looks: one away and one back, or one that a second one disguises.
`command`, `command_hang`, `capture`, `observe` and `redactor` do not check for deadlock, because a call, an observation and a text end.

**Fairness.** For the broker: the clock advances; a running handler ends (each adapter
in the repository bounds its own time) and a stopped broker is started again. Operators, publisher, the sweep, the start of a run and
the crash are not fair. Note what follows from that: `ControlService.dispatch` alone calls the sweep, before it starts the request it was
called for, and nothing in the program repeats it, so `WaitingDrains` has as its hypothesis that somebody does (`WF_vars(ExpireDue(now))`, any request's dispatch will do); and a run whose handler raises a `BrokerError`
stays `running` until a restart, which is why `RestartsResolveRuns` assumes restarts. For a
command: the reader threads and the loop go on; child, descendant, cancellation and the deadline owe nothing, which is why
`EndsInTime` speaks of what follows the deadline. For the telemetry: the clock advances, polls go on, and a caller does not for ever replace one batch by the
next without retaining any; its property assumes in addition that the reader stays up and the files of its job readable. For the capture: a call that has begun goes on; Greenshot, the desktop and even the deadline owe nothing. For the mailbox: a call goes on, since each of its requests has a
timeout of 30 s, and polling is repeated; pushes, rewrites, errors and the begin of a publication
are not fair, and errors are finitely many.

## 4. Findings

1. `retention_gap`: `reconcile` commits `failed` and the gap in two transactions; a crash in
   between loses the gap for good, while `docs/RETENTION_RECOVERY.md` promises failed record and gap.
2. `command_hang`: the loop of `collect_command` looks at cancellation and deadline only while the child itself runs, and ends the child
   alone; a descendant that keeps a pipe open keeps the call waiting for ever, timeout or not. `run_bounded` does not have this.
3. `redactor`: a literal inside a longer one is given out when the longer one begins but does not come, while
   `docs/evidence/IL-007.md` speaks of exact redaction, with prefixes kept until they cannot form a literal. With literals that overlap
   without containing each other (`Literals <- Overlapping`) the property holds. In the run the literals are `abcd` and `bc`: `feed` keeps `abc` back, and
   `finish` gives it out.

Two more counterexamples are at hand. `INVARIANT HistoryGapRecovered` in `inbox.cfg`, which is `CursorCovers` without its exception, fails: the commits
since the cursor are listed by branch name, not from the resolved head, so a commit that is pushed after the head was
resolved, shown on one page and dropped before the next makes the listing skip the head, whose requests are then never
delivered, although `docs/evidence/IL-005.md` lists "long/history-gap recovery by complete recursive inbox tree". `INVARIANT IncidentFreezes` in `retention_safety.cfg` fails: an automatic eviction that an I/O error
interrupted is carried out by the next `reconcile`, although the incident pause, which is to
suspend automatic cleanup, is on.

Some limits of the code appear in the models as conditions of properties. A descendant that left the child's
process group survives `run_bounded`, and while it holds a pipe a reader thread stays in `os.read` (`NothingLeftBehind`, `ReadersEnd`). Two looks at a
worktree are, as `docs/READ_ADAPTERS.md` and `docs/evidence/IL-016.md` say, no atomic filesystem snapshot: a part that went back to what it was, or a file that
was made to look so, is not noticed (`SnapshotIsConsistent` speaks of the others). A cancel that a running handler's run was told of is
forgotten if a crash cuts that run off, recovery makes the request ready, and `start` clears the flag (`CancelIsHeard` speaks of one run).

Two more differences between documents and code were met; no run checks them, for each is visible in one
handler: `set_paused` leaves requests in `notification_pending`, while `docs/SPEC.md` says that pause clears
queued automatic notification; and `cancel` turns a request with a saved or published result
into `cancelled`, while `docs/evidence/IL-004.md` speaks of terminal cancellation before execution.

## 5. What is proved

`ControlProofs.tla` proves, first about `Broker`, for every set of requests, threads, contents, capability tables and
every bound:

| Theorem | Statement |
|---|---|
| `TypeCorrect` | `Spec => []TypeOK` |
| `RowInvariant` | `Spec => []RowInv` |
| `EffectOnce` | `Spec => []EffectAtMostOnce` |
| `PublishedIsDurable` | `Spec => []PublishedHasResult` |
| `TerminalIsFinal` | `Spec => TerminalFinal` |
| `DurableIsFixed` | `Spec => DurableFixed` |
| `OneWriter` | `Spec => []SingleWriter` |
| `CancelHeard` | `Spec => []CancelIsHeard` |
| `QueueIsBounded` | `Spec => []PendingBound` |
| `ImplementsLifecycle` | `Spec => LifecycleSpec` |

None of the invariants is inductive alone. `RowInv` says which columns are set in which
state, and relates them to the history: a request with an effect is running with
`possible_effect` set, or past it for good; this is what recovery needs to know when the
capability table has changed. `WriterInv` adds that a busy thread exists only while the
process is up, that no two threads have one request, and that a thread's attempt is the
request's last; a run becomes `ready` again only when the process starts, and then no thread
is busy. `HearInv` rests on both: a request at a thread has no result yet, and a thread whose handler was at work when the cancel came finds the flag
or has settled on another outcome. The proof of each has one step per action. `QueueIsBounded` is a cardinality argument:
every action but `Admit` maps the set of pending requests into itself. The
assumptions are those named in `Broker.tla`: finitely many requests, total functions from
contents to capabilities and expiry, and capability tables of the kinds `CapabilitySpec.validate`
admits.

`OutboxProofs.tla` proves, for every set of publishers, groups and paths and any number of errors and
attempts:

| Theorem | Statement |
|---|---|
| `TypeCorrect` | `Spec => []TypeOK` |
| `Invariance` | `Spec => []IInv` |
| `LedgerSafe` | `Spec => []BranchIsLedger` |
| `AnswersSafe` | `Spec => []AnswersHold` |
| `ConflictSafe` | `Spec => []ConflictIsProgress` |
| `Implements` | `Spec => LedgerSpec` |

A commit is `Good` when its tree holds exactly the groups of its ancestry, each manifest once; then the
ancestry determines the tree (`SameTree`). `IInv` says that the branch is good, that a call in progress
builds on a good ancestor of the branch without its manifest, and that what the branch got after
that ancestor was added by others. The remote compares ancestries only. The last part of the invariant is
what makes this enough (`Accepted`): if the built commit descends from the branch, the branch is still
the commit that was read, so the manifest is still missing and the move writes one empty slot.
Lemmas about prefixes of sequences (`PrefixByEntry`, `PrefixOfAppend`, `PrefixAppend`) carry the
argument. The assumption is that each group has a manifest path.

`ObserveProofs.tla` proves, for every finite set of files and every number of changes:

| Theorem | Statement |
|---|---|
| `TypeCorrect` | `Spec => []TypeOK` |
| `StopsAreTruthful` | `Spec => []StopIsTruthful` |
| `PermissionHolds` | `Spec => []PermittedThroughout` |
| `RepositoryHolds` | `Spec => []RepositoryIsTheOne` |
| `SnapshotHolds` | `Spec => []SnapshotIsConsistent` |

`SnapInv` is the argument for two looks in different orders. The witness is the moment at which the index was read: from then on,
until the second look comes to it, every part that never went back lies between what the first look saw and what is there now, and
for the parts that the second look has confirmed the three are equal. `BoundInv` bounds every version by the number of changes so far, so a
write is new, and its signature, unless it was imitated, is that of no earlier version. The invariant carries that moment along. It needs nothing of
what the index did afterwards, which is why the index alone may have returned and still be as it was seen. `PermitInv` and `RepoInv` count
the changes: one change cannot take something away and give it back.

`CaptureProofs.tla` proves, for all windows, processes, calls, names and numbers of changes:

| Theorem | Statement |
|---|---|
| `TypeCorrect` | `Spec => []TypeOK` |
| `ArtifactsAreWhole` | `Spec => []ArtifactIsWhole` |
| `PicturesShowTheLease` | `Spec => []ShowsTheLease` |

`FileInv` says that every file belongs to a shot whose name and acceptability are settled, and that what a call has read
and looked through is whole and acceptable. `ShotInv` relates the phase of the call's own shot to the desktop: if the desktop changed at most once since
the first look and the window is, at a later look, what it was, then it was so when the shot was taken; and a file
that is new to an undisturbed call can only be that of its own shot. The assumption `NobodyAssumption` separates the model values.

The second half of `ControlProofs.tla` builds on what it proves of `Broker` and proves, for any enrollments, grants, targets, operators and lifetimes:

| Theorem | Statement |
|---|---|
| `ControlInvariant` | `ControlSpec => []Inv` |
| `ApprovalsMatch` | `ControlSpec => []ApprovalMatchesState` |
| `StartsAuthorised` | `ControlSpec => StartsAreAuthorised` |

`JournalStep` shows that every step of the service is one of the journal or none, so that all of
the first half holds here. `Backed` says of each request that a stored approval goes back to a consent given to this digest under the
binding of its admission, and ends at most `Lifetime` later. Most steps are `Quiet`: they make no request ready,
waiting, rejected or running that was not so before (recovery makes ready what ran), so they keep `Backed` as long as they leave the authority alone.
`OnlyDispatchStarts` finds the one step that makes a request run, and `AuthorityInForce` reads the property off `Backed` and the comparison with today's policy.

`SupervisorProofs.tla` proves, for any number of blocks, any sizes of pipe and queue and any limits:

| Theorem | Statement |
|---|---|
| `TypeCorrect` | `Spec => []TypeOK` |
| `InvCorrect` | `Spec => []Inv` |
| `ResultComplete` | `Spec => []ResultIsComplete` |
| `OutcomeTruthful` | `Spec => []OutcomeIsTruthful` |
| `NothingLeft` | `Spec => []NothingLeftBehind` |

`Account` keeps the books of a stream: what was sent is in the pipe, with the reader, in the queue or with the caller; the
mark of the end comes last, and only after the pipe was empty and closed. `Ways`, `Truthful` and `Bounded` relate the caller's program counter to the
reasons for which the child was killed, and `Ended` to what is still alive.

`TelemetryProofs.tla` proves, for any jobs, records, rotations and readers:

| Theorem | Statement |
|---|---|
| `TypeCorrect` | `Spec => []TypeOK` |
| `InvCorrect` | `Spec => []Inv` |
| `NothingIsSkipped` | `Spec => []NothingSkipped` |
| `DiagnosticsTruthful` | `Spec => []DiagnosticIsTruthful` |

A checkpoint is `Good` when it was made from this job's metadata and from a prefix of its status file, or of one that was rotated
away, unless the job was rewritten; it stays good whatever the producer does. `Covered` says that the caller has the events of the checkpoints
that are in use, and `BatchOK` that a batch joins on to its reader's checkpoint unless it reports why not. The assumption
`NoneAssumption` keeps `None` apart from readers, checkpoints and batches.

`RetentionProofs.tla` proves, for any artifacts, sizes, deadlines and limits, and any number of crashes, I/O errors and
changed payloads:

| Theorem | Statement |
|---|---|
| `TypeCorrect` | `Spec => []TypeOK` |
| `InvCorrect` | `Spec => []Inv` |
| `FilesMatch` | `Spec => []FilesMatchCatalog` |
| `ProtectedEvidence` | `Spec => []ProtectedStays` |
| `SettledWhenIdle` | `Spec => []IdleIsSettled` |
| `BudgetsHold` | `Spec => []WithinBudget` |
| `TombstonesStay` | `Spec => TombstoneFinal` |
| `ResumesAreReviewed` | `Spec => ResumeIsReviewed` |

`Good` ties the row and the files of one artifact together and holds of all of them after every durable write. `InWork` says what the
stage of an operation implies for the artifact in work (the unlink precedes the tombstone, the rename precedes "available"); `AtHome` says what
the operation still has to visit, also while a call is under way, through the stage it returns to. `Settled` is what the repair rests on: while the rows are
reconciled, each intent is in work or still to be visited, so that none is left when the loop ends. A step touches one artifact
(`OneMoves`) or none (`OpMoves`), and `StepGates` lists what a step may do to the gate. The assumptions are `ArtifactsAssumption` and `LimitsAssumption`.

`BudgetsHold` is about sums over sets of artifacts. `NatSetInduction` gets induction over a set of naturals from the
least element of its complement, `SumsExist` the sum over every finite set from that, and `BytesWithout` and `BytesSame` are the two
facts the steps need: a member may be taken out, and only the sizes of members count. A row that ages takes nothing more of any budget (`AgingFits`);
the one step that adds a row adds what admission compared with the limits in the same transaction (`ReservationFits`).

`InboxProofs.tla` proves, for any files, page sizes, page limits and any number of commits, rewrites and failed polls:

| Theorem | Statement |
|---|---|
| `BaseCorrect` | `Spec => []Base` |
| `TypeCorrect` | `Spec => []TypeOK` |
| `CursorSafe` | `Spec => []CursorCovers` |
| `VersionsSafe` | `Spec => NoVersionSkipped` |

`Base` holds whatever happens to the branch: its commits are in the order of their making, and between any two of them a
file of the later tree was in the earlier one or is listed by a commit in between (`History`). `Steady` is about a poll whose listing is whole (`Whole`, no rewrite so
far): the head it reads up to is on the branch (`OnBranch`), the cursor is older than the head, and what lies behind the pages read so far, up to the
head, was listed (`Listing`). A push appends, so it only moves listed commits further behind the pages, where the next page shows them once more; nothing
slips through between two pages. When the page with the cursor is reached, everything between cursor and head was listed (`Caught`), and `History` turns
the listed commits into the files of the head. From then on a rewrite harms nothing: if it leaves the head on the branch, it leaves all that is older.
A rewrite before that ends `Whole`, and what such a poll returns is `doubtful`; both theorems have `Spec` alone as their hypothesis.

## 6. Only model-checked

Liveness (`WaitingDrains`, `RestartsResolveRuns`, `CallsEnd`, `EventuallyDelivered`, `EndsInTime`, `ReadersEnd`,
`EventuallyRetained`, `OutputIsTaken`), which is beyond the prover, and `Redactor`, whose one property is refuted and
whose folds are what a run is for. Every invariant and every action property that a passing run checks is also proved.
`PublishedHasResult` and `StopIsTruthful` are the other way round: proved, and no run checks them.

## 7. Not modelled, and the plan

1. The host loop: `Inbox`, `Broker` and `Outbox` composed through `receive` and `mark_published`.
2. `tail_log`: the reader of logs that grow, rotate and are truncated.
3. `recovery.py`: the previewed batch cancellation under the broker lock.

Protocol parsing and the validation of the enrollment file are stateless and stay out, as do
schema migration, argument parsing, configuration, experiments and maintenance tools.
