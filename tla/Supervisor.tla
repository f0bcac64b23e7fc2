------------------------------ MODULE Supervisor ------------------------------
(***************************************************************************)
(* One child process under supervision: collect_command of the collectors  *)
(* (collectors/core.py) and run_bounded of the read adapters               *)
(* (capabilities/github/process.py).  Both start a reader thread for each  *)
(* output stream and pass what it reads through a bounded queue to the     *)
(* caller, which watches a cancellation and a deadline meanwhile.  They    *)
(* differ in what these do, and in how they end.                           *)
(*                                                                         *)
(* The child, what it forks, and the pipes are the operating system's.     *)
(* Output is counted in blocks, what one read returns.                     *)
(***************************************************************************)
EXTENDS Naturals, SequencesExt

CONSTANTS
    Kinds,        \* the functions called: "collect", "bounded"
    QueueSize,    \* MAX_QUEUE_EVENTS, 4 in run_bounded
    Limit,        \* max_stdout, max_stderr in blocks
    PipeSize,     \* blocks a pipe holds
    MaxBlocks,    \* bound: blocks written
    MaxFaults,    \* bound: reads that fail
    Forks         \* the child may leave a descendant

Streams == {"stdout", "stderr"}

ASSUME KindsAssumption == Kinds \subseteq {"collect", "bounded"}
ASSUME SizesAssumption == /\ QueueSize \in Nat \ {0} /\ PipeSize \in Nat \ {0}
                          /\ Limit \in [Streams -> Nat]
ASSUME SupervisorBoundsAssumption == {MaxBlocks, MaxFaults} \subseteq Nat /\ Forks \in BOOLEAN

VARIABLES
    kind,      \* the function that was called
    child,     \* the child
    heir,      \* a descendant of the child: none that lives, in the child's process group, or
               \* in one of its own
    held,      \* the streams it holds open
    open,      \* the streams the child has not closed
    pipe,      \* blocks in each pipe
    sent,      \* history: blocks written to each stream
    reader,    \* where each reader thread is
    q,         \* the queue
    stop,      \* the stop event of run_bounded
    wanted,    \* the cancellation
    late,      \* the deadline has passed
    caller,    \* the call
    faults     \* history: reads that failed so far

system == <<child, heir, held, open, pipe, sent>>
vars == <<kind, system, reader, q, stop, wanted, late, caller, faults>>

-----------------------------------------------------------------------------
Tags == {"data", "error", "eof"}
Messages == Streams \X Tags
Stages == {"start", "head", "cancel", "deadline", "terminate", "get", "stop", "kill", "ended"}
Outcomes == {"none", "result", "spawn_failed", "CANCELLED", "PROCESS_TIMEOUT", "OUTPUT_LIMIT",
             "PIPE_FAILED"}
Callers == [at : Stages, next : Stages, outcome : Outcomes, eof : SUBSET Streams,
            gaps : SUBSET Streams, got : [Streams -> Nat],
            cancelled : BOOLEAN, timed_out : BOOLEAN]

Init ==
    /\ kind \in Kinds
    /\ child = "none"
    /\ heir = "none"
    /\ held = {}
    /\ open = {}
    /\ pipe = [s \in Streams |-> 0]
    /\ sent = [s \in Streams |-> 0]
    /\ reader = [s \in Streams |-> "none"]
    /\ q = <<>>
    /\ stop = FALSE
    /\ wanted = FALSE
    /\ late = FALSE
    /\ caller = [at |-> "start", next |-> "start", outcome |-> "none", eof |-> {}, gaps |-> {},
                 got |-> [s \in Streams |-> 0], cancelled |-> FALSE, timed_out |-> FALSE]
    /\ faults = 0

-----------------------------------------------------------------------------
(* The operating system, the clock and whoever cancels.                    *)

Writable(s) == s \in open \cup held

Write(s) ==
    /\ Writable(s)
    /\ pipe[s] < PipeSize
    /\ sent["stdout"] + sent["stderr"] < MaxBlocks
    /\ pipe' = [pipe EXCEPT ![s] = @ + 1]
    /\ sent' = [sent EXCEPT ![s] = @ + 1]
    /\ UNCHANGED <<kind, child, heir, held, open, reader, q, stop, wanted, late, caller, faults>>

CloseStream(s) ==
    /\ child = "running"
    /\ s \in open
    /\ open' = open \ {s}
    /\ UNCHANGED <<kind, child, heir, held, pipe, sent, reader, q, stop, wanted, late, caller, faults>>

Fork(h) ==
    /\ Forks
    /\ child = "running"
    /\ heir = "none"
    /\ heir' = "inside"
    /\ held' = h
    /\ UNCHANGED <<kind, child, open, pipe, sent, reader, q, stop, wanted, late, caller, faults>>

(* The child ends by itself, in time or late.                              *)
ChildExits ==
    /\ child = "running"
    /\ child' = IF late THEN "exited_late" ELSE "exited"
    /\ open' = {}
    /\ UNCHANGED <<kind, heir, held, pipe, sent, reader, q, stop, wanted, late, caller, faults>>

(* setsid or setpgid: on POSIX a process may leave the group that it was   *)
(* born into.  From the job of Windows none gets out.                      *)
HeirLeaves ==
    /\ heir = "inside"
    /\ heir' = "outside"
    /\ UNCHANGED <<kind, child, held, open, pipe, sent, reader, q, stop, wanted, late, caller, faults>>

HeirExits ==
    /\ heir # "none"
    /\ heir' = "none"
    /\ held' = {}
    /\ UNCHANGED <<kind, child, open, pipe, sent, reader, q, stop, wanted, late, caller, faults>>

CancelIsWanted ==
    /\ ~wanted
    /\ wanted' = TRUE
    /\ UNCHANGED <<kind, system, reader, q, stop, late, caller, faults>>

DeadlinePasses ==
    /\ ~late
    /\ caller.at # "start"
    /\ late' = TRUE
    /\ UNCHANGED <<kind, system, reader, q, stop, wanted, caller, faults>>

-----------------------------------------------------------------------------
(* The reader threads: _reader and drain.                                  *)

Read(s) ==
    /\ reader[s] = "read"
    /\ pipe[s] > 0
    /\ pipe' = [pipe EXCEPT ![s] = @ - 1]
    /\ reader' = [reader EXCEPT ![s] = "data"]
    /\ UNCHANGED <<kind, child, heir, held, open, sent, q, stop, wanted, late, caller, faults>>

ReadEnds(s) ==
    /\ reader[s] = "read"
    /\ pipe[s] = 0
    /\ ~Writable(s)
    /\ reader' = [reader EXCEPT ![s] = "eof"]
    /\ UNCHANGED <<kind, system, q, stop, wanted, late, caller, faults>>

ReadFails(s) ==
    /\ reader[s] = "read"
    /\ faults < MaxFaults
    /\ faults' = faults + 1
    /\ reader' = [reader EXCEPT ![s] = "error"]
    /\ UNCHANGED <<kind, system, q, stop, wanted, late, caller>>

After(tag) == CASE tag = "data" -> "read" [] tag = "error" -> "eof" [] tag = "eof" -> "done"

(* queue.put, which waits for room.                                        *)
Put(s) ==
    /\ reader[s] \in Tags
    /\ Len(q) < QueueSize
    /\ q' = Append(q, <<s, reader[s]>>)
    /\ reader' = [reader EXCEPT ![s] = After(@)]
    /\ UNCHANGED <<kind, system, stop, wanted, late, caller, faults>>

(* Bug: the end of the stream is put without a look at the stop event.     *)
GiveUpOnData(s) ==
    /\ kind = "bounded"
    /\ stop
    /\ reader[s] \in {"data", "error"}
    /\ reader' = [reader EXCEPT ![s] = "eof"]
    /\ UNCHANGED <<kind, system, q, stop, wanted, late, caller, faults>>

(* send gives up once the caller has told it to stop, and so does drain.   *)
GiveUp(s) ==
    /\ kind = "bounded"
    /\ stop
    /\ reader[s] \in Tags
    /\ reader' = [reader EXCEPT ![s] = "done"]
    /\ UNCHANGED <<kind, system, q, stop, wanted, late, caller, faults>>

-----------------------------------------------------------------------------
(* The caller.                                                             *)

Running == child = "running"

CallerOnly == UNCHANGED <<kind, system, reader, q, stop, wanted, late, faults>>

Raise(code) == caller' = [caller EXCEPT !.at = "stop", !.outcome = code]

Spawn ==
    /\ caller.at = "start"
    /\ ~(kind = "bounded" /\ wanted)
    /\ child' = "running"
    /\ open' = Streams
    /\ reader' = [s \in Streams |-> "read"]
    /\ caller' = [caller EXCEPT !.at = "head"]
    /\ UNCHANGED <<kind, heir, held, pipe, sent, q, stop, wanted, late, faults>>

(* The executable is missing, or the call was cancelled before.            *)
SpawnFails ==
    /\ caller.at = "start"
    /\ caller' = [caller EXCEPT !.at = "ended", !.outcome = IF kind = "bounded" /\ wanted
                                                            THEN "CANCELLED" ELSE "spawn_failed"]
    /\ CallerOnly

(* Bug: the loop ends with the child, or with the streams.                 *)
EndOfEither == caller.eof = Streams \/ ~Running

EndOfAll == caller.eof = Streams /\ ~Running

LoopEnds ==
    /\ caller.at = "head"
    /\ EndOfAll
    /\ caller' = [caller EXCEPT !.outcome = "result",
                                !.at = IF kind = "collect" THEN "ended" ELSE "stop"]
    /\ CallerOnly

LoopGoesOn ==
    /\ caller.at = "head"
    /\ ~EndOfAll
    /\ caller' = [caller EXCEPT !.at = "cancel"]
    /\ CallerOnly

CancelTest ==
    /\ caller.at = "cancel"
    /\ IF wanted /\ kind = "bounded" THEN Raise("CANCELLED")
       ELSE IF wanted /\ Running
         THEN caller' = [caller EXCEPT !.at = "terminate", !.next = "deadline", !.cancelled = TRUE]
         ELSE caller' = [caller EXCEPT !.at = "deadline"]
    /\ CallerOnly

(* Bug: the deadline is tested without a look at the child.                *)
OverdueAnyway == late

Overdue == late /\ Running

(* Bug: run_bounded watches the child only, as collect_command does.       *)
DeadlineOfChild ==
    /\ caller.at = "deadline"
    /\ IF Overdue /\ kind = "bounded" THEN Raise("PROCESS_TIMEOUT")
       ELSE IF Overdue
         THEN caller' = [caller EXCEPT !.at = "terminate", !.next = "get", !.timed_out = TRUE]
         ELSE caller' = [caller EXCEPT !.at = "get"]
    /\ CallerOnly

DeadlineTest ==
    /\ caller.at = "deadline"
    /\ IF late /\ kind = "bounded" THEN Raise("PROCESS_TIMEOUT")
       ELSE IF Overdue
         THEN caller' = [caller EXCEPT !.at = "terminate", !.next = "get", !.timed_out = TRUE]
         ELSE caller' = [caller EXCEPT !.at = "get"]
    /\ CallerOnly

(* _terminate: the child itself is terminated or killed, and waited for.   *)
Terminate ==
    /\ caller.at = "terminate"
    /\ child' = IF Running THEN "killed" ELSE child
    /\ open' = {}
    /\ caller' = [caller EXCEPT !.at = caller.next, !.next = "start"]
    /\ UNCHANGED <<kind, heir, held, pipe, sent, reader, q, stop, wanted, late, faults>>

GetTimesOut ==
    /\ caller.at = "get"
    /\ q = <<>>
    /\ caller' = [caller EXCEPT !.at = "head"]
    /\ CallerOnly

Take ==
    /\ caller.at = "get"
    /\ q # <<>>
    /\ q' = Tail(q)
    /\ UNCHANGED <<kind, system, reader, stop, wanted, late, faults>>

GetEof ==
    /\ Take
    /\ Head(q)[2] = "eof"
    /\ caller' = [caller EXCEPT !.at = "head", !.eof = @ \cup {Head(q)[1]}]

(* The event of collect_command gives the error, not the stream; `gaps`    *)
(* keeps the stream too, so that no property can take one for the other.   *)
GetError ==
    /\ Take
    /\ Head(q)[2] = "error"
    /\ IF kind = "bounded" THEN Raise("PIPE_FAILED")
       ELSE caller' = [caller EXCEPT !.at = "head", !.gaps = @ \cup {Head(q)[1]}]

WithinLimit(s) == caller.got[s] + 1 <= Limit[s]

GetData ==
    LET s == Head(q)[1] IN
    /\ Take
    /\ Head(q)[2] = "data"
    /\ IF kind = "bounded" /\ ~WithinLimit(s) THEN Raise("OUTPUT_LIMIT")
       ELSE caller' = [caller EXCEPT !.at = "head", !.got[s] = @ + 1]

(* The finally clause of run_bounded.                                      *)
SetStop ==
    /\ caller.at = "stop"
    /\ stop' = TRUE
    /\ caller' = [caller EXCEPT !.at = "kill"]
    /\ UNCHANGED <<kind, system, reader, q, wanted, late, faults>>

(* Bug: the child is killed, its process group is not.                     *)
KillChild ==
    /\ caller.at = "kill"
    /\ child' = IF Running THEN "killed" ELSE child
    /\ open' = {}
    /\ caller' = [caller EXCEPT !.at = "ended"]
    /\ UNCHANGED <<kind, heir, held, pipe, sent, reader, q, stop, wanted, late, faults>>

(* The process group, or the job, is killed: the child and those of its    *)
(* heirs that are in it.                                                   *)
KillGroup ==
    /\ caller.at = "kill"
    /\ child' = IF Running THEN "killed" ELSE child
    /\ heir' = IF heir = "inside" THEN "none" ELSE heir
    /\ held' = IF heir = "inside" THEN {} ELSE held
    /\ open' = {}
    /\ caller' = [caller EXCEPT !.at = "ended"]
    /\ UNCHANGED <<kind, pipe, sent, reader, q, stop, wanted, late, faults>>

-----------------------------------------------------------------------------
Caller ==
    \/ Spawn \/ SpawnFails
    \/ LoopEnds \/ LoopGoesOn
    \/ CancelTest \/ DeadlineTest
    \/ Terminate
    \/ GetTimesOut \/ GetEof \/ GetError \/ GetData
    \/ SetStop \/ KillGroup

Reader(s) == Read(s) \/ ReadEnds(s) \/ Put(s) \/ GiveUp(s)

Next ==
    \/ Caller
    \/ \E s \in Streams : Reader(s) \/ ReadFails(s) \/ Write(s) \/ CloseStream(s)
    \/ \E h \in {{}, open} : Fork(h)
    \/ ChildExits
    \/ HeirLeaves
    \/ HeirExits
    \/ CancelIsWanted
    \/ DeadlinePasses

Spec == Init /\ [][Next]_vars

(* The threads of the supervisor run; neither the child nor what it forks  *)
(* need ever do anything.                                                  *)
FairSpec == Spec /\ WF_vars(Caller) /\ \A s \in Streams : WF_vars(Reader(s))

-----------------------------------------------------------------------------
(* Types of all variables.                                                 *)
TypeOK ==
    /\ kind \in Kinds
    /\ child \in {"none", "running", "exited", "exited_late", "killed"}
    /\ heir \in {"none", "inside", "outside"}
    /\ held \subseteq Streams
    /\ open \subseteq Streams
    /\ pipe \in [Streams -> 0 .. PipeSize]
    /\ sent \in [Streams -> 0 .. MaxBlocks]
    /\ reader \in [Streams -> Tags \cup {"none", "read", "done"}]
    /\ q \in Seq(Messages) /\ Len(q) <= QueueSize
    /\ {stop, wanted, late} \subseteq BOOLEAN
    /\ caller \in Callers
    /\ faults \in 0 .. MaxFaults

(* A result is complete: it has every block either stream ever carried,    *)
(* those of a descendant and those written before the child was killed     *)
(* included, or an event that says a stream was not read to its end.       *)
ResultIsComplete ==
    caller.outcome = "result" =>
      \A s \in Streams : caller.got[s] = sent[s] \/ s \in caller.gaps

(* What the result of a collection says of its end is true: it was killed  *)
(* only with a reason given, the reasons are real, and a child that ended  *)
(* in time is never reported as timed out, even if its output came late.   *)
OutcomeIsTruthful ==
    kind = "collect" =>
      /\ child = "killed" => caller.cancelled \/ caller.timed_out
      /\ caller.cancelled => wanted
      /\ caller.timed_out => late /\ child # "exited"

(* run_bounded never returns more than it was allowed to read, and leaves  *)
(* neither the child nor a descendant in its group behind, however it      *)
(* ends.  A descendant with a group of its own survives the call.          *)
NothingLeftBehind ==
    kind = "bounded" /\ caller.at = "ended" =>
      /\ ~Running /\ heir # "inside"
      /\ \A s \in Streams : caller.got[s] <= Limit[s]

(* A call ends after its deadline, whatever the child does, if no          *)
(* descendant holds its pipes for ever; run_bounded ends even then.        *)
EndsInTime ==
    <>[](held = {} \/ kind = "bounded") => (late ~> caller.at = "ended")

(* The reader threads end when the call has, though the caller takes       *)
(* nothing from the full queue any more; unless a descendant with a group  *)
(* of its own, which is not killed, holds a pipe for ever: the thread then *)
(* waits in os.read, where it does not look at the stop event.             *)
ReadersEnd ==
    <>[](held = {} \/ heir # "outside") =>
        (caller.at = "ended" ~> \A s \in Streams : reader[s] \in {"none", "done"})

(* Collection "timeout/cancellation/reaping" (docs/evidence/IL-006.md): a  *)
(* call ends after its deadline.                                           *)
TimeoutEnds == late ~> caller.at = "ended"
=============================================================================
