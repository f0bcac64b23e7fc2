------------------------------ MODULE Telemetry ------------------------------
(***************************************************************************)
(* The reader of another program's job status                              *)
(* (integrations/ansible/read.py): a poll reads three files one after the  *)
(* other while their producer appends to them, replaces, truncates or      *)
(* rewrites them; what it found is kept by its caller, who then accepts    *)
(* the proposed checkpoint, unless it dies in between.                     *)
(*                                                                         *)
(* The status file is a hash chain, so a digest of a prefix, and the id of *)
(* an event, stand for all the records up to it: both are modelled by      *)
(* those records.  A last line without its newline has no effect but on    *)
(* labels, as has the age of the last record.                              *)
(***************************************************************************)
EXTENDS Naturals, SequencesExt

CONSTANTS
    Sources,      \* local mappings: a job and its generation, 0 if unmapped
    Reported,     \* the states this producer reports
    Length,       \* bytes of a record with that state
    MaxSkew,      \* how far the clock of the producer may be ahead
    MaxRecords,   \* bound: records ever written
    MaxTime,      \* bound: clock
    MaxChanges,   \* bound: anything but appends done to the files
    MaxErrors,    \* bound: failed reads
    None

(* TRANSITIONS.                                                            *)
Following ==
    [created    |-> {"validated", "rejected", "failed"},
     validated  |-> {"admitted", "rejected", "failed"},
     admitted   |-> {"starting", "failed", "cancelled", "contained"},
     starting   |-> {"running", "failed", "cancelled", "contained", "timeout"},
     running    |-> {"cancelling", "completed", "failed", "cancelled", "contained", "timeout"},
     cancelling |-> {"cancelled", "contained", "failed", "timeout"}]
Final == {"completed", "failed", "cancelled", "contained", "timeout", "rejected"}

ASSUME ReportedAssumption == Reported \subseteq DOMAIN Following \cup Final
ASSUME LengthAssumption == Length \in [Reported -> Nat \ {0}]
ASSUME SourcesAssumption == \A s \in Sources : s.generation \in Nat
ASSUME TelemetryBoundsAssumption == {MaxSkew, MaxRecords, MaxTime, MaxChanges, MaxErrors} \subseteq Nat

VARIABLES
    dir,       \* the run directory of each job
    now,       \* the clock of the reader
    reader,    \* the TelemetryReader and its checkpoint
    poll,      \* the poll in progress
    batch,     \* what the last poll returned
    retained,  \* the events the caller keeps
    saved,     \* the checkpoint the caller keeps
    written,   \* history: records ever written
    changes,   \* history: changes other than appends
    rewritten, \* history: jobs whose files did not only grow or rotate
    errors     \* history: failed reads so far

vars == <<dir, now, reader, poll, batch, retained, saved, written, changes, rewritten, errors>>
producer == <<dir, now, written, changes, rewritten>>
caller == <<reader, retained, saved>>

-----------------------------------------------------------------------------
Jobs == {s.job : s \in Sources}
Records == [state : Reported, at : 0 .. MaxTime]
(* Contents of the metadata and identities of the status file are numbered *)
(* as they first occur, 0 is no file; files is the number of identities.   *)
Numbers == 0 .. MaxChanges + 1
Dirs == [meta : Numbers, file : Numbers, files : Numbers, chain : Seq(Records),
         valid : BOOLEAN, copy : Records \cup {None}]
EmptyDir == [meta |-> 0, file |-> 0, files |-> 0, chain |-> <<>>, valid |-> TRUE, copy |-> None]

Checkpoints == [source : Sources, file : Numbers, prefix : Seq(Records), meta : Numbers]
Readers == [source : Sources, checkpoint : Checkpoints \cup {None}]
Polls == [at : {"idle", "status", "copy"}, meta : Numbers, checkpoint : Checkpoints \cup {None}]
NoPoll == [at |-> "idle", meta |-> 0, checkpoint |-> None]
Codes == {"UNAVAILABLE", "CHAIN_INVALID", "METADATA_CHANGED", "PREFIX_CHANGED",
          "CLOCK_SKEW", "RESULT_COPY_MISMATCH", "SOURCE_IO"}
(* A batch: why the poll was refused, if it was; the number of records     *)
(* that were left out as known, and whether rotation or truncation was     *)
(* reported; the proposed checkpoint; whether the caller has retained it.  *)
Batches == [refusals : SUBSET Codes, known : 0 .. MaxRecords, replay : BOOLEAN,
            checkpoint : Checkpoints \cup {None}, kept : BOOLEAN]

ASSUME NoneAssumption == None \notin Readers \cup Checkpoints \cup Batches

Offset(chain) == FoldSeq(LAMBDA e, sum : Length[e.state] + sum, 0, chain)

(* event_id, for every event of a chain.                                   *)
Events(job, chain) == {<<job, SubSeq(chain, 1, i)>> : i \in 1 .. Len(chain)}

Init ==
    /\ dir = [j \in Jobs |-> EmptyDir]
    /\ now = 0
    /\ reader = None
    /\ poll = NoPoll
    /\ batch = None
    /\ retained = {}
    /\ saved = None
    /\ written = 0
    /\ changes = 0
    /\ rewritten = {}
    /\ errors = 0

-----------------------------------------------------------------------------
(* The producer, and whoever else touches the run directory.               *)

Others == UNCHANGED <<reader, poll, batch, retained, saved, errors>>

AppendRecord(j, e) ==
    LET chain == dir[j].chain IN
    /\ dir[j].file # 0
    /\ written < MaxRecords
    /\ e.at \in now .. now + MaxSkew
    /\ IF chain = <<>> THEN e.state = "created"
       ELSE Last(chain).state \notin Final /\ e.state \in Following[Last(chain).state]
    /\ dir' = [dir EXCEPT ![j].chain = Append(chain, e)]
    /\ written' = written + 1
    /\ UNCHANGED <<now, changes, rewritten>>
    /\ Others

(* result.json is written after the record it copies.                      *)
WriteCopy(j) ==
    /\ dir[j].chain # <<>>
    /\ Last(dir[j].chain).state \in Final
    /\ dir[j].copy # Last(dir[j].chain)
    /\ dir' = [dir EXCEPT ![j].copy = Last(dir[j].chain)]
    /\ UNCHANGED <<now, written, changes, rewritten>>
    /\ Others

WriteMetadata(j) ==
    /\ changes < MaxChanges \/ dir[j].meta = 0
    /\ dir' = [dir EXCEPT ![j].meta = @ + 1]
    /\ IF dir[j].meta = 0 THEN UNCHANGED <<changes, rewritten>>
       ELSE changes' = changes + 1 /\ rewritten' = rewritten \cup {j}
    /\ UNCHANGED <<now, written>>
    /\ Others

(* A new status file; an identity may be used again, by a file system that *)
(* reuses the number of the inode.  The copy of the old result may stay.   *)
Rotate(j, f) ==
    /\ changes < MaxChanges \/ dir[j].file = 0
    /\ f \in 1 .. dir[j].files + 1
    /\ \E copy \in {None, dir[j].copy} :
         dir' = [dir EXCEPT ![j].file = f, ![j].files = IF f > @ THEN f ELSE @,
                            ![j].chain = <<>>, ![j].valid = TRUE, ![j].copy = copy]
    /\ changes' = IF dir[j].file = 0 THEN changes ELSE changes + 1
    /\ rewritten' = IF f <= dir[j].files THEN rewritten \cup {j} ELSE rewritten
    /\ UNCHANGED <<now, written>>
    /\ Others

Truncate(j, n) ==
    /\ changes < MaxChanges
    /\ n < Len(dir[j].chain)
    /\ dir' = [dir EXCEPT ![j].chain = SubSeq(@, 1, n)]
    /\ changes' = changes + 1
    /\ rewritten' = rewritten \cup {j}
    /\ UNCHANGED <<now, written>>
    /\ Others

(* Bytes that are not a chain.                                             *)
Corrupt(j) ==
    /\ changes < MaxChanges
    /\ dir[j].file # 0 /\ dir[j].valid
    /\ dir' = [dir EXCEPT ![j].valid = FALSE]
    /\ changes' = changes + 1
    /\ rewritten' = rewritten \cup {j}
    /\ UNCHANGED <<now, written>>
    /\ Others

Tick ==
    /\ now < MaxTime
    /\ now' = now + 1
    /\ UNCHANGED <<dir, written, changes, rewritten>>
    /\ Others

-----------------------------------------------------------------------------
(* The reader.                                                             *)

(* The mapping may have moved on since the checkpoint was made, to another *)
(* job of no earlier generation.                                           *)
InScope(s, c) ==
    /\ (s.generation = 0) = (c.source.generation = 0)
    /\ s.generation >= c.source.generation
    /\ s.job = c.source.job => s = c.source

(* A reader starts from the saved checkpoint, if there is one.             *)
Open(s) ==
    /\ reader = None
    /\ saved # None => InScope(s, saved)
    /\ reader' = [source |-> s, checkpoint |-> saved]
    /\ UNCHANGED <<producer, poll, batch, retained, saved, errors>>

Job == reader.source.job
Old == reader.checkpoint
SameJob == Old # None /\ Old.source.job = Job

Refused(refusals) ==
    /\ batch' = [refusals |-> refusals, known |-> 0, replay |-> FALSE, checkpoint |-> Old,
                 kept |-> FALSE]
    /\ poll' = NoPoll

(* Bug: a new file of the same job is not recognised.                    *)
RotatedByJob(c) == Old # None /\ ~SameJob

Rotated(c) == Old # None /\ (~SameJob \/ Old.file # c.file)
Truncated(c) == SameJob /\ Offset(c.prefix) < Offset(Old.prefix)

(* Bug: of a rotated file too, only what follows is read.                *)
ContinuesRotated(c) == Old # None /\ ~Truncated(c)

(* A rotated or truncated file is read from its start: what was delivered  *)
(* of the former content says nothing about it.                            *)
Continues(c) == Old # None /\ ~Rotated(c) /\ ~Truncated(c)

Answered(c) ==
    /\ batch' = [refusals   |-> {},
                 known      |-> IF Continues(c) THEN Len(Old.prefix) ELSE 0,
                 replay     |-> Rotated(c) \/ Truncated(c),
                 checkpoint |-> c,
                 kept       |-> FALSE]
    /\ poll' = NoPoll

Idle == reader # None /\ poll.at = "idle"
ReaderOnly == UNCHANGED <<producer, caller, errors>>

MetadataMissing ==
    /\ Idle
    /\ dir[Job].meta = 0
    /\ Refused({"UNAVAILABLE"})
    /\ ReaderOnly

ReadMetadata ==
    /\ Idle
    /\ dir[Job].meta # 0
    /\ poll' = [NoPoll EXCEPT !.at = "status", !.meta = dir[Job].meta]
    /\ batch' = None
    /\ ReaderOnly

(* What the code checks in turn; it reports the first that fails.          *)
MetadataChanged(c) == SameJob /\ Old.meta # c.meta

(* Bug: a file that is still long enough is taken to be the same.        *)
PrefixLongEnough(c) == Continues(c) /\ Len(c.prefix) < Len(Old.prefix)

PrefixChanged(c) == Continues(c) /\ ~IsPrefix(Old.prefix, c.prefix)
Ahead(c) == c.prefix # <<>> /\ Last(c.prefix).at > now

Refusals(c) ==
    UNION {IF dir[Job].file = 0 THEN {"UNAVAILABLE"} ELSE {},
           IF dir[Job].valid THEN {} ELSE {"CHAIN_INVALID"},
           IF MetadataChanged(c) THEN {"METADATA_CHANGED"} ELSE {},
           IF PrefixChanged(c) THEN {"PREFIX_CHANGED"} ELSE {},
           IF Ahead(c) THEN {"CLOCK_SKEW"} ELSE {}}

Proposed == [source |-> reader.source, file |-> dir[Job].file, prefix |-> dir[Job].chain,
             meta |-> poll.meta]

StatusRefused ==
    /\ poll.at = "status"
    /\ Refusals(Proposed) # {}
    /\ Refused(Refusals(Proposed))
    /\ ReaderOnly

(* After a final record the copy is looked at too.                         *)
ReadStatus ==
    /\ poll.at = "status"
    /\ Refusals(Proposed) = {}
    /\ IF Proposed.prefix # <<>> /\ Last(Proposed.prefix).state \in Final
       THEN /\ poll' = [poll EXCEPT !.at = "copy", !.checkpoint = Proposed]
            /\ UNCHANGED batch
       ELSE Answered(Proposed)
    /\ ReaderOnly

(* Bug: the copy is taken to be written with the record.                 *)
CopyRequired == dir[Job].copy = Last(poll.checkpoint.prefix)

CopyAgrees == dir[Job].copy \in {None, Last(poll.checkpoint.prefix)}

ReadCopy ==
    /\ poll.at = "copy"
    /\ IF CopyAgrees THEN Answered(poll.checkpoint) ELSE Refused({"RESULT_COPY_MISMATCH"})
    /\ ReaderOnly

(* A file that is replaced while it is opened, cannot be read, or holds    *)
(* metadata or a copy of another shape.                                    *)
ReadFails ==
    /\ reader # None
    /\ errors < MaxErrors
    /\ errors' = errors + 1
    /\ Refused({"SOURCE_IO"})
    /\ UNCHANGED <<producer, caller>>

-----------------------------------------------------------------------------
(* The caller.  It deals with a batch before it polls again, or drops it.  *)

Fresh(b) ==
    IF b.refusals # {} THEN {}
    ELSE Events(b.checkpoint.source.job, b.checkpoint.prefix)
           \ Events(b.checkpoint.source.job, SubSeq(b.checkpoint.prefix, 1, b.known))

Retain ==
    /\ Idle /\ batch # None /\ ~batch.kept
    /\ retained' = retained \cup Fresh(batch)
    /\ batch' = [batch EXCEPT !.kept = TRUE]
    /\ UNCHANGED <<producer, reader, poll, saved, errors>>

Save ==
    /\ Idle /\ batch # None
    /\ batch.kept
    /\ saved # batch.checkpoint
    /\ saved' = batch.checkpoint
    /\ UNCHANGED <<producer, reader, poll, batch, retained, errors>>

AcceptCheckpoint ==
    /\ Idle /\ batch # None
    /\ batch.kept
    /\ batch.checkpoint # None /\ batch.checkpoint.source = reader.source
    /\ reader.checkpoint # batch.checkpoint
    /\ reader' = [reader EXCEPT !.checkpoint = batch.checkpoint]
    /\ UNCHANGED <<producer, poll, batch, retained, saved, errors>>

Crash ==
    /\ reader # None
    /\ reader' = None
    /\ poll' = NoPoll
    /\ batch' = None
    /\ UNCHANGED <<producer, retained, saved, errors>>

Produce ==
    \/ \E j \in Jobs :
         \/ \E e \in Records : AppendRecord(j, e)
         \/ WriteCopy(j)
         \/ WriteMetadata(j)
         \/ \E f \in Numbers : Rotate(j, f)
         \/ \E n \in 0 .. MaxRecords : Truncate(j, n)
         \/ Corrupt(j)
    \/ Tick

Poll == MetadataMissing \/ ReadMetadata \/ StatusRefused \/ ReadStatus \/ ReadCopy

Next ==
    \/ Produce
    \/ \E s \in Sources : Open(s)
    \/ Poll \/ ReadFails
    \/ Retain \/ Save \/ AcceptCheckpoint
    \/ Crash

Spec == Init /\ [][Next]_vars

(* The clock advances, the caller polls again and again, and does not for  *)
(* ever replace a batch by the next without retaining one.                 *)
Fairness ==
    /\ WF_vars(Tick)
    /\ WF_vars(Poll)
    /\ SF_vars(Retain)

FairSpec == Spec /\ Fairness

-----------------------------------------------------------------------------
(* The types of the files, the reader, its poll and its batch.             *)
TypeOK ==
    /\ dir \in [Jobs -> Dirs]
    /\ now \in 0 .. MaxTime
    /\ reader \in Readers \cup {None}
    /\ poll \in Polls
    /\ batch \in Batches \cup {None}
    /\ retained \subseteq Jobs \X Seq(Records)
    /\ saved \in Checkpoints \cup {None}
    /\ rewritten \subseteq Jobs
    /\ {written, changes, errors} \subseteq Nat

(* Nothing is skipped: all the events a checkpoint passes over are with    *)
(* the caller, and so is the whole chain a retained batch was made from,   *)
(* across crashes between retaining and accepting, rotations, truncations  *)
(* and files that come back with an identity seen before.                  *)
NothingSkipped ==
    /\ \A c \in {saved} \cup (IF reader = None THEN {} ELSE {reader.checkpoint}) :
         c # None => Events(c.source.job, c.prefix) \subseteq retained
    /\ batch # None /\ batch.kept /\ batch.refusals = {} =>
         Events(batch.checkpoint.source.job, batch.checkpoint.prefix) \subseteq retained

(* What a poll says of the file is true: an answer that reports neither    *)
(* rotation nor truncation continues what was accepted, and metadata or    *)
(* prefix are called changed only if somebody did more than append and     *)
(* rotate, whatever happens between the reads of one poll.                 *)
DiagnosticIsTruthful ==
    batch # None =>
      /\ batch.refusals = {} /\ ~batch.replay /\ reader.checkpoint # None =>
           /\ reader.checkpoint.source.job = batch.checkpoint.source.job
           /\ IsPrefix(reader.checkpoint.prefix, batch.checkpoint.prefix)
      /\ batch.refusals \cap {"METADATA_CHANGED", "PREFIX_CHANGED"} # {} =>
           Job \in rewritten

-----------------------------------------------------------------------------
Readable(j) ==
    /\ dir[j].meta # 0 /\ dir[j].file # 0 /\ dir[j].valid
    /\ dir[j].copy \in {None} \cup Range(dir[j].chain)

(* A reader that goes on delivers: if the files of its job stay readable   *)
(* and were only appended to and rotated, every record ends up with the    *)
(* caller, also one that carries a time in the future.                     *)
EventuallyRetained ==
    \A s \in Sources :
      /\ <>[](reader # None /\ reader.source = s)
      /\ [](s.job \notin rewritten)
      /\ <>[]Readable(s.job)
      => <>[](Events(s.job, dir[s.job].chain) \subseteq retained)

=============================================================================
