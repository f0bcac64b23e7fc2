------------------------------ MODULE Retention ------------------------------
(***************************************************************************)
(* The evidence store (retention/core.py, class RetentionStore): a catalog *)
(* in SQLite, one payload file per record, and the file-intent protocol    *)
(* that keeps the two together across crashes and I/O errors.              *)
(*                                                                         *)
(* A mutex serialises the operations and a lock file the processes, so one *)
(* operation runs at a time; but it consists of several durable writes     *)
(* (catalog transactions, renames, unlinks), and the process may die, or   *)
(* an error end the operation, between any two of them.  Each action here  *)
(* makes at most one durable write.                                        *)
(***************************************************************************)
EXTENDS Integers, FiniteSets, FiniteSetsExt

CONSTANTS
    Artifacts,    \* artifact ids
    Sizes,        \* payload sizes
    Deadlines,    \* local expiry deadlines an intake may carry
    MaxBytes, MaxItems, MaxPending, MaxRecords, MaxAge,  \* class Limits
    GapLimit,     \* where the gap counter saturates, 2147483647 in the code
    MaxTime,      \* bound: the last instant of the clock
    MaxFaults,    \* bound: I/O errors
    MaxDamage,    \* bound: payloads changed from outside the store
    NoArtifact, NoDeadline

ASSUME ArtifactsAssumption == IsFiniteSet(Artifacts) /\ NoArtifact \notin Artifacts
ASSUME LimitsAssumption ==
    /\ Sizes \subseteq Nat /\ Deadlines \subseteq Nat /\ NoDeadline \notin Nat
    /\ {MaxBytes, MaxItems, MaxPending, MaxRecords, MaxAge, GapLimit} \subseteq Nat \ {0}
    /\ {MaxTime, MaxFaults, MaxDamage} \subseteq Nat

VARIABLES
    row,       \* catalog table objects; state "absent" where there is no record
    final,     \* objects/<id>.bin
    part,      \* staging/<id>.part
    paused,    \* control.paused is set
    incident,  \* control.incident
    gaps,      \* control.gaps
    fresh,     \* the revision the operator read is still the current one
    now,       \* the clock
    up,        \* a process owns the store
    memory,    \* _memory_block of that process
    op,        \* the operation in progress
    faults,    \* history: I/O errors so far
    damaged,   \* history: payloads changed from outside
    reviewed,  \* history: artifacts an operator expired explicitly
    seen       \* history: rows and gaps are those the operator last read

catalog == <<paused, incident, gaps, fresh>>
files   == <<final, part>>
process == <<up, memory>>
history == <<faults, damaged, reviewed>>
vars == <<row, files, catalog, now, process, op, history, seen>>

-----------------------------------------------------------------------------
LiveStates == {"writing", "available", "evicting"}
Tombstones == {"failed", "missing", "expired", "evicted"}

RowType == [state    : {"absent"} \cup LiveStates \cup Tombstones,
            reason   : {"none", "expired", "evicted"},  \* what an eviction ends in
            size     : Sizes \cup {0},
            pending  : BOOLEAN,
            created  : Nat,
            deadline : Deadlines \cup {NoDeadline}]
NoRow == [state |-> "absent", reason |-> "none", size |-> 0, pending |-> FALSE,
          created |-> 0, deadline |-> NoDeadline]

IntakeType == [size : Sizes, pending : BOOLEAN,
               created : Nat, deadline : Deadlines \cup {NoDeadline}]
NoIntake == <<>>

(* An operation is at a stage of its method, or of a method it calls.      *)
Names == {"idle", "open", "reconcile", "maintain", "put", "expire", "describe",
          "resume", "pause"}
Stages == {"idle", "reconcile", "finish", "unlinked", "renamed", "cut", "lost",
           "age", "quota", "admit", "create", "write", "rename", "describe",
           "incident", "done"}
OpType == [name   : Names,
           at     : Stages,
           back   : Stages,                      \* the stage a call returns to
           todo   : SUBSET Artifacts,            \* rows a loop has yet to visit
           on     : Artifacts \cup {NoArtifact}, \* the row being written
           key    : Artifacts \cup {NoArtifact}, \* the operation's argument
           intake : IntakeType \cup {NoIntake}]
Idle == [name |-> "idle", at |-> "idle", back |-> "idle", todo |-> {},
         on |-> NoArtifact, key |-> NoArtifact, intake |-> NoIntake]

InState(S) == {k \in Artifacts : row[k].state \in S}
Live == InState(LiveStates)
Records == Artifacts \ InState({"absent"})
LiveBytes == MapThenSumSet(LAMBDA k : row[k].size, Live)
LivePending == {k \in Live : row[k].pending}

Oldest(S) == {k \in S : \A j \in S : row[k].created <= row[j].created}

(* An artifact is due by its deadline or, once unprotected, by its age.    *)
Due(k) ==
    \/ row[k].deadline # NoDeadline /\ row[k].deadline <= now
    \/ ~row[k].pending /\ row[k].created + MaxAge <= now

-----------------------------------------------------------------------------
Init ==
    /\ row = [k \in Artifacts |-> NoRow]
    /\ final = [k \in Artifacts |-> "none"]
    /\ part = [k \in Artifacts |-> "none"]
    /\ paused = FALSE /\ incident = FALSE /\ gaps = 0 /\ fresh = FALSE
    /\ now = 0
    /\ up = FALSE /\ memory = FALSE
    /\ op = Idle
    /\ faults = 0 /\ damaged = {} /\ reviewed = {} /\ seen = FALSE

-----------------------------------------------------------------------------
(* Catalog transactions.  Each increments the revision.                    *)

(* Bug: the revision stays.                                                *)
SetSilently(k, s) ==
    /\ row' = [row EXCEPT ![k].state = s]
    /\ UNCHANGED catalog

(* _set                                                                    *)
Set(k, s) ==
    /\ row' = [row EXCEPT ![k].state = s]
    /\ fresh' = FALSE
    /\ UNCHANGED <<paused, incident, gaps>>

Recorded ==
    /\ paused' = TRUE
    /\ gaps' = IF gaps < GapLimit THEN gaps + 1 ELSE gaps
    /\ fresh' = FALSE

Unrecorded == UNCHANGED <<paused, gaps, fresh>>

(* _block: the gate in memory closes even if the catalog cannot say so.    *)
Block ==
    /\ memory' = TRUE
    /\ \/ Recorded /\ UNCHANGED faults
       \/ /\ faults < MaxFaults
          /\ faults' = faults + 1
          /\ Unrecorded
    /\ UNCHANGED incident

Goto(stage) == op' = [op EXCEPT !.at = stage]
Call(stage, k, back) == op' = [op EXCEPT !.at = stage, !.on = k, !.back = back,
                                         !.todo = @ \ {k}]
Return == op' = [op EXCEPT !.at = op.back, !.on = NoArtifact]

(* An exception ends the operation; one from the constructor also closes   *)
(* the store.                                                              *)
Raise == op' = Idle /\ up' = (up /\ op.name # "open")

BlockAndRaise == Block /\ Raise /\ UNCHANGED <<row, files, now, damaged, reviewed>>

(* Bug: interrupted evictions are not looked for.                          *)
BeginWithoutEvictions(name, k, intake) ==
    op' = [Idle EXCEPT !.name = name, !.at = "reconcile",
                       !.todo = InState({"writing", "available"}),
                       !.key = k, !.intake = intake]

Begin(name, k, intake) ==
    op' = [Idle EXCEPT !.name = name, !.at = "reconcile", !.todo = Live,
                       !.key = k, !.intake = intake]

-----------------------------------------------------------------------------
(* _evict and _finish_eviction: a durable intent, the unlink, the          *)
(* tombstone the intent names.                                             *)

(* Bug: the intent does not say what it is for.                            *)
EvictUnnamed(k, reason, back) ==
    /\ row' = [row EXCEPT ![k].state = "evicting"]
    /\ fresh' = FALSE
    /\ Call("finish", k, back)
    /\ UNCHANGED <<files, paused, incident, gaps, now, process>>

EvictIntent(k, reason, back) ==
    /\ row' = [row EXCEPT ![k].state = "evicting", ![k].reason = reason]
    /\ fresh' = FALSE
    /\ Call("finish", k, back)
    /\ UNCHANGED <<files, paused, incident, gaps, now, process>>

FinishUnlink ==
    /\ op.at = "finish"
    /\ final[op.on] # "changed"
    /\ final' = [final EXCEPT ![op.on] = "none"]
    /\ Goto("unlinked")
    /\ UNCHANGED <<row, part, catalog, now, process, history>>

FinishChanged ==
    /\ op.at = "finish"
    /\ final[op.on] = "changed"
    /\ BlockAndRaise

FinishTombstone ==
    /\ op.at = "unlinked"
    /\ Set(op.on, row[op.on].reason)
    /\ Return
    /\ UNCHANGED <<files, now, process, history>>

-----------------------------------------------------------------------------
(* reconcile: every live row is brought into line with its files.  The     *)
(* rows are visited in the order of their random ids.                      *)

ReconcileEvicting(k) ==
    /\ row[k].state = "evicting"
    /\ Call("finish", k, "reconcile")
    /\ UNCHANGED <<row, files, catalog, now, process, history>>

ReconcileWritten(k) ==
    /\ row[k].state = "writing"
    /\ final[k] = "whole" /\ part[k] = "none"
    /\ Call("renamed", k, "reconcile")
    /\ UNCHANGED <<row, files, catalog, now, process, history>>

ReconcileStaged(k) ==
    /\ row[k].state = "writing"
    /\ final[k] = "none" /\ part[k] = "whole"
    /\ final' = [final EXCEPT ![k] = "whole"]
    /\ part' = [part EXCEPT ![k] = "none"]
    /\ Call("renamed", k, "reconcile")
    /\ UNCHANGED <<row, catalog, now, process, history>>

(* Bug: the incomplete file is left where it is.                           *)
IncompleteKeepsFile(k) ==
    /\ row[k].state = "writing"
    /\ final[k] = "none" /\ part[k] # "whole"
    /\ Call("cut", k, "reconcile")
    /\ UNCHANGED <<row, files, catalog, now, process, history>>

ReconcileIncomplete(k) ==
    /\ row[k].state = "writing"
    /\ final[k] = "none" /\ part[k] # "whole"
    /\ part' = [part EXCEPT ![k] = "none"]
    /\ Call("cut", k, "reconcile")
    /\ UNCHANGED <<row, final, catalog, now, process, history>>

ReconcileChanged(k) ==
    /\ \/ row[k].state \in {"writing", "available"} /\ final[k] = "changed"
       \/ row[k].state = "writing" /\ final[k] = "whole" /\ part[k] # "none"
    /\ BlockAndRaise

ReconcileMissing(k) ==
    /\ row[k].state = "available"
    /\ final[k] = "none"
    /\ Set(k, "missing")
    /\ Call("lost", k, "reconcile")
    /\ UNCHANGED <<files, now, process, history>>

ReconcileIntact(k) ==
    /\ row[k].state = "available"
    /\ final[k] = "whole"
    /\ op' = [op EXCEPT !.todo = @ \ {k}]
    /\ UNCHANGED <<row, files, catalog, now, process, history>>

ReconcileRow ==
    /\ op.at = "reconcile"
    /\ \E k \in op.todo :
         \/ ReconcileEvicting(k) \/ ReconcileWritten(k) \/ ReconcileStaged(k)
         \/ ReconcileIncomplete(k) \/ ReconcileChanged(k)
         \/ ReconcileMissing(k) \/ ReconcileIntact(k)

SetAvailable ==
    /\ op.at = "renamed"
    /\ Set(op.on, "available")
    /\ Return
    /\ UNCHANGED <<files, now, process, history>>

SetFailed ==
    /\ op.at = "cut"
    /\ Set(op.on, "failed")
    /\ Goto("lost")
    /\ UNCHANGED <<files, now, process, history>>

(* The loss is recorded in a transaction of its own, after the row.        *)
RecordLoss ==
    /\ op.at = "lost"
    /\ Block
    /\ Return
    /\ UNCHANGED <<row, files, now, up, damaged, reviewed>>

ReconcileEnds ==
    /\ op.at = "reconcile" /\ op.todo = {}
    /\ op.name \in {"open", "reconcile"}
    /\ op' = Idle
    /\ UNCHANGED <<row, files, catalog, now, process, history>>

-----------------------------------------------------------------------------
(* maintain, also the first half of put: nothing more during an incident,  *)
(* otherwise what is due goes, and then the oldest unprotected artifacts   *)
(* until the intake fits.                                                  *)

MaintainRefused ==
    /\ op.at = "reconcile" /\ op.todo = {}
    /\ op.name \in {"maintain", "put"}
    /\ incident
    /\ Raise
    /\ UNCHANGED <<row, files, catalog, now, memory, history>>

MaintainAge ==
    /\ op.at = "reconcile" /\ op.todo = {}
    /\ op.name \in {"maintain", "put"}
    /\ ~incident
    /\ op' = [op EXCEPT !.at = "age", !.todo = {k \in InState({"available"}) : Due(k)}]
    /\ UNCHANGED <<row, files, catalog, now, process, history>>

EvictDue ==
    /\ op.at = "age"
    /\ \E k \in Oldest(op.todo) : EvictIntent(k, "expired", "age")
    /\ UNCHANGED history

(* Bug: capacity takes protected evidence too.                             *)
AnyAvailable == InState({"available"})

Unprotected == {k \in InState({"available"}) : ~row[k].pending}

MaintainQuota ==
    /\ op.at = "age" /\ op.todo = {}
    /\ op' = [op EXCEPT !.at = "quota", !.todo = Unprotected]
    /\ UNCHANGED <<row, files, catalog, now, process, history>>

Required == IF op.intake = NoIntake THEN [bytes |-> 0, items |-> 0]
                                    ELSE [bytes |-> op.intake.size, items |-> 1]
(* Bug: what is there fits, what is to come is forgotten.                  *)
FitsAlready ==
    /\ LiveBytes <= MaxBytes
    /\ Cardinality(Live) <= MaxItems

Fits ==
    /\ LiveBytes + Required.bytes <= MaxBytes
    /\ Cardinality(Live) + Required.items <= MaxItems

EvictOldest ==
    /\ op.at = "quota"
    /\ ~Fits
    /\ \E k \in Oldest(op.todo) : EvictIntent(k, "evicted", "quota")
    /\ UNCHANGED history

MaintainEnds ==
    /\ op.at = "quota"
    /\ Fits \/ op.todo = {}
    /\ op' = IF op.name = "put" THEN [op EXCEPT !.at = "admit", !.todo = {}] ELSE Idle
    /\ UNCHANGED <<row, files, catalog, now, process, history>>

-----------------------------------------------------------------------------
(* put: a durable reservation, the staged bytes, the rename, the commit.   *)

Admissible ==
    /\ ~paused /\ ~memory
    /\ Cardinality(Records) < MaxRecords
    /\ op.intake.pending => Cardinality(LivePending) < MaxPending
    /\ Fits

(* Every refusal closes the gate and counts as a gap.  Disk space may be   *)
(* short at any moment.                                                    *)
PutRefused ==
    /\ op.at = "admit"
    /\ \E disk_low \in BOOLEAN : disk_low \/ ~Admissible
    /\ BlockAndRaise

PutReserve ==
    /\ op.at = "admit"
    /\ Admissible
    /\ row' = [row EXCEPT ![op.key] =
                 [NoRow EXCEPT !.state = "writing", !.size = op.intake.size,
                               !.pending = op.intake.pending,
                               !.created = op.intake.created,
                               !.deadline = op.intake.deadline]]
    /\ fresh' = FALSE
    /\ op' = [op EXCEPT !.at = "create", !.on = op.key]
    /\ UNCHANGED <<files, paused, incident, gaps, now, process, history>>

PutCreate ==
    /\ op.at = "create"
    /\ part' = [part EXCEPT ![op.key] = "partial"]
    /\ Goto("write")
    /\ UNCHANGED <<row, final, catalog, now, process, history>>

PutWrite ==
    /\ op.at = "write"
    /\ part' = [part EXCEPT ![op.key] = "whole"]
    /\ Goto("rename")
    /\ UNCHANGED <<row, final, catalog, now, process, history>>

PutRename ==
    /\ op.at = "rename"
    /\ final' = [final EXCEPT ![op.key] = "whole"]
    /\ part' = [part EXCEPT ![op.key] = "none"]
    /\ Call("renamed", op.key, "describe")
    /\ UNCHANGED <<row, catalog, now, process, history>>

-----------------------------------------------------------------------------
(* describe, with which read begins and put and expire end.                *)

DescribeMissing ==
    /\ op.at = "describe"
    /\ row[op.key].state = "available"
    /\ final[op.key] = "none"
    /\ Set(op.key, "missing")
    /\ Call("lost", op.key, "done")
    /\ UNCHANGED <<files, now, process, history>>

DescribeChanged ==
    /\ op.at = "describe"
    /\ row[op.key].state = "available"
    /\ final[op.key] = "changed"
    /\ BlockAndRaise

DescribeEnds ==
    /\ \/ op.at = "done"
       \/ op.at = "describe" /\ ~(row[op.key].state = "available" /\ final[op.key] # "whole")
    /\ op' = Idle
    /\ UNCHANGED <<row, files, catalog, now, process, history>>

(* The second transaction of pause_incident.                               *)
IncidentSet ==
    /\ op.at = "incident"
    /\ incident' = TRUE
    /\ op' = Idle
    /\ UNCHANGED <<row, files, paused, gaps, fresh, now, process, history>>

(* resume, after its reconcile: only with the revision that was reviewed,  *)
(* and only where there is room.                                           *)
ResumeRefused ==
    /\ op.at = "reconcile" /\ op.todo = {} /\ op.name = "resume"
    /\ \E disk_low \in BOOLEAN : disk_low \/ ~fresh \/ ~Fits \/ Cardinality(Records) >= MaxRecords
    /\ Raise
    /\ UNCHANGED <<row, files, catalog, now, memory, history>>

ResumeClears ==
    /\ op.at = "reconcile" /\ op.todo = {} /\ op.name = "resume"
    /\ fresh
    /\ Fits
    /\ Cardinality(Records) < MaxRecords
    /\ paused' = FALSE /\ incident' = FALSE /\ memory' = FALSE /\ fresh' = FALSE
    /\ op' = Idle
    /\ UNCHANGED <<row, files, gaps, now, up, history>>

Continue ==
    \/ FinishUnlink \/ FinishChanged \/ FinishTombstone
    \/ ReconcileRow \/ SetAvailable \/ SetFailed \/ RecordLoss \/ ReconcileEnds
    \/ MaintainRefused \/ MaintainAge \/ EvictDue \/ MaintainQuota \/ EvictOldest \/ MaintainEnds
    \/ PutRefused \/ PutReserve \/ PutCreate \/ PutWrite \/ PutRename
    \/ DescribeMissing \/ DescribeChanged \/ DescribeEnds
    \/ IncidentSet \/ ResumeRefused \/ ResumeClears

-----------------------------------------------------------------------------
(* Calls.                                                                  *)
Ready == up /\ op = Idle

Open ==
    /\ ~up
    /\ up' = TRUE /\ memory' = FALSE
    /\ Begin("open", NoArtifact, NoIntake)
    /\ UNCHANGED <<row, files, catalog, now, history>>

Maintain(name) ==
    /\ Ready
    /\ Begin(name, NoArtifact, NoIntake)
    /\ UNCHANGED <<row, files, catalog, now, process, history>>

(* Bug: an id whose bytes are gone may be used again.                      *)
PutAgain(k, size, pending, deadline) ==
    /\ Ready
    /\ row[k].state \in {"absent"} \cup Tombstones
    /\ deadline # NoDeadline => now < deadline
    /\ Begin("put", k, [size |-> size, pending |-> pending, created |-> now,
                        deadline |-> deadline])
    /\ UNCHANGED <<row, files, catalog, now, process, history>>

(* put of a new id; an id the catalog knows is only described.             *)
Put(k, size, pending, deadline) ==
    /\ Ready
    /\ row[k].state = "absent"
    /\ deadline # NoDeadline => now < deadline
    /\ Begin("put", k, [size |-> size, pending |-> pending, created |-> now,
                        deadline |-> deadline])
    /\ UNCHANGED <<row, files, catalog, now, process, history>>

Describe(k) ==
    /\ Ready
    /\ row[k].state # "absent"
    /\ op' = [Idle EXCEPT !.name = "describe", !.at = "describe", !.key = k]
    /\ UNCHANGED <<row, files, catalog, now, process, history>>

Acknowledge(k) ==
    /\ Ready
    /\ row[k].state = "available"
    /\ row' = [row EXCEPT ![k].pending = FALSE]
    /\ fresh' = FALSE
    /\ UNCHANGED <<files, paused, incident, gaps, now, process, op, history>>

Expire(k) ==
    /\ Ready
    /\ row[k].state = "available"
    /\ row' = [row EXCEPT ![k].state = "evicting", ![k].reason = "expired"]
    /\ fresh' = FALSE
    /\ op' = [Idle EXCEPT !.name = "expire", !.at = "finish", !.on = k,
                          !.back = "describe", !.key = k]
    /\ reviewed' = reviewed \cup {k}
    /\ UNCHANGED <<files, paused, incident, gaps, now, process, faults, damaged>>

PauseIncident ==
    /\ Ready
    /\ Block
    /\ op' = [Idle EXCEPT !.name = "pause", !.at = "incident"]
    /\ UNCHANGED <<row, files, now, up, damaged, reviewed>>

Status ==
    /\ Ready
    /\ fresh' = TRUE
    /\ UNCHANGED <<row, files, paused, incident, gaps, now, process, op, history>>

(* The ownership scan every operation begins with finds a file or a root   *)
(* that is not the store's.                                                *)
ScanRefused == Ready /\ BlockAndRaise

-----------------------------------------------------------------------------
(* The environment.                                                        *)

(* An I/O or database error ends the operation with STORAGE_IO.            *)
IOFails ==
    /\ op.name # "idle"
    /\ faults < MaxFaults
    /\ faults' = faults + 1
    /\ memory' = TRUE
    /\ Recorded \/ Unrecorded
    /\ Raise
    /\ UNCHANGED <<row, files, incident, now, damaged, reviewed>>

Crash ==
    /\ up
    /\ up' = FALSE /\ memory' = FALSE
    /\ op' = Idle
    /\ UNCHANGED <<row, files, catalog, now, history>>

(* Somebody deletes or changes a payload behind the store's back.          *)
Damage(k) ==
    /\ Cardinality(damaged) < MaxDamage
    /\ final[k] = "whole"
    /\ \E f \in {"none", "changed"} : final' = [final EXCEPT ![k] = f]
    /\ damaged' = damaged \cup {k}
    /\ UNCHANGED <<row, part, catalog, now, process, op, faults, reviewed>>

Tick ==
    /\ now < MaxTime
    /\ now' = now + 1
    /\ UNCHANGED <<row, files, catalog, process, op, history>>

Step ==
    \/ Continue
    \/ Open
    \/ \E name \in {"reconcile", "maintain", "resume"} : Maintain(name)
    \/ \E k \in Artifacts, size \in Sizes, pending \in BOOLEAN,
          deadline \in Deadlines \cup {NoDeadline} : Put(k, size, pending, deadline)
    \/ \E k \in Artifacts : Describe(k) \/ Acknowledge(k) \/ Expire(k) \/ Damage(k)
    \/ PauseIncident \/ ScanRefused
    \/ IOFails \/ Crash \/ Tick

Observed == seen' = (seen /\ row' = row /\ gaps' = gaps)

Next ==
    \/ Step /\ Observed
    \/ Status /\ seen' = TRUE

Spec == Init /\ [][Next]_vars

-----------------------------------------------------------------------------
(* Types of all variables.                                                 *)
TypeOK ==
    /\ row \in [Artifacts -> RowType]
    /\ final \in [Artifacts -> {"none", "whole", "changed"}]
    /\ part \in [Artifacts -> {"none", "partial", "whole"}]
    /\ {paused, incident, fresh, up, memory, seen} \subseteq BOOLEAN
    /\ gaps \in 0 .. GapLimit
    /\ now \in Nat
    /\ op \in OpType
    /\ faults \in Nat /\ damaged \subseteq Artifacts /\ reviewed \subseteq Artifacts

(* The budgets hold at every moment, interrupted writes and evictions      *)
(* included: bytes, items, protected items and permanent records.          *)
WithinBudget ==
    /\ LiveBytes <= MaxBytes
    /\ Cardinality(Live) <= MaxItems
    /\ Cardinality(LivePending) <= MaxPending
    /\ Cardinality(Records) <= MaxRecords

(* The store never leaves a file that its own ownership scan would refuse, *)
(* and an artifact it offers has its bytes unless somebody else took them, *)
(* wherever a crash or an error cut an operation off.                      *)
FilesMatchCatalog ==
    \A k \in Artifacts :
      /\ part[k] # "none" => row[k].state = "writing" /\ final[k] = "none"
      /\ final[k] # "none" => row[k].state \in LiveStates
      /\ row[k].state = "available" => final[k] = "whole" \/ k \in damaged

(* Evidence goes for a reason that was still good when its intent was      *)
(* recorded and is the one its tombstone gives: capacity takes only what   *)
(* was acknowledged, age only that or what passed its deadline, and the    *)
(* rest only an operator.  Crash recovery finishes an intent as it was.    *)
ProtectedStays ==
    \A k \in Artifacts :
      row[k].state \in {"evicting", "expired", "evicted"} =>
        /\ row[k].reason = "evicted" => ~row[k].pending
        /\ row[k].reason = "expired" => Due(k) \/ k \in reviewed
        /\ row[k].state # "evicting" => row[k].state = row[k].reason

(* A tombstone is for ever: no recovery, retry or reuse of the id brings   *)
(* the artifact back or changes what became of it.                         *)
TombstoneFinal ==
    [][\A k \in Artifacts : row[k].state \in Tombstones => row'[k] = row[k]]_vars

(* A closed gate opens only on what the operator has seen: between the     *)
(* status that was read and the resume no row and no gap count changed,    *)
(* not even in the resume's own reconcile, and no intent is left.          *)
ResumeIsReviewed ==
    [][(paused \/ memory) /\ up /\ up' /\ ~(paused' \/ memory') =>
         seen /\ InState({"writing", "evicting"}) = {}]_vars

(* Only an error or a changed payload leaves an intent behind: while none  *)
(* happened, a store that is between operations has no half-written and no *)
(* half-evicted artifact, so that a crash is repaired before any call.     *)
IdleIsSettled ==
    Ready /\ faults = 0 /\ damaged = {} => InState({"writing", "evicting"}) = {}

(* RETENTION_RECOVERY.md: "an absent or incomplete write becomes an        *)
(* explicit failed record and gap".  Between operations there are as many  *)
(* gaps as failed and missing artifacts.                                   *)
LossesCounted ==
    Ready => Cardinality(InState({"failed", "missing"})) <= gaps

(* RETENTION_RECOVERY.md: the incident pause is to "suspend automatic      *)
(* age/quota cleanup".  While it is in force no payload is removed for     *)
(* lack of room.                                                           *)
IncidentFreezes ==
    [][\A k \in Artifacts :
         incident /\ row[k].reason = "evicted" => final'[k] = final[k]]_vars

=============================================================================
