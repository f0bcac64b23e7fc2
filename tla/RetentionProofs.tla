--------------------------- MODULE RetentionProofs ---------------------------
(***************************************************************************)
(* Proofs about module Retention: for any artifacts, sizes, deadlines and  *)
(* limits, and any number of crashes, I/O errors and changed payloads.     *)
(***************************************************************************)
EXTENDS Retention, FiniteSetTheorems, WellFoundedInduction, TLAPS

-----------------------------------------------------------------------------
(* An operation is in a call that returns to op.back, or at home.          *)
Calls == {"finish", "unlinked", "renamed", "cut", "lost"}
Writing == {"create", "write", "rename"}
Home == IF op.at \in Calls THEN op.back ELSE op.at

Intents == {"writing", "evicting"}

(* Row and files of one artifact.                                          *)
Good(k) ==
    /\ part[k] # "none" => row[k].state = "writing" /\ final[k] = "none"
    /\ final[k] # "none" => row[k].state \in LiveStates
    /\ final[k] = "changed" => k \in damaged
    /\ row[k].state = "available" => final[k] = "whole" \/ k \in damaged
    /\ row[k].state = "evicting" => row[k].reason # "none"
    /\ row[k].state \in {"evicting", "expired", "evicted"} =>
         /\ row[k].reason = "evicted" => ~row[k].pending
         /\ row[k].reason = "expired" => Due(k) \/ k \in reviewed
         /\ row[k].state # "evicting" => row[k].state = row[k].reason

(* The artifact in work is as the stage says.                              *)
InWork ==
    /\ op.at \in Calls => op.on \in Artifacts /\ op.on \notin op.todo
    /\ op.at \in {"finish", "unlinked"} => row[op.on].state = "evicting"
    /\ op.at = "unlinked" => final[op.on] = "none"
    /\ op.at \in {"renamed", "cut"} => row[op.on].state = "writing" /\ part[op.on] = "none"
    /\ op.at = "renamed" => final[op.on] = "whole" \/ op.on \in damaged
    /\ op.at = "cut" => final[op.on] = "none"
    /\ op.at = "lost" => row[op.on].state \in {"failed", "missing"}
    /\ op.at \in Writing =>
         /\ op.on \in Artifacts /\ op.on = op.key
         /\ row[op.on].state = "writing" /\ final[op.on] = "none"
         /\ op.at = "create" => part[op.on] = "none"
    /\ op.at \notin Calls \cup Writing => op.on = NoArtifact

(* What the operation still has to visit, and the argument it has, are as  *)
(* the stage says at which it is, or to which the call returns.            *)
AtHome ==
    /\ op.at \in Calls => op.back \in {"reconcile", "age", "quota", "describe", "done"}
    /\ Home = "reconcile" => op.name \in {"open", "reconcile", "maintain", "put", "resume"}
    /\ Home \in {"age", "quota"} => op.name \in {"maintain", "put"}
    /\ Home = "age" => \A k \in op.todo : row[k].state = "available" /\ Due(k)
    /\ Home = "quota" => \A k \in op.todo : row[k].state = "available" /\ ~row[k].pending
    /\ Home = "admit" => op.name = "put"
    /\ Home \notin {"reconcile", "age", "quota"} => op.todo = {}
    /\ Home \in {"describe", "done"} => op.key \in Artifacts
    /\ op.name = "put" => op.key \in Artifacts /\ op.intake # NoIntake
    /\ op.name = "put" /\ Home \in {"reconcile", "age", "quota", "admit"} =>
         row[op.key].state = "absent"

(* No intent is left out: while the rows are reconciled each one waits for *)
(* its turn or has it, and without an error that remains so.               *)
Settled ==
    up /\ ((faults = 0 /\ damaged = {}) \/ Home = "reconcile") =>
      \A k \in Artifacts : row[k].state \in Intents => k \in op.todo \/ k = op.on

RowTypes ==
    /\ row \in [Artifacts -> RowType]
    /\ final \in [Artifacts -> {"none", "whole", "changed"}]
    /\ part \in [Artifacts -> {"none", "partial", "whole"}]
    /\ now \in Nat
    /\ damaged \subseteq Artifacts /\ reviewed \subseteq Artifacts

GateTypes ==
    /\ {paused, incident, fresh, up, memory, seen} \subseteq BOOLEAN
    /\ gaps \in 0 .. GapLimit
    /\ faults \in Nat

Core == RowTypes /\ op \in OpType /\ (\A k \in Artifacts : Good(k)) /\ InWork /\ AtHome /\ Settled

(* What the operator read is what the current revision shows.              *)
Inv == Core /\ GateTypes /\ (fresh => seen)
-----------------------------------------------------------------------------
(* Lemmas about the steps of an operation.                                 *)

LEMMA OpFields == ASSUME NEW o \in OpType
    PROVE  /\ o.name \in Names /\ o.at \in Stages /\ o.back \in Stages
           /\ o.todo \subseteq Artifacts /\ o.on \in Artifacts \cup {NoArtifact}
           /\ o.key \in Artifacts \cup {NoArtifact} /\ o.intake \in IntakeType \cup {NoIntake}
  BY DEF OpType

LEMMA IdleOp ==
    /\ Idle \in OpType
    /\ Idle.name = "idle" /\ Idle.at = "idle" /\ Idle.back = "idle" /\ Idle.todo = {}
    /\ Idle.on = NoArtifact /\ Idle.key = NoArtifact /\ Idle.intake = NoIntake
  BY DEF Idle, OpType, Names, Stages

LEMMA GotoOp ==
    ASSUME op \in OpType, NEW stage \in Stages, Goto(stage)
    PROVE  /\ op' \in OpType /\ op'.at = stage
           /\ op'.name = op.name /\ op'.back = op.back /\ op'.todo = op.todo
           /\ op'.on = op.on /\ op'.key = op.key /\ op'.intake = op.intake
  BY DEF Goto, OpType

LEMMA CallOp ==
    ASSUME op \in OpType, NEW stage \in Stages, NEW k \in Artifacts, NEW back \in Stages,
           Call(stage, k, back)
    PROVE  /\ op' \in OpType /\ op'.at = stage /\ op'.on = k /\ op'.back = back
           /\ op'.todo = op.todo \ {k}
           /\ op'.name = op.name /\ op'.key = op.key /\ op'.intake = op.intake
  BY DEF Call, OpType

LEMMA ReturnOp ==
    ASSUME op \in OpType, Return
    PROVE  /\ op' \in OpType /\ op'.at = op.back /\ op'.on = NoArtifact
           /\ op'.back = op.back /\ op'.todo = op.todo
           /\ op'.name = op.name /\ op'.key = op.key /\ op'.intake = op.intake
  BY DEF Return, OpType

LEMMA BeginOp ==
    ASSUME NEW name \in Names, NEW k \in Artifacts \cup {NoArtifact},
           NEW intake \in IntakeType \cup {NoIntake}, Begin(name, k, intake)
    PROVE  /\ op' \in OpType /\ op'.at = "reconcile" /\ op'.on = NoArtifact
           /\ op'.todo = Live /\ op'.name = name /\ op'.key = k /\ op'.intake = intake
<1>1. Live \subseteq Artifacts
  BY DEF Live, InState
<1> HIDE DEF Live
<1> QED
  BY <1>1 DEF Begin, Idle, OpType, Stages

-----------------------------------------------------------------------------
(* Lemmas about the artifacts.                                             *)

(* What nobody touches stays good: time only makes more of it due.         *)
Kept(k) == row'[k] = row[k] /\ final'[k] = final[k] /\ part'[k] = part[k]

Onward == /\ now' \in Nat /\ now <= now'
          /\ damaged \subseteq damaged' /\ damaged' \subseteq Artifacts
          /\ reviewed \subseteq reviewed' /\ reviewed' \subseteq Artifacts

LEMMA DueStays ==
    ASSUME RowTypes, Onward, NEW k \in Artifacts, Due(k),
           row'[k].deadline = row[k].deadline, row'[k].created = row[k].created,
           row[k].pending \/ row'[k].pending => row'[k].pending = row[k].pending
    PROVE  Due(k)'
<1>1. row[k] \in RowType /\ now \in Nat
  BY DEF RowTypes
<1>2. row[k].created \in Nat /\ row[k].deadline \in Nat \cup {NoDeadline} /\ MaxAge \in Nat
  BY <1>1, LimitsAssumption DEF RowType
<1> QED
  BY <1>1, <1>2 DEF Due, Onward

LEMMA KeptGood ==
    ASSUME RowTypes, Onward, NEW k \in Artifacts, Good(k), Kept(k)
    PROVE  Good(k)'
<1>1. Due(k) => Due(k)'
  BY DueStays DEF Kept
<1> QED
  BY <1>1 DEF Good, Kept, Onward

(* A step that leaves rows and files alone.                                *)
LEMMA OpMoves ==
    ASSUME Core, Onward, UNCHANGED <<row, files>>, op' \in OpType, InWork', AtHome', Settled'
    PROVE  Core'
<1>1. \A k \in Artifacts : Good(k)'
  BY KeptGood DEF Core, Kept, files
<1>2. RowTypes'
  BY DEF Core, RowTypes, Onward, files
<1> QED
  BY <1>1, <1>2 DEF Core

(* A step that touches one artifact.                                       *)
LEMMA OneMoves ==
    ASSUME Core, Onward, NEW k \in Artifacts, RowTypes', \A j \in Artifacts \ {k} : Kept(j),
           Good(k)', op' \in OpType, InWork', AtHome', Settled'
    PROVE  Core'
<1>1. \A j \in Artifacts : Good(j)'
  BY KeptGood DEF Core
<1> QED
  BY <1>1 DEF Core

(* An operation ends, for good or with an exception.                       *)
LEMMA Ends ==
    ASSUME Core, Onward, UNCHANGED <<row, files>>, op' = Idle,
           up' /\ faults' = 0 /\ damaged' = {} =>
             \A k \in Artifacts : row[k].state \notin Intents
    PROVE  Core'
<1>1. /\ op' \in OpType /\ op'.name = "idle" /\ op'.at = "idle" /\ op'.todo = {}
      /\ op'.on = NoArtifact
  BY IdleOp
<1>2. InWork' /\ AtHome'
  BY <1>1 DEF InWork, AtHome, Home, Calls, Writing
<1>3. Settled'
  BY <1>1 DEF Settled, Home, Calls
<1> QED
  BY <1>1, <1>2, <1>3, OpMoves

LEMMA FaultsGrow ==
    ASSUME GateTypes, UNCHANGED faults \/ faults' = faults + 1
    PROVE  faults' \in Nat /\ faults <= faults'
  BY DEF GateTypes

LEMMA BlockFaults == ASSUME GateTypes, Block PROVE faults' \in Nat /\ faults <= faults'
  BY FaultsGrow DEF Block

(* At home, with nothing left to visit, no intent is left.                 *)
LEMMA NothingLeft ==
    ASSUME Core, op.at \notin Calls \cup Writing, op.todo = {}
    PROVE  up /\ ((faults = 0 /\ damaged = {}) \/ op.at = "reconcile") =>
             \A k \in Artifacts : row[k].state \notin Intents
  BY ArtifactsAssumption DEF Core, InWork, Settled, Home

LEMMA Blocked ==
    ASSUME Core, GateTypes, BlockAndRaise,
           up /\ faults = 0 /\ damaged = {} =>
             \A k \in Artifacts : row[k].state \notin Intents
    PROVE  Core'
<1>1. faults' \in Nat /\ faults <= faults' /\ faults \in Nat
  BY BlockFaults DEF BlockAndRaise, GateTypes
<1>2. UNCHANGED <<row, files, now, damaged, reviewed>> /\ op' = Idle /\ (up' => up)
  BY DEF BlockAndRaise, Raise
<1>3. Onward
  BY <1>2 DEF Core, RowTypes, Onward
<1>4. faults' = 0 => faults = 0
  BY <1>1
<1> QED
  BY <1>2, <1>3, <1>4, Ends

(* A step of an operation that touches no row or file: the operation moves *)
(* on, and what its next stage needs is shown of it.                       *)
LEMMA StepsOn ==
    ASSUME Core, UNCHANGED <<row, files, now, damaged, reviewed>>, op' \in OpType,
           InWork', AtHome', Settled'
    PROVE  Core'
<1>1. Onward
  BY DEF Core, RowTypes, Onward
<1> QED
  BY <1>1, OpMoves

(* A call returns to the stage it was made from.                           *)
LEMMA ReturnKeeps ==
    ASSUME Core, Return, op.at \in Calls, UNCHANGED <<now, damaged, reviewed, up>>,
           faults' = 0 => faults = 0,
           RowTypes', \A j \in Artifacts \ {op.on} : Kept(j),
           \A k \in Artifacts : Good(k)',
           row[op.on].state # "absent", row[op.on].state # "available",
           row'[op.on].state \notin Intents
    PROVE  Core'
<1>1. /\ op' \in OpType /\ op'.at = op.back /\ op'.on = NoArtifact
      /\ op'.back = op.back /\ op'.todo = op.todo
      /\ op'.name = op.name /\ op'.key = op.key /\ op'.intake = op.intake
  BY ReturnOp DEF Core
<1>2. /\ op.back \in {"reconcile", "age", "quota", "describe", "done"}
      /\ op.on \in Artifacts /\ op.on \notin op.todo /\ op.todo \subseteq Artifacts
  BY OpFields DEF Core, AtHome, InWork
<1>3. InWork'
  BY <1>1, <1>2 DEF InWork, Calls, Writing
<1>4. ASSUME NEW k \in Artifacts, Due(k), row'[k] = row[k] PROVE Due(k)'
  BY <1>4 DEF Due
<1>5. AtHome'
  <2>1. /\ op'.at = "reconcile" => op'.name \in {"open", "reconcile", "maintain", "put", "resume"}
        /\ op'.at \in {"age", "quota"} => op'.name \in {"maintain", "put"}
        /\ op'.at \in {"describe", "done"} => op'.key \in Artifacts
        /\ op'.name = "put" => op'.key \in Artifacts /\ op'.intake # NoIntake
        /\ op'.at \notin {"reconcile", "age", "quota"} => op'.todo = {}
    BY <1>1, <1>2 DEF Core, AtHome, Home
  <2>2. op'.at = "age" => \A k \in op'.todo : row'[k].state = "available" /\ Due(k)'
    <3> SUFFICES ASSUME op'.at = "age", NEW k \in op'.todo
                 PROVE  row'[k].state = "available" /\ Due(k)'
      OBVIOUS
    <3>1. row[k].state = "available" /\ Due(k) /\ k \in Artifacts /\ k # op.on
      BY <1>1, <1>2 DEF Core, AtHome, Home
    <3> QED
      BY <1>4, <3>1 DEF Kept
  <2>3. op'.at = "quota" => \A k \in op'.todo : row'[k].state = "available" /\ ~row'[k].pending
    BY <1>1, <1>2 DEF Core, AtHome, Home, Kept
  <2>4. op'.name = "put" /\ op'.at \in {"reconcile", "age", "quota", "admit"} =>
          row'[op'.key].state = "absent"
    BY <1>1, <1>2, <2>1 DEF Core, AtHome, Home, Kept
  <2> QED
    BY <1>1, <1>2, <2>1, <2>2, <2>3, <2>4 DEF AtHome, Home, Calls
<1>6. Settled'
  BY <1>1, <1>2 DEF Core, Settled, Home, Calls, Kept
<1> QED
  BY <1>1, <1>3, <1>5, <1>6 DEF Core

-----------------------------------------------------------------------------
(* Evictions.                                                              *)

LEMMA FinishUnlinkKeeps == ASSUME Core, FinishUnlink PROVE Core'
<1>1. PICK q \in Artifacts : q = op.on /\ row[q].state = "evicting" /\ q \notin op.todo
  BY DEF FinishUnlink, Core, InWork, Calls
<1>2. /\ op.at = "finish" /\ final' = [final EXCEPT ![q] = "none"] /\ Goto("unlinked")
      /\ UNCHANGED <<row, part, now, damaged, reviewed, up, faults>>
  BY <1>1 DEF FinishUnlink, process, history
<1>3. Onward /\ RowTypes'
  BY <1>2 DEF Core, RowTypes, Onward
<1>4. final'[q] = "none" /\ \A j \in Artifacts \ {q} : Kept(j)
  BY <1>2 DEF Core, RowTypes, Kept
<1>5. Good(q)'
  BY <1>1, <1>2, <1>4 DEF Core, Good, Due, LiveStates
<1>6. /\ op' \in OpType /\ op'.at = "unlinked"
      /\ op'.name = op.name /\ op'.back = op.back /\ op'.todo = op.todo
      /\ op'.on = op.on /\ op'.key = op.key /\ op'.intake = op.intake
  BY <1>2, GotoOp DEF Core, Stages
<1>7. InWork'
  BY <1>1, <1>2, <1>4, <1>6 DEF InWork, Calls, Writing
<1>8. AtHome'
  BY <1>2, <1>6 DEF Core, AtHome, Home, Calls, Due
<1>9. Settled'
  BY <1>2, <1>6 DEF Core, Settled, Home, Calls
<1> QED
  BY <1>3, <1>4, <1>5, <1>6, <1>7, <1>8, <1>9, OneMoves

LEMMA FinishChangedKeeps == ASSUME Core, GateTypes, FinishChanged PROVE Core'
<1>1. op.on \in Artifacts /\ final[op.on] = "changed" /\ BlockAndRaise
  BY DEF FinishChanged, Core, InWork, Calls
<1>2. damaged # {}
  BY <1>1 DEF Core, Good
<1> QED
  BY <1>1, <1>2, Blocked

(* The tombstone of an eviction is the one its intent names.               *)
LEMMA FinishTombstoneKeeps == ASSUME Core, FinishTombstone PROVE Core'
<1>1. PICK q \in Artifacts : q = op.on /\ row[q].state = "evicting" /\ final[q] = "none"
                             /\ q \notin op.todo
  BY DEF FinishTombstone, Core, InWork, Calls
<1>2. PICK s : s = row[q].reason
  OBVIOUS
<1>3. /\ op.at = "unlinked" /\ row' = [row EXCEPT ![q].state = s] /\ Return
      /\ UNCHANGED <<files, now, damaged, reviewed, up, faults>>
  BY <1>1, <1>2 DEF FinishTombstone, Set, process, history
<1>4. row[q] \in RowType /\ s \in {"expired", "evicted"} /\ s = row[q].reason
  BY <1>1, <1>2 DEF Core, RowTypes, RowType, Good
<1>5. row'[q] = [row[q] EXCEPT !.state = s] /\ \A j \in Artifacts \ {q} : Kept(j)
  BY <1>3 DEF Core, RowTypes, Kept, files
<1>6. row'[q] \in RowType
  BY <1>4, <1>5 DEF RowType, Tombstones
<1>7. Onward /\ RowTypes'
  BY <1>3, <1>6 DEF Core, RowTypes, Onward, files
<1>8. /\ row'[q].state = s /\ row'[q].reason = s /\ row'[q].pending = row[q].pending
      /\ row'[q].created = row[q].created /\ row'[q].deadline = row[q].deadline
  BY <1>4, <1>5 DEF RowType
<1>9. Good(q)'
  BY <1>1, <1>3, <1>4, <1>8 DEF Core, Good, Due, files
<1>10. \A k \in Artifacts : Good(k)'
  BY <1>5, <1>7, <1>9, KeptGood DEF Core
<1> QED
  BY <1>1, <1>3, <1>4, <1>5, <1>7, <1>8, <1>10, ReturnKeeps DEF Calls, Intents

(* An intent is recorded for an artifact that is due or in the way.        *)
LEMMA IntentKeeps ==
    ASSUME Core, NEW k \in Artifacts, NEW reason \in {"expired", "evicted"},
           NEW back \in {"age", "quota"}, op.at = back, k \in op.todo,
           row[k].state = "available",
           reason = "evicted" => ~row[k].pending, reason = "expired" => Due(k),
           EvictIntent(k, reason, back), UNCHANGED <<faults, damaged, reviewed>>
    PROVE  Core'
<1>1. /\ row' = [row EXCEPT ![k].state = "evicting", ![k].reason = reason]
      /\ Call("finish", k, back) /\ UNCHANGED <<files, now, up>>
  BY DEF EvictIntent, process
<1>2. row[k] \in RowType
  BY DEF Core, RowTypes
<1>3. row'[k] = [row[k] EXCEPT !.state = "evicting", !.reason = reason]
      /\ \A j \in Artifacts \ {k} : Kept(j)
  BY <1>1 DEF Core, RowTypes, Kept, files
<1>4. /\ row'[k] \in RowType /\ row'[k].state = "evicting" /\ row'[k].reason = reason
      /\ row'[k].pending = row[k].pending
      /\ row'[k].created = row[k].created /\ row'[k].deadline = row[k].deadline
  BY <1>2, <1>3 DEF RowType, LiveStates
<1>5. Onward /\ RowTypes'
  BY <1>1, <1>4 DEF Core, RowTypes, Onward, files
<1>6. Good(k)'
  BY <1>1, <1>4 DEF Core, Good, Due, files, LiveStates
<1>7. /\ op' \in OpType /\ op'.at = "finish" /\ op'.on = k /\ op'.back = back
      /\ op'.todo = op.todo \ {k}
      /\ op'.name = op.name /\ op'.key = op.key /\ op'.intake = op.intake
  BY <1>1, CallOp DEF Core, Stages
<1>8. InWork'
  BY <1>4, <1>7 DEF InWork, Calls, Writing
<1>9. op.todo \subseteq Artifacts /\ k \in Artifacts /\ op.at \notin Calls
  BY OpFields DEF Core, Calls
<1>10. \A j \in op.todo \ {k} : row'[j] = row[j] /\ (Due(j) => Due(j)')
  BY <1>1, <1>3, <1>9 DEF Kept, Due
<1>11. AtHome'
  <2>1. op'.at \in Calls /\ op'.back = back
    BY <1>7 DEF Calls
  <2>2. op.name \in {"maintain", "put"} /\ (op.name = "put" => op.key \in Artifacts /\ op.intake # NoIntake)
    BY <1>9 DEF Core, AtHome, Home
  <2>3. back = "age" => \A j \in op.todo \ {k} : row'[j].state = "available" /\ Due(j)'
    BY <1>9, <1>10 DEF Core, AtHome, Home
  <2>4. back = "quota" => \A j \in op.todo \ {k} : row'[j].state = "available" /\ ~row'[j].pending
    BY <1>9, <1>10 DEF Core, AtHome, Home
  <2>5. op.name = "put" => row[op.key].state = "absent" /\ op.key # k
    BY <1>9 DEF Core, AtHome, Home
  <2>6. op.name = "put" => row'[op.key].state = "absent"
    BY <1>3, <2>2, <2>5 DEF Kept
  <2>7. Home' = back
    BY <2>1 DEF Home
  <2> QED
    BY <1>7, <2>1, <2>2, <2>3, <2>4, <2>6, <2>7 DEF AtHome
<1>12. Settled'
  <2>1. op.on = NoArtifact /\ k # NoArtifact
    BY <1>9, ArtifactsAssumption DEF Core, InWork, Calls, Writing
  <2>2. Home = back /\ Home' = back
    BY <1>7, <1>9 DEF Home, Calls
  <2> SUFFICES ASSUME up', (faults' = 0 /\ damaged' = {}) \/ Home' = "reconcile",
                      NEW j \in Artifacts, row'[j].state \in Intents, j # k
               PROVE  j \in op'.todo
    BY <1>7 DEF Settled
  <2>3. row[j].state \in Intents
    BY <1>3 DEF Kept
  <2>4. j \in op.todo
    BY <1>1, <2>1, <2>2, <2>3, ArtifactsAssumption DEF Core, Settled
  <2> QED
    BY <1>7, <2>4
<1> QED
  BY <1>3, <1>5, <1>6, <1>7, <1>8, <1>9, <1>11, <1>12, OneMoves

LEMMA EvictDueKeeps == ASSUME Core, EvictDue PROVE Core'
<1>1. PICK k \in Oldest(op.todo) : EvictIntent(k, "expired", "age")
  BY DEF EvictDue
<1>2. k \in op.todo /\ op.at = "age" /\ UNCHANGED <<faults, damaged, reviewed>>
  BY <1>1 DEF EvictDue, Oldest, history
<1>3. k \in Artifacts /\ row[k].state = "available" /\ Due(k)
  BY <1>2, OpFields DEF Core, AtHome, Home, Calls
<1> QED
  BY <1>1, <1>2, <1>3, IntentKeeps

LEMMA EvictOldestKeeps == ASSUME Core, EvictOldest PROVE Core'
<1>1. PICK k \in Oldest(op.todo) : EvictIntent(k, "evicted", "quota")
  BY DEF EvictOldest
<1>2. k \in op.todo /\ op.at = "quota" /\ UNCHANGED <<faults, damaged, reviewed>>
  BY <1>1 DEF EvictOldest, Oldest, history
<1>3. k \in Artifacts /\ row[k].state = "available" /\ ~row[k].pending
  BY <1>2, OpFields DEF Core, AtHome, Home, Calls
<1> QED
  BY <1>1, <1>2, <1>3, IntentKeeps

-----------------------------------------------------------------------------
(* Reconciliation.                                                         *)

(* A row whose turn it is, with what its files say: a call is made for it. *)
LEMMA TurnKeeps ==
    ASSUME Core, op.at = "reconcile", NEW k \in op.todo, NEW stage \in Calls,
           Call(stage, k, "reconcile"), UNCHANGED <<faults, now, damaged, reviewed, up>>,
           RowTypes', \A j \in Artifacts \ {k} : Kept(j), Good(k)',
           row'[k].state \in Intents \/ stage = "lost",
           row[k].state # "absent",
           stage \in {"finish", "renamed", "cut", "lost"},
           stage = "finish" => row'[k].state = "evicting",
           stage \in {"renamed", "cut"} => row'[k].state = "writing" /\ part'[k] = "none",
           stage = "renamed" => final'[k] = "whole",
           stage = "cut" => final'[k] = "none",
           stage = "lost" => row'[k].state \in {"failed", "missing"}
    PROVE  Core'
<1>1. k \in Artifacts
  BY OpFields DEF Core
<1>2. Onward
  BY DEF Core, RowTypes, Onward
<1>3. /\ op' \in OpType /\ op'.at = stage /\ op'.on = k /\ op'.back = "reconcile"
      /\ op'.todo = op.todo \ {k}
      /\ op'.name = op.name /\ op'.key = op.key /\ op'.intake = op.intake
  BY <1>1, CallOp DEF Core, Stages, Calls
<1>4. InWork'
  BY <1>1, <1>3 DEF InWork, Calls, Writing
<1>5. AtHome'
  BY <1>1, <1>3 DEF Core, AtHome, Home, Calls, Kept
<1>6. Settled'
  <2>1. op.on = NoArtifact /\ Home = "reconcile"
    BY DEF Core, InWork, Calls, Writing, Home
  <2> SUFFICES ASSUME up', NEW j \in Artifacts, row'[j].state \in Intents, j # k
               PROVE  j \in op'.todo
    BY <1>3 DEF Settled
  <2>2. row[j].state \in Intents /\ up
    BY DEF Kept
  <2>3. j \in op.todo
    BY <2>1, <2>2, ArtifactsAssumption DEF Core, Settled
  <2> QED
    BY <1>3, <2>3
<1> QED
  BY <1>1, <1>2, <1>3, <1>4, <1>5, <1>6, OneMoves

LEMMA ReconcileEvictingKeeps ==
    ASSUME Core, op.at = "reconcile", NEW k \in op.todo, ReconcileEvicting(k)
    PROVE  Core'
<1>1. /\ UNCHANGED <<row, final, part, now, damaged, reviewed, up, faults>>
      /\ Call("finish", k, "reconcile") /\ row[k].state = "evicting" /\ k \in Artifacts
  BY OpFields DEF ReconcileEvicting, files, process, history, Core
<1>2. RowTypes' /\ \A j \in Artifacts : Kept(j)
  BY <1>1 DEF Core, RowTypes, Kept
<1>3. Good(k)'
  BY <1>1 DEF Core, Good, Due
<1> QED
  BY <1>1, <1>2, <1>3, TurnKeeps DEF Calls, Intents

LEMMA ReconcileWrittenKeeps ==
    ASSUME Core, op.at = "reconcile", NEW k \in op.todo, ReconcileWritten(k)
    PROVE  Core'
<1>1. /\ UNCHANGED <<row, final, part, now, damaged, reviewed, up, faults>>
      /\ Call("renamed", k, "reconcile") /\ row[k].state = "writing" /\ k \in Artifacts
      /\ final[k] = "whole" /\ part[k] = "none"
  BY OpFields DEF ReconcileWritten, files, process, history, Core
<1>2. RowTypes' /\ \A j \in Artifacts : Kept(j)
  BY <1>1 DEF Core, RowTypes, Kept
<1>3. Good(k)'
  BY <1>1 DEF Core, Good, Due
<1> QED
  BY <1>1, <1>2, <1>3, TurnKeeps DEF Calls, Intents

LEMMA ReconcileStagedKeeps ==
    ASSUME Core, op.at = "reconcile", NEW k \in op.todo, ReconcileStaged(k)
    PROVE  Core'
<1>1. /\ UNCHANGED <<row, now, damaged, reviewed, up, faults>>
      /\ final' = [final EXCEPT ![k] = "whole"] /\ part' = [part EXCEPT ![k] = "none"]
      /\ Call("renamed", k, "reconcile") /\ row[k].state = "writing" /\ k \in Artifacts
  BY OpFields DEF ReconcileStaged, process, history, Core
<1>2. RowTypes' /\ \A j \in Artifacts \ {k} : Kept(j)
  BY <1>1 DEF Core, RowTypes, Kept
<1>3. final'[k] = "whole" /\ part'[k] = "none"
  BY <1>1 DEF Core, RowTypes
<1>4. Good(k)'
  BY <1>1, <1>3 DEF Core, Good, Due, LiveStates
<1> QED
  BY <1>1, <1>2, <1>3, <1>4, TurnKeeps DEF Calls, Intents

LEMMA ReconcileIncompleteKeeps ==
    ASSUME Core, op.at = "reconcile", NEW k \in op.todo, ReconcileIncomplete(k)
    PROVE  Core'
<1>1. /\ UNCHANGED <<row, final, now, damaged, reviewed, up, faults>>
      /\ part' = [part EXCEPT ![k] = "none"] /\ final[k] = "none"
      /\ Call("cut", k, "reconcile") /\ row[k].state = "writing" /\ k \in Artifacts
  BY OpFields DEF ReconcileIncomplete, process, history, Core
<1>2. RowTypes' /\ \A j \in Artifacts \ {k} : Kept(j)
  BY <1>1 DEF Core, RowTypes, Kept
<1>3. part'[k] = "none"
  BY <1>1 DEF Core, RowTypes
<1>4. Good(k)'
  BY <1>1, <1>3 DEF Core, Good, Due, LiveStates
<1> QED
  BY <1>1, <1>2, <1>3, <1>4, TurnKeeps DEF Calls, Intents

(* The row of a payload that was taken becomes a tombstone.                *)
LEMMA TombstoneRow ==
    ASSUME Core, NEW k \in Artifacts, NEW s \in {"failed", "missing"},
           row[k].state \in {"writing", "available"}, final[k] = "none", part[k] = "none",
           Set(k, s), UNCHANGED <<final, part, now, damaged, reviewed>>
    PROVE  /\ RowTypes' /\ (\A j \in Artifacts \ {k} : Kept(j)) /\ Good(k)'
           /\ row'[k].state = s
<1>1. row[k] \in RowType /\ row' = [row EXCEPT ![k].state = s]
  BY DEF Core, RowTypes, Set
<1>2. row'[k] = [row[k] EXCEPT !.state = s] /\ \A j \in Artifacts \ {k} : Kept(j)
  BY <1>1 DEF Core, RowTypes, Kept
<1>3. row'[k] \in RowType /\ row'[k].state = s
  BY <1>1, <1>2 DEF RowType, Tombstones
<1>4. RowTypes'
  BY <1>1, <1>3 DEF Core, RowTypes
<1>5. Good(k)'
  BY <1>3 DEF Good
<1> QED
  BY <1>2, <1>3, <1>4, <1>5

LEMMA ReconcileMissingKeeps ==
    ASSUME Core, op.at = "reconcile", NEW k \in op.todo, ReconcileMissing(k)
    PROVE  Core'
<1>1. /\ UNCHANGED <<final, part, now, damaged, reviewed, up, faults>>
      /\ Set(k, "missing") /\ Call("lost", k, "reconcile")
      /\ row[k].state = "available" /\ final[k] = "none" /\ k \in Artifacts
  BY OpFields DEF ReconcileMissing, files, process, history, Core
<1>2. part[k] = "none"
  BY <1>1 DEF Core, Good
<1>3. RowTypes' /\ (\A j \in Artifacts \ {k} : Kept(j)) /\ Good(k)' /\ row'[k].state = "missing"
  BY <1>1, <1>2, TombstoneRow
<1> QED
  BY <1>1, <1>3, TurnKeeps DEF Calls, Intents

LEMMA ReconcileChangedKeeps ==
    ASSUME Core, GateTypes, op.at = "reconcile", NEW k \in op.todo, ReconcileChanged(k)
    PROVE  Core'
<1>1. k \in Artifacts /\ BlockAndRaise /\ Good(k)
  BY OpFields DEF ReconcileChanged, Core
<1>2. final[k] = "changed"
  BY <1>1 DEF ReconcileChanged, Good
<1>3. damaged # {}
  BY <1>1, <1>2 DEF Good
<1> QED
  BY <1>1, <1>3, Blocked

LEMMA ReconcileIntactKeeps ==
    ASSUME Core, op.at = "reconcile", NEW k \in op.todo, ReconcileIntact(k)
    PROVE  Core'
<1>1. /\ UNCHANGED <<row, files, now, damaged, reviewed, up, faults>>
      /\ op' = [op EXCEPT !.todo = @ \ {k}] /\ row[k].state = "available"
  BY DEF ReconcileIntact, process, history
<1>2. /\ op' \in OpType /\ op'.at = op.at /\ op'.on = op.on /\ op'.back = op.back
      /\ op'.todo = op.todo \ {k}
      /\ op'.name = op.name /\ op'.key = op.key /\ op'.intake = op.intake
  BY <1>1 DEF Core, OpType
<1>3. InWork'
  BY <1>1, <1>2 DEF Core, InWork, Calls, Writing
<1>4. AtHome'
  BY <1>1, <1>2 DEF Core, AtHome, Home, Calls
<1>5. Settled'
  BY <1>1, <1>2 DEF Core, Settled, Home, Calls, Intents
<1> QED
  BY <1>1, <1>2, <1>3, <1>4, <1>5, StepsOn

LEMMA ReconcileRowKeeps == ASSUME Core, GateTypes, ReconcileRow PROVE Core'
  BY ReconcileEvictingKeeps, ReconcileWrittenKeeps, ReconcileStagedKeeps, ReconcileIncompleteKeeps,
     ReconcileChangedKeeps, ReconcileMissingKeeps, ReconcileIntactKeeps
  DEF ReconcileRow

LEMMA SetAvailableKeeps == ASSUME Core, SetAvailable PROVE Core'
<1>1. PICK q \in Artifacts : q = op.on /\ row[q].state = "writing" /\ part[q] = "none"
                             /\ (final[q] = "whole" \/ q \in damaged)
  BY DEF SetAvailable, Core, InWork, Calls
<1>2. /\ op.at \in Calls /\ row' = [row EXCEPT ![q].state = "available"] /\ Return
      /\ UNCHANGED <<final, part, now, damaged, reviewed, up, faults>>
  BY <1>1 DEF SetAvailable, Set, files, process, history, Calls
<1>3. row[q] \in RowType
  BY DEF Core, RowTypes
<1>4. row'[q] = [row[q] EXCEPT !.state = "available"] /\ \A j \in Artifacts \ {q} : Kept(j)
  BY <1>2 DEF Core, RowTypes, Kept
<1>5. row'[q] \in RowType /\ row'[q].state = "available"
  BY <1>3, <1>4 DEF RowType, LiveStates
<1>6. Onward /\ RowTypes'
  BY <1>2, <1>5 DEF Core, RowTypes, Onward
<1>7. Good(q)'
  BY <1>1, <1>2, <1>5 DEF Core, Good, LiveStates
<1>8. \A k \in Artifacts : Good(k)'
  BY <1>4, <1>6, <1>7, KeptGood DEF Core
<1> QED
  BY <1>1, <1>2, <1>4, <1>5, <1>6, <1>8, ReturnKeeps DEF Intents

LEMMA SetFailedKeeps == ASSUME Core, SetFailed PROVE Core'
<1>1. PICK q \in Artifacts : /\ q = op.on /\ row[q].state = "writing" /\ part[q] = "none"
                             /\ final[q] = "none" /\ q \notin op.todo
  BY DEF SetFailed, Core, InWork, Calls
<1>2. /\ op.at = "cut" /\ Set(q, "failed") /\ Goto("lost")
      /\ UNCHANGED <<final, part, now, damaged, reviewed, up, faults>>
  BY <1>1 DEF SetFailed, files, process, history
<1>3. RowTypes' /\ (\A j \in Artifacts \ {q} : Kept(j)) /\ Good(q)' /\ row'[q].state = "failed"
  BY <1>1, <1>2, TombstoneRow
<1>4. Onward
  BY <1>2 DEF Core, RowTypes, Onward
<1>5. /\ op' \in OpType /\ op'.at = "lost"
      /\ op'.name = op.name /\ op'.back = op.back /\ op'.todo = op.todo
      /\ op'.on = op.on /\ op'.key = op.key /\ op'.intake = op.intake
  BY <1>2, GotoOp DEF Core, Stages
<1>6. InWork'
  BY <1>1, <1>3, <1>5 DEF InWork, Calls, Writing
<1>7. op.todo \subseteq Artifacts /\ op.todo \subseteq Artifacts \ {q}
  BY <1>1, OpFields DEF Core
<1>8. \A k \in op.todo : row'[k] = row[k] /\ (Due(k) => Due(k)')
  BY <1>2, <1>3, <1>7 DEF Kept, Due
<1>9. AtHome'
  <2>1. op.name = "put" => op.key \in Artifacts
    BY DEF Core, AtHome
  <2>2. op.name = "put" /\ row[op.key].state = "absent" => row'[op.key].state = "absent"
    BY <1>1, <1>3, <2>1 DEF Kept
  <2> QED
    BY <1>2, <1>5, <1>8, <2>1, <2>2 DEF Core, AtHome, Home, Calls
<1>10. Settled'
  BY <1>1, <1>2, <1>3, <1>5 DEF Core, Settled, Home, Calls, Intents, Kept
<1> QED
  BY <1>3, <1>4, <1>5, <1>6, <1>9, <1>10, OneMoves

LEMMA RecordLossKeeps == ASSUME Core, GateTypes, RecordLoss PROVE Core'
<1>1. /\ op.at = "lost" /\ Return /\ UNCHANGED <<row, files, now, damaged, reviewed, up>> /\ Block
  BY DEF RecordLoss
<1>2. faults' = 0 => faults = 0
  BY <1>1, BlockFaults DEF GateTypes
<1>3. Onward /\ RowTypes' /\ \A k \in Artifacts : Kept(k)
  BY <1>1 DEF Core, RowTypes, Onward, Kept, files
<1>4. \A k \in Artifacts : Good(k)'
  BY <1>3, KeptGood DEF Core
<1>5. op.on \in Artifacts /\ row[op.on].state \in {"failed", "missing"}
  BY <1>1 DEF Core, InWork, Calls
<1> QED
  BY <1>1, <1>2, <1>3, <1>4, <1>5, ReturnKeeps DEF Calls, Intents

(* With nothing left to reconcile.                                         *)
LEMMA ReconciledEnds ==
    ASSUME Core, GateTypes, op.at = "reconcile", op.todo = {},
           UNCHANGED <<row, files, now, damaged, reviewed, faults>>, op' = Idle, up' => up
    PROVE  Core'
<1>1. Onward
  BY DEF Core, RowTypes, Onward
<1>2. up => \A k \in Artifacts : row[k].state \notin Intents
  BY NothingLeft DEF Calls, Writing
<1> QED
  BY <1>1, <1>2, Ends

LEMMA ReconcileEndsKeeps == ASSUME Core, GateTypes, ReconcileEnds PROVE Core'
  BY ReconciledEnds DEF ReconcileEnds, process, history

-----------------------------------------------------------------------------
(* Maintenance.                                                            *)

LEMMA MaintainRefusedKeeps == ASSUME Core, GateTypes, MaintainRefused PROVE Core'
  BY ReconciledEnds DEF MaintainRefused, Raise, history

LEMMA MaintainAgeKeeps == ASSUME Core, MaintainAge PROVE Core'
<1> DEFINE due == {k \in InState({"available"}) : Due(k)}
<1>1. /\ op.at = "reconcile" /\ op.todo = {} /\ op.name \in {"maintain", "put"}
      /\ op' = [op EXCEPT !.at = "age", !.todo = due]
      /\ UNCHANGED <<row, files, now, damaged, reviewed, up, faults>>
  BY DEF MaintainAge, process, history
<1>2. due \subseteq Artifacts /\ \A k \in due : row[k].state = "available" /\ Due(k)
  BY DEF InState
<1> HIDE DEF due
<1>3. /\ op' \in OpType /\ op'.at = "age" /\ op'.todo = due /\ op'.on = op.on
      /\ op'.name = op.name /\ op'.key = op.key /\ op'.intake = op.intake
  BY <1>1, <1>2 DEF Core, OpType, Stages
<1>4. op.on = NoArtifact
  BY <1>1 DEF Core, InWork, Calls, Writing
<1>5. InWork'
  BY <1>3, <1>4 DEF InWork, Calls, Writing
<1>6. \A k \in due : Due(k)'
  BY <1>1, <1>2 DEF Due
<1>7. AtHome'
  BY <1>1, <1>2, <1>3, <1>6 DEF Core, AtHome, Home, Calls
<1>8. up => \A k \in Artifacts : row[k].state \notin Intents
  BY <1>1, NothingLeft DEF Calls, Writing
<1>9. Settled'
  BY <1>1, <1>8 DEF Settled
<1> QED
  BY <1>1, <1>3, <1>5, <1>7, <1>9, StepsOn

LEMMA MaintainQuotaKeeps == ASSUME Core, MaintainQuota PROVE Core'
<1>1. /\ op.at = "age" /\ op.todo = {}
      /\ op' = [op EXCEPT !.at = "quota", !.todo = Unprotected]
      /\ UNCHANGED <<row, files, now, damaged, reviewed, up, faults>>
  BY DEF MaintainQuota, process, history
<1>2. Unprotected \subseteq Artifacts
      /\ \A k \in Unprotected : row[k].state = "available" /\ ~row[k].pending
  BY DEF Unprotected, InState
<1>3. /\ op' \in OpType /\ op'.at = "quota" /\ op'.todo = Unprotected /\ op'.on = op.on
      /\ op'.name = op.name /\ op'.key = op.key /\ op'.intake = op.intake
  BY <1>1, <1>2 DEF Core, OpType, Stages
<1>4. op.on = NoArtifact
  BY <1>1 DEF Core, InWork, Calls, Writing
<1>5. InWork'
  BY <1>3, <1>4 DEF InWork, Calls, Writing
<1>6. AtHome'
  BY <1>1, <1>2, <1>3 DEF Core, AtHome, Home, Calls
<1>7. up /\ faults = 0 /\ damaged = {} => \A k \in Artifacts : row[k].state \notin Intents
  BY <1>1, NothingLeft DEF Calls, Writing
<1>8. Settled'
  BY <1>1, <1>3, <1>7 DEF Settled, Home, Calls
<1> QED
  BY <1>1, <1>3, <1>5, <1>6, <1>8, StepsOn

LEMMA MaintainEndsKeeps == ASSUME Core, MaintainEnds PROVE Core'
<1>1. /\ op.at = "quota"
      /\ op' = IF op.name = "put" THEN [op EXCEPT !.at = "admit", !.todo = {}] ELSE Idle
      /\ UNCHANGED <<row, files, now, damaged, reviewed, up, faults>>
  BY DEF MaintainEnds, process, history
<1>2. op.on = NoArtifact /\ \A k \in op.todo : row[k].state = "available"
  BY <1>1 DEF Core, InWork, AtHome, Home, Calls, Writing
<1>3. up /\ faults = 0 /\ damaged = {} => \A k \in Artifacts : row[k].state \notin Intents
  BY <1>1, <1>2, ArtifactsAssumption DEF Core, Settled, Intents
<1>4. CASE op.name = "put"
  <2>1. /\ op' \in OpType /\ op'.at = "admit" /\ op'.todo = {} /\ op'.on = op.on
        /\ op'.name = op.name /\ op'.key = op.key /\ op'.intake = op.intake
    BY <1>1, <1>4 DEF Core, OpType, Stages
  <2>2. InWork'
    BY <1>2, <2>1 DEF InWork, Calls, Writing
  <2>3. AtHome'
    BY <1>1, <1>4, <2>1 DEF Core, AtHome, Home, Calls
  <2>4. Settled'
    BY <1>1, <1>3, <2>1 DEF Settled, Home, Calls
  <2> QED
    BY <1>1, <2>1, <2>2, <2>3, <2>4, StepsOn
<1>5. CASE op.name # "put"
  <2>1. Onward
    BY <1>1 DEF Core, RowTypes, Onward
  <2> QED
    BY <1>1, <1>3, <1>5, <2>1, Ends
<1> QED
  BY <1>4, <1>5

-----------------------------------------------------------------------------
(* Intake.                                                                 *)

LEMMA PutRefusedKeeps == ASSUME Core, GateTypes, PutRefused PROVE Core'
<1>1. op.at = "admit" /\ BlockAndRaise
  BY DEF PutRefused
<1>2. op.todo = {}
  BY <1>1 DEF Core, AtHome, Home, Calls
<1>3. up /\ faults = 0 /\ damaged = {} => \A k \in Artifacts : row[k].state \notin Intents
  BY <1>1, <1>2, NothingLeft DEF Calls, Writing
<1> QED
  BY <1>1, <1>3, Blocked

LEMMA PutReserveKeeps == ASSUME Core, PutReserve PROVE Core'
<1>1. PICK q \in Artifacts : q = op.key /\ row[q].state = "absent"
  BY DEF PutReserve, Core, AtHome, Home, Calls
<1>2. /\ op.at = "admit" /\ op.todo = {} /\ op.name = "put" /\ op.on = NoArtifact
      /\ op.intake \in IntakeType
  BY OpFields DEF PutReserve, Core, AtHome, InWork, Home, Calls, Writing
<1> DEFINE r == [NoRow EXCEPT !.state = "writing", !.size = op.intake.size,
                              !.pending = op.intake.pending,
                              !.created = op.intake.created,
                              !.deadline = op.intake.deadline]
<1>3. /\ row' = [row EXCEPT ![q] = r]
      /\ op' = [op EXCEPT !.at = "create", !.on = q]
      /\ UNCHANGED <<final, part, now, damaged, reviewed, up, faults>>
  BY <1>1 DEF PutReserve, files, process, history
<1>4. r \in RowType /\ r.state = "writing"
  BY <1>2 DEF NoRow, RowType, IntakeType, LiveStates
<1> HIDE DEF r
<1>5. row'[q] = r /\ \A j \in Artifacts \ {q} : Kept(j)
  BY <1>3 DEF Core, RowTypes, Kept
<1>6. Onward /\ RowTypes'
  BY <1>3, <1>4 DEF Core, RowTypes, Onward
<1>7. final[q] = "none" /\ part[q] = "none"
  BY <1>1 DEF Core, Good, LiveStates
<1>8. Good(q)'
  BY <1>3, <1>4, <1>5, <1>7 DEF Good, LiveStates
<1>9. /\ op' \in OpType /\ op'.at = "create" /\ op'.on = q /\ op'.todo = op.todo
      /\ op'.name = op.name /\ op'.key = op.key /\ op'.intake = op.intake
  BY <1>3 DEF Core, OpType, Stages
<1>10. InWork'
  BY <1>1, <1>3, <1>4, <1>5, <1>7, <1>9 DEF InWork, Calls, Writing
<1>11. AtHome'
  BY <1>1, <1>2, <1>9 DEF Core, AtHome, Home, Calls
<1>12. Settled'
  <2>1. up /\ faults = 0 /\ damaged = {} => \A k \in Artifacts : row[k].state \notin Intents
    BY <1>2, NothingLeft DEF Calls, Writing
  <2> QED
    BY <1>3, <1>5, <1>9, <2>1 DEF Settled, Home, Calls, Kept
<1> QED
  BY <1>5, <1>6, <1>8, <1>9, <1>10, <1>11, <1>12, OneMoves

(* The staged file is written.                                             *)
LEMMA StagedKeeps ==
    ASSUME Core, op.at \in {"create", "write"}, NEW p \in {"partial", "whole"},
           part' = [part EXCEPT ![op.key] = p], NEW stage \in {"write", "rename"}, Goto(stage),
           UNCHANGED <<row, final, now, damaged, reviewed, up, faults>>
    PROVE  Core'
<1>1. PICK q \in Artifacts : q = op.key /\ q = op.on /\ row[q].state = "writing" /\ final[q] = "none"
  BY DEF Core, InWork, Writing
<1>2. part' = [part EXCEPT ![q] = p]
  BY <1>1
<1>3. Onward /\ RowTypes' /\ (\A j \in Artifacts \ {q} : Kept(j)) /\ part'[q] = p
  <2>1. part \in [Artifacts -> {"none", "partial", "whole"}]
    BY DEF Core, RowTypes
  <2>2. part' \in [Artifacts -> {"none", "partial", "whole"}]
    BY <1>2, <2>1
  <2>3. part'[q] = p /\ \A j \in Artifacts \ {q} : part'[j] = part[j]
    BY <1>2, <2>1
  <2>4. RowTypes'
    BY <2>2 DEF Core, RowTypes
  <2>5. Onward
    BY DEF Core, RowTypes, Onward
  <2> QED
    BY <2>3, <2>4, <2>5 DEF Kept
<1>4. Good(q)'
  BY <1>1, <1>3 DEF Core, Good, Due
<1>5. /\ op' \in OpType /\ op'.at = stage
      /\ op'.name = op.name /\ op'.back = op.back /\ op'.todo = op.todo
      /\ op'.on = op.on /\ op'.key = op.key /\ op'.intake = op.intake
  BY GotoOp DEF Core, Stages
<1>6. InWork'
  BY <1>1, <1>3, <1>5 DEF InWork, Calls, Writing
<1>7. AtHome'
  BY <1>5 DEF Core, AtHome, Home, Calls
<1>8. Settled'
  BY <1>5 DEF Core, Settled, Home, Calls
<1> QED
  BY <1>3, <1>4, <1>5, <1>6, <1>7, <1>8, OneMoves

LEMMA PutCreateKeeps == ASSUME Core, PutCreate PROVE Core'
  BY StagedKeeps DEF PutCreate, process, history

LEMMA PutWriteKeeps == ASSUME Core, PutWrite PROVE Core'
  BY StagedKeeps DEF PutWrite, process, history

LEMMA PutRenameKeeps == ASSUME Core, PutRename PROVE Core'
<1>1. PICK q \in Artifacts : q = op.key /\ q = op.on /\ row[q].state = "writing" /\ final[q] = "none"
  BY DEF PutRename, Core, InWork, Writing
<1>2. /\ op.at = "rename"
      /\ final' = [final EXCEPT ![q] = "whole"] /\ part' = [part EXCEPT ![q] = "none"]
      /\ Call("renamed", q, "describe") /\ UNCHANGED <<row, now, damaged, reviewed, up, faults>>
  BY <1>1 DEF PutRename, process, history
<1>3. /\ Onward /\ RowTypes' /\ (\A j \in Artifacts \ {q} : Kept(j))
      /\ final'[q] = "whole" /\ part'[q] = "none"
  BY <1>2 DEF Core, RowTypes, Onward, Kept
<1>4. Good(q)'
  BY <1>1, <1>2, <1>3 DEF Core, Good, Due, LiveStates
<1>5. /\ op' \in OpType /\ op'.at = "renamed" /\ op'.on = q /\ op'.back = "describe"
      /\ op'.todo = op.todo \ {q}
      /\ op'.name = op.name /\ op'.key = op.key /\ op'.intake = op.intake
  BY <1>2, CallOp DEF Core, Stages
<1>6. InWork'
  BY <1>1, <1>2, <1>3, <1>5 DEF InWork, Calls, Writing
<1>7. op.todo = {} /\ op'.todo = {} /\ op'.on = op.on
  BY <1>1, <1>2, <1>5 DEF Core, AtHome, Home, Calls
<1>8. op'.at \in Calls /\ Home' = "describe" /\ Home = "rename"
  BY <1>2, <1>5 DEF Home, Calls
<1>9. AtHome'
  <2>1. op.name = "put" => op.key \in Artifacts /\ op.intake # NoIntake
    BY DEF Core, AtHome
  <2> QED
    BY <1>1, <1>5, <1>7, <1>8, <2>1 DEF AtHome
<1>10. Settled'
  BY <1>2, <1>7, <1>8 DEF Core, Settled
<1> QED
  BY <1>3, <1>4, <1>5, <1>6, <1>9, <1>10, OneMoves

-----------------------------------------------------------------------------
(* Describing, pausing and resuming.                                       *)

LEMMA DescribeMissingKeeps == ASSUME Core, DescribeMissing PROVE Core'
<1>1. PICK q \in Artifacts : q = op.key /\ row[q].state = "available" /\ final[q] = "none"
  BY DEF DescribeMissing, Core, AtHome, Home, Calls
<1>2. /\ op.at = "describe" /\ Set(q, "missing") /\ Call("lost", q, "done")
      /\ UNCHANGED <<final, part, now, damaged, reviewed, up, faults>>
  BY <1>1 DEF DescribeMissing, files, process, history
<1>3. part[q] = "none"
  BY <1>1 DEF Core, Good
<1>4. RowTypes' /\ (\A j \in Artifacts \ {q} : Kept(j)) /\ Good(q)' /\ row'[q].state = "missing"
  BY <1>1, <1>2, <1>3, TombstoneRow
<1>5. Onward
  BY <1>2 DEF Core, RowTypes, Onward
<1>6. /\ op' \in OpType /\ op'.at = "lost" /\ op'.on = q /\ op'.back = "done"
      /\ op'.todo = op.todo \ {q}
      /\ op'.name = op.name /\ op'.key = op.key /\ op'.intake = op.intake
  BY <1>2, CallOp DEF Core, Stages
<1>7. InWork'
  BY <1>1, <1>4, <1>6 DEF InWork, Calls, Writing
<1>8. op.todo = {} /\ op'.todo = {} /\ op.on = NoArtifact
  BY <1>2, <1>6 DEF Core, AtHome, InWork, Home, Calls, Writing
<1>9. op'.at \in Calls /\ Home' = "done" /\ Home = "describe"
  BY <1>2, <1>6 DEF Home, Calls
<1>10. AtHome'
  <2>1. op.name = "put" => op.key \in Artifacts /\ op.intake # NoIntake
    BY DEF Core, AtHome
  <2> QED
    BY <1>1, <1>6, <1>8, <1>9, <2>1 DEF AtHome
<1>11. Settled'
  <2> SUFFICES ASSUME up', faults' = 0 /\ damaged' = {},
                      NEW j \in Artifacts, row'[j].state \in Intents
               PROVE  FALSE
    BY <1>9 DEF Settled
  <2>1. j # q
    BY <1>4 DEF Intents
  <2>2. row[j].state \in Intents
    BY <1>4, <2>1 DEF Kept
  <2> QED
    BY <1>2, <1>8, <2>2, ArtifactsAssumption DEF Core, Settled
<1> QED
  BY <1>4, <1>5, <1>6, <1>7, <1>10, <1>11, OneMoves

LEMMA DescribeChangedKeeps == ASSUME Core, GateTypes, DescribeChanged PROVE Core'
<1>1. op.key \in Artifacts /\ final[op.key] = "changed" /\ BlockAndRaise
  BY DEF DescribeChanged, Core, AtHome, Home, Calls
<1>2. damaged # {}
  BY <1>1 DEF Core, Good
<1> QED
  BY <1>1, <1>2, Blocked

(* The rows are as they were; what was settled at the end of the operation *)
(* is so afterwards.                                                       *)
LEMMA DoneKeeps ==
    ASSUME Core, op.at \in {"describe", "done", "incident"}, op.todo = {}, op' = Idle,
           UNCHANGED <<row, files, now, damaged, reviewed, faults, up>>
    PROVE  Core'
<1>1. Onward
  BY DEF Core, RowTypes, Onward
<1>2. up /\ faults = 0 /\ damaged = {} => \A k \in Artifacts : row[k].state \notin Intents
  BY NothingLeft DEF Calls, Writing
<1> QED
  BY <1>1, <1>2, Ends

LEMMA DescribeEndsKeeps == ASSUME Core, DescribeEnds PROVE Core'
<1>1. op.at \in {"describe", "done"} /\ op' = Idle
      /\ UNCHANGED <<row, files, now, damaged, reviewed, faults, up>>
  BY DEF DescribeEnds, process, history
<1>2. op.todo = {}
  BY <1>1 DEF Core, AtHome, Home, Calls
<1> QED
  BY <1>1, <1>2, DoneKeeps

LEMMA IncidentSetKeeps == ASSUME Core, IncidentSet PROVE Core'
<1>1. op.at = "incident" /\ op' = Idle
      /\ UNCHANGED <<row, files, now, damaged, reviewed, faults, up>>
  BY DEF IncidentSet, process, history
<1>2. op.todo = {}
  BY <1>1 DEF Core, AtHome, Home, Calls
<1> QED
  BY <1>1, <1>2, DoneKeeps

LEMMA ResumeRefusedKeeps == ASSUME Core, GateTypes, ResumeRefused PROVE Core'
  BY ReconciledEnds DEF ResumeRefused, Raise, history

LEMMA ResumeClearsKeeps == ASSUME Core, GateTypes, ResumeClears PROVE Core'
  BY ReconciledEnds DEF ResumeClears, history

LEMMA ContinueKeeps == ASSUME Core, GateTypes, Continue PROVE Core'
  BY FinishUnlinkKeeps, FinishChangedKeeps, FinishTombstoneKeeps, ReconcileRowKeeps,
     SetAvailableKeeps, SetFailedKeeps, RecordLossKeeps, ReconcileEndsKeeps,
     MaintainRefusedKeeps, MaintainAgeKeeps, EvictDueKeeps, MaintainQuotaKeeps,
     EvictOldestKeeps, MaintainEndsKeeps, PutRefusedKeeps, PutReserveKeeps, PutCreateKeeps,
     PutWriteKeeps, PutRenameKeeps, DescribeMissingKeeps, DescribeChangedKeeps,
     DescribeEndsKeeps, IncidentSetKeeps, ResumeRefusedKeeps, ResumeClearsKeeps
  DEF Continue

-----------------------------------------------------------------------------
(* Calls.                                                                  *)

(* A call that begins with a reconciliation: every live row has its turn.  *)
LEMMA BeginKeeps ==
    ASSUME Core, NEW name \in {"open", "reconcile", "maintain", "resume", "put"},
           NEW k \in Artifacts \cup {NoArtifact}, NEW intake \in IntakeType \cup {NoIntake},
           Begin(name, k, intake), UNCHANGED <<row, files, now, damaged, reviewed>>,
           name = "put" => k \in Artifacts /\ intake # NoIntake /\ row[k].state = "absent"
    PROVE  Core'
<1>1. /\ op' \in OpType /\ op'.at = "reconcile" /\ op'.on = NoArtifact
      /\ op'.todo = Live /\ op'.name = name /\ op'.key = k /\ op'.intake = intake
  BY BeginOp DEF Names
<1>2. \A j \in Artifacts : row[j].state \in Intents => j \in Live
  BY DEF Live, InState, LiveStates, Intents
<1>3. InWork'
  BY <1>1 DEF InWork, Calls, Writing
<1>4. AtHome'
  BY <1>1 DEF AtHome, Home, Calls
<1>5. Settled'
  BY <1>1, <1>2 DEF Settled
<1> QED
  BY <1>1, <1>3, <1>4, <1>5, StepsOn

LEMMA OpenKeeps == ASSUME Core, Open PROVE Core'
  BY BeginKeeps DEF Open, history

LEMMA MaintainKeeps ==
    ASSUME Core, NEW name \in {"reconcile", "maintain", "resume"}, Maintain(name)
    PROVE  Core'
  BY BeginKeeps DEF Maintain, history

LEMMA PutKeeps ==
    ASSUME Core, NEW k \in Artifacts, NEW size \in Sizes, NEW pending \in BOOLEAN,
           NEW deadline \in Deadlines \cup {NoDeadline}, Put(k, size, pending, deadline)
    PROVE  Core'
<1> DEFINE intake == [size |-> size, pending |-> pending, created |-> now, deadline |-> deadline]
<1>1. intake \in IntakeType /\ intake # NoIntake
  <2>1. now \in Nat
    BY DEF Core, RowTypes
  <2>2. intake \in IntakeType
    BY <2>1 DEF IntakeType
  <2>3. DOMAIN intake # {}
    OBVIOUS
  <2>4. DOMAIN NoIntake = {}
    BY DEF NoIntake
  <2> QED
    BY <2>2, <2>3, <2>4
<1>2. Begin("put", k, intake) /\ row[k].state = "absent"
      /\ UNCHANGED <<row, files, now, damaged, reviewed>>
  BY DEF Put, history
<1> HIDE DEF intake
<1> QED
  BY <1>1, <1>2, BeginKeeps

(* Between operations nothing is in work.                                  *)
LEMMA ReadyIdle ==
    ASSUME Core, Ready
    PROVE  /\ op.name = "idle" /\ op.at = "idle" /\ op.todo = {} /\ op.on = NoArtifact
           /\ up
           /\ faults = 0 /\ damaged = {} => \A k \in Artifacts : row[k].state \notin Intents
<1>1. op.name = "idle" /\ op.at = "idle" /\ op.todo = {} /\ op.on = NoArtifact /\ up
  BY IdleOp DEF Ready
<1> QED
  BY <1>1, NothingLeft DEF Calls, Writing

LEMMA DescribeKeeps == ASSUME Core, NEW k \in Artifacts, Describe(k) PROVE Core'
<1>1. /\ Ready /\ op' = [Idle EXCEPT !.name = "describe", !.at = "describe", !.key = k]
      /\ UNCHANGED <<row, files, now, damaged, reviewed, faults, up>>
  BY DEF Describe, process, history
<1>2. /\ op' \in OpType /\ op'.name = "describe" /\ op'.at = "describe" /\ op'.key = k
      /\ op'.todo = {} /\ op'.on = NoArtifact
  BY <1>1 DEF Idle, OpType, Names, Stages
<1>3. InWork' /\ AtHome'
  BY <1>2 DEF InWork, AtHome, Home, Calls, Writing
<1>4. Settled'
  BY <1>1, <1>2, ReadyIdle DEF Settled, Home, Calls
<1> QED
  BY <1>1, <1>2, <1>3, <1>4, StepsOn

LEMMA AcknowledgeKeeps == ASSUME Core, NEW k \in Artifacts, Acknowledge(k) PROVE Core'
<1>1. /\ Ready /\ row[k].state = "available" /\ row' = [row EXCEPT ![k].pending = FALSE]
      /\ UNCHANGED <<final, part, now, damaged, reviewed, faults, up, op>>
  BY DEF Acknowledge, files, process, history
<1>2. row[k] \in RowType
  BY DEF Core, RowTypes
<1>3. row'[k] = [row[k] EXCEPT !.pending = FALSE] /\ \A j \in Artifacts \ {k} : Kept(j)
  BY <1>1 DEF Core, RowTypes, Kept
<1>4. row'[k] \in RowType /\ row'[k].state = "available"
  <2>1. PICK r : r = row[k]
    OBVIOUS
  <2>2. r \in RowType /\ row'[k] = [r EXCEPT !.pending = FALSE] /\ r.state = "available"
    BY <1>1, <1>2, <1>3, <2>1
  <2>3. [r EXCEPT !.pending = FALSE] \in RowType
    BY <2>2, ZenonT(30) DEF RowType
  <2>4. [r EXCEPT !.pending = FALSE].state = "available"
    BY <2>2 DEF RowType
  <2> QED
    BY <2>2, <2>3, <2>4
<1>5. Onward /\ RowTypes'
  BY <1>1, <1>4 DEF Core, RowTypes, Onward
<1>6. Good(k)'
  BY <1>1, <1>4 DEF Core, Good
<1>7. /\ op' \in OpType /\ op'.name = "idle" /\ op'.at = "idle" /\ op'.todo = {}
      /\ op'.on = NoArtifact
  BY <1>1, ReadyIdle DEF Core
<1>8. InWork' /\ AtHome'
  BY <1>7 DEF InWork, AtHome, Home, Calls, Writing
<1>9. Settled'
  BY <1>1, <1>3, <1>4, <1>7, ReadyIdle DEF Settled, Home, Calls, Intents, Kept
<1> QED
  BY <1>3, <1>5, <1>6, <1>7, <1>8, <1>9, OneMoves

LEMMA ExpireKeeps == ASSUME Core, NEW k \in Artifacts, Expire(k) PROVE Core'
<1>1. /\ Ready /\ row[k].state = "available"
      /\ row' = [row EXCEPT ![k].state = "evicting", ![k].reason = "expired"]
      /\ op' = [Idle EXCEPT !.name = "expire", !.at = "finish", !.on = k,
                            !.back = "describe", !.key = k]
      /\ reviewed' = reviewed \cup {k}
      /\ UNCHANGED <<final, part, now, damaged, faults, up>>
  BY DEF Expire, files, process
<1>2. row[k] \in RowType
  BY DEF Core, RowTypes
<1>3. row'[k] = [row[k] EXCEPT !.state = "evicting", !.reason = "expired"]
      /\ \A j \in Artifacts \ {k} : Kept(j)
  BY <1>1 DEF Core, RowTypes, Kept
<1>4. row'[k] \in RowType /\ row'[k].state = "evicting" /\ row'[k].reason = "expired"
  BY <1>2, <1>3 DEF RowType, LiveStates
<1>5. Onward /\ RowTypes'
  BY <1>1, <1>4 DEF Core, RowTypes, Onward
<1>6. Good(k)'
  BY <1>1, <1>4 DEF Core, Good, LiveStates
<1>7. /\ op' \in OpType /\ op'.name = "expire" /\ op'.at = "finish" /\ op'.todo = {}
      /\ op'.on = k /\ op'.key = k /\ op'.back = "describe"
  BY <1>1 DEF Idle, OpType, Names, Stages
<1>8. InWork' /\ AtHome'
  BY <1>4, <1>7 DEF InWork, AtHome, Home, Calls, Writing
<1>9. Settled'
  BY <1>1, <1>3, <1>7, ReadyIdle DEF Settled, Home, Calls, Kept
<1> QED
  BY <1>3, <1>5, <1>6, <1>7, <1>8, <1>9, OneMoves

LEMMA PauseIncidentKeeps == ASSUME Core, GateTypes, PauseIncident PROVE Core'
<1>1. /\ Ready /\ op' = [Idle EXCEPT !.name = "pause", !.at = "incident"] /\ Block
      /\ UNCHANGED <<row, files, now, damaged, reviewed, up>>
  BY DEF PauseIncident
<1>2. faults' = 0 => faults = 0
  BY <1>1, BlockFaults DEF GateTypes
<1>3. /\ op' \in OpType /\ op'.name = "pause" /\ op'.at = "incident"
      /\ op'.todo = {} /\ op'.on = NoArtifact
  BY <1>1 DEF Idle, OpType, Names, Stages
<1>4. InWork' /\ AtHome'
  BY <1>3 DEF InWork, AtHome, Home, Calls, Writing
<1>5. Settled'
  BY <1>1, <1>2, <1>3, ReadyIdle DEF Settled, Home, Calls
<1> QED
  BY <1>1, <1>3, <1>4, <1>5, StepsOn

LEMMA ScanRefusedKeeps == ASSUME Core, GateTypes, ScanRefused PROVE Core'
  BY ReadyIdle, Blocked DEF ScanRefused

-----------------------------------------------------------------------------
(* The environment.                                                        *)

LEMMA IOFailsKeeps == ASSUME Core, GateTypes, IOFails PROVE Core'
<1>1. /\ faults' = faults + 1 /\ op' = Idle
      /\ UNCHANGED <<row, files, now, damaged, reviewed>>
  BY DEF IOFails, Raise
<1>2. faults' # 0
  BY <1>1 DEF GateTypes
<1>3. Onward
  BY <1>1 DEF Core, RowTypes, Onward
<1> QED
  BY <1>1, <1>2, <1>3, Ends

LEMMA CrashKeeps == ASSUME Core, Crash PROVE Core'
<1>1. ~up' /\ op' = Idle /\ UNCHANGED <<row, files, now, damaged, reviewed>>
  BY DEF Crash, history
<1>2. Onward
  BY <1>1 DEF Core, RowTypes, Onward
<1> QED
  BY <1>1, <1>2, Ends

LEMMA DamageKeeps == ASSUME Core, NEW k \in Artifacts, Damage(k) PROVE Core'
<1>1. PICK f \in {"none", "changed"} : final' = [final EXCEPT ![k] = f]
  BY DEF Damage
<1>2. /\ final[k] = "whole" /\ damaged' = damaged \cup {k}
      /\ UNCHANGED <<row, part, now, reviewed, op, up, faults>>
  BY DEF Damage, process
<1>3. /\ Onward /\ RowTypes' /\ (\A j \in Artifacts \ {k} : Kept(j)) /\ final'[k] = f
  BY <1>1, <1>2 DEF Core, RowTypes, Onward, Kept
<1>4. Good(k)'
  BY <1>2, <1>3 DEF Core, Good, Due
<1>5. InWork'
  BY <1>2, <1>3 DEF Core, InWork, Kept, Calls, Writing
<1>6. AtHome'
  BY <1>2 DEF Core, AtHome, Home, Due
<1>7. Settled'
  BY <1>2 DEF Core, Settled, Home
<1> QED
  BY <1>2, <1>3, <1>4, <1>5, <1>6, <1>7, OneMoves DEF Core

LEMMA TickKeeps == ASSUME Core, Tick PROVE Core'
<1>1. /\ now' = now + 1 /\ now \in Nat
      /\ UNCHANGED <<row, final, part, files, damaged, reviewed, op, up, faults>>
  BY DEF Tick, Core, RowTypes, files, process, history
<1>2. Onward
  BY <1>1 DEF Core, RowTypes, Onward
<1>3. \A k \in Artifacts : Due(k) => Due(k)'
  BY <1>1, <1>2, DueStays DEF Core
<1>4. InWork'
  BY <1>1 DEF Core, InWork
<1>5. AtHome'
  <2>1. op.todo \subseteq Artifacts
    BY OpFields DEF Core
  <2> QED
    BY <1>1, <1>3, <2>1 DEF Core, AtHome, Home
<1>6. Settled'
  BY <1>1 DEF Core, Settled, Home
<1> QED
  BY <1>1, <1>2, <1>4, <1>5, <1>6, OpMoves DEF Core

LEMMA StepKeeps == ASSUME Core, GateTypes, Step PROVE Core'
<1>1. ASSUME NEW name \in {"reconcile", "maintain", "resume"}, Maintain(name) PROVE Core'
  BY <1>1, MaintainKeeps
<1>2. ASSUME NEW k \in Artifacts, NEW size \in Sizes, NEW pending \in BOOLEAN,
             NEW deadline \in Deadlines \cup {NoDeadline}, Put(k, size, pending, deadline)
      PROVE  Core'
  BY <1>2, PutKeeps
<1>3. ASSUME NEW k \in Artifacts, Describe(k) \/ Acknowledge(k) \/ Expire(k) \/ Damage(k)
      PROVE  Core'
  BY <1>3, DescribeKeeps, AcknowledgeKeeps, ExpireKeeps, DamageKeeps
<1>4. CASE Continue \/ Open \/ PauseIncident \/ ScanRefused \/ IOFails \/ Crash \/ Tick
  BY <1>4, ContinueKeeps, OpenKeeps, PauseIncidentKeeps, ScanRefusedKeeps, IOFailsKeeps,
     CrashKeeps, TickKeeps
<1> QED
  BY <1>1, <1>2, <1>3, <1>4 DEF Step

-----------------------------------------------------------------------------
(* The gate and the revision.                                              *)

(* What a step does to them: nothing, or a catalog transaction that says   *)
(* nothing about the gate, or the gate is closed.                          *)
Untouched == UNCHANGED <<row, catalog, memory, faults>> /\ up' \in BOOLEAN /\ (up' => up)
Written == fresh' = FALSE /\ UNCHANGED <<paused, incident, gaps, up, memory, faults>>
Closed == Block /\ row' = row /\ up' \in BOOLEAN /\ (up' => up)

LEMMA RaiseUp == ASSUME GateTypes, Raise PROVE up' \in BOOLEAN /\ (up' => up)
  BY DEF Raise, GateTypes

LEMMA BlockCloses == ASSUME GateTypes, BlockAndRaise PROVE Closed
  BY RaiseUp DEF BlockAndRaise, Closed

LEMMA ContinueGates ==
    ASSUME GateTypes, Continue
    PROVE  Untouched \/ Written \/ Closed \/ IncidentSet \/ ResumeClears
<1>0. up \in BOOLEAN
  BY DEF GateTypes
<1>1. CASE FinishUnlink \/ ReconcileEnds \/ MaintainAge \/ MaintainQuota \/ MaintainEnds
  BY <1>0, <1>1
  DEF Untouched, FinishUnlink, ReconcileEnds, MaintainAge, MaintainQuota, MaintainEnds, process,
      history
<1>2. CASE MaintainRefused \/ ResumeRefused
  BY <1>2, RaiseUp DEF Untouched, MaintainRefused, ResumeRefused, history
<1>3. CASE PutCreate \/ PutWrite \/ PutRename \/ DescribeEnds
  BY <1>0, <1>3 DEF Untouched, PutCreate, PutWrite, PutRename, DescribeEnds, process, history
<1>4. CASE FinishChanged \/ PutRefused \/ DescribeChanged
  BY <1>4, BlockCloses DEF FinishChanged, PutRefused, DescribeChanged
<1>5. CASE RecordLoss
  BY <1>0, <1>5 DEF RecordLoss, Closed
<1>6. CASE FinishTombstone \/ SetAvailable \/ SetFailed \/ DescribeMissing
  BY <1>6 DEF Written, FinishTombstone, SetAvailable, SetFailed, DescribeMissing, Set, process, history
<1>7. CASE EvictDue \/ EvictOldest
  BY <1>7 DEF Written, EvictDue, EvictOldest, EvictIntent, process, history
<1>8. CASE PutReserve
  BY <1>8 DEF Written, PutReserve, process, history
<1>9. CASE ReconcileRow
  <2>1. PICK k \in op.todo :
          \/ ReconcileEvicting(k) \/ ReconcileWritten(k) \/ ReconcileStaged(k)
          \/ ReconcileIncomplete(k) \/ ReconcileChanged(k)
          \/ ReconcileMissing(k) \/ ReconcileIntact(k)
    BY <1>9 DEF ReconcileRow
  <2>2. CASE ReconcileChanged(k)
    BY <2>2, BlockCloses DEF ReconcileChanged
  <2>3. CASE ReconcileMissing(k)
    BY <2>3 DEF ReconcileMissing, Written, Set, process, history
  <2>4. CASE ~ReconcileChanged(k) /\ ~ReconcileMissing(k)
    BY <1>0, <2>1, <2>4
    DEF Untouched, ReconcileEvicting, ReconcileWritten, ReconcileStaged, ReconcileIncomplete,
        ReconcileIntact, process, history
  <2> QED
    BY <2>2, <2>3, <2>4
<1> QED
  BY <1>1, <1>2, <1>3, <1>4, <1>5, <1>6, <1>7, <1>8, <1>9 DEF Continue

LEMMA StepGates ==
    ASSUME GateTypes, Step
    PROVE  Untouched \/ Written \/ Closed \/ IncidentSet \/ ResumeClears \/ Open \/ IOFails \/ Crash
<1>0. up \in BOOLEAN
  BY DEF GateTypes
<1>1. ASSUME NEW name \in {"reconcile", "maintain", "resume"}, Maintain(name) PROVE Untouched
  BY <1>0, <1>1 DEF Maintain, Untouched, process, history
<1>2. ASSUME NEW k \in Artifacts, NEW size \in Sizes, NEW pending \in BOOLEAN,
             NEW deadline \in Deadlines \cup {NoDeadline}, Put(k, size, pending, deadline)
      PROVE  Untouched
  BY <1>0, <1>2 DEF Put, Untouched, process, history
<1>3. ASSUME NEW k \in Artifacts, Describe(k) \/ Damage(k) PROVE Untouched
  BY <1>0, <1>3 DEF Describe, Damage, Untouched, process, history
<1>4. ASSUME NEW k \in Artifacts, Acknowledge(k) \/ Expire(k) PROVE Written
  BY <1>4 DEF Acknowledge, Expire, Written, process, history
<1>5. CASE PauseIncident
  BY <1>0, <1>5 DEF PauseIncident, Closed
<1>6. CASE ScanRefused
  BY <1>6, BlockCloses DEF ScanRefused
<1>7. CASE Tick
  BY <1>0, <1>7 DEF Tick, Untouched, process, history
<1> QED
  BY <1>1, <1>2, <1>3, <1>4, <1>5, <1>6, <1>7, ContinueGates DEF Step

LEMMA GapsCount ==
    ASSUME GateTypes
    PROVE  (IF gaps < GapLimit THEN gaps + 1 ELSE gaps) \in 0 .. GapLimit
  BY LimitsAssumption DEF GateTypes

(* The types of the gate, and that the revision changes with row and gaps. *)
Gates ==
    /\ {paused, incident, fresh, up, memory} \subseteq BOOLEAN
    /\ gaps \in 0 .. GapLimit
    /\ faults \in Nat

Reread == fresh' = TRUE => fresh = TRUE /\ row' = row /\ gaps' = gaps

LEMMA BlockGates ==
    ASSUME GateTypes, Block
    PROVE  /\ {paused', incident', fresh', memory'} \subseteq BOOLEAN
           /\ gaps' \in 0 .. GapLimit /\ faults' \in Nat
           /\ fresh' = TRUE => fresh = TRUE /\ gaps' = gaps
<1>1. memory' = TRUE /\ incident' = incident /\ faults' \in Nat
  BY BlockFaults DEF Block
<1>2. CASE Recorded
  BY <1>1, <1>2, GapsCount DEF Recorded, GateTypes
<1>3. CASE Unrecorded
  BY <1>1, <1>3 DEF Unrecorded, GateTypes
<1> QED
  BY <1>2, <1>3 DEF Block

LEMMA GatesStep == ASSUME GateTypes, Step PROVE Gates' /\ Reread
<1>1. CASE Untouched
  BY <1>1 DEF Untouched, catalog, Gates, GateTypes, Reread
<1>2. CASE Written
  BY <1>2 DEF Written, Gates, GateTypes, Reread
<1>3. CASE Closed
  BY <1>3, BlockGates DEF Closed, Gates, GateTypes, Reread
<1>4. CASE IncidentSet
  BY <1>4 DEF IncidentSet, process, history, Gates, GateTypes, Reread
<1>5. CASE ResumeClears
  BY <1>5 DEF ResumeClears, history, Gates, GateTypes, Reread
<1>6. CASE Open \/ Crash
  BY <1>6 DEF Open, Crash, history, catalog, Gates, GateTypes, Reread
<1>7. CASE IOFails
  <2>1. /\ memory' = TRUE /\ incident' = incident /\ row' = row /\ up' \in BOOLEAN
        /\ faults' \in Nat
    BY <1>7, RaiseUp, FaultsGrow DEF IOFails
  <2>2. CASE Recorded
    BY <2>1, <2>2, GapsCount DEF Recorded, Gates, GateTypes, Reread
  <2>3. CASE Unrecorded
    BY <2>1, <2>3 DEF Unrecorded, Gates, GateTypes, Reread
  <2> QED
    BY <1>7, <2>2, <2>3 DEF IOFails
<1> QED
  BY <1>1, <1>2, <1>3, <1>4, <1>5, <1>6, <1>7, StepGates

-----------------------------------------------------------------------------
(* The invariant.                                                          *)

LEMMA InitInv == Init => Inv
<1> SUFFICES ASSUME Init PROVE Inv
  OBVIOUS
<1>1. \A k \in Artifacts : row[k].state = "absent" /\ final[k] = "none" /\ part[k] = "none"
  BY DEF Init, NoRow
<1>2. NoRow \in RowType
  BY DEF NoRow, RowType
<1>3. RowTypes
  BY <1>2, LimitsAssumption DEF Init, RowTypes
<1>4. \A k \in Artifacts : Good(k)
  BY <1>1 DEF Good
<1>5. /\ op \in OpType /\ op.name = "idle" /\ op.at = "idle" /\ op.todo = {}
      /\ op.on = NoArtifact
  BY IdleOp DEF Init
<1>6. InWork /\ AtHome
  BY <1>5 DEF InWork, AtHome, Home, Calls, Writing
<1>7. Settled
  BY DEF Init, Settled
<1>8. GateTypes /\ (fresh => seen)
  <2>1. paused = FALSE /\ incident = FALSE /\ fresh = FALSE /\ up = FALSE /\ memory = FALSE
        /\ seen = FALSE /\ gaps = 0 /\ faults = 0
    BY DEF Init
  <2>2. {paused, incident, fresh, up, memory, seen} \subseteq BOOLEAN
    BY <2>1
  <2>3. GapLimit \in Nat
    BY LimitsAssumption
  <2>4. gaps \in 0 .. GapLimit
    BY <2>1, <2>3
  <2> QED
    BY <2>1, <2>2, <2>4 DEF GateTypes
<1> QED
  BY <1>3, <1>4, <1>5, <1>6, <1>7, <1>8 DEF Inv, Core

(* Reading the status changes nothing but what the operator knows.         *)
LEMMA CoreStays ==
    ASSUME Core, UNCHANGED <<row, files, now, op, up, faults, damaged, reviewed>>
    PROVE  Core'
  BY DEF Core, RowTypes, Good, Due, InWork, AtHome, Home, Settled, files

LEMMA NextInv == Inv /\ [Next]_vars => Inv'
<1> SUFFICES ASSUME Inv, [Next]_vars PROVE Inv'
  OBVIOUS
<1>1. CASE Step /\ Observed
  <2>1. Core'
    BY <1>1, StepKeeps DEF Inv
  <2>2. Gates' /\ Reread
    BY <1>1, GatesStep DEF Inv
  <2>3. seen' \in BOOLEAN /\ (fresh' => seen')
    BY <1>1, <2>2 DEF Observed, Inv, GateTypes, Gates, Reread
  <2> QED
    BY <2>1, <2>2, <2>3 DEF Inv, GateTypes, Gates
<1>2. CASE Status /\ seen' = TRUE
  <2>1. Core'
    BY <1>2, CoreStays DEF Status, Inv, process, history
  <2>2. GateTypes' /\ (fresh' => seen')
    BY <1>2 DEF Status, Inv, GateTypes, process, history
  <2> QED
    BY <2>1, <2>2 DEF Inv
<1>3. CASE UNCHANGED vars
  <2>1. Core'
    BY <1>3, CoreStays DEF vars, Inv, process, history
  <2>2. GateTypes' /\ (fresh' => seen')
    BY <1>3 DEF vars, Inv, GateTypes, process, history, catalog
  <2> QED
    BY <2>1, <2>2 DEF Inv
<1> QED
  BY <1>1, <1>2, <1>3 DEF Next

(* The inductive invariant holds of every store, whatever is cut short.    *)
THEOREM InvCorrect == Spec => []Inv
  BY InitInv, NextInv, PTL DEF Spec

(* The variables keep their types.                                         *)
THEOREM TypeCorrect == Spec => []TypeOK
<1>1. Inv => TypeOK
  BY DEF Inv, Core, RowTypes, GateTypes, TypeOK
<1> QED
  BY <1>1, InvCorrect, PTL

(* The catalog says what the directory holds, wherever a crash, an error   *)
(* or somebody else cut an operation off.                                  *)
THEOREM FilesMatch == Spec => []FilesMatchCatalog
<1>1. Inv => FilesMatchCatalog
  BY DEF Inv, Core, Good, FilesMatchCatalog
<1> QED
  BY <1>1, InvCorrect, PTL

(* Evidence goes for the reason its intent gave, and a good one.           *)
THEOREM ProtectedEvidence == Spec => []ProtectedStays
<1>1. Inv => ProtectedStays
  BY DEF Inv, Core, Good, ProtectedStays
<1> QED
  BY <1>1, InvCorrect, PTL

(* Without errors and damage, no intent is left between operations.        *)
THEOREM SettledWhenIdle == Spec => []IdleIsSettled
<1>1. Inv => IdleIsSettled
  BY ReadyIdle DEF Inv, IdleIsSettled, InState, Intents
<1> QED
  BY <1>1, InvCorrect, PTL

-----------------------------------------------------------------------------
(* Tombstones.                                                             *)

(* A step reserves a row that was absent, or ages one that was live: its   *)
(* size stays, and protection is only ever given up.                       *)
Ages(q) ==
    /\ row[q].state \in LiveStates /\ row'[q].state \in LiveStates \cup Tombstones
    /\ row'[q].size = row[q].size
    /\ row'[q].pending => row[q].pending

OneRow == \/ row' = row
          \/ PutReserve
          \/ \E q \in Artifacts : Ages(q) /\ \A j \in Artifacts \ {q} : row'[j] = row[j]

LEMMA SetOne ==
    ASSUME RowTypes, NEW q \in Artifacts, NEW s \in LiveStates \cup Tombstones,
           row[q].state \in LiveStates, Set(q, s)
    PROVE  OneRow
<1>1. row' = [row EXCEPT ![q].state = s]
  BY DEF Set
<1>2. row[q] \in RowType
  BY DEF RowTypes
<1>3. row'[q] = [row[q] EXCEPT !.state = s] /\ \A j \in Artifacts \ {q} : row'[j] = row[j]
  BY <1>1 DEF RowTypes
<1>4. row'[q].state = s /\ row'[q].size = row[q].size /\ row'[q].pending = row[q].pending
  BY <1>2, <1>3 DEF RowType
<1> QED
  BY <1>3, <1>4 DEF OneRow, Ages

LEMMA ContinueRow == ASSUME Core, GateTypes, Continue PROVE OneRow
<1>0. RowTypes
  BY DEF Core
<1>1. CASE FinishTombstone
  <2>1. PICK q \in Artifacts : q = op.on /\ row[q].state = "evicting"
    BY <1>1 DEF FinishTombstone, Core, InWork, Calls
  <2>2. PICK s : s = row[q].reason
    OBVIOUS
  <2>3. Set(q, s)
    BY <1>1, <2>1, <2>2 DEF FinishTombstone
  <2>4. s \in {"expired", "evicted"}
    BY <1>0, <2>1, <2>2 DEF Core, Good, RowTypes, RowType
  <2> QED
    BY <1>0, <2>1, <2>3, <2>4, SetOne DEF LiveStates, Tombstones
<1>2. CASE SetAvailable \/ SetFailed
  <2>1. PICK q \in Artifacts : q = op.on /\ row[q].state = "writing"
    BY <1>2 DEF SetAvailable, SetFailed, Core, InWork, Calls
  <2>2. Set(q, "available") \/ Set(q, "failed")
    BY <1>2, <2>1 DEF SetAvailable, SetFailed
  <2> QED
    BY <1>0, <2>1, <2>2, SetOne DEF LiveStates, Tombstones
<1>3. CASE DescribeMissing
  <2>1. PICK q \in Artifacts : q = op.key /\ row[q].state = "available"
    BY <1>3 DEF DescribeMissing, Core, AtHome, Home, Calls
  <2>2. Set(q, "missing")
    BY <1>3, <2>1 DEF DescribeMissing
  <2> QED
    BY <1>0, <2>1, <2>2, SetOne DEF LiveStates, Tombstones
<1>4. CASE EvictDue \/ EvictOldest
  <2>1. PICK k \in Oldest(op.todo), reason \in {"expired", "evicted"}, back \in {"age", "quota"} :
          EvictIntent(k, reason, back)
    BY <1>4 DEF EvictDue, EvictOldest
  <2>2. k \in Artifacts /\ row[k].state = "available"
    BY <1>4, <2>1, OpFields DEF EvictDue, EvictOldest, Oldest, Core, AtHome, Home, Calls
  <2>3. row' = [row EXCEPT ![k].state = "evicting", ![k].reason = reason]
    BY <2>1 DEF EvictIntent
  <2>4. row[k] \in RowType
    BY <1>0, <2>2 DEF RowTypes
  <2>5. /\ row'[k] = [row[k] EXCEPT !.state = "evicting", !.reason = reason]
        /\ \A j \in Artifacts \ {k} : row'[j] = row[j]
    BY <1>0, <2>2, <2>3 DEF RowTypes
  <2>6. row'[k].state = "evicting" /\ row'[k].size = row[k].size /\ row'[k].pending = row[k].pending
    BY <2>4, <2>5 DEF RowType
  <2> QED
    BY <2>2, <2>5, <2>6 DEF OneRow, Ages, LiveStates
<1>5. CASE PutReserve
  BY <1>5 DEF OneRow
<1>6. CASE ReconcileRow
  <2>1. PICK k \in op.todo :
          \/ ReconcileEvicting(k) \/ ReconcileWritten(k) \/ ReconcileStaged(k)
          \/ ReconcileIncomplete(k) \/ ReconcileChanged(k)
          \/ ReconcileMissing(k) \/ ReconcileIntact(k)
    BY <1>6 DEF ReconcileRow
  <2>2. CASE ReconcileMissing(k)
    <3>1. k \in Artifacts /\ row[k].state = "available" /\ Set(k, "missing")
      BY <2>2, OpFields DEF ReconcileMissing, Core
    <3> QED
      BY <1>0, <3>1, SetOne DEF LiveStates, Tombstones
  <2>3. CASE ~ReconcileMissing(k)
    BY <2>1, <2>3
    DEF OneRow, ReconcileEvicting, ReconcileWritten, ReconcileStaged, ReconcileIncomplete,
        ReconcileIntact, ReconcileChanged, BlockAndRaise
  <2> QED
    BY <2>2, <2>3
<1>7. CASE FinishUnlink \/ ReconcileEnds \/ MaintainAge \/ MaintainQuota \/ MaintainEnds
  BY <1>7 DEF OneRow, FinishUnlink, ReconcileEnds, MaintainAge, MaintainQuota, MaintainEnds
<1>8. CASE MaintainRefused \/ ResumeRefused \/ ResumeClears \/ IncidentSet \/ RecordLoss
  BY <1>8 DEF OneRow, MaintainRefused, ResumeRefused, ResumeClears, IncidentSet, RecordLoss
<1>9. CASE PutCreate \/ PutWrite \/ PutRename \/ DescribeEnds
  BY <1>9 DEF OneRow, PutCreate, PutWrite, PutRename, DescribeEnds
<1>10. CASE FinishChanged \/ PutRefused \/ DescribeChanged
  BY <1>10 DEF OneRow, FinishChanged, PutRefused, DescribeChanged, BlockAndRaise
<1> QED
  BY <1>1, <1>2, <1>3, <1>4, <1>5, <1>6, <1>7, <1>8, <1>9, <1>10 DEF Continue

LEMMA StepRow == ASSUME Core, GateTypes, Step PROVE OneRow
<1>1. ASSUME NEW name \in {"reconcile", "maintain", "resume"}, Maintain(name) PROVE OneRow
  BY <1>1 DEF Maintain, OneRow
<1>2. ASSUME NEW k \in Artifacts, NEW size \in Sizes, NEW pending \in BOOLEAN,
             NEW deadline \in Deadlines \cup {NoDeadline}, Put(k, size, pending, deadline)
      PROVE  OneRow
  BY <1>2 DEF Put, OneRow
<1>3. ASSUME NEW k \in Artifacts, Describe(k) \/ Damage(k) PROVE OneRow
  BY <1>3 DEF Describe, Damage, OneRow
<1>4. ASSUME NEW k \in Artifacts, Acknowledge(k) \/ Expire(k) PROVE OneRow
  <2>1. row[k] \in RowType /\ row[k].state = "available" /\ row \in [Artifacts -> RowType]
    BY <1>4 DEF Acknowledge, Expire, Core, RowTypes
  <2>2. CASE Acknowledge(k)
    <3>1. row' = [row EXCEPT ![k].pending = FALSE]
      BY <2>2 DEF Acknowledge
    <3>2. /\ row'[k] = [row[k] EXCEPT !.pending = FALSE]
          /\ \A j \in Artifacts \ {k} : row'[j] = row[j]
      BY <2>1, <3>1
    <3>3. row'[k].state = "available" /\ row'[k].size = row[k].size /\ row'[k].pending = FALSE
      BY <2>1, <3>2 DEF RowType
    <3> QED
      BY <2>1, <3>2, <3>3 DEF OneRow, Ages, LiveStates
  <2>3. CASE Expire(k)
    <3>1. row' = [row EXCEPT ![k].state = "evicting", ![k].reason = "expired"]
      BY <2>3 DEF Expire
    <3>2. /\ row'[k] = [row[k] EXCEPT !.state = "evicting", !.reason = "expired"]
          /\ \A j \in Artifacts \ {k} : row'[j] = row[j]
      BY <2>1, <3>1
    <3>3. row'[k].state = "evicting" /\ row'[k].size = row[k].size /\ row'[k].pending = row[k].pending
      BY <2>1, <3>2 DEF RowType
    <3> QED
      BY <2>1, <3>2, <3>3 DEF OneRow, Ages, LiveStates
  <2> QED
    BY <1>4, <2>2, <2>3
<1>5. CASE PauseIncident \/ ScanRefused \/ Open \/ IOFails \/ Crash \/ Tick
  BY <1>5 DEF PauseIncident, ScanRefused, BlockAndRaise, Open, IOFails, Crash, Tick, OneRow
<1> QED
  BY <1>1, <1>2, <1>3, <1>4, <1>5, ContinueRow DEF Step

(* A tombstone is for ever, for any number of ids, retries and recoveries. *)
THEOREM TombstonesStay == Spec => TombstoneFinal
<1>1. Inv /\ [Next]_vars =>
        [\A k \in Artifacts : row[k].state \in Tombstones => row'[k] = row[k]]_vars
  <2> SUFFICES ASSUME Inv, Next, NEW k \in Artifacts, row[k].state \in Tombstones
               PROVE  row'[k] = row[k]
    OBVIOUS
  <2>1. OneRow
    BY StepRow DEF Next, Status, OneRow, Inv
  <2>2. ASSUME PutReserve PROVE row'[k] = row[k]
    <3>1. row[op.key].state = "absent"
      BY <2>2 DEF PutReserve, Inv, Core, AtHome, Home, Calls
    <3>2. k # op.key
      BY <3>1 DEF Tombstones
    <3> QED
      BY <2>2, <3>2 DEF PutReserve, Inv, Core, RowTypes
  <2> QED
    BY <2>1, <2>2 DEF OneRow, Ages, Tombstones, LiveStates
<1> QED
  BY <1>1, InvCorrect, PTL DEF Spec, TombstoneFinal

-----------------------------------------------------------------------------
(* Sums of sizes.                                                          *)

(* A set of naturals that has 0 and is closed under successors has all of  *)
(* them: a counterexample would have a least one.                          *)
LEMMA NatSetInduction ==
    ASSUME NEW T, 0 \in T, \A n \in Nat : n \in T => n + 1 \in T
    PROVE  Nat \subseteq T
<1> DEFINE R == OpToRel(<, Nat)
<1>1. IsWellFoundedOn(R, Nat)
  BY NatLessThanWellFounded
<1>2. \A m, n \in Nat : m < n => <<m, n>> \in R
  BY DEF OpToRel
<1> HIDE DEF R
<1> SUFFICES ASSUME Nat \ T # {} PROVE FALSE
  OBVIOUS
<1>3. PICK n \in Nat \ T : \A m \in Nat \ T : ~(<<m, n>> \in R)
  <2>1. Nat \ T \subseteq Nat /\ Nat \ T # {}
    OBVIOUS
  <2> QED
    BY <1>1, <2>1, WFMin
<1>4. n # 0 /\ n \in Nat
  BY <1>3
<1>5. n - 1 \in Nat /\ n - 1 < n /\ (n - 1) + 1 = n
  BY <1>4
<1>6. n - 1 \in T
  BY <1>2, <1>3, <1>5
<1> QED
  BY <1>3, <1>5, <1>6

(* The bytes of a set of artifacts, with the rows as a parameter.          *)
Bytes(r, S) == MapThenSumSet(LAMBDA k : r[k].size, S)
First(S) == CHOOSE x \in S : TRUE

(* Its definition by the fold of the library, expanded.                    *)
LEMMA BytesDef ==
    ASSUME NEW r, NEW S
    PROVE  Bytes(r, S) = (CHOOSE g : g = [s \in SUBSET S |->
              IF s = {} THEN 0 ELSE r[First(s)].size + g[s \ {First(s)}]])[S]
  BY DEF Bytes, First, MapThenSumSet, MapThenFoldSet

(* The subsets with at most n members.                                     *)
Upto(S, n) == {s \in SUBSET S : Cardinality(s) <= n}

LEMMA FirstIn == ASSUME NEW S, S # {} PROVE First(S) \in S
  BY DEF First

(* Without a member a set is one size down.                                *)
LEMMA Smaller ==
    ASSUME NEW S, IsFiniteSet(S), NEW n \in Nat, NEW s \in Upto(S, n + 1), NEW x \in s
    PROVE  s \ {x} \in Upto(S, n) /\ IsFiniteSet(s) /\ Cardinality(s \ {x}) + 1 = Cardinality(s)
<1>1. s \in SUBSET S /\ Cardinality(s) <= n + 1
  BY DEF Upto
<1>2. IsFiniteSet(s) /\ Cardinality(s) \in Nat
  BY <1>1, FS_Subset, FS_CardinalityType
<1>3. Cardinality(s \ {x}) = Cardinality(s) - 1
  BY <1>2, FS_RemoveElement
<1> QED
  BY <1>1, <1>2, <1>3 DEF Upto

(* The recursion of the fold, for the sets in D.                           *)
SumsOn(r, D, g) ==
    g = [s \in D |-> IF s = {} THEN 0 ELSE r[First(s)].size + g[s \ {First(s)}]]

(* Some function satisfies it on the subsets of any size.                  *)
LEMMA SumsExist ==
    ASSUME NEW r, NEW S, IsFiniteSet(S)
    PROVE  \E g : SumsOn(r, SUBSET S, g)
<1> DEFINE T == {n \in Nat : \E g : SumsOn(r, Upto(S, n), g)}
<1>1. 0 \in T
  <2> DEFINE g == [s \in Upto(S, 0) |-> 0]
  <2>1. \A s \in Upto(S, 0) : s = {}
    <3> SUFFICES ASSUME NEW s \in Upto(S, 0) PROVE s = {}
      OBVIOUS
    <3>1. s \in SUBSET S /\ Cardinality(s) <= 0
      BY DEF Upto
    <3>2. IsFiniteSet(s) /\ Cardinality(s) \in Nat
      BY <3>1, FS_Subset, FS_CardinalityType
    <3> QED
      BY <3>1, <3>2, FS_EmptySet
  <2>2. SumsOn(r, Upto(S, 0), g)
    BY <2>1 DEF SumsOn
  <2> QED
    BY <2>2
<1>2. ASSUME NEW n \in Nat, n \in T PROVE n + 1 \in T
  <2>1. PICK g : SumsOn(r, Upto(S, n), g)
    BY <1>2
  <2> DEFINE h == [s \in Upto(S, n + 1) |->
                     IF s = {} THEN 0 ELSE r[First(s)].size + g[s \ {First(s)}]]
  <2>2. Upto(S, n) \subseteq Upto(S, n + 1)
    <3> SUFFICES ASSUME NEW s \in Upto(S, n) PROVE s \in Upto(S, n + 1)
      OBVIOUS
    <3>1. s \in SUBSET S /\ Cardinality(s) <= n
      BY DEF Upto
    <3>2. Cardinality(s) \in Nat
      BY <3>1, FS_Subset, FS_CardinalityType
    <3> QED
      BY <3>1, <3>2 DEF Upto
  <2>3. \A s \in Upto(S, n) : h[s] = g[s]
    BY <2>1, <2>2 DEF SumsOn
  <2>4. \A s \in Upto(S, n + 1) : s # {} => s \ {First(s)} \in Upto(S, n)
    BY Smaller, FirstIn
  <2>5. \A s \in Upto(S, n + 1) :
          h[s] = IF s = {} THEN 0 ELSE r[First(s)].size + h[s \ {First(s)}]
    BY <2>3, <2>4
  <2>6. SumsOn(r, Upto(S, n + 1), h)
    BY <2>5 DEF SumsOn
  <2> QED
    BY <2>6
<1>3. Cardinality(S) \in T
  <2> HIDE DEF T
  <2> QED
    BY <1>1, <1>2, NatSetInduction, FS_CardinalityType
<1>4. Upto(S, Cardinality(S)) = SUBSET S
  BY FS_Subset DEF Upto
<1> QED
  BY <1>3, <1>4

(* The sum of the bytes, whatever set it is taken over, by one function.   *)
LEMMA BytesFunction ==
    ASSUME NEW r, NEW A, IsFiniteSet(A), NEW S \in SUBSET A, NEW G, SumsOn(r, SUBSET A, G)
    PROVE  Bytes(r, S) = G[S]
<1>1. IsFiniteSet(S)
  BY FS_Subset
<1>2. PICK g : SumsOn(r, SUBSET S, g) /\ Bytes(r, S) = g[S]
  <2> DEFINE g == CHOOSE g : g = [s \in SUBSET S |->
                    IF s = {} THEN 0 ELSE r[First(s)].size + g[s \ {First(s)}]]
  <2>1. SumsOn(r, SUBSET S, g)
    <3>1. \E h : SumsOn(r, SUBSET S, h)
      BY <1>1, SumsExist
    <3>2. g = CHOOSE h : SumsOn(r, SUBSET S, h)
      BY DEF SumsOn
    <3> HIDE DEF g
    <3> QED
      BY <3>1, <3>2
  <2>2. Bytes(r, S) = g[S]
    BY BytesDef
  <2> QED
    BY <2>1, <2>2
<1> DEFINE T == {n \in Nat : \A s \in Upto(S, n) : g[s] = G[s]}
<1>3. 0 \in T
  <2> SUFFICES ASSUME NEW s \in Upto(S, 0) PROVE g[s] = G[s]
    OBVIOUS
  <2>1. s \in SUBSET S /\ s \in SUBSET A /\ Cardinality(s) <= 0
    BY DEF Upto
  <2>2. IsFiniteSet(s) /\ Cardinality(s) \in Nat
    BY <1>1, <2>1, FS_Subset, FS_CardinalityType
  <2>3. s = {}
    BY <2>1, <2>2, FS_EmptySet
  <2> QED
    BY <1>2, <2>1, <2>3 DEF SumsOn
<1>4. ASSUME NEW n \in Nat, n \in T PROVE n + 1 \in T
  <2> SUFFICES ASSUME NEW s \in Upto(S, n + 1) PROVE g[s] = G[s]
    OBVIOUS
  <2>1. s \in SUBSET S /\ s \in SUBSET A
    BY DEF Upto
  <2>2. s # {} => g[s \ {First(s)}] = G[s \ {First(s)}]
    BY <1>1, <1>4, Smaller, FirstIn
  <2>3. g[s] = IF s = {} THEN 0 ELSE r[First(s)].size + g[s \ {First(s)}]
    BY <1>2, <2>1 DEF SumsOn
  <2>4. G[s] = IF s = {} THEN 0 ELSE r[First(s)].size + G[s \ {First(s)}]
    BY <2>1 DEF SumsOn
  <2> QED
    BY <2>2, <2>3, <2>4
<1>5. Cardinality(S) \in T
  <2> HIDE DEF T
  <2> QED
    BY <1>1, <1>3, <1>4, NatSetInduction, FS_CardinalityType
<1>6. S \in Upto(S, Cardinality(S))
  BY <1>1, FS_CardinalityType DEF Upto
<1> QED
  BY <1>2, <1>5, <1>6

(* So the fold satisfies its own recursion.                                *)
LEMMA BytesEquation ==
    ASSUME NEW r, NEW S, IsFiniteSet(S)
    PROVE  Bytes(r, S) = IF S = {} THEN 0 ELSE r[First(S)].size + Bytes(r, S \ {First(S)})
<1>1. PICK G : SumsOn(r, SUBSET S, G)
  BY SumsExist
<1>2. Bytes(r, S) = G[S] /\ Bytes(r, S \ {First(S)}) = G[S \ {First(S)}]
  BY <1>1, BytesFunction
<1> QED
  BY <1>1, <1>2 DEF SumsOn

Sized(r, S) == \A k \in S : r[k].size \in Nat

(* Any element may be taken out first. *)
LEMMA BytesWithout ==
    ASSUME NEW r, NEW S, IsFiniteSet(S), Sized(r, S)
    PROVE  Bytes(r, S) \in Nat /\ \A x \in S : Bytes(r, S) = r[x].size + Bytes(r, S \ {x})
<1> DEFINE P(s) == Bytes(r, s) \in Nat /\ \A x \in s : Bytes(r, s) = r[x].size + Bytes(r, s \ {x})
           T == {n \in Nat : \A s \in Upto(S, n) : P(s)}
<1>1. 0 \in T
  <2> SUFFICES ASSUME NEW s \in Upto(S, 0) PROVE P(s)
    OBVIOUS
  <2>1. s \in SUBSET S /\ Cardinality(s) <= 0
    BY DEF Upto
  <2>2. IsFiniteSet(s) /\ Cardinality(s) \in Nat
    BY <2>1, FS_Subset, FS_CardinalityType
  <2>3. s = {}
    BY <2>1, <2>2, FS_EmptySet
  <2>4. Bytes(r, s) = 0
    BY <2>2, <2>3, BytesEquation
  <2> QED
    BY <2>3, <2>4
<1>2. ASSUME NEW n \in Nat, n \in T PROVE n + 1 \in T
  <2> SUFFICES ASSUME NEW s \in Upto(S, n + 1) PROVE P(s)
    OBVIOUS
  <2>1. s \in SUBSET S /\ IsFiniteSet(s)
    BY FS_Subset DEF Upto
  <2>2. CASE s = {}
    <3>1. Bytes(r, s) = 0
      BY <2>1, <2>2, BytesEquation
    <3> QED
      BY <2>2, <3>1
  <2>3. CASE s # {}
    <3>1. PICK c : c = First(s) /\ c \in s
      BY <2>3, FirstIn
    <3>2. Bytes(r, s) = r[c].size + Bytes(r, s \ {c})
      BY <2>1, <2>3, <3>1, BytesEquation
    <3>3. \A x \in s : s \ {x} \in Upto(S, n)
      BY Smaller
    <3>4. \A x \in s : P(s \ {x})
      BY <1>2, <3>3
    <3>5. \A x \in s : r[x].size \in Nat
      BY <2>1 DEF Sized
    <3>6. ASSUME NEW x \in s PROVE Bytes(r, s) = r[x].size + Bytes(r, s \ {x})
      <4>1. CASE x = c
        BY <3>2, <4>1
      <4>2. CASE x # c
        <5>1. (s \ {c}) \ {x} = (s \ {x}) \ {c}
          OBVIOUS
        <5>2. Bytes(r, s \ {c}) = r[x].size + Bytes(r, (s \ {c}) \ {x})
          BY <3>1, <3>4, <4>2
        <5>3. Bytes(r, s \ {x}) = r[c].size + Bytes(r, (s \ {c}) \ {x})
          BY <3>1, <3>4, <4>2, <5>1
        <5>4. (s \ {c}) \ {x} \in Upto(S, n)
          <6>1. Bytes(r, s \ {c}) \in Nat /\ Bytes(r, s \ {x}) \in Nat
            BY <3>1, <3>4
          <6>2. s \ {c} \in Upto(S, n) /\ x \in s \ {c}
            BY <3>1, <3>3, <4>2
          <6>3. s \ {c} \in Upto(S, n + 1)
            <7>1. s \ {c} \in SUBSET S /\ Cardinality(s \ {c}) <= n
              BY <6>2 DEF Upto
            <7>2. Cardinality(s \ {c}) \in Nat
              BY <7>1, FS_Subset, FS_CardinalityType
            <7> QED
              BY <7>1, <7>2 DEF Upto
          <6> QED
            BY <6>2, <6>3, Smaller
        <5>5. Bytes(r, (s \ {c}) \ {x}) \in Nat
          BY <1>2, <5>4
        <5> QED
          BY <3>1, <3>2, <3>5, <5>2, <5>3, <5>5
      <4> QED
        BY <4>1, <4>2
    <3> QED
      BY <3>1, <3>2, <3>4, <3>5, <3>6
  <2> QED
    BY <2>2, <2>3
<1>3. Cardinality(S) \in T
  <2> HIDE DEF T
  <2> QED
    BY <1>1, <1>2, NatSetInduction, FS_CardinalityType
<1>4. S \in Upto(S, Cardinality(S))
  BY FS_CardinalityType DEF Upto
<1> QED
  BY <1>3, <1>4

(* Only the sizes of the members count.                                    *)
LEMMA BytesSame ==
    ASSUME NEW r, NEW q, NEW S, IsFiniteSet(S), \A k \in S : q[k].size = r[k].size
    PROVE  Bytes(q, S) = Bytes(r, S)
<1>1. PICK G : SumsOn(r, SUBSET S, G)
  BY SumsExist
<1>2. SumsOn(q, SUBSET S, G)
  <2>1. \A s \in SUBSET S : s # {} => q[First(s)].size = r[First(s)].size
    BY FirstIn
  <2>2. [s \in SUBSET S |-> IF s = {} THEN 0 ELSE r[First(s)].size + G[s \ {First(s)}]]
        = [s \in SUBSET S |-> IF s = {} THEN 0 ELSE q[First(s)].size + G[s \ {First(s)}]]
    BY <2>1
  <2> QED
    BY <1>1, <2>2 DEF SumsOn
<1> QED
  BY <1>1, <1>2, BytesFunction

-----------------------------------------------------------------------------
(* The budgets.                                                            *)

(* What admission adds up is such a sum, before and after a step.          *)
LEMMA LiveBytesIs == LiveBytes = Bytes(row, Live)
  BY DEF LiveBytes, Bytes

LEMMA LiveBytesNext == LiveBytes' = Bytes(row', Live')
  BY DEF LiveBytes, Bytes, MapThenSumSet, MapThenFoldSet

(* Live rows have a size.                                                  *)
LEMMA LiveSized ==
    ASSUME RowTypes
    PROVE  /\ IsFiniteSet(Live) /\ IsFiniteSet(LivePending) /\ IsFiniteSet(Records)
           /\ Live \subseteq Artifacts /\ Sized(row, Live)
<1>1. \A k \in Artifacts : row[k].size \in Nat
  <2> SUFFICES ASSUME NEW k \in Artifacts PROVE row[k].size \in Nat
    OBVIOUS
  <2>1. row[k] \in RowType
    BY DEF RowTypes
  <2>2. PICK n : n = row[k].size
    OBVIOUS
  <2>3. n \in Sizes \cup {0}
    BY <2>1, <2>2 DEF RowType
  <2>4. n \in Nat
    BY <2>3, LimitsAssumption
  <2> QED
    BY <2>2, <2>4
<1>2. Live \subseteq Artifacts /\ LivePending \subseteq Artifacts /\ Records \subseteq Artifacts
  BY DEF Live, LivePending, Records, InState
<1> QED
  BY <1>1, <1>2, ArtifactsAssumption, FS_Subset DEF Sized

LEMMA LiveSizedNext ==
    ASSUME RowTypes'
    PROVE  /\ IsFiniteSet(Live') /\ IsFiniteSet(LivePending') /\ IsFiniteSet(Records')
           /\ Live' \subseteq Artifacts /\ Sized(row', Live')
<1>1. \A k \in Artifacts : row'[k].size \in Nat
  <2> SUFFICES ASSUME NEW k \in Artifacts PROVE row'[k].size \in Nat
    OBVIOUS
  <2>1. row'[k] \in RowType
    BY DEF RowTypes
  <2>2. PICK n : n = row'[k].size
    OBVIOUS
  <2>3. n \in Sizes \cup {0}
    BY <2>1, <2>2 DEF RowType
  <2>4. n \in Nat
    BY <2>3, LimitsAssumption
  <2> QED
    BY <2>2, <2>4
<1>2. Live' \subseteq Artifacts /\ LivePending' \subseteq Artifacts /\ Records' \subseteq Artifacts
  BY DEF Live, LivePending, Records, InState
<1> QED
  BY <1>1, <1>2, ArtifactsAssumption, FS_Subset DEF Sized

(* A row that ages takes nothing more of any budget.                       *)
LEMMA AgingFits ==
    ASSUME RowTypes, RowTypes', WithinBudget, NEW q \in Artifacts, Ages(q),
           \A j \in Artifacts \ {q} : row'[j] = row[j]
    PROVE  WithinBudget'
<1>1. Live' = Live \/ Live' = Live \ {q}
  BY DEF Ages, Live, InState, LiveStates, Tombstones
<1>2. LivePending' \subseteq LivePending
  BY DEF Ages, LivePending, Live, InState
<1>3. Records' = Records
  BY DEF Ages, Records, InState, LiveStates, Tombstones
<1>4. q \in Live
  BY DEF Ages, Live, InState
<1>5. \A k \in Artifacts : row'[k].size = row[k].size
  BY DEF Ages
<1>6. Bytes(row', Live') = Bytes(row, Live')
  BY <1>5, LiveSizedNext, BytesSame
<1>7. Bytes(row, Live) \in Nat /\ Bytes(row, Live) = row[q].size + Bytes(row, Live \ {q})
  BY <1>4, LiveSized, BytesWithout
<1>8. row[q].size \in Nat
  BY <1>4, LiveSized DEF Sized
<1>9. Bytes(row, Live \ {q}) \in Nat
  BY LiveSized, FS_Subset, BytesWithout DEF Sized
<1>10. LiveBytes' <= MaxBytes
  <2>1. Bytes(row, Live) <= MaxBytes /\ MaxBytes \in Nat
    BY LiveBytesIs, LimitsAssumption DEF WithinBudget
  <2>2. Bytes(row, Live \ {q}) <= Bytes(row, Live)
    BY <1>7, <1>8, <1>9
  <2>3. LiveBytes' = Bytes(row, Live) \/ LiveBytes' = Bytes(row, Live \ {q})
    BY <1>1, <1>6, LiveBytesNext
  <2> QED
    BY <1>7, <1>9, <2>1, <2>2, <2>3
<1>11. Cardinality(Live') <= Cardinality(Live) /\ Cardinality(LivePending') <= Cardinality(LivePending)
  BY <1>1, <1>2, LiveSized, FS_Subset
<1>12. /\ Cardinality(Live') \in Nat /\ Cardinality(Live) \in Nat
       /\ Cardinality(LivePending') \in Nat /\ Cardinality(LivePending) \in Nat
  BY LiveSized, LiveSizedNext, FS_CardinalityType
<1>13. Cardinality(Live') <= MaxItems /\ Cardinality(LivePending') <= MaxPending
  BY <1>11, <1>12, LimitsAssumption DEF WithinBudget
<1> QED
  BY <1>3, <1>10, <1>13 DEF WithinBudget

(* A reservation is made within what the admission looked at.              *)
LEMMA ReservationFits ==
    ASSUME Core, RowTypes', WithinBudget, PutReserve
    PROVE  WithinBudget'
<1>1. PICK q \in Artifacts : q = op.key /\ row[q].state = "absent" /\ op.intake # NoIntake
  BY DEF PutReserve, Core, AtHome, Home, Calls
<1>2. RowTypes
  BY DEF Core
<1>3. op.intake \in IntakeType
  BY <1>1, OpFields DEF Core
<1>4. PICK w : w = [NoRow EXCEPT !.state = "writing", !.size = op.intake.size,
                                 !.pending = op.intake.pending,
                                 !.created = op.intake.created,
                                 !.deadline = op.intake.deadline]
  OBVIOUS
<1>5. w.state = "writing" /\ w.size = op.intake.size /\ w.pending = op.intake.pending
  BY <1>4 DEF NoRow
<1>6. row' = [row EXCEPT ![q] = w]
  BY <1>1, <1>4 DEF PutReserve
<1>7. row'[q] = w /\ \A j \in Artifacts \ {q} : row'[j] = row[j]
  BY <1>2, <1>6 DEF RowTypes
<1>8. Live' = Live \cup {q} /\ q \notin Live
  BY <1>1, <1>5, <1>7 DEF Live, InState, LiveStates
<1>9. Records' = Records \cup {q} /\ q \notin Records
  BY <1>1, <1>5, <1>7 DEF Records, InState
<1>10. LivePending' = IF op.intake.pending THEN LivePending \cup {q} ELSE LivePending
  <2>1. q \notin LivePending /\ LivePending \subseteq Live
    BY <1>8 DEF LivePending
  <2>2. \A k \in Live : k \in Artifacts /\ row'[k] = row[k]
    BY <1>7, <1>8 DEF Live, InState
  <2> QED
    BY <1>5, <1>7, <1>8, <2>1, <2>2 DEF LivePending
<1>11. /\ IsFiniteSet(Live) /\ IsFiniteSet(LivePending) /\ IsFiniteSet(Records)
       /\ Cardinality(Live) \in Nat /\ Cardinality(LivePending) \in Nat /\ Cardinality(Records) \in Nat
  BY <1>2, LiveSized, FS_CardinalityType
<1>12. /\ LiveBytes + op.intake.size <= MaxBytes
       /\ Cardinality(Live) + 1 <= MaxItems
       /\ Cardinality(Records) < MaxRecords
       /\ op.intake.pending => Cardinality(LivePending) < MaxPending
  BY <1>1 DEF PutReserve, Admissible, Fits, Required
<1>13. LiveBytes' <= MaxBytes
  <2>1. Bytes(row', Live') = row'[q].size + Bytes(row', Live)
    <3>1. (Live \cup {q}) \ {q} = Live
      BY <1>8
    <3>2. Bytes(row', Live') = row'[q].size + Bytes(row', Live' \ {q})
      BY <1>8, LiveSizedNext, BytesWithout
    <3> QED
      BY <1>8, <3>1, <3>2
  <2>2. Bytes(row', Live) = Bytes(row, Live)
    <3>1. \A k \in Live : row'[k].size = row[k].size
      BY <1>2, <1>7, <1>8, LiveSized
    <3> QED
      BY <1>11, <3>1, BytesSame
  <2>3. Bytes(row, Live) \in Nat /\ op.intake.size \in Nat /\ MaxBytes \in Nat
    BY <1>2, <1>3, LiveSized, BytesWithout, LimitsAssumption DEF IntakeType
  <2> QED
    BY <1>5, <1>7, <1>12, <2>1, <2>2, <2>3, LiveBytesIs, LiveBytesNext
<1>14. Cardinality(Live') <= MaxItems /\ Cardinality(Records') <= MaxRecords
  <2>1. /\ Cardinality(Live') = Cardinality(Live) + 1
        /\ Cardinality(Records') = Cardinality(Records) + 1
    BY <1>8, <1>9, <1>11, FS_AddElement
  <2> QED
    BY <1>11, <1>12, <2>1, LimitsAssumption
<1>15. Cardinality(LivePending') <= MaxPending
  <2>1. CASE op.intake.pending
    <3>1. Cardinality(LivePending') <= Cardinality(LivePending) + 1
      <4>1. LivePending' = LivePending \cup {q}
        BY <1>10, <2>1
      <4>2. Cardinality(LivePending \cup {q}) \in {Cardinality(LivePending), Cardinality(LivePending) + 1}
        BY <1>11, FS_AddElement
      <4> QED
        BY <1>11, <4>1, <4>2
    <3>2. Cardinality(LivePending') \in Nat
      BY LiveSizedNext, FS_CardinalityType
    <3> QED
      BY <1>11, <1>12, <2>1, <3>1, <3>2, LimitsAssumption
  <2>2. CASE ~op.intake.pending
    BY <1>10, <2>2 DEF WithinBudget
  <2> QED
    BY <2>1, <2>2
<1> QED
  BY <1>13, <1>14, <1>15 DEF WithinBudget

(* The budgets hold at every moment, for any sizes and limits.             *)
THEOREM BudgetsHold == Spec => []WithinBudget
<1>1. Init => WithinBudget
  <2> SUFFICES ASSUME Init PROVE WithinBudget
    OBVIOUS
  <2>1. Live = {} /\ LivePending = {} /\ Records = {}
    BY DEF Init, Live, LivePending, Records, InState, NoRow, LiveStates
  <2>2. LiveBytes = 0
    BY <2>1, LiveBytesIs, BytesEquation, FS_EmptySet
  <2> QED
    BY <2>1, <2>2, FS_EmptySet, LimitsAssumption DEF WithinBudget
<1>2. Inv /\ Inv' /\ WithinBudget /\ [Next]_vars => WithinBudget'
  <2> SUFFICES ASSUME Inv, Inv', WithinBudget, [Next]_vars PROVE WithinBudget'
    OBVIOUS
  <2>1. RowTypes /\ RowTypes' /\ Core
    BY DEF Inv, Core
  <2>2. OneRow
    BY StepRow DEF Next, Status, OneRow, Inv, vars
  <2>3. CASE row' = row
    <3>1. /\ Live' = Live /\ LivePending' = LivePending /\ Records' = Records
      BY <2>3 DEF Live, LivePending, Records, InState
    <3>2. LiveBytes' = LiveBytes
      BY <2>3, <3>1, LiveBytesIs, LiveBytesNext
    <3> QED
      BY <3>1, <3>2 DEF WithinBudget
  <2> QED
    BY <2>1, <2>2, <2>3, AgingFits, ReservationFits DEF OneRow
<1> QED
  BY <1>1, <1>2, InvCorrect, PTL DEF Spec

-----------------------------------------------------------------------------
(* Resuming.                                                               *)

(* Only resume opens the gate of a process that goes on.                   *)
LEMMA OnlyResumeOpens ==
    ASSUME GateTypes, Step, paused = TRUE \/ memory = TRUE, up = TRUE, up' = TRUE,
           paused' = FALSE, memory' = FALSE
    PROVE  ResumeClears
<1>1. CASE Untouched
  BY <1>1 DEF Untouched, catalog
<1>2. CASE Written
  BY <1>2 DEF Written
<1>3. CASE Closed
  BY <1>3 DEF Closed, Block
<1>4. CASE IncidentSet
  BY <1>4 DEF IncidentSet, process
<1>5. CASE Open \/ Crash \/ IOFails
  BY <1>5 DEF Open, Crash, IOFails
<1> QED
  BY <1>1, <1>2, <1>3, <1>4, <1>5, StepGates

(* The gate opens on what the operator has seen, with no intent left.      *)
THEOREM ResumesAreReviewed == Spec => ResumeIsReviewed
<1>1. Inv /\ [Next]_vars =>
        [(paused \/ memory) /\ up /\ up' /\ ~(paused' \/ memory') =>
           seen /\ InState({"writing", "evicting"}) = {}]_vars
  <2> SUFFICES ASSUME Inv, Inv', Next, paused \/ memory, up, up', ~(paused' \/ memory')
               PROVE  seen /\ InState({"writing", "evicting"}) = {}
    BY NextInv
  <2>1. /\ paused = TRUE \/ memory = TRUE
        /\ up = TRUE /\ up' = TRUE /\ paused' = FALSE /\ memory' = FALSE
    BY DEF Inv, GateTypes
  <2>2. ResumeClears
    <3>1. CASE Step
      BY <2>1, <3>1, OnlyResumeOpens DEF Inv
    <3>2. CASE Status
      BY <2>1, <3>2 DEF Status, process
    <3> QED
      BY <3>1, <3>2 DEF Next
  <2>3. fresh /\ op.at = "reconcile" /\ op.todo = {}
    BY <2>2 DEF ResumeClears
  <2>4. \A k \in Artifacts : row[k].state \notin Intents
    BY <2>1, <2>3, NothingLeft DEF Inv, Calls, Writing
  <2> QED
    BY <2>3, <2>4 DEF Inv, InState, Intents
<1> QED
  BY <1>1, InvCorrect, PTL DEF Spec, ResumeIsReviewed

=============================================================================
