--------------------------- MODULE SupervisorProofs ---------------------------
(***************************************************************************)
(* Proofs about module Supervisor, for both functions, any size of queue   *)
(* and pipes, any limits, any amount of output and any number of faults.   *)
(***************************************************************************)
EXTENDS Supervisor, FunctionTheorems, SequenceTheorems, FiniteSetTheorems, TLAPS

-----------------------------------------------------------------------------
(* How many blocks of a stream are in a queue.                             *)

DataAt(m, s) == {i \in 1 .. Len(m) : m[i] = <<s, "data">>}
DataIn(m, s) == Cardinality(DataAt(m, s))
One(P) == IF P THEN 1 ELSE 0

LEMMA DataType ==
    ASSUME NEW m \in Seq(Messages), NEW s \in Streams
    PROVE  IsFiniteSet(DataAt(m, s)) /\ DataIn(m, s) \in Nat
<1>1. IsFiniteSet(1 .. Len(m)) /\ DataAt(m, s) \in SUBSET (1 .. Len(m))
  BY FS_Interval DEF DataAt
<1>2. IsFiniteSet(DataAt(m, s))
  BY <1>1, FS_Subset
<1> QED
  BY <1>2, FS_CardinalityType DEF DataIn

LEMMA DataEmpty ==
    ASSUME NEW m \in Seq(Messages), NEW s \in Streams, \A i \in 1 .. Len(m) : m[i][1] # s
    PROVE  DataIn(m, s) = 0
<1>1. DataAt(m, s) = {}
  BY DEF DataAt
<1> QED
  BY <1>1, FS_EmptySet DEF DataIn

LEMMA DataAppend ==
    ASSUME NEW m \in Seq(Messages), NEW e \in Messages, NEW s \in Streams
    PROVE  DataIn(Append(m, e), s) = DataIn(m, s) + One(e = <<s, "data">>)
<1> DEFINE a == Append(m, e)
<1>1. /\ a \in Seq(Messages) /\ Len(a) = Len(m) + 1 /\ Len(m) \in Nat
      /\ (\A i \in 1 .. Len(m) : a[i] = m[i]) /\ a[Len(m) + 1] = e
  BY AppendProperties
<1> HIDE DEF a
<1>2. CASE e = <<s, "data">>
  <2>1. DataAt(a, s) = DataAt(m, s) \cup {Len(m) + 1} /\ Len(m) + 1 \notin DataAt(m, s)
    BY <1>1, <1>2 DEF DataAt
  <2> QED
    BY <1>2, <2>1, DataType, FS_AddElement DEF DataIn, One, a
<1>3. CASE e # <<s, "data">>
  <2>0. 1 .. Len(a) = 1 .. Len(m) \cup {Len(m) + 1}
    BY <1>1
  <2>1. DataAt(a, s) = DataAt(m, s)
    BY <1>1, <1>3, <2>0 DEF DataAt
  <2> QED
    BY <1>3, <2>1, DataType DEF DataIn, One, a
<1> QED
  BY <1>2, <1>3

LEMMA DataTail ==
    ASSUME NEW m \in Seq(Messages), m # <<>>, NEW s \in Streams
    PROVE  DataIn(m, s) = DataIn(Tail(m), s) + One(Head(m) = <<s, "data">>)
<1> DEFINE t == Tail(m)
           rest == DataAt(m, s) \ {1}
           f == [i \in DataAt(t, s) |-> i + 1]
<1>1. /\ t \in Seq(Messages) /\ Len(t) = Len(m) - 1 /\ Len(m) \in Nat \ {0} /\ Len(t) \in Nat
      /\ \A i \in 1 .. Len(t) : t[i] = m[i + 1]
  BY HeadTailProperties, EmptySeq
<1>2. Head(m) = m[1]
  OBVIOUS
<1> HIDE DEF t
<1>3. f \in Bijection(DataAt(t, s), rest)
  <2>1. \A i \in DataAt(t, s) : i + 1 \in rest
    BY <1>1 DEF DataAt
  <2>2. \A j \in rest : j - 1 \in DataAt(t, s) /\ f[j - 1] = j
    BY <1>1, SMTT(30) DEF DataAt
  <2>3. \A i, j \in DataAt(t, s) : f[i] = f[j] => i = j
    BY <1>1 DEF DataAt
  <2> HIDE DEF f, rest
  <2>4. f \in [DataAt(t, s) -> rest]
    BY <2>1 DEF f
  <2> QED
    BY <2>2, <2>3, <2>4, Fun_IsBij
<1>4. Cardinality(rest) = DataIn(t, s)
  BY <1>1, <1>3, DataType, FS_Bijection, Fun_ExistsBij DEF DataIn
<1>5. Cardinality(DataAt(m, s)) = Cardinality(rest) + One(1 \in DataAt(m, s))
  BY DataType, FS_RemoveElement, FS_CardinalityType DEF One, DataIn
<1>6. 1 \in DataAt(m, s) <=> Head(m) = <<s, "data">>
  BY <1>1, <1>2 DEF DataAt
<1> QED
  BY <1>4, <1>5, <1>6 DEF DataIn, One, t

-----------------------------------------------------------------------------
(* Types.                                                                  *)

(* What neither the caller, the queue nor a thread does.                   *)
SystemStep(s) ==
    \/ Write(s) \/ CloseStream(s) \/ (\E h \in {{}, open} : Fork(h)) \/ ChildExits \/ HeirLeaves
    \/ HeirExits
    \/ CancelIsWanted \/ DeadlinePasses
Thread(s) == Reader(s) \/ ReadFails(s)

LEMMA Steps ==
    ASSUME Next
    PROVE  \/ \E s \in Streams : SystemStep(s)
           \/ \E s \in Streams : Thread(s)
           \/ Caller
  BY DEF Next, SystemStep, Thread, Streams

LEMMA TypeInit == Init => TypeOK
<1> SUFFICES ASSUME Init PROVE TypeOK
  OBVIOUS
<1>1. caller \in Callers
  BY DEF Init, Callers, Stages, Outcomes, Streams
<1>2. q \in Seq(Messages) /\ Len(q) <= QueueSize
  BY SizesAssumption DEF Init
<1>3. /\ pipe \in [Streams -> 0 .. PipeSize] /\ sent \in [Streams -> 0 .. MaxBlocks]
      /\ faults \in 0 .. MaxFaults
  BY SizesAssumption, SupervisorBoundsAssumption DEF Init
<1>4. reader \in [Streams -> Tags \cup {"none", "read", "done"}]
  BY DEF Init
<1> QED
  BY <1>1, <1>2, <1>3, <1>4 DEF Init, TypeOK

LEMMA SystemType == ASSUME TypeOK, NEW s \in Streams, SystemStep(s) PROVE TypeOK'
<1>1. CASE Write(s)
  <2>a. pipe \in [Streams -> 0 .. PipeSize] /\ PipeSize \in Nat
    BY SizesAssumption DEF TypeOK
  <2>b. pipe[s] < PipeSize /\ pipe' = [pipe EXCEPT ![s] = pipe[s] + 1]
    BY <1>1 DEF Write
  <2>c. pipe[s] + 1 \in 0 .. PipeSize
    BY <2>a, <2>b
  <2>1. pipe' \in [Streams -> 0 .. PipeSize]
    BY <2>a, <2>b, <2>c
  <2>2. sent["stdout"] \in Nat /\ sent["stderr"] \in Nat /\ (s = "stdout" \/ s = "stderr")
    BY DEF TypeOK, Streams
  <2>3. sent[s] + 1 \in 0 .. MaxBlocks
    BY <1>1, <2>2, SupervisorBoundsAssumption DEF Write, TypeOK
  <2>4. sent' \in [Streams -> 0 .. MaxBlocks]
    BY <1>1, <2>3 DEF Write, TypeOK
  <2> QED
    BY <1>1, <2>1, <2>4 DEF Write, TypeOK
<1>2. CASE CloseStream(s)
  BY <1>2 DEF CloseStream, TypeOK
<1>3. CASE \E h \in {{}, open} : Fork(h)
  BY <1>3 DEF Fork, TypeOK
<1>4. CASE ChildExits
  BY <1>4 DEF ChildExits, TypeOK
<1>5. CASE HeirLeaves \/ HeirExits
  BY <1>5 DEF HeirLeaves, HeirExits, TypeOK
<1>6. CASE CancelIsWanted
  BY <1>6 DEF CancelIsWanted, TypeOK, system
<1>7. CASE DeadlinePasses
  BY <1>7 DEF DeadlinePasses, TypeOK, system
<1> QED
  BY <1>1, <1>2, <1>3, <1>4, <1>5, <1>6, <1>7 DEF SystemStep

LEMMA ThreadType == ASSUME TypeOK, NEW s \in Streams, Thread(s) PROVE TypeOK'
<1>1. CASE Read(s)
  BY <1>1, SizesAssumption DEF Read, TypeOK, Tags
<1>2. CASE ReadEnds(s)
  BY <1>2 DEF ReadEnds, TypeOK, Tags, system
<1>3. CASE ReadFails(s)
  BY <1>3, SupervisorBoundsAssumption DEF ReadFails, TypeOK, Tags, system
<1>4. CASE Put(s)
  <2>1. <<s, reader[s]>> \in Messages
    BY <1>4 DEF Put, Messages
  <2>2. q' \in Seq(Messages) /\ Len(q') = Len(q) + 1
    BY <1>4, <2>1, AppendProperties DEF Put, TypeOK
  <2>3. After(reader[s]) \in {"read", "eof", "done"}
    BY <1>4 DEF Put, After, Tags
  <2>4. reader' \in [Streams -> Tags \cup {"none", "read", "done"}]
    BY <1>4, <2>3 DEF Put, TypeOK, Tags
  <2>5. Len(q') <= QueueSize
    BY <1>4, <2>2, SizesAssumption, LenProperties DEF Put, TypeOK
  <2> QED
    BY <1>4, <2>2, <2>4, <2>5 DEF Put, TypeOK, system
<1>5. CASE GiveUp(s)
  BY <1>5 DEF GiveUp, TypeOK, system
<1> QED
  BY <1>1, <1>2, <1>3, <1>4, <1>5 DEF Thread, Reader


LEMMA TakeType ==
    ASSUME TypeOK, Take
    PROVE  /\ q' \in Seq(Messages) /\ Len(q') <= QueueSize
           /\ Head(q) \in Messages /\ Head(q)[1] \in Streams /\ Head(q)[2] \in Tags
<1>1. Head(q) \in Messages /\ Tail(q) \in Seq(Messages) /\ Len(Tail(q)) = Len(q) - 1
  BY HeadTailProperties DEF TypeOK, Take
<1>2. Len(q) \in Nat
  BY LenProperties DEF TypeOK
<1> QED
  BY <1>1, <1>2, SizesAssumption DEF Take, TypeOK, Messages

LEMMA CallerType == ASSUME TypeOK, Caller PROVE TypeOK'
<1>1. CASE Spawn
  BY <1>1 DEF Spawn, TypeOK, Callers, Stages, Tags, Streams
<1>2. CASE SpawnFails
  <2>1. caller' \in Callers
    BY <1>2 DEF SpawnFails, TypeOK, Callers, Stages, Outcomes
  <2> QED
    BY <1>2, <2>1 DEF SpawnFails, CallerOnly, system, TypeOK
<1>3. CASE LoopEnds
  <2>1. caller' \in Callers
    BY <1>3 DEF LoopEnds, TypeOK, Callers, Stages, Outcomes
  <2> QED
    BY <1>3, <2>1 DEF LoopEnds, CallerOnly, system, TypeOK
<1>4. CASE LoopGoesOn
  <2>1. caller' \in Callers
    BY <1>4 DEF LoopGoesOn, TypeOK, Callers, Stages
  <2> QED
    BY <1>4, <2>1 DEF LoopGoesOn, CallerOnly, system, TypeOK
<1>5. CASE CancelTest
  <2>1. caller \in Callers
    BY DEF TypeOK
  <2>2. \/ caller' = [caller EXCEPT !.at = "stop", !.outcome = "CANCELLED"]
        \/ caller' = [caller EXCEPT !.at = "terminate", !.next = "deadline", !.cancelled = TRUE]
        \/ caller' = [caller EXCEPT !.at = "deadline"]
    BY <1>5 DEF CancelTest, Raise
  <2>3. caller' \in Callers
    BY <2>1, <2>2, ZenonT(30) DEF Callers, Stages, Outcomes
  <2> QED
    BY <1>5, <2>3 DEF CancelTest, CallerOnly, system, TypeOK
<1>6. CASE DeadlineTest
  <2>1. caller \in Callers
    BY DEF TypeOK
  <2>2. \/ caller' = [caller EXCEPT !.at = "stop", !.outcome = "PROCESS_TIMEOUT"]
        \/ caller' = [caller EXCEPT !.at = "terminate", !.next = "get", !.timed_out = TRUE]
        \/ caller' = [caller EXCEPT !.at = "get"]
    BY <1>6 DEF DeadlineTest, Raise
  <2>3. caller' \in Callers
    BY <2>1, <2>2, ZenonT(30) DEF Callers, Stages, Outcomes
  <2> QED
    BY <1>6, <2>3 DEF DeadlineTest, CallerOnly, system, TypeOK
<1>7. CASE Terminate
  <2>1. caller' \in Callers
    BY <1>7, ZenonT(30) DEF Terminate, TypeOK, Callers, Stages
  <2> QED
    BY <1>7, <2>1 DEF Terminate, TypeOK
<1>8. CASE GetTimesOut
  <2>1. caller' \in Callers
    BY <1>8 DEF GetTimesOut, TypeOK, Callers, Stages
  <2> QED
    BY <1>8, <2>1 DEF GetTimesOut, CallerOnly, system, TypeOK
<1>9. CASE GetEof \/ GetError \/ GetData
  <2>0. Take
    BY <1>9 DEF GetEof, GetError, GetData
  <2>1. caller' \in Callers
    <3>1. CASE GetEof
      <4>1. caller.eof \cup {Head(q)[1]} \in SUBSET Streams
        BY <2>0, TakeType DEF TypeOK, Callers
      <4> QED
        BY <3>1, <4>1, ZenonT(30) DEF GetEof, TypeOK, Callers, Stages
    <3>2. CASE GetError
      <4>1. caller.gaps \cup {Head(q)[1]} \in SUBSET Streams
        BY <2>0, TakeType DEF TypeOK, Callers
      <4> QED
        <5>1. caller \in Callers
          BY DEF TypeOK
        <5>2. \/ caller' = [caller EXCEPT !.at = "stop", !.outcome = "PIPE_FAILED"]
              \/ caller' = [caller EXCEPT !.at = "head", !.gaps = @ \cup {Head(q)[1]}]
          BY <3>2 DEF GetError, Raise
        <5> QED
          BY <4>1, <5>1, <5>2, ZenonT(30) DEF Callers, Stages, Outcomes
    <3>3. CASE GetData
      <4> DEFINE s == Head(q)[1]
                 more == [caller.got EXCEPT ![s] = @ + 1]
      <4>1. s \in Streams /\ caller.got \in [Streams -> Nat]
        BY <2>0, TakeType DEF TypeOK, Callers
      <4>2. more \in [Streams -> Nat]
        BY <4>1
      <4>3. \/ caller' = [caller EXCEPT !.at = "stop", !.outcome = "OUTPUT_LIMIT"]
            \/ caller' = [caller EXCEPT !.at = "head", !.got = more]
        BY <3>3 DEF GetData, Raise
      <4> HIDE DEF more
      <4> QED
        BY <4>2, <4>3, ZenonT(30) DEF TypeOK, Callers, Stages, Outcomes
    <3> QED
      BY <1>9, <3>1, <3>2, <3>3
  <2> QED
    BY <2>0, <2>1, TakeType DEF Take, system, TypeOK
<1>10. CASE SetStop
  <2>1. caller' \in Callers
    BY <1>10 DEF SetStop, TypeOK, Callers, Stages
  <2> QED
    BY <1>10, <2>1 DEF SetStop, system, TypeOK
<1>11. CASE KillGroup
  <2>1. caller' \in Callers
    BY <1>11 DEF KillGroup, TypeOK, Callers, Stages
  <2> QED
    BY <1>11, <2>1 DEF KillGroup, TypeOK
<1> QED
  BY <1>1, <1>2, <1>3, <1>4, <1>5, <1>6, <1>7, <1>8, <1>9, <1>10, <1>11 DEF Caller

LEMMA TypeStep == TypeOK /\ [Next]_vars => TypeOK'
<1> SUFFICES ASSUME TypeOK, [Next]_vars PROVE TypeOK'
  OBVIOUS
<1>1. CASE UNCHANGED vars
  BY <1>1 DEF vars, system, TypeOK
<1> QED
  BY <1>1, Steps, SystemType, ThreadType, CallerType

(* The variables keep their types.                                         *)
THEOREM TypeCorrect == Spec => []TypeOK
  BY TypeInit, TypeStep, PTL DEF Spec

-----------------------------------------------------------------------------
(* The stages of a call.                                                   *)

(* Before the child is spawned nothing has happened.                       *)
Fresh ==
    caller.at = "start" =>
      /\ child = "none" /\ heir = "none" /\ open = {} /\ held = {}
      /\ q = <<>> /\ ~stop
      /\ caller.outcome = "none" /\ caller.eof = {} /\ ~caller.cancelled /\ ~caller.timed_out
      /\ \A s \in Streams : /\ pipe[s] = 0 /\ sent[s] = 0 /\ caller.got[s] = 0
                            /\ reader[s] = "none"

(* Only collect_command terminates the child and goes on; only run_bounded *)
(* has a finally clause; the outcome is known once the loop is left.       *)
Ways ==
    /\ caller.at = "terminate" => kind = "collect" /\ caller.next \in {"deadline", "get"}
    /\ caller.at \in {"stop", "kill"} => kind = "bounded"
    /\ caller.outcome = "none" <=> caller.at \notin {"stop", "kill", "ended"}
    /\ stop => caller.outcome # "none"

(* The reasons for a kill are there when it comes.                         *)
Truthful ==
    kind = "collect" =>
      /\ caller.at = "terminate" \/ child = "killed" => caller.cancelled \/ caller.timed_out
      /\ caller.cancelled => wanted
      /\ caller.timed_out => late /\ child \notin {"none", "exited"}

(* run_bounded never keeps more than the limit, and kills at its end.      *)
Bounded ==
    kind = "bounded" =>
      /\ \A s \in Streams : caller.got[s] <= Limit[s]
      /\ caller.at = "ended" => ~Running /\ heir # "inside"

(* The end of a stream is the last thing its reader puts.                  *)
LastIsEof(s) ==
    /\ s \in caller.eof => reader[s] = "done" /\ \A i \in 1 .. Len(q) : q[i][1] # s
    /\ \A i \in 1 .. Len(q) : q[i] = <<s, "eof">> =>
         reader[s] = "done" /\ \A j \in 1 .. Len(q) : j > i => q[j][1] # s

Undisturbed == caller.outcome \in {"none", "result"}

(* A reader ends when nothing can come any more, or with an error put.     *)
Exhausted(s) ==
    Undisturbed /\ reader[s] \in {"eof", "done"} =>
      \/ pipe[s] = 0 /\ ~Writable(s)
      \/ \E i \in 1 .. Len(q) : q[i] = <<s, "error">>
      \/ s \in caller.gaps

(* Every block is in the pipe, with the reader, in the queue or received.  *)
Counted(s) ==
    Undisturbed =>
      sent[s] = pipe[s] + One(reader[s] = "data") + DataIn(q, s) + caller.got[s]

Ended == caller.outcome = "result" => caller.eof = Streams

LEMMA StageSystem ==
    ASSUME TypeOK, Fresh, Ways, NEW s \in Streams, SystemStep(s)
    PROVE  (Fresh /\ Ways)'
<1>1. CASE Write(s)
  BY <1>1 DEF Write, Writable, Fresh, Ways, TypeOK
<1>2. CASE CloseStream(s)
  BY <1>2 DEF CloseStream, system, Fresh, Ways, TypeOK, Callers
<1>3. CASE \E h \in {{}, open} : Fork(h)
  BY <1>3 DEF Fork, system, Fresh, Ways, TypeOK, Callers
<1>4. CASE ChildExits
  BY <1>4 DEF ChildExits, system, Fresh, Ways, TypeOK, Callers
<1>5. CASE HeirLeaves \/ HeirExits
  BY <1>5 DEF HeirLeaves, HeirExits, system, Fresh, Ways, TypeOK, Callers
<1>6. CASE CancelIsWanted
  BY <1>6 DEF CancelIsWanted, system, Fresh, Ways, TypeOK, Callers
<1>7. CASE DeadlinePasses
  BY <1>7 DEF DeadlinePasses, system, Fresh, Ways, TypeOK, Callers
<1> QED
  BY <1>1, <1>2, <1>3, <1>4, <1>5, <1>6, <1>7 DEF SystemStep

LEMMA StageThread ==
    ASSUME TypeOK, Fresh, Ways, NEW s \in Streams, Thread(s)
    PROVE  (Fresh /\ Ways)'
<1>1. CASE Read(s)
  BY <1>1 DEF Read, system, Fresh, Ways, TypeOK, Callers
<1>2. CASE ReadEnds(s)
  BY <1>2 DEF ReadEnds, system, Fresh, Ways, TypeOK, Callers
<1>3. CASE ReadFails(s)
  BY <1>3 DEF ReadFails, system, Fresh, Ways, TypeOK, Callers
<1>4. CASE Put(s)
  BY <1>4 DEF Put, Tags, system, Fresh, Ways, TypeOK
<1>5. CASE GiveUp(s)
  BY <1>5 DEF GiveUp, system, Fresh, Ways, TypeOK, Callers
<1> QED
  BY <1>1, <1>2, <1>3, <1>4, <1>5 DEF Thread, Reader

LEMMA StageCaller ==
    ASSUME TypeOK, Fresh, Ways, Caller
    PROVE  (Fresh /\ Ways)'
<1>1. CASE Spawn
  BY <1>1 DEF Spawn, system, Fresh, Ways, TypeOK, Callers
<1>2. CASE SpawnFails
  BY <1>2 DEF SpawnFails, CallerOnly, system, Fresh, Ways, TypeOK, Callers
<1>3. CASE LoopEnds
  <2>1. /\ caller'.at = (IF kind = "collect" THEN "ended" ELSE "stop")
        /\ caller'.outcome = "result" /\ kind \in {"collect", "bounded"}
    BY <1>3, KindsAssumption DEF LoopEnds, TypeOK, Callers
  <2>2. UNCHANGED <<kind, child, heir, open, held, q, stop>>
    BY <1>3 DEF LoopEnds, CallerOnly, system
  <2> QED
    BY <1>3, <2>1, <2>2 DEF LoopEnds, Fresh, Ways
<1>4. CASE LoopGoesOn
  BY <1>4 DEF LoopGoesOn, CallerOnly, system, Fresh, Ways, TypeOK, Callers
<1>5. CASE CancelTest
  <2>1. \/ /\ caller'.at = "stop" /\ caller'.outcome = "CANCELLED" /\ kind = "bounded"
        \/ /\ caller'.at = "terminate" /\ caller'.outcome = caller.outcome
           /\ caller'.next = "deadline" /\ kind = "collect"
        \/ caller'.at = "deadline" /\ caller'.outcome = caller.outcome
    BY <1>5, KindsAssumption DEF CancelTest, Raise, TypeOK, Callers
  <2>2. UNCHANGED <<kind, child, heir, open, held, q, stop>>
    BY <1>5 DEF CancelTest, CallerOnly, system
  <2> QED
    BY <1>5, <2>1, <2>2 DEF CancelTest, Fresh, Ways
<1>6. CASE DeadlineTest
  <2>1. \/ /\ caller'.at = "stop" /\ caller'.outcome = "PROCESS_TIMEOUT" /\ kind = "bounded"
        \/ /\ caller'.at = "terminate" /\ caller'.outcome = caller.outcome
           /\ caller'.next = "get" /\ kind = "collect"
        \/ caller'.at = "get" /\ caller'.outcome = caller.outcome
    BY <1>6, KindsAssumption DEF DeadlineTest, Overdue, Raise, TypeOK, Callers
  <2>2. UNCHANGED <<kind, child, heir, open, held, q, stop>>
    BY <1>6, KindsAssumption DEF DeadlineTest, CallerOnly, system
  <2> QED
    BY <1>6, <2>1, <2>2 DEF DeadlineTest, Fresh, Ways
<1>7. CASE Terminate
  BY <1>7 DEF Terminate, Running, system, Fresh, Ways, TypeOK, Callers
<1>8. CASE GetTimesOut
  BY <1>8 DEF GetTimesOut, CallerOnly, system, Fresh, Ways, TypeOK, Callers
<1>9. CASE GetEof
  <2>1. caller'.at = "head" /\ caller'.outcome = caller.outcome
    BY <1>9 DEF GetEof, TypeOK, Callers
  <2>2. caller.at = "get" /\ UNCHANGED <<kind, stop>>
    BY <1>9 DEF GetEof, Take
  <2> QED
    BY <2>1, <2>2 DEF Fresh, Ways
<1>10. CASE GetError
  <2>1. \/ caller'.at = "head" /\ caller'.outcome = caller.outcome
        \/ caller'.at = "stop" /\ caller'.outcome = "PIPE_FAILED" /\ kind = "bounded"
    BY <1>10 DEF GetError, Raise, TypeOK, Callers
  <2>2. caller.at = "get" /\ UNCHANGED <<kind, stop>>
    BY <1>10 DEF GetError, Take
  <2> QED
    BY <2>1, <2>2 DEF Fresh, Ways
<1>11. CASE GetData
  <2>1. \/ caller'.at = "head" /\ caller'.outcome = caller.outcome
        \/ caller'.at = "stop" /\ caller'.outcome = "OUTPUT_LIMIT" /\ kind = "bounded"
    BY <1>11 DEF GetData, Raise, TypeOK, Callers
  <2>2. caller.at = "get" /\ UNCHANGED <<kind, stop>>
    BY <1>11 DEF GetData, Take
  <2> QED
    BY <2>1, <2>2 DEF Fresh, Ways
<1>12. CASE SetStop
  BY <1>12 DEF SetStop, system, Fresh, Ways, TypeOK, Callers
<1>13. CASE KillGroup
  BY <1>13 DEF KillGroup, Running, system, Fresh, Ways, TypeOK, Callers
<1> QED
  BY <1>1, <1>2, <1>3, <1>4, <1>5, <1>6, <1>7, <1>8, <1>9, <1>10, <1>11, <1>12, <1>13 DEF Caller

LEMMA TruthSystem ==
    ASSUME TypeOK, Fresh, Ways, Truthful, NEW s \in Streams, SystemStep(s)
    PROVE  Truthful'
<1>1. CASE Write(s)
  BY <1>1 DEF Write, system, Fresh, Ways, Truthful, TypeOK, Callers
<1>2. CASE CloseStream(s)
  BY <1>2 DEF CloseStream, system, Fresh, Ways, Truthful, TypeOK, Callers
<1>3. CASE \E h \in {{}, open} : Fork(h)
  BY <1>3 DEF Fork, system, Fresh, Ways, Truthful, TypeOK, Callers
<1>4. CASE ChildExits
  BY <1>4 DEF ChildExits, system, Fresh, Ways, Truthful, TypeOK, Callers
<1>5. CASE HeirLeaves \/ HeirExits
  BY <1>5 DEF HeirLeaves, HeirExits, system, Fresh, Ways, Truthful, TypeOK, Callers
<1>6. CASE CancelIsWanted
  BY <1>6 DEF CancelIsWanted, system, Fresh, Ways, Truthful, TypeOK, Callers
<1>7. CASE DeadlinePasses
  BY <1>7 DEF DeadlinePasses, system, Fresh, Ways, Truthful, TypeOK, Callers
<1> QED
  BY <1>1, <1>2, <1>3, <1>4, <1>5, <1>6, <1>7 DEF SystemStep

LEMMA TruthThread ==
    ASSUME TypeOK, Fresh, Ways, Truthful, NEW s \in Streams, Thread(s)
    PROVE  Truthful'
<1>1. CASE Read(s)
  BY <1>1 DEF Read, system, Fresh, Ways, Truthful, TypeOK, Callers
<1>2. CASE ReadEnds(s)
  BY <1>2 DEF ReadEnds, system, Fresh, Ways, Truthful, TypeOK, Callers
<1>3. CASE ReadFails(s)
  BY <1>3 DEF ReadFails, system, Fresh, Ways, Truthful, TypeOK, Callers
<1>4. CASE Put(s)
  BY <1>4 DEF Put, system, Fresh, Ways, Truthful, TypeOK, Callers
<1>5. CASE GiveUp(s)
  BY <1>5 DEF GiveUp, system, Fresh, Ways, Truthful, TypeOK, Callers
<1> QED
  BY <1>1, <1>2, <1>3, <1>4, <1>5 DEF Thread, Reader

LEMMA TruthCaller ==
    ASSUME TypeOK, Fresh, Ways, Truthful, Caller
    PROVE  Truthful'
<1>1. CASE Spawn
  BY <1>1 DEF Spawn, system, Fresh, Ways, Truthful, TypeOK, Callers
<1>2. CASE SpawnFails
  BY <1>2 DEF SpawnFails, CallerOnly, system, Fresh, Ways, Truthful, TypeOK, Callers
<1>3. CASE LoopEnds
  BY <1>3 DEF LoopEnds, CallerOnly, EndOfAll, Running, system, Fresh, Ways, Truthful, TypeOK, Callers
<1>4. CASE LoopGoesOn
  BY <1>4 DEF LoopGoesOn, CallerOnly, system, Fresh, Ways, Truthful, TypeOK, Callers
<1>5. CASE CancelTest
  BY <1>5 DEF CancelTest, CallerOnly, Raise, Running, system, Fresh, Ways, Truthful, TypeOK, Callers
<1>6. CASE DeadlineTest
  BY <1>6 DEF DeadlineTest, CallerOnly, Raise, Overdue, Running, system, Fresh, Ways, Truthful, TypeOK, Callers
<1>7. CASE Terminate
  BY <1>7 DEF Terminate, Running, system, Fresh, Ways, Truthful, TypeOK, Callers
<1>8. CASE GetTimesOut
  BY <1>8 DEF GetTimesOut, CallerOnly, system, Fresh, Ways, Truthful, TypeOK, Callers
<1>9. CASE GetEof
  BY <1>9 DEF GetEof, Take, system, Fresh, Ways, Truthful, TypeOK, Callers
<1>10. CASE GetError
  BY <1>10 DEF GetError, Take, Raise, system, Fresh, Ways, Truthful, TypeOK, Callers
<1>11. CASE GetData
  BY <1>11 DEF GetData, Take, Raise, WithinLimit, system, Fresh, Ways, Truthful, TypeOK, Callers
<1>12. CASE SetStop
  BY <1>12 DEF SetStop, system, Fresh, Ways, Truthful, TypeOK, Callers
<1>13. CASE KillGroup
  BY <1>13 DEF KillGroup, Running, system, Fresh, Ways, Truthful, TypeOK, Callers
<1> QED
  BY <1>1, <1>2, <1>3, <1>4, <1>5, <1>6, <1>7, <1>8, <1>9, <1>10, <1>11, <1>12, <1>13 DEF Caller

LEMMA BoundSystem ==
    ASSUME TypeOK, Fresh, Ways, Bounded, NEW s \in Streams, SystemStep(s)
    PROVE  Bounded'
<1>1. CASE Write(s)
  BY <1>1 DEF Write, system, Fresh, Ways, Bounded, Running, TypeOK, Callers
<1>2. CASE CloseStream(s)
  BY <1>2 DEF CloseStream, system, Fresh, Ways, Bounded, Running, TypeOK, Callers
<1>3. CASE \E h \in {{}, open} : Fork(h)
  BY <1>3 DEF Fork, system, Fresh, Ways, Bounded, Running, TypeOK, Callers
<1>4. CASE ChildExits
  BY <1>4 DEF ChildExits, system, Fresh, Ways, Bounded, Running, TypeOK, Callers
<1>5. CASE HeirLeaves \/ HeirExits
  BY <1>5 DEF HeirLeaves, HeirExits, system, Fresh, Ways, Bounded, Running, TypeOK, Callers
<1>6. CASE CancelIsWanted
  BY <1>6 DEF CancelIsWanted, system, Fresh, Ways, Bounded, Running, TypeOK, Callers
<1>7. CASE DeadlinePasses
  BY <1>7 DEF DeadlinePasses, system, Fresh, Ways, Bounded, Running, TypeOK, Callers
<1> QED
  BY <1>1, <1>2, <1>3, <1>4, <1>5, <1>6, <1>7 DEF SystemStep

LEMMA BoundThread ==
    ASSUME TypeOK, Fresh, Ways, Bounded, NEW s \in Streams, Thread(s)
    PROVE  Bounded'
<1>1. CASE Read(s)
  BY <1>1 DEF Read, system, Fresh, Ways, Bounded, Running, TypeOK, Callers
<1>2. CASE ReadEnds(s)
  BY <1>2 DEF ReadEnds, system, Fresh, Ways, Bounded, Running, TypeOK, Callers
<1>3. CASE ReadFails(s)
  BY <1>3 DEF ReadFails, system, Fresh, Ways, Bounded, Running, TypeOK, Callers
<1>4. CASE Put(s)
  BY <1>4 DEF Put, system, Fresh, Ways, Bounded, Running, TypeOK, Callers
<1>5. CASE GiveUp(s)
  BY <1>5 DEF GiveUp, system, Fresh, Ways, Bounded, Running, TypeOK, Callers
<1> QED
  BY <1>1, <1>2, <1>3, <1>4, <1>5 DEF Thread, Reader

LEMMA BoundCaller ==
    ASSUME TypeOK, Fresh, Ways, Bounded, Caller
    PROVE  Bounded'
<1>1. CASE Spawn
  BY <1>1 DEF Spawn, system, Fresh, Ways, Bounded, Running, TypeOK, Callers
<1>2. CASE SpawnFails
  BY <1>2 DEF SpawnFails, CallerOnly, system, Fresh, Ways, Bounded, Running, TypeOK, Callers
<1>3. CASE LoopEnds
  BY <1>3 DEF LoopEnds, CallerOnly, EndOfAll, Running, system, Fresh, Ways, Bounded, Running, TypeOK, Callers
<1>4. CASE LoopGoesOn
  BY <1>4 DEF LoopGoesOn, CallerOnly, system, Fresh, Ways, Bounded, Running, TypeOK, Callers
<1>5. CASE CancelTest
  BY <1>5 DEF CancelTest, CallerOnly, Raise, Running, system, Fresh, Ways, Bounded, Running, TypeOK, Callers
<1>6. CASE DeadlineTest
  BY <1>6 DEF DeadlineTest, CallerOnly, Raise, Overdue, Running, system, Fresh, Ways, Bounded, Running, TypeOK, Callers
<1>7. CASE Terminate
  BY <1>7 DEF Terminate, Running, system, Fresh, Ways, Bounded, Running, TypeOK, Callers
<1>8. CASE GetTimesOut
  BY <1>8 DEF GetTimesOut, CallerOnly, system, Fresh, Ways, Bounded, Running, TypeOK, Callers
<1>9. CASE GetEof
  BY <1>9 DEF GetEof, Take, system, Fresh, Ways, Bounded, Running, TypeOK, Callers
<1>10. CASE GetError
  BY <1>10 DEF GetError, Take, Raise, system, Fresh, Ways, Bounded, Running, TypeOK, Callers
<1>11. CASE GetData
  <2>1. Head(q)[1] \in Streams /\ caller.got \in [Streams -> Nat]
    BY <1>11, TakeType DEF GetData, TypeOK, Callers
  <2>2. \/ caller'.got = caller.got /\ caller'.at = "stop"
        \/ /\ caller'.got = [caller.got EXCEPT ![Head(q)[1]] = @ + 1] /\ caller'.at = "head"
           /\ kind = "bounded" => WithinLimit(Head(q)[1])
    BY <1>11 DEF GetData, Raise, TypeOK, Callers
  <2>3. kind' = kind
    BY <1>11 DEF GetData, Take
  <2> QED
    BY <2>1, <2>2, <2>3 DEF WithinLimit, Bounded
<1>12. CASE SetStop
  BY <1>12 DEF SetStop, system, Fresh, Ways, Bounded, Running, TypeOK, Callers
<1>13. CASE KillGroup
  BY <1>13 DEF KillGroup, Running, system, Fresh, Ways, Bounded, Running, TypeOK, Callers
<1> QED
  BY <1>1, <1>2, <1>3, <1>4, <1>5, <1>6, <1>7, <1>8, <1>9, <1>10, <1>11, <1>12, <1>13 DEF Caller

-----------------------------------------------------------------------------
(* The account of the blocks, stream by stream.                            *)

Account(s) == LastIsEof(s) /\ Exhausted(s) /\ Counted(s)

(* Steps that touch neither the blocks, the queue nor a reader.            *)
LEMMA AccountKept ==
    ASSUME TypeOK, NEW s \in Streams, Account(s),
           pipe'[s] = pipe[s], sent'[s] = sent[s], UNCHANGED <<reader, q>>,
           Writable(s)' => Writable(s), Undisturbed' => Undisturbed,
           caller'.eof = caller.eof, caller'.gaps = caller.gaps, caller'.got = caller.got
    PROVE  Account(s)'
<1>1. LastIsEof(s)'
  BY DEF Account, LastIsEof
<1>2. Exhausted(s)'
  BY DEF Account, Exhausted
<1>3. DataIn(q, s)' = DataIn(q, s)
  BY DEF DataIn, DataAt
<1>4. Counted(s)'
  BY <1>3 DEF Account, Counted
<1> QED
  BY <1>1, <1>2, <1>4 DEF Account

LEMMA AccountSystem ==
    ASSUME TypeOK, NEW r \in Streams, SystemStep(r), NEW s \in Streams, Account(s)
    PROVE  Account(s)'
<1>0. UNCHANGED <<reader, q, caller>>
  BY DEF SystemStep, Write, CloseStream, Fork, ChildExits, HeirLeaves, HeirExits, CancelIsWanted,
         DeadlinePasses, system
<1>1. CASE Write(r) /\ r = s
  <2>1. /\ pipe'[s] = pipe[s] + 1 /\ sent'[s] = sent[s] + 1 /\ Writable(s)
        /\ pipe[s] \in Nat /\ sent[s] \in Nat
    BY <1>1, SizesAssumption, SupervisorBoundsAssumption DEF Write, TypeOK
  <2>2. LastIsEof(s)'
    BY <1>0 DEF Account, LastIsEof
  <2>3. Exhausted(s)'
    BY <1>0, <2>1 DEF Account, Exhausted, Undisturbed
  <2>4. DataIn(q, s)' = DataIn(q, s) /\ DataIn(q, s) \in Nat
    BY <1>0, DataType DEF DataIn, DataAt, TypeOK
  <2>5. caller.got[s] \in Nat /\ One(reader[s] = "data") \in Nat
    BY DEF TypeOK, Callers, One
  <2>6. Counted(s)'
    BY <1>0, <2>1, <2>4, <2>5 DEF Account, Counted, Undisturbed
  <2> QED
    BY <2>2, <2>3, <2>6 DEF Account
<1>2. CASE ~(Write(r) /\ r = s)
  <2>1. pipe'[s] = pipe[s] /\ sent'[s] = sent[s]
    BY <1>2 DEF SystemStep, Write, CloseStream, Fork, ChildExits, HeirLeaves, HeirExits, CancelIsWanted,
                DeadlinePasses, system, TypeOK
  <2>2. Writable(s)' => Writable(s)
    BY DEF SystemStep, Write, CloseStream, Fork, ChildExits, HeirLeaves, HeirExits, CancelIsWanted,
           DeadlinePasses, system, Writable
  <2> QED
    BY <1>0, <2>1, <2>2, AccountKept DEF Undisturbed
<1> QED
  BY <1>1, <1>2

(* A reader puts a message at the end of the queue.                        *)
LEMMA AccountPut ==
    ASSUME TypeOK, NEW r \in Streams, Put(r), NEW s \in Streams, Account(s)
    PROVE  Account(s)'
<1> DEFINE e == <<r, reader[r]>>
<1>0. /\ UNCHANGED <<pipe, sent, open, held, caller>> /\ reader[r] \in Tags
      /\ q' = Append(q, e) /\ e \in Messages /\ q \in Seq(Messages)
      /\ reader'[r] = After(reader[r]) /\ (s # r => reader'[s] = reader[s])
  BY DEF Put, system, TypeOK, Messages
<1>1. /\ Len(q) \in Nat /\ Len(q') = Len(q) + 1 /\ q'[Len(q) + 1] = e
      /\ \A i \in 1 .. Len(q) : q'[i] = q[i]
  BY <1>0, AppendProperties
<1>2. e = <<r, reader[r]>> /\ e[1] = r /\ e[2] = reader[r]
  OBVIOUS
<1> HIDE DEF e
<1>3. DataIn(q', s) = DataIn(q, s) + One(e = <<s, "data">>) /\ DataIn(q, s) \in Nat
  BY <1>0, DataAppend, DataType
<1>4. LastIsEof(s)'
  <2>1. CASE s = r
    <3>1. reader[s] # "done" /\ (reader[s] = "eof" => reader'[s] = "done")
      BY <1>0, <2>1 DEF Tags, After
    <3>2. s \notin caller.eof /\ \A i \in 1 .. Len(q) : q[i] # <<s, "eof">>
      BY <3>1 DEF Account, LastIsEof
    <3> QED
      BY <1>0, <1>1, <1>2, <2>1, <3>1, <3>2, SMTT(30) DEF LastIsEof
  <2>2. CASE s # r
    BY <1>0, <1>1, <1>2, <2>2, SMTT(30) DEF Account, LastIsEof
  <2> QED
    BY <2>1, <2>2
<1>5. Exhausted(s)'
  <2>1. (Undisturbed' <=> Undisturbed) /\ (Writable(s)' <=> Writable(s))
    BY <1>0 DEF Undisturbed, Writable
  <2>2. (\E i \in 1 .. Len(q) : q[i] = <<s, "error">>) =>
          (\E i \in 1 .. Len(q') : q'[i] = <<s, "error">>)
    BY <1>1
  <2>3. CASE s = r
    <3>1. CASE reader[r] = "data"
      BY <1>0, <2>3, <3>1 DEF After, Exhausted
    <3>2. CASE reader[r] = "error"
      BY <1>1, <1>2, <2>3, <3>2 DEF Exhausted
    <3>3. CASE reader[r] = "eof"
      BY <1>0, <2>1, <2>2, <2>3, <3>3 DEF Exhausted, Account
    <3> QED
      BY <1>0, <3>1, <3>2, <3>3 DEF Tags
  <2>4. CASE s # r
    BY <1>0, <2>1, <2>2, <2>4 DEF Exhausted, Account
  <2> QED
    BY <2>3, <2>4
<1>6. Counted(s)'
  <2>1. One(e = <<s, "data">>) + One(reader'[s] = "data") = One(reader[s] = "data")
    BY <1>0, <1>2 DEF One, After, Tags
  <2>2. /\ pipe[s] \in Nat /\ sent[s] \in Nat /\ caller.got[s] \in Nat
        /\ One(e = <<s, "data">>) \in Nat /\ One(reader'[s] = "data") \in Nat
        /\ One(reader[s] = "data") \in Nat
    BY SizesAssumption, SupervisorBoundsAssumption DEF TypeOK, Callers, One
  <2> QED
    BY <1>0, <1>3, <2>1, <2>2 DEF Account, Counted, Undisturbed
<1> QED
  BY <1>4, <1>5, <1>6 DEF Account

LEMMA AccountThread ==
    ASSUME TypeOK, Ways, Ended, NEW r \in Streams, Thread(r), Account(r), NEW s \in Streams, Account(s)
    PROVE  Account(s)'
<1>1. CASE Put(r)
  BY <1>1, AccountPut
<1>2. CASE GiveUp(r)
  <2>1. caller.outcome # "none" /\ reader[r] # "done"
    BY <1>2 DEF GiveUp, Ways, Tags
  <2>2. caller.outcome # "result"
    BY <2>1 DEF Ended, Account, LastIsEof
  <2>3. UNCHANGED <<q, caller>> /\ (reader'[s] = reader[s] \/ reader'[s] = "done")
    BY <1>2 DEF GiveUp, TypeOK
  <2> QED
    BY <2>1, <2>2, <2>3 DEF Account, LastIsEof, Exhausted, Counted, Undisturbed
<1>3. CASE Read(r) \/ ReadEnds(r) \/ ReadFails(r)
  <2>1. /\ UNCHANGED <<q, caller, sent, open, held>> /\ reader[r] = "read"
        /\ reader'[r] \in {"data", "error", "eof"}
    BY <1>3 DEF Read, ReadEnds, ReadFails, system, TypeOK
  <2>2. s # r => reader'[s] = reader[s] /\ pipe'[s] = pipe[s]
    BY <1>3 DEF Read, ReadEnds, ReadFails, system, TypeOK
  <2>3. /\ reader'[r] = "data" => pipe[r] = pipe'[r] + 1
        /\ reader'[r] # "data" => pipe'[r] = pipe[r]
        /\ reader'[r] = "eof" => pipe[r] = 0 /\ ~Writable(r)
        /\ pipe[s] \in Nat /\ pipe'[s] \in Nat
    <3>0. \A t \in Streams : pipe[t] \in Nat /\ pipe[t] >= 0
      BY SizesAssumption DEF TypeOK
    <3>1. CASE Read(r)
      <4>1. reader'[r] = "data" /\ pipe[r] > 0 /\ pipe'[r] = pipe[r] - 1
            /\ (s # r => pipe'[s] = pipe[s])
        BY <3>1 DEF Read, TypeOK
      <4> QED
        BY <3>0, <4>1
    <3>2. CASE ReadEnds(r)
      BY <3>0, <3>2 DEF ReadEnds, system, TypeOK
    <3>3. CASE ReadFails(r)
      BY <3>0, <3>3 DEF ReadFails, system, TypeOK
    <3> QED
      BY <1>3, <3>1, <3>2, <3>3
  <2>4. LastIsEof(s)'
    BY <2>1, <2>2 DEF Account, LastIsEof
  <2>5. Exhausted(s)'
    BY <2>1, <2>2, <2>3 DEF Account, Exhausted, Undisturbed, Writable
  <2>6. DataIn(q, s)' = DataIn(q, s) /\ DataIn(q, s) \in Nat
    BY <2>1, DataType DEF DataIn, DataAt, TypeOK
  <2>7. sent[s] \in Nat /\ caller.got[s] \in Nat
    BY SupervisorBoundsAssumption DEF TypeOK, Callers
  <2>8. Counted(s)'
    BY <2>1, <2>2, <2>3, <2>6, <2>7 DEF Account, Counted, Undisturbed, One
  <2> QED
    BY <2>4, <2>5, <2>8 DEF Account
<1> QED
  BY <1>1, <1>2, <1>3 DEF Thread, Reader


(* The caller takes the first message of the queue.                        *)
LEMMA AccountTake ==
    ASSUME TypeOK, Ways, GetEof \/ GetError \/ GetData, NEW s \in Streams, Account(s)
    PROVE  Account(s)'
<1>0. /\ Take /\ UNCHANGED <<pipe, sent, open, held, reader>>
      /\ q' = Tail(q) /\ q # <<>> /\ q \in Seq(Messages)
  BY DEF GetEof, GetError, GetData, Take, system, TypeOK
<1>1. /\ Len(q) \in Nat \ {0} /\ Len(q') = Len(q) - 1
      /\ \A i \in 1 .. Len(q') : q'[i] = q[i + 1]
  BY <1>0, HeadTailProperties, EmptySeq
<1>2. Head(q) = q[1] /\ Head(q) \in Messages
  BY <1>0, TakeType
<1>3. PICK r \in Streams, tag \in Tags : Head(q) = <<r, tag>>
  BY <1>2 DEF Messages
<1> DEFINE h == Head(q)[1]
<1>h. h = r /\ Head(q)[2] = tag
  BY <1>3
<1>4. DataIn(q, s) = DataIn(q', s) + One(Head(q) = <<s, "data">>) /\ DataIn(q', s) \in Nat
  BY <1>0, DataTail, DataType, TakeType
<1>5. CASE caller'.outcome \notin {"none", "result"}
  <2>0. caller.outcome = "none"
    BY <1>0 DEF Take, Ways
  <2>1. caller'.eof = caller.eof
    <3>1. CASE GetEof
      <4>1. caller'.outcome = caller.outcome
        BY <3>1 DEF GetEof, TypeOK, Callers
      <4> QED
        BY <1>5, <2>0, <4>1
    <3>2. CASE GetError
      BY <3>2 DEF GetError, Raise, TypeOK, Callers
    <3>3. CASE GetData
      BY <3>3 DEF GetData, Raise, TypeOK, Callers
    <3> QED
      BY <3>1, <3>2, <3>3
  <2>2. LastIsEof(s)'
    BY <1>0, <1>1, <2>1 DEF Account, LastIsEof
  <2> QED
    BY <1>5, <2>2 DEF Account, Exhausted, Counted, Undisturbed
<1>6. CASE caller'.outcome \in {"none", "result"}
  <2>0. /\ caller'.outcome = caller.outcome
        /\ caller'.eof = (IF tag = "eof" THEN caller.eof \cup {r} ELSE caller.eof)
        /\ caller'.gaps = (IF tag = "error" THEN caller.gaps \cup {r} ELSE caller.gaps)
        /\ caller'.got = (IF tag = "data" THEN [caller.got EXCEPT ![r] = @ + 1] ELSE caller.got)
    <3>1. CASE GetEof
      BY <1>3, <3>1 DEF GetEof, TypeOK, Callers
    <3>2. CASE GetError
      <4>1. tag = "error" /\ caller'.outcome # "PIPE_FAILED"
        BY <1>3, <1>6, <3>2 DEF GetError, Raise, TypeOK, Callers
      <4>2. \/ caller' = [caller EXCEPT !.at = "stop", !.outcome = "PIPE_FAILED"]
            \/ caller' = [caller EXCEPT !.at = "head", !.gaps = @ \cup {h}]
        BY <3>2 DEF GetError, Raise
      <4> HIDE DEF h
      <4> QED
        BY <1>h, <4>1, <4>2 DEF TypeOK, Callers
    <3>3. CASE GetData
      <4> DEFINE more == [caller.got EXCEPT ![h] = @ + 1]
      <4>1. tag = "data" /\ caller'.outcome # "OUTPUT_LIMIT"
        BY <1>3, <1>6, <3>3 DEF GetData
      <4>2. \/ caller' = [caller EXCEPT !.at = "stop", !.outcome = "OUTPUT_LIMIT"]
            \/ caller' = [caller EXCEPT !.at = "head", !.got = more]
        BY <3>3 DEF GetData, Raise
      <4> HIDE DEF more, h
      <4>3. /\ caller'.outcome = caller.outcome /\ caller'.eof = caller.eof
            /\ caller'.gaps = caller.gaps /\ caller'.got = more
        BY <4>1, <4>2 DEF TypeOK, Callers
      <4> QED
        BY <1>h, <4>1, <4>3 DEF more
    <3> QED
      BY <3>1, <3>2, <3>3
  <2>1. LastIsEof(s)'
    <3>1. tag = "eof" /\ r = s => reader[s] = "done" /\ \A i \in 1 .. Len(q') : q'[i][1] # s
      BY <1>1, <1>2, <1>3 DEF Account, LastIsEof
    <3>2. s \in caller'.eof => reader[s] = "done" /\ \A i \in 1 .. Len(q') : q'[i][1] # s
      BY <1>1, <2>0, <3>1 DEF Account, LastIsEof
    <3>3. \A i \in 1 .. Len(q') : q'[i] = <<s, "eof">> =>
            reader[s] = "done" /\ \A j \in 1 .. Len(q') : j > i => q'[j][1] # s
      <4>1. ASSUME NEW i \in 1 .. Len(q'), q'[i] = <<s, "eof">>
            PROVE  reader[s] = "done" /\ \A j \in 1 .. Len(q') : j > i => q'[j][1] # s
        <5>1. i + 1 \in 1 .. Len(q) /\ q[i + 1] = <<s, "eof">>
          BY <1>1, <4>1
        <5>2. reader[s] = "done" /\ \A j \in 1 .. Len(q) : j > i + 1 => q[j][1] # s
          BY <5>1 DEF Account, LastIsEof
        <5> QED
          BY <1>1, <5>2
      <4> QED
        BY <4>1
    <3> QED
      BY <1>0, <3>2, <3>3 DEF LastIsEof
  <2>2. Exhausted(s)'
    <3>1. ASSUME NEW i \in 1 .. Len(q), q[i] = <<s, "error">>
          PROVE  s \in caller'.gaps \/ \E j \in 1 .. Len(q') : q'[j] = <<s, "error">>
      <4>1. CASE i = 1
        BY <1>2, <1>3, <2>0, <3>1, <4>1
      <4>2. CASE i # 1
        <5>1. i - 1 \in 1 .. Len(q') /\ q'[i - 1] = q[i]
          BY <1>1, <4>2
        <5> QED
          BY <3>1, <5>1
      <4> QED
        BY <4>1, <4>2
    <3>2. s \in caller.gaps => s \in caller'.gaps
      BY <2>0
    <3> QED
      BY <1>0, <2>0, <3>1, <3>2 DEF Account, Exhausted, Undisturbed, Writable
  <2>3. Counted(s)'
    <3>1. One(Head(q) = <<s, "data">>) = One(tag = "data" /\ r = s)
      BY <1>3 DEF One
    <3>2. caller'.got[s] = caller.got[s] + One(tag = "data" /\ r = s)
      BY <2>0 DEF One, TypeOK, Callers
    <3>3. /\ pipe[s] \in Nat /\ sent[s] \in Nat /\ caller.got[s] \in Nat
          /\ One(reader[s] = "data") \in Nat /\ One(tag = "data" /\ r = s) \in Nat
      BY SizesAssumption, SupervisorBoundsAssumption DEF TypeOK, Callers, One
    <3> QED
      <4>1. Undisturbed' =>
              sent[s] = pipe[s] + One(reader[s] = "data") + DataIn(q, s) + caller.got[s]
        BY <2>0 DEF Account, Counted, Undisturbed
      <4>2. Undisturbed' =>
              sent[s] = pipe[s] + One(reader[s] = "data") + DataIn(q', s) + caller'.got[s]
        BY <1>4, <3>1, <3>2, <3>3, <4>1
      <4> QED
        BY <1>0, <4>2 DEF Counted
  <2> QED
    BY <2>1, <2>2, <2>3 DEF Account
<1> QED
  BY <1>5, <1>6

LEMMA AccountSpawn ==
    ASSUME TypeOK, Fresh, Spawn, NEW s \in Streams
    PROVE  Account(s)'
<1>1. /\ q' = <<>> /\ reader'[s] = "read" /\ pipe'[s] = 0 /\ sent'[s] = 0
      /\ caller'.eof = {} /\ caller'.got[s] = 0
  BY DEF Spawn, Fresh, TypeOK, Callers
<1>2. DataIn(q', s) = 0
  <2>1. q' \in Seq(Messages) /\ \A i \in 1 .. Len(q') : q'[i][1] # s
    BY <1>1
  <2> QED
    BY <2>1, DataEmpty
<1>3. LastIsEof(s)' /\ Exhausted(s)'
  BY <1>1 DEF LastIsEof, Exhausted
<1>4. Counted(s)'
  BY <1>1, <1>2 DEF Counted, One
<1> QED
  BY <1>3, <1>4 DEF Account

LEMMA AccountCaller ==
    ASSUME TypeOK, Fresh, Ways, Caller, NEW s \in Streams, Account(s)
    PROVE  Account(s)'
<1>1. CASE Spawn
  BY <1>1, AccountSpawn
<1>2. CASE GetEof \/ GetError \/ GetData
  BY <1>2, AccountTake
<1>3. CASE Terminate \/ KillGroup \/ SetStop
  <2>1. /\ UNCHANGED <<reader, q>> /\ pipe' = pipe /\ sent' = sent /\ (Writable(s)' => Writable(s))
    BY <1>3 DEF Terminate, KillGroup, SetStop, system, Writable
  <2>2. /\ caller'.outcome = caller.outcome /\ caller'.eof = caller.eof
        /\ caller'.gaps = caller.gaps /\ caller'.got = caller.got
    BY <1>3 DEF Terminate, KillGroup, SetStop, TypeOK, Callers
  <2> QED
    BY <2>1, <2>2, AccountKept DEF Undisturbed
<1>4. CASE SpawnFails \/ LoopEnds \/ LoopGoesOn \/ CancelTest \/ DeadlineTest \/ GetTimesOut
  <2>1. UNCHANGED <<reader, q, pipe, sent, open, held>>
    BY <1>4 DEF SpawnFails, LoopEnds, LoopGoesOn, CancelTest, DeadlineTest, GetTimesOut, CallerOnly,
                system
  <2>2. /\ caller'.eof = caller.eof /\ caller'.gaps = caller.gaps /\ caller'.got = caller.got
    BY <1>4 DEF SpawnFails, LoopEnds, LoopGoesOn, CancelTest, DeadlineTest, GetTimesOut, Raise,
                TypeOK, Callers
  <2>3. caller.outcome = "none"
    BY <1>4 DEF SpawnFails, LoopEnds, LoopGoesOn, CancelTest, DeadlineTest, GetTimesOut, Ways
  <2>4. Writable(s)' <=> Writable(s)
    BY <2>1 DEF Writable
  <2> QED
    BY <2>1, <2>2, <2>3, <2>4, AccountKept DEF Undisturbed
<1> QED
  BY <1>1, <1>2, <1>3, <1>4 DEF Caller

LEMMA EndedCaller == ASSUME TypeOK, Ways, Ended, Caller PROVE Ended'
<1>1. CASE Spawn \/ SpawnFails \/ Terminate \/ GetTimesOut \/ LoopGoesOn \/ SetStop \/ KillGroup
  BY <1>1 DEF Spawn, SpawnFails, Terminate, GetTimesOut, LoopGoesOn, SetStop, KillGroup, Ended,
              TypeOK, Callers
<1>2. CASE LoopEnds
  BY <1>2 DEF LoopEnds, EndOfAll, Ended, TypeOK, Callers
<1>3. CASE CancelTest
  BY <1>3 DEF CancelTest, Raise, Ended, TypeOK, Callers
<1>4. CASE DeadlineTest
  BY <1>4 DEF DeadlineTest, Raise, Ended, TypeOK, Callers
<1>5. CASE GetEof \/ GetError \/ GetData
  <2>1. caller.outcome # "result"
    BY <1>5 DEF GetEof, GetError, GetData, Take, Ways
  <2>2. caller'.outcome # "result"
    BY <1>5, <2>1 DEF GetEof, GetError, GetData, Raise, TypeOK, Callers
  <2> QED
    BY <2>2 DEF Ended
<1> QED
  BY <1>1, <1>2, <1>3, <1>4, <1>5 DEF Caller

-----------------------------------------------------------------------------
(* The inductive invariant.                                                *)

Inv ==
    /\ TypeOK /\ Fresh /\ Ways /\ Truthful /\ Bounded
    /\ Ended /\ \A s \in Streams : Account(s)

LEMMA InvInit == Init => Inv
<1> SUFFICES ASSUME Init PROVE Inv
  OBVIOUS
<1>1. TypeOK
  BY TypeInit
<1>2. Fresh /\ Ways /\ Truthful /\ Ended
  BY DEF Init, Fresh, Ways, Truthful, Ended
<1>3. Bounded
  BY SizesAssumption DEF Init, Bounded
<1>4. ASSUME NEW s \in Streams PROVE Account(s)
  <2>1. DataIn(q, s) = 0
    <3>1. q \in Seq(Messages) /\ \A i \in 1 .. Len(q) : q[i][1] # s
      BY DEF Init
    <3> QED
      BY <3>1, DataEmpty
  <2> QED
    BY <2>1 DEF Init, Account, LastIsEof, Exhausted, Counted, One
<1> QED
  BY <1>1, <1>2, <1>3, <1>4 DEF Inv

LEMMA InvStep == Inv /\ [Next]_vars => Inv'
<1> SUFFICES ASSUME Inv, [Next]_vars PROVE Inv'
  OBVIOUS
<1>0. TypeOK'
  BY TypeStep DEF Inv
<1>1. CASE UNCHANGED vars
  <2>1. (Fresh /\ Ways /\ Truthful /\ Bounded /\ Ended)'
    BY <1>1 DEF Inv, vars, system, Fresh, Ways, Truthful, Bounded, Ended, Running
  <2>2. ASSUME NEW s \in Streams PROVE Account(s)'
    BY <1>1, AccountKept DEF Inv, vars, system, Writable, Undisturbed
  <2> QED
    BY <1>0, <2>1, <2>2 DEF Inv
<1>2. ASSUME NEW r \in Streams, SystemStep(r) PROVE Inv'
  <2>1. caller' = caller
    BY <1>2 DEF SystemStep, Write, CloseStream, Fork, ChildExits, HeirLeaves, HeirExits, CancelIsWanted,
                DeadlinePasses, system
  <2>2. Ended'
    BY <2>1 DEF Inv, Ended
  <2> QED
    BY <1>0, <1>2, <2>2, StageSystem, TruthSystem, BoundSystem, AccountSystem DEF Inv
<1>3. ASSUME NEW r \in Streams, Thread(r) PROVE Inv'
  <2>1. caller' = caller
    BY <1>3 DEF Thread, Reader, Read, ReadEnds, ReadFails, Put, GiveUp, system
  <2>2. Ended'
    BY <2>1 DEF Inv, Ended
  <2> QED
    BY <1>0, <1>3, <2>2, StageThread, TruthThread, BoundThread, AccountThread DEF Inv
<1>4. CASE Caller
  BY <1>0, <1>4, StageCaller, TruthCaller, BoundCaller, AccountCaller, EndedCaller DEF Inv
<1> QED
  BY <1>1, <1>2, <1>3, <1>4, Steps

(* The inductive invariant holds of every call.                            *)
THEOREM InvCorrect == Spec => []Inv
  BY InvInit, InvStep, PTL DEF Spec

LEMMA InvImplies == Inv => ResultIsComplete /\ OutcomeIsTruthful /\ NothingLeftBehind
<1> SUFFICES ASSUME Inv PROVE ResultIsComplete /\ OutcomeIsTruthful /\ NothingLeftBehind
  OBVIOUS
<1>1. ASSUME NEW s \in Streams, caller.outcome = "result", s \notin caller.gaps
      PROVE  caller.got[s] = sent[s]
  <2>1. reader[s] = "done" /\ \A i \in 1 .. Len(q) : q[i][1] # s
    BY <1>1 DEF Inv, Ended, Account, LastIsEof
  <2>2. pipe[s] = 0
    BY <1>1, <2>1, SMTT(30) DEF Inv, Account, Exhausted, Undisturbed
  <2>3. DataIn(q, s) = 0
    BY <2>1, DataEmpty DEF Inv, TypeOK
  <2>4. sent[s] = pipe[s] + One(reader[s] = "data") + DataIn(q, s) + caller.got[s]
    BY <1>1 DEF Inv, Account, Counted, Undisturbed
  <2>5. caller.got[s] \in Nat
    BY DEF Inv, TypeOK, Callers
  <2> QED
    BY <2>1, <2>2, <2>3, <2>4, <2>5 DEF One
<1>2. OutcomeIsTruthful
  BY DEF Inv, Truthful, OutcomeIsTruthful
<1>3. NothingLeftBehind
  BY DEF Inv, Bounded, NothingLeftBehind
<1> QED
  BY <1>1, <1>2, <1>3 DEF ResultIsComplete

(* A result has every block the streams carried, in spite of the bounded   *)
(* queue and the two threads, or an event that says a stream was not read  *)
(* to its end.                                                             *)
THEOREM ResultComplete == Spec => []ResultIsComplete
  BY InvCorrect, InvImplies, PTL

(* A collection is killed only for a reason that is given and is real.     *)
THEOREM OutcomeTruthful == Spec => []OutcomeIsTruthful
  BY InvCorrect, InvImplies, PTL

(* run_bounded keeps its limits and leaves no process of its group behind. *)
THEOREM NothingLeft == Spec => []NothingLeftBehind
  BY InvCorrect, InvImplies, PTL

=============================================================================
