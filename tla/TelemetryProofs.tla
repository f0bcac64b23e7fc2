---------------------------- MODULE TelemetryProofs ----------------------------
(***************************************************************************)
(* Proofs about module Telemetry, for any mappings, any states and lengths *)
(* of records, and any number of records, changes and failed reads.        *)
(***************************************************************************)
EXTENDS Telemetry, SequenceTheorems, TLAPS

-----------------------------------------------------------------------------
(* Prefixes.                                                               *)

LEMMA PrefixElements ==
    ASSUME NEW S, NEW u \in Seq(S), NEW v \in Seq(S)
    PROVE  IsPrefix(u, v) <=> Len(u) <= Len(v) /\ \A i \in 1 .. Len(u) : u[i] = v[i]
<1> DEFINE a == SubSeq(u, 1, Len(u))
           b == SubSeq(v, 1, Len(u))
<1>1. Len(u) \in Nat /\ Len(v) \in Nat
  BY LenProperties
<1>2. ASSUME Len(u) <= Len(v)
      PROVE  a = b <=> \A i \in 1 .. Len(u) : u[i] = v[i]
  <2>1. /\ a \in Seq(S) /\ Len(a) = Len(u) /\ \A i \in 1 .. Len(u) : a[i] = u[i]
    BY <1>1, SubSeqProperties, ElementOfSeq
  <2>2. /\ b \in Seq(S) /\ Len(b) = Len(u) /\ \A i \in 1 .. Len(u) : b[i] = v[i]
    <3>1. \A i \in 1 .. Len(u) : v[i] \in S
      BY <1>1, <1>2, ElementOfSeq
    <3> QED
      BY <1>1, <3>1, SubSeqProperties
  <2> HIDE DEF a, b
  <2> QED
    BY <2>1, <2>2, SeqEqual
<1> QED
  BY <1>2 DEF IsPrefix

LEMMA PrefixAppend ==
    ASSUME NEW S, NEW u \in Seq(S), NEW v \in Seq(S), NEW e \in S, IsPrefix(u, v)
    PROVE  IsPrefix(u, Append(v, e))
<1>1. /\ Append(v, e) \in Seq(S) /\ Len(Append(v, e)) = Len(v) + 1
      /\ \A i \in 1 .. Len(v) : Append(v, e)[i] = v[i]
  BY AppendProperties
<1>2. Len(u) \in Nat /\ Len(v) \in Nat /\ Len(u) <= Len(v) /\ \A i \in 1 .. Len(u) : u[i] = v[i]
  BY PrefixElements, LenProperties
<1> HIDE DEF Append
<1> DEFINE w == Append(v, e)
<1>3. w \in Seq(S) /\ Len(u) <= Len(w) /\ \A i \in 1 .. Len(u) : u[i] = w[i]
  BY <1>1, <1>2
<1> HIDE DEF w
<1>4. IsPrefix(u, w)
  BY <1>3, PrefixElements
<1> QED
  BY <1>4 DEF w

LEMMA PrefixSame == ASSUME NEW u PROVE IsPrefix(u, u)
  BY DEF IsPrefix

-----------------------------------------------------------------------------
(* The producer.                                                           *)

(* Every number stays within what the changes account for.                 *)
Sizes ==
    /\ changes <= MaxChanges /\ written <= MaxRecords
    /\ \A j \in Jobs :
         /\ dir[j].meta <= changes + 1 /\ dir[j].files <= changes + 1
         /\ dir[j].file <= dir[j].files /\ (dir[j].file = 0 => dir[j].files = 0)
         /\ Len(dir[j].chain) <= written

ProducerOK ==
    /\ dir \in [Jobs -> Dirs]
    /\ now \in 0 .. MaxTime
    /\ rewritten \subseteq Jobs
    /\ written \in Nat /\ changes \in Nat
    /\ Sizes

LEMMA ProducerInit == Init => ProducerOK
  BY TelemetryBoundsAssumption DEF Init, ProducerOK, Sizes, EmptyDir, Dirs, Numbers

(* A step of the producer changes one directory: its metadata or its       *)
(* status file only grow, or it is a new file, or it was rewritten.        *)
Changed(j, r) ==
    /\ dir' = [dir EXCEPT ![j] = r] /\ now' = now
    /\ rewritten \subseteq rewritten' /\ rewritten' \subseteq Jobs
    /\ written' \in Nat /\ written <= written' /\ written' <= MaxRecords
    /\ changes' \in Nat /\ changes <= changes' /\ changes' <= MaxChanges
    /\ r.meta <= changes' + 1 /\ r.files <= changes' + 1 /\ dir[j].files <= r.files
    /\ r.file <= r.files /\ (r.file = 0 => r.files = 0) /\ Len(r.chain) <= written'
    /\ \/ j \in rewritten'
       \/ /\ dir[j].meta # 0 => r.meta = dir[j].meta
          /\ \/ r.file = dir[j].file /\ r.chain = dir[j].chain
             \/ r.file = dir[j].file /\ \E e \in Records : r.chain = Append(dir[j].chain, e)
             \/ r.file > dir[j].files

LEMMA DirChange ==
    ASSUME ProducerOK, NEW j \in Jobs, NEW r \in Dirs, Changed(j, r)
    PROVE  ProducerOK'
<1>1. dir' \in [Jobs -> Dirs] /\ \A k \in Jobs : dir'[k] = IF k = j THEN r ELSE dir[k]
  BY DEF ProducerOK, Changed
<1>2. ASSUME NEW k \in Jobs
      PROVE  dir[k].meta \in Nat /\ dir[k].files \in Nat /\ Len(dir[k].chain) \in Nat
  <2>1. dir[k].chain \in Seq(Records)
    BY DEF ProducerOK, Dirs
  <2>2. Len(dir[k].chain) \in Nat
    BY <2>1, LenProperties
  <2>3. dir[k] \in Dirs /\ MaxChanges \in Nat
    BY TelemetryBoundsAssumption DEF ProducerOK
  <2> QED
    BY <2>2, <2>3 DEF Dirs, Numbers
<1>3. Sizes'
  <2>1. ASSUME NEW k \in Jobs
        PROVE  /\ dir'[k].meta <= changes' + 1 /\ dir'[k].files <= changes' + 1
               /\ dir'[k].file <= dir'[k].files /\ (dir'[k].file = 0 => dir'[k].files = 0)
               /\ Len(dir'[k].chain) <= written'
    <3>1. CASE k = j
      BY <1>1, <3>1 DEF Changed
    <3>2. CASE k # j
      <4>1. /\ changes \in Nat /\ changes' \in Nat /\ changes <= changes'
            /\ written \in Nat /\ written' \in Nat /\ written <= written'
        BY DEF Changed, ProducerOK
      <4>2. /\ dir[k].meta <= changes + 1 /\ dir[k].files <= changes + 1
            /\ dir[k].file <= dir[k].files /\ (dir[k].file = 0 => dir[k].files = 0)
            /\ Len(dir[k].chain) <= written
        BY DEF ProducerOK, Sizes
      <4> QED
        BY <1>1, <1>2, <3>2, <4>1, <4>2
    <3> QED
      BY <3>1, <3>2
  <2> QED
    BY <2>1 DEF Sizes, Changed
<1> QED
  BY <1>1, <1>3 DEF ProducerOK, Changed

(* A checkpoint that is of use: unless the files of its job were rewritten,*)
(* it was made from this metadata, and from this status file as it was, or *)
(* from one that was rotated away.                                         *)
Good(c, d, w, r) ==
    LET j == c.source.job IN
    /\ c \in Checkpoints
    /\ c.meta # 0 /\ c.file # 0 /\ c.file <= d[j].files /\ Len(c.prefix) <= w
    /\ \/ j \in r
       \/ /\ c.meta = d[j].meta
          /\ c.file # d[j].file \/ IsPrefix(c.prefix, d[j].chain)

(* What a step that changes one directory does to it.                      *)
LEMMA GoodChange ==
    ASSUME ProducerOK, NEW c, Good(c, dir, written, rewritten), NEW j \in Jobs, NEW r \in Dirs,
           Changed(j, r)
    PROVE  Good(c, dir', written', rewritten')
<1> DEFINE k == c.source.job
<1>1. /\ k \in Jobs /\ c \in Checkpoints /\ c.prefix \in Seq(Records) /\ c.file \in Nat
      /\ c.meta # 0 /\ c.file # 0 /\ c.file <= dir[k].files /\ Len(c.prefix) <= written
  BY TelemetryBoundsAssumption DEF Good, Checkpoints, Jobs, Numbers
<1>2. /\ dir'[k] = (IF k = j THEN r ELSE dir[k]) /\ dir[k] \in Dirs
  BY <1>1 DEF ProducerOK, Changed
<1>3. /\ dir[k].files \in Nat /\ dir[k].file \in Nat /\ r.files \in Nat /\ r.file \in Nat
      /\ dir[k].chain \in Seq(Records) /\ Len(c.prefix) \in Nat /\ written \in Nat
  <2>1. written \in Nat /\ MaxChanges \in Nat
    BY TelemetryBoundsAssumption DEF ProducerOK
  <2>2. Len(c.prefix) \in Nat
    BY <1>1, LenProperties
  <2> QED
    BY <1>2, <2>1, <2>2 DEF Dirs, Numbers
<1>4. c.file <= dir'[k].files /\ Len(c.prefix) <= written'
  BY <1>1, <1>2, <1>3 DEF Changed
<1>5. \/ k \in rewritten'
      \/ /\ c.meta = dir'[k].meta
         /\ c.file # dir'[k].file \/ IsPrefix(c.prefix, dir'[k].chain)
  <2>1. CASE k \in rewritten' \/ k # j
    BY <1>2, <2>1 DEF Good, Changed
  <2>2. CASE k \notin rewritten' /\ k = j
    <3>1. /\ c.meta = dir[k].meta
          /\ c.file # dir[k].file \/ IsPrefix(c.prefix, dir[k].chain)
      BY <2>2 DEF Good, Changed
    <3>2. c.meta = r.meta
      BY <1>1, <2>2, <3>1 DEF Changed
    <3>3. CASE r.file = dir[j].file /\ r.chain = dir[j].chain
      BY <1>2, <2>2, <3>1, <3>2, <3>3
    <3>4. CASE r.file = dir[j].file /\ \E e \in Records : r.chain = Append(dir[j].chain, e)
      <4>1. IsPrefix(c.prefix, dir[k].chain) => IsPrefix(c.prefix, r.chain)
        BY <1>1, <1>3, <2>2, <3>4, PrefixAppend
      <4> QED
        BY <1>2, <2>2, <3>1, <3>2, <3>4, <4>1
    <3>5. CASE r.file > dir[j].files
      BY <1>1, <1>2, <1>3, <2>2, <3>2, <3>5
    <3> QED
      BY <2>2, <3>3, <3>4, <3>5 DEF Changed
  <2> QED
    BY <2>1, <2>2
<1> QED
  BY <1>1, <1>4, <1>5 DEF Good

(* What the reader relies on.                                              *)
Kept ==
    /\ ProducerOK'
    /\ rewritten \subseteq rewritten'
    /\ \A j \in Jobs : dir[j].meta # 0 => j \in rewritten' \/ dir'[j].meta = dir[j].meta
    /\ \A c : Good(c, dir, written, rewritten) => Good(c, dir', written', rewritten')

LEMMA ChangeKeeps ==
    ASSUME ProducerOK, NEW j \in Jobs, NEW r \in Dirs, Changed(j, r)
    PROVE  Kept
<1>1. \A k \in Jobs : dir'[k] = IF k = j THEN r ELSE dir[k]
  BY DEF ProducerOK, Changed
<1> QED
  BY <1>1, DirChange, GoodChange DEF Changed, Kept

LEMMA ProduceStep == ASSUME ProducerOK, Produce PROVE Kept
<1>0. /\ written \in Nat /\ changes \in Nat /\ MaxChanges \in Nat /\ MaxRecords \in Nat
      /\ changes <= MaxChanges /\ written <= MaxRecords
  BY TelemetryBoundsAssumption DEF ProducerOK, Sizes
<1>d. ASSUME NEW j \in Jobs
      PROVE  /\ dir[j] \in Dirs /\ dir[j].meta \in Nat /\ dir[j].file \in Nat /\ dir[j].files \in Nat
             /\ dir[j].chain \in Seq(Records) /\ Len(dir[j].chain) \in Nat
             /\ dir[j].meta <= changes + 1 /\ dir[j].files <= changes + 1
             /\ dir[j].file <= dir[j].files /\ (dir[j].file = 0 => dir[j].files = 0)
             /\ Len(dir[j].chain) <= written
  <2>1. dir[j] \in Dirs
    BY DEF ProducerOK
  <2>2. /\ dir[j].meta \in Nat /\ dir[j].file \in Nat /\ dir[j].files \in Nat
        /\ dir[j].chain \in Seq(Records)
    BY <1>0, <2>1 DEF Dirs, Numbers
  <2> QED
    BY <2>1, <2>2, LenProperties DEF ProducerOK, Sizes
<1>1. ASSUME NEW j \in Jobs, NEW e \in Records, AppendRecord(j, e)
      PROVE  Kept
  <2> DEFINE r == [dir[j] EXCEPT !.chain = Append(dir[j].chain, e)]
  <2>1. /\ dir' = [dir EXCEPT ![j] = r]
        /\ written' = written + 1 /\ written < MaxRecords /\ UNCHANGED <<now, changes, rewritten>>
    BY <1>1 DEF AppendRecord
  <2>2. Append(dir[j].chain, e) \in Seq(Records) /\ Len(Append(dir[j].chain, e)) = Len(dir[j].chain) + 1
    BY <1>d, AppendProperties
  <2>3. /\ r \in Dirs /\ r.meta = dir[j].meta /\ r.file = dir[j].file /\ r.files = dir[j].files
        /\ r.chain = Append(dir[j].chain, e)
    BY <1>d, <2>2 DEF Dirs
  <2> HIDE DEF r
  <2>4. Changed(j, r)
    BY <1>0, <1>d, <2>1, <2>2, <2>3 DEF ProducerOK, Changed
  <2> QED
    BY <2>4, ChangeKeeps, <2>3
<1>2. ASSUME NEW j \in Jobs, WriteCopy(j)
      PROVE  Kept
  <2> DEFINE r == [dir[j] EXCEPT !.copy = Last(dir[j].chain)]
  <2>1. /\ dir' = [dir EXCEPT ![j] = r] /\ UNCHANGED <<now, written, changes, rewritten>>
        /\ dir[j].chain # <<>>
    BY <1>2 DEF WriteCopy
  <2>2. Last(dir[j].chain) \in Records
    BY <1>d, <2>1, EmptySeq, ElementOfSeq DEF Last
  <2>3. /\ r \in Dirs /\ r.meta = dir[j].meta /\ r.file = dir[j].file /\ r.files = dir[j].files
        /\ r.chain = dir[j].chain
    BY <1>d, <2>2 DEF Dirs
  <2> HIDE DEF r
  <2>4. Changed(j, r)
    BY <1>0, <1>d, <2>1, <2>3 DEF ProducerOK, Changed
  <2> QED
    BY <2>4, ChangeKeeps, <2>3
<1>3. ASSUME NEW j \in Jobs, WriteMetadata(j)
      PROVE  Kept
  <2> DEFINE r == [dir[j] EXCEPT !.meta = dir[j].meta + 1]
  <2>1. /\ dir' = [dir EXCEPT ![j] = r] /\ UNCHANGED <<now, written>>
        /\ \/ dir[j].meta = 0 /\ changes' = changes /\ rewritten' = rewritten
           \/ changes < MaxChanges /\ changes' = changes + 1 /\ rewritten' = rewritten \cup {j}
    BY <1>3 DEF WriteMetadata
  <2>2. /\ r \in Dirs /\ r.meta = dir[j].meta + 1 /\ r.file = dir[j].file /\ r.files = dir[j].files
        /\ r.chain = dir[j].chain
    <3>1. dir[j].meta + 1 \in Numbers
      BY <1>0, <1>d, <2>1 DEF Numbers
    <3> QED
      BY <1>d, <3>1 DEF Dirs
  <2> HIDE DEF r
  <2>3. rewritten' \subseteq Jobs /\ changes' \in Nat /\ changes <= changes' /\ changes' <= MaxChanges
        /\ r.meta <= changes' + 1
    BY <1>0, <1>d, <2>1, <2>2 DEF ProducerOK
  <2>4. Changed(j, r)
    BY <1>0, <1>d, <2>1, <2>2, <2>3 DEF Changed
  <2> QED
    BY <2>4, ChangeKeeps, <2>2
<1>4. ASSUME NEW j \in Jobs, NEW f \in Numbers, Rotate(j, f)
      PROVE  Kept
  <2>1. PICK copy \in {None, dir[j].copy} :
          dir' = [dir EXCEPT ![j].file = f, ![j].files = IF f > @ THEN f ELSE @,
                             ![j].chain = <<>>, ![j].valid = TRUE, ![j].copy = copy]
    BY <1>4 DEF Rotate
  <2> DEFINE top == IF f > dir[j].files THEN f ELSE dir[j].files
             r == [dir[j] EXCEPT !.file = f, !.files = top, !.chain = <<>>, !.valid = TRUE,
                                 !.copy = copy]
  <2>2. dir' = [dir EXCEPT ![j] = r]
    BY <1>d, <2>1 DEF ProducerOK, Dirs
  <2>3. /\ UNCHANGED <<now, written>> /\ f \in 1 .. dir[j].files + 1
        /\ \/ dir[j].file = 0 /\ changes' = changes
           \/ dir[j].file # 0 /\ changes < MaxChanges /\ changes' = changes + 1
        /\ rewritten' = IF f <= dir[j].files THEN rewritten \cup {j} ELSE rewritten
    BY <1>4 DEF Rotate
  <2>4. top \in Numbers /\ top >= f /\ top >= dir[j].files /\ top <= changes' + 1
    BY <1>0, <1>d, <2>3 DEF Numbers
  <2>5. copy \in Records \cup {None} /\ <<>> \in Seq(Records)
    BY <1>d DEF Dirs
  <2> HIDE DEF top
  <2>6. /\ r \in Dirs /\ r.meta = dir[j].meta /\ r.file = f /\ r.files = top /\ r.chain = <<>>
    BY <1>d, <2>4, <2>5 DEF Dirs
  <2> HIDE DEF r
  <2>7. /\ rewritten' \subseteq Jobs /\ changes' \in Nat /\ changes <= changes'
        /\ changes' <= MaxChanges /\ f \in Nat /\ f # 0 /\ top \in Nat /\ Len(r.chain) = 0
    BY <1>0, <1>d, <2>3, <2>4, <2>6 DEF ProducerOK, Numbers
  <2>8. j \in rewritten' \/ f > dir[j].files
    BY <1>d, <2>3
  <2>9. Changed(j, r)
    <3>1. /\ r.meta <= changes' + 1 /\ r.files <= changes' + 1 /\ dir[j].files <= r.files
          /\ r.file <= r.files /\ r.file # 0 /\ Len(r.chain) <= written'
      <4>1. dir[j].meta \in Nat /\ dir[j].meta <= changes + 1
        BY <1>d
      <4>2. r.meta <= changes' + 1
        BY <1>0, <2>6, <2>7, <4>1
      <4>3. top >= f /\ top >= dir[j].files /\ top <= changes' + 1 /\ written' = written
        BY <2>3, <2>4
      <4> QED
        <5>1. r.files <= changes' + 1 /\ dir[j].files <= r.files /\ r.file <= r.files
          BY <2>6, <4>3
        <5>2. r.file # 0 /\ Len(r.chain) <= written'
          BY <1>0, <2>6, <2>7, <4>3
        <5> QED
          BY <4>2, <5>1, <5>2
    <3>2. /\ rewritten \subseteq rewritten' /\ written' \in Nat /\ written <= written'
          /\ written' <= MaxRecords /\ now' = now
      BY <1>0, <2>3
    <3>3. j \in rewritten' \/ (r.meta = dir[j].meta /\ r.file > dir[j].files)
      BY <2>6, <2>8
    <3> QED
      BY <2>2, <2>7, <3>1, <3>2, <3>3 DEF Changed
  <2> QED
    BY <2>9, ChangeKeeps, <2>6
<1>5. ASSUME NEW j \in Jobs, NEW n \in 0 .. MaxRecords, Truncate(j, n)
      PROVE  Kept
  <2> DEFINE r == [dir[j] EXCEPT !.chain = SubSeq(dir[j].chain, 1, n)]
  <2>1. /\ dir' = [dir EXCEPT ![j] = r] /\ UNCHANGED <<now, written>> /\ n < Len(dir[j].chain)
        /\ changes < MaxChanges /\ changes' = changes + 1 /\ rewritten' = rewritten \cup {j}
    BY <1>5 DEF Truncate
  <2>2. SubSeq(dir[j].chain, 1, n) \in Seq(Records) /\ Len(SubSeq(dir[j].chain, 1, n)) = n
    <3>1. \A i \in 1 .. n : dir[j].chain[i] \in Records
      BY <1>0, <1>d, <2>1, ElementOfSeq
    <3>2. n \in Nat /\ n \in Int /\ 1 \in Int
      BY <1>0
    <3> QED
      BY <3>1, <3>2, SubSeqProperties
  <2>3. /\ r \in Dirs /\ r.meta = dir[j].meta /\ r.file = dir[j].file /\ r.files = dir[j].files
        /\ r.chain = SubSeq(dir[j].chain, 1, n)
    BY <1>d, <2>2 DEF Dirs
  <2> HIDE DEF r
  <2>4. rewritten' \subseteq Jobs /\ Len(r.chain) <= written /\ changes + 1 \in Nat
    BY <1>0, <1>d, <2>1, <2>2, <2>3 DEF ProducerOK
  <2>5. Changed(j, r)
    BY <1>0, <1>d, <2>1, <2>3, <2>4 DEF Changed
  <2> QED
    BY <2>5, ChangeKeeps, <2>3
<1>6. ASSUME NEW j \in Jobs, Corrupt(j)
      PROVE  Kept
  <2> DEFINE r == [dir[j] EXCEPT !.valid = FALSE]
  <2>1. /\ dir' = [dir EXCEPT ![j] = r] /\ UNCHANGED <<now, written>>
        /\ changes < MaxChanges /\ changes' = changes + 1 /\ rewritten' = rewritten \cup {j}
    BY <1>6 DEF Corrupt
  <2>2. /\ r \in Dirs /\ r.meta = dir[j].meta /\ r.file = dir[j].file /\ r.files = dir[j].files
        /\ r.chain = dir[j].chain
    BY <1>d DEF Dirs
  <2> HIDE DEF r
  <2>3. rewritten' \subseteq Jobs /\ changes + 1 \in Nat
    BY <1>0, <2>1 DEF ProducerOK
  <2>4. Changed(j, r)
    BY <1>0, <1>d, <2>1, <2>2, <2>3 DEF Changed
  <2> QED
    BY <2>4, ChangeKeeps, <2>2
<1>7. ASSUME Tick
      PROVE  Kept
  BY <1>7, TelemetryBoundsAssumption DEF Tick, ProducerOK, Sizes, Kept
<1> QED
  BY <1>1, <1>2, <1>3, <1>4, <1>5, <1>6, <1>7 DEF Produce

-----------------------------------------------------------------------------
(* The reader and its caller.                                              *)

ReaderTypes ==
    /\ reader \in Readers \cup {None}
    /\ poll \in Polls
    /\ batch \in Batches \cup {None}
    /\ retained \subseteq Jobs \X Seq(Records)
    /\ saved \in Checkpoints \cup {None}
    /\ errors \in Nat

GoodOrNone(c, d, w, r) == c = None \/ Good(c, d, w, r)

AllGood(d, w, r) ==
    /\ GoodOrNone(saved, d, w, r)
    /\ GoodOrNone(poll.checkpoint, d, w, r)
    /\ reader \in Readers => GoodOrNone(reader.checkpoint, d, w, r)
    /\ batch \in Batches => GoodOrNone(batch.checkpoint, d, w, r)

Unchanging(m) == m # 0 /\ (Job \in rewritten \/ m = dir[Job].meta)

(* What a poll knows between its reads.                                    *)
PollOK ==
    /\ poll.at # "idle" => reader \in Readers /\ Unchanging(poll.meta)
    /\ poll.at = "copy" =>
         /\ poll.checkpoint \in Checkpoints /\ poll.checkpoint.source = reader.source
         /\ Continues(poll.checkpoint) => IsPrefix(Old.prefix, poll.checkpoint.prefix)

All(c) == Events(c.source.job, c.prefix)

(* What the caller holds of the events that a checkpoint passes over.      *)
Held(c, ret) == c = None \/ All(c) \subseteq ret

Covered ==
    /\ Held(saved, retained)
    /\ reader \in Readers => Held(reader.checkpoint, retained)

BatchAnswers(b, ret) ==
    b.refusals = {} =>
      /\ b.checkpoint \in Checkpoints /\ b.checkpoint.source = reader.source
      /\ Events(b.checkpoint.source.job, SubSeq(b.checkpoint.prefix, 1, b.known)) \subseteq ret
      /\ b.kept => All(b.checkpoint) \subseteq ret
      /\ ~b.replay /\ reader.checkpoint # None =>
           /\ reader.checkpoint.source.job = b.checkpoint.source.job
           /\ IsPrefix(reader.checkpoint.prefix, b.checkpoint.prefix)

BatchRefuses(b, ret) ==
    /\ b.refusals # {} => Held(b.checkpoint, ret)
    /\ b.refusals \cap {"METADATA_CHANGED", "PREFIX_CHANGED"} # {} => Job \in rewritten

BatchOK ==
    batch # None => reader \in Readers /\ BatchAnswers(batch, retained) /\ BatchRefuses(batch, retained)

Inv == ProducerOK /\ ReaderTypes /\ AllGood(dir, written, rewritten) /\ PollOK /\ Covered /\ BatchOK

LEMMA InvInit == Init => Inv
<1> SUFFICES ASSUME Init PROVE Inv
  OBVIOUS
<1>1. ProducerOK
  BY ProducerInit
<1>2. poll \in Polls /\ poll.at = "idle" /\ poll.checkpoint = None
  BY TelemetryBoundsAssumption DEF Init, NoPoll, Polls, Numbers
<1>3. reader \notin Readers /\ batch \notin Batches
  BY NoneAssumption DEF Init
<1> QED
  BY <1>1, <1>2, <1>3 DEF Init, Inv, ReaderTypes, AllGood, GoodOrNone, PollOK, Covered, Held, BatchOK

LEMMA ProduceInv == ASSUME Inv, Produce PROVE Inv'
<1>1. Kept
  BY ProduceStep DEF Inv
<1>2. UNCHANGED <<reader, poll, batch, retained, saved, errors>>
  <2>1. ASSUME NEW j \in Jobs, NEW e \in Records, AppendRecord(j, e) PROVE Others
    BY <2>1 DEF AppendRecord
  <2>2. ASSUME NEW j \in Jobs, WriteCopy(j) \/ WriteMetadata(j) \/ Corrupt(j) PROVE Others
    BY <2>2 DEF WriteCopy, WriteMetadata, Corrupt
  <2>3. ASSUME NEW j \in Jobs, NEW f \in Numbers, Rotate(j, f) PROVE Others
    BY <2>3 DEF Rotate
  <2>4. ASSUME NEW j \in Jobs, NEW n \in 0 .. MaxRecords, Truncate(j, n) PROVE Others
    BY <2>4 DEF Truncate
  <2>5. Tick => Others
    BY DEF Tick
  <2>6. Others
    BY <2>1, <2>2, <2>3, <2>4, <2>5 DEF Produce
  <2> QED
    BY <2>6 DEF Others
<1>3. ProducerOK' /\ ReaderTypes' /\ Covered'
  BY <1>1, <1>2 DEF Inv, Kept, ReaderTypes, Covered
<1>4. AllGood(dir, written, rewritten)'
  BY <1>1, <1>2 DEF Inv, Kept, AllGood, GoodOrNone
<1>5. Job' = Job /\ rewritten \subseteq rewritten'
  BY <1>1, <1>2 DEF Job, Kept
<1>6. PollOK'
  <2>1. ASSUME poll.at # "idle" PROVE reader \in Readers /\ Unchanging(poll.meta)'
    <3>1. reader \in Readers /\ Unchanging(poll.meta)
      BY <2>1 DEF Inv, PollOK
    <3>2. Job \in Jobs
      BY <3>1 DEF Readers, Jobs, Job
    <3> QED
      BY <1>1, <1>2, <1>5, <3>1, <3>2 DEF Kept, Unchanging
  <2> QED
    BY <1>2, <2>1 DEF Inv, PollOK, Continues, Rotated, Truncated, SameJob, Old, Job
<1>7. BatchOK'
  BY <1>2, <1>5 DEF Inv, BatchOK, BatchAnswers, BatchRefuses
<1> QED
  BY <1>3, <1>4, <1>6, <1>7 DEF Inv

(* A poll that is refused proposes the checkpoint it started from.         *)
LEMMA RefusedInv ==
    ASSUME Inv, reader \in Readers, UNCHANGED <<producer, caller>>, errors' \in Nat,
           NEW ref \in SUBSET Codes, ref # {}, Refused(ref),
           ref \cap {"METADATA_CHANGED", "PREFIX_CHANGED"} # {} => Job \in rewritten
    PROVE  Inv'
<1>1. /\ batch' = [refusals |-> ref, known |-> 0, replay |-> FALSE, checkpoint |-> Old, kept |-> FALSE]
      /\ poll' = NoPoll
      /\ UNCHANGED <<dir, now, written, changes, rewritten, reader, retained, saved>>
  BY DEF Refused, producer, caller
<1>2. Old \in Checkpoints \cup {None} /\ Held(Old, retained)
      /\ GoodOrNone(Old, dir, written, rewritten)
  BY DEF Inv, Readers, Old, Covered, AllGood
<1>3. /\ batch' \in Batches /\ batch'.refusals = ref /\ batch'.checkpoint = Old
  BY <1>1, <1>2, TelemetryBoundsAssumption DEF Batches
<1>4. poll' \in Polls /\ poll'.at = "idle" /\ poll'.checkpoint = None
  BY <1>1, TelemetryBoundsAssumption DEF NoPoll, Polls, Numbers
<1>5. ProducerOK' /\ Covered' /\ ReaderTypes'
  BY <1>1, <1>3, <1>4 DEF Inv, ProducerOK, Sizes, Covered, ReaderTypes
<1>6. AllGood(dir, written, rewritten)'
  BY <1>1, <1>2, <1>3, <1>4 DEF Inv, AllGood, GoodOrNone
<1>7. PollOK'
  BY <1>4 DEF PollOK
<1>8. BatchOK'
  BY <1>1, <1>2, <1>3 DEF BatchOK, BatchAnswers, BatchRefuses, Job
<1> QED
  BY <1>5, <1>6, <1>7, <1>8 DEF Inv

(* An answer leaves out only events the caller has.                        *)
LEMMA AnsweredInv ==
    ASSUME Inv, reader \in Readers, UNCHANGED <<producer, caller, errors>>,
           NEW c \in Checkpoints, c.source = reader.source, Good(c, dir, written, rewritten),
           Continues(c) => IsPrefix(Old.prefix, c.prefix), Answered(c)
    PROVE  Inv'
<1> DEFINE k == IF Continues(c) THEN Len(Old.prefix) ELSE 0
           rep == Rotated(c) \/ Truncated(c)
<1>1. /\ batch' = [refusals |-> {}, known |-> k, replay |-> rep, checkpoint |-> c, kept |-> FALSE]
      /\ poll' = NoPoll
      /\ UNCHANGED <<dir, now, written, changes, rewritten, reader, retained, saved, errors>>
  BY DEF Answered, producer, caller
<1>2. Old # None => Old \in Checkpoints /\ Old.prefix \in Seq(Records) /\ All(Old) \subseteq retained
                    /\ Len(Old.prefix) <= written
  BY DEF Inv, Readers, Old, Covered, Held, AllGood, GoodOrNone, Good, Checkpoints
<1>3. Continues(c) => Old # None /\ Old.source.job = Job /\ ~rep
  BY DEF Continues, Rotated, SameJob
<1>4. k \in 0 .. MaxRecords
  <2>1. Old # None => Len(Old.prefix) \in Nat
    BY <1>2, LenProperties
  <2>2. written \in Nat /\ written <= MaxRecords /\ MaxRecords \in Nat
    BY TelemetryBoundsAssumption DEF Inv, ProducerOK, Sizes
  <2> QED
    BY <1>2, <1>3, <2>1, <2>2
<1>5. c.prefix \in Seq(Records)
  BY DEF Checkpoints
<1>6. Events(c.source.job, SubSeq(c.prefix, 1, k)) \subseteq retained
  <2>1. CASE Continues(c)
    <3>1. SubSeq(c.prefix, 1, k) = SubSeq(Old.prefix, 1, Len(Old.prefix))
      BY <2>1 DEF IsPrefix
    <3>2. SubSeq(Old.prefix, 1, Len(Old.prefix)) = Old.prefix
      BY <1>2, <1>3, <2>1, SubSeqFull
    <3>3. c.source.job = Old.source.job
      BY <1>3, <2>1 DEF Job
    <3> QED
      BY <1>2, <1>3, <2>1, <3>1, <3>2, <3>3 DEF All
  <2>2. CASE ~Continues(c)
    <3>1. SubSeq(c.prefix, 1, k) = <<>>
      BY <2>2, SubSeqEmpty
    <3> QED
      <4>1. Events(c.source.job, <<>>) = {}
        BY DEF Events
      <4> QED
        BY <3>1, <4>1
  <2> QED
    BY <2>1, <2>2
<1>7. ~rep /\ Old # None => Continues(c)
  BY DEF Continues
<1>8. rep \in BOOLEAN
  OBVIOUS
<1> HIDE DEF k, rep
<1>9. /\ batch' \in Batches /\ batch'.refusals = {} /\ batch'.checkpoint = c /\ batch'.known = k
      /\ batch'.replay = rep /\ batch'.kept = FALSE
  BY <1>1, <1>4, <1>8 DEF Batches
<1>10. poll' \in Polls /\ poll'.at = "idle" /\ poll'.checkpoint = None
  BY <1>1, TelemetryBoundsAssumption DEF NoPoll, Polls, Numbers
<1>11. ProducerOK' /\ Covered' /\ ReaderTypes'
  BY <1>1, <1>9, <1>10 DEF Inv, ProducerOK, Sizes, Covered, ReaderTypes
<1>12. AllGood(dir, written, rewritten)'
  BY <1>1, <1>9, <1>10 DEF Inv, AllGood, GoodOrNone
<1>13. PollOK'
  BY <1>10 DEF PollOK
<1>14. BatchOK'
  <2>1. BatchAnswers(batch, retained)'
    BY <1>1, <1>3, <1>6, <1>7, <1>9 DEF BatchAnswers, Job, Old
  <2>2. BatchRefuses(batch, retained)'
    BY <1>9 DEF BatchRefuses
  <2> QED
    BY <1>1, <2>1, <2>2 DEF BatchOK
<1> QED
  BY <1>11, <1>12, <1>13, <1>14 DEF Inv

(* The reasons that are given are the ones the code tests for.             *)
LEMMA RefusalsMeaning ==
    ASSUME NEW c
    PROVE  /\ Refusals(c) \in SUBSET Codes
           /\ "METADATA_CHANGED" \in Refusals(c) => MetadataChanged(c)
           /\ "PREFIX_CHANGED" \in Refusals(c) => PrefixChanged(c)
           /\ Refusals(c) = {} => dir[Job].file # 0 /\ ~PrefixChanged(c)
<1> DEFINE A == IF dir[Job].file = 0 THEN {"UNAVAILABLE"} ELSE {}
           B == IF dir[Job].valid THEN {} ELSE {"CHAIN_INVALID"}
           C == IF MetadataChanged(c) THEN {"METADATA_CHANGED"} ELSE {}
           D == IF PrefixChanged(c) THEN {"PREFIX_CHANGED"} ELSE {}
           E == IF Ahead(c) THEN {"CLOCK_SKEW"} ELSE {}
<1>1. Refusals(c) = A \cup B \cup C \cup D \cup E
  BY DEF Refusals
<1> QED
  BY <1>1 DEF Codes

(* The checkpoint that a poll would propose now.                           *)
LEMMA ProposedGood ==
    ASSUME Inv, poll.at = "status"
    PROVE  /\ reader \in Readers /\ Job \in Jobs
           /\ dir[Job].file # 0 => Good(Proposed, dir, written, rewritten)
           /\ Proposed.source = reader.source /\ Proposed.prefix = dir[Job].chain
           /\ Proposed.meta = poll.meta /\ Proposed.file = dir[Job].file
<1>1. reader \in Readers /\ Unchanging(poll.meta)
  BY DEF Inv, PollOK
<1>2. reader.source \in Sources /\ Job \in Jobs
  BY <1>1 DEF Readers, Job, Jobs
<1>3. dir[Job] \in Dirs /\ dir[Job].file <= dir[Job].files /\ Len(dir[Job].chain) <= written
  BY <1>2 DEF Inv, ProducerOK, Sizes
<1>4. poll.meta \in Numbers /\ dir[Job].file \in Numbers /\ dir[Job].chain \in Seq(Records)
  BY <1>3 DEF Inv, ReaderTypes, Polls, Dirs
<1>5. /\ Proposed \in Checkpoints
      /\ Proposed.source = reader.source /\ Proposed.prefix = dir[Job].chain
      /\ Proposed.meta = poll.meta /\ Proposed.file = dir[Job].file
  BY <1>2, <1>4 DEF Proposed, Checkpoints
<1>6. Proposed.source.job = Job
  BY <1>5 DEF Job
<1>7. IsPrefix(Proposed.prefix, dir[Job].chain)
  BY <1>5, PrefixSame
<1> QED
  BY <1>1, <1>2, <1>3, <1>5, <1>6, <1>7 DEF Good, Unchanging

(* Metadata and prefix are found changed only if the files were rewritten. *)
LEMMA ChangeIsReal ==
    ASSUME Inv, poll.at = "status", MetadataChanged(Proposed) \/ PrefixChanged(Proposed)
    PROVE  Job \in rewritten
<1>1. /\ reader \in Readers
      /\ Proposed.prefix = dir[Job].chain
      /\ Proposed.meta = poll.meta /\ Proposed.file = dir[Job].file
  BY ProposedGood
<1>2. Old # None /\ Old.source.job = Job /\ (PrefixChanged(Proposed) => Old.file = Proposed.file)
  BY DEF MetadataChanged, PrefixChanged, Continues, Rotated, SameJob
<1>3. Good(Old, dir, written, rewritten)
  BY <1>1, <1>2 DEF Inv, AllGood, GoodOrNone, Old
<1>4. Job \in rewritten \/ poll.meta = dir[Job].meta
  BY DEF Inv, PollOK, Unchanging
<1>5. ASSUME Job \notin rewritten
      PROVE  Old.meta = dir[Job].meta /\ (Old.file # dir[Job].file \/ IsPrefix(Old.prefix, dir[Job].chain))
  BY <1>2, <1>3, <1>5 DEF Good
<1> QED
  BY <1>1, <1>2, <1>4, <1>5 DEF MetadataChanged, PrefixChanged

LEMMA PollInv == ASSUME Inv, Poll PROVE Inv'
<1>1. CASE MetadataMissing
  <2>1. /\ reader \in Readers /\ UNCHANGED <<producer, caller>> /\ errors' \in Nat
        /\ Refused({"UNAVAILABLE"})
    BY <1>1 DEF MetadataMissing, Idle, ReaderOnly, Inv, ReaderTypes
  <2>2. {"UNAVAILABLE"} \in SUBSET Codes
        /\ {"UNAVAILABLE"} \cap {"METADATA_CHANGED", "PREFIX_CHANGED"} = {}
    BY DEF Codes
  <2> QED
    BY <2>1, <2>2, RefusedInv
<1>2. CASE ReadMetadata
  <2>1. /\ reader \in Readers /\ dir[Job].meta # 0 /\ batch' = None
        /\ poll' = [NoPoll EXCEPT !.at = "status", !.meta = dir[Job].meta]
        /\ UNCHANGED <<dir, now, written, changes, rewritten, reader, retained, saved, errors>>
    BY <1>2 DEF ReadMetadata, Idle, ReaderOnly, producer, caller, Inv, ReaderTypes
  <2>2. Job \in Jobs /\ dir[Job].meta \in Numbers
    BY <2>1 DEF Inv, ProducerOK, Dirs, Readers, Jobs, Job
  <2>3. /\ poll' \in Polls /\ poll'.at = "status" /\ poll'.meta = dir[Job].meta
        /\ poll'.checkpoint = None
    BY <2>1, <2>2 DEF NoPoll, Polls
  <2>4. ProducerOK' /\ ReaderTypes' /\ Covered'
    BY <2>1, <2>3 DEF Inv, ProducerOK, Sizes, ReaderTypes, Covered
  <2>5. AllGood(dir, written, rewritten)'
    BY <2>1, <2>3, NoneAssumption DEF Inv, AllGood, GoodOrNone
  <2>6. PollOK'
    BY <2>1, <2>3 DEF PollOK, Unchanging, Job
  <2>7. BatchOK'
    BY <2>1 DEF BatchOK
  <2> QED
    BY <2>4, <2>5, <2>6, <2>7 DEF Inv
<1>3. CASE StatusRefused
  <2>1. /\ poll.at = "status" /\ Refusals(Proposed) # {} /\ Refused(Refusals(Proposed))
        /\ UNCHANGED <<producer, caller>> /\ errors' \in Nat
    BY <1>3 DEF StatusRefused, ReaderOnly, Inv, ReaderTypes
  <2>2. Refusals(Proposed) \cap {"METADATA_CHANGED", "PREFIX_CHANGED"} # {} => Job \in rewritten
    BY <2>1, RefusalsMeaning, ChangeIsReal
  <2>3. Refusals(Proposed) \in SUBSET Codes /\ reader \in Readers
    BY <2>1, RefusalsMeaning, ProposedGood
  <2> QED
    BY <2>1, <2>2, <2>3, RefusedInv
<1>4. CASE ReadStatus
  <2>1. /\ poll.at = "status" /\ Refusals(Proposed) = {} /\ UNCHANGED <<producer, caller, errors>>
        /\ \/ Answered(Proposed)
           \/ poll' = [poll EXCEPT !.at = "copy", !.checkpoint = Proposed] /\ UNCHANGED batch
    BY <1>4 DEF ReadStatus, ReaderOnly
  <2>2. /\ reader \in Readers /\ Good(Proposed, dir, written, rewritten)
        /\ Proposed \in Checkpoints /\ Proposed.source = reader.source
        /\ Proposed.prefix = dir[Job].chain
    BY <2>1, RefusalsMeaning, ProposedGood DEF Good
  <2>3. Continues(Proposed) => IsPrefix(Old.prefix, Proposed.prefix)
    BY <2>1, RefusalsMeaning DEF PrefixChanged
  <2>4. CASE Answered(Proposed)
    BY <2>1, <2>2, <2>3, <2>4, AnsweredInv
  <2>5. CASE poll' = [poll EXCEPT !.at = "copy", !.checkpoint = Proposed] /\ UNCHANGED batch
    <3> DEFINE p == Proposed
    <3>1. /\ UNCHANGED <<dir, now, written, changes, rewritten, reader, retained, saved, errors, batch>>
          /\ poll \in Polls /\ Unchanging(poll.meta)
      BY <2>1, <2>5 DEF producer, caller, Inv, ReaderTypes, PollOK
    <3> HIDE DEF p
    <3>2. poll' = [poll EXCEPT !.at = "copy", !.checkpoint = p] /\ p \in Checkpoints
      BY <2>2, <2>5 DEF p
    <3>3. /\ poll' \in Polls /\ poll'.at = "copy" /\ poll'.meta = poll.meta
          /\ poll'.checkpoint = p
      BY <3>1, <3>2 DEF Polls
    <3>4. ProducerOK' /\ ReaderTypes' /\ Covered'
      BY <3>1, <3>3 DEF Inv, ProducerOK, Sizes, ReaderTypes, Covered
    <3>5. Good(p, dir, written, rewritten) /\ p.source = reader.source
          /\ (Continues(p) => IsPrefix(Old.prefix, p.prefix))
      BY <2>2, <2>3 DEF p
    <3>6. AllGood(dir, written, rewritten)'
      BY <3>1, <3>3, <3>5 DEF Inv, AllGood, GoodOrNone
    <3>7. PollOK'
      BY <2>2, <3>1, <3>2, <3>3, <3>5
         DEF PollOK, Unchanging, Job, Continues, Rotated, Truncated, SameJob, Old
    <3>8. BatchOK'
      BY <3>1 DEF Inv, BatchOK, BatchAnswers, BatchRefuses, Job
    <3> QED
      BY <3>4, <3>6, <3>7, <3>8 DEF Inv
  <2> QED
    BY <2>1, <2>4, <2>5
<1>5. CASE ReadCopy
  <2>1. /\ poll.at = "copy" /\ UNCHANGED <<producer, caller, errors>>
        /\ Answered(poll.checkpoint) \/ Refused({"RESULT_COPY_MISMATCH"})
    BY <1>5 DEF ReadCopy, ReaderOnly
  <2>2. reader \in Readers /\ errors \in Nat
    BY <2>1 DEF Inv, PollOK, ReaderTypes
  <2>3. CASE Answered(poll.checkpoint)
    <3>1. /\ poll.checkpoint \in Checkpoints /\ poll.checkpoint.source = reader.source
          /\ Continues(poll.checkpoint) => IsPrefix(Old.prefix, poll.checkpoint.prefix)
      BY <2>1 DEF Inv, PollOK
    <3>2. Good(poll.checkpoint, dir, written, rewritten)
      BY <3>1, NoneAssumption DEF Inv, AllGood, GoodOrNone
    <3> QED
      BY <2>1, <2>2, <2>3, <3>1, <3>2, AnsweredInv
  <2>4. CASE Refused({"RESULT_COPY_MISMATCH"})
    <3>1. {"RESULT_COPY_MISMATCH"} \in SUBSET Codes
          /\ {"RESULT_COPY_MISMATCH"} \cap {"METADATA_CHANGED", "PREFIX_CHANGED"} = {}
      BY DEF Codes
    <3> QED
      BY <2>1, <2>2, <2>4, <3>1, RefusedInv
  <2> QED
    BY <2>1, <2>3, <2>4
<1> QED
  BY <1>1, <1>2, <1>3, <1>4, <1>5 DEF Poll

LEMMA ReadFailsInv == ASSUME Inv, ReadFails PROVE Inv'
<1>1. reader \in Readers /\ UNCHANGED <<producer, caller>> /\ Refused({"SOURCE_IO"}) /\ errors' \in Nat
  BY DEF ReadFails, Inv, ReaderTypes
<1>2. {"SOURCE_IO"} \in SUBSET Codes /\ {"SOURCE_IO"} \cap {"METADATA_CHANGED", "PREFIX_CHANGED"} = {}
  BY DEF Codes
<1> QED
  BY <1>1, <1>2, RefusedInv

LEMMA EventsType ==
    ASSUME NEW j \in Jobs, NEW chain \in Seq(Records)
    PROVE  Events(j, chain) \subseteq Jobs \X Seq(Records)
<1>1. ASSUME NEW i \in 1 .. Len(chain)
      PROVE  SubSeq(chain, 1, i) \in Seq(Records)
  <2>1. \A n \in 1 .. i : chain[n] \in Records
    BY LenProperties, ElementOfSeq
  <2>2. 1 \in Int /\ i \in Int
    BY LenProperties
  <2> QED
    BY <2>1, <2>2, SubSeqProperties
<1> QED
  BY <1>1 DEF Events

LEMMA OpenInv == ASSUME Inv, NEW s \in Sources, Open(s) PROVE Inv'
<1>1. /\ reader = None /\ reader' = [source |-> s, checkpoint |-> saved]
      /\ UNCHANGED <<dir, now, written, changes, rewritten, poll, batch, retained, saved, errors>>
  BY DEF Open, producer
<1>2. reader \notin Readers /\ batch = None /\ poll.at = "idle"
  BY <1>1, NoneAssumption DEF Inv, BatchOK, PollOK
<1>3. reader' \in Readers /\ reader'.checkpoint = saved
  BY <1>1 DEF Inv, ReaderTypes, Readers
<1>4. ProducerOK' /\ ReaderTypes' /\ Covered'
  BY <1>1, <1>3 DEF Inv, ProducerOK, Sizes, ReaderTypes, Covered
<1>5. AllGood(dir, written, rewritten)'
  BY <1>1, <1>3 DEF Inv, AllGood, GoodOrNone
<1>6. PollOK' /\ BatchOK'
  BY <1>1, <1>2 DEF PollOK, BatchOK
<1> QED
  BY <1>4, <1>5, <1>6 DEF Inv

LEMMA CrashInv == ASSUME Inv, Crash PROVE Inv'
<1>1. /\ reader' = None /\ poll' = NoPoll /\ batch' = None
      /\ UNCHANGED <<dir, now, written, changes, rewritten, retained, saved, errors>>
  BY DEF Crash, producer
<1>2. poll' \in Polls /\ poll'.at = "idle" /\ poll'.checkpoint = None
  BY <1>1, TelemetryBoundsAssumption DEF NoPoll, Polls, Numbers
<1>3. reader' \notin Readers /\ batch' \notin Batches
  BY <1>1, NoneAssumption
<1>4. ProducerOK' /\ ReaderTypes' /\ Covered'
  BY <1>1, <1>2, <1>3 DEF Inv, ProducerOK, Sizes, ReaderTypes, Covered
<1>5. AllGood(dir, written, rewritten)'
  BY <1>1, <1>2, <1>3 DEF Inv, AllGood, GoodOrNone
<1>6. PollOK' /\ BatchOK'
  BY <1>1, <1>2 DEF PollOK, BatchOK
<1> QED
  BY <1>4, <1>5, <1>6 DEF Inv

(* The new events of a batch, with those left out, are all of them.        *)
LEMMA RetainInv == ASSUME Inv, Retain PROVE Inv'
<1>1. /\ batch \in Batches /\ batch # None /\ poll.at = "idle" /\ retained' = retained \cup Fresh(batch)
      /\ batch' = [batch EXCEPT !.kept = TRUE]
      /\ UNCHANGED <<dir, now, written, changes, rewritten, reader, poll, saved, errors>>
  BY DEF Retain, Idle, producer, Inv, ReaderTypes
<1>2. reader \in Readers /\ BatchAnswers(batch, retained) /\ BatchRefuses(batch, retained)
  BY <1>1 DEF Inv, BatchOK
<1>3. /\ batch' \in Batches /\ batch'.refusals = batch.refusals /\ batch'.known = batch.known
      /\ batch'.replay = batch.replay /\ batch'.checkpoint = batch.checkpoint
  BY <1>1 DEF Batches
<1> DEFINE c == batch.checkpoint
<1>4. ASSUME batch.refusals = {}
      PROVE  /\ retained' \subseteq Jobs \X Seq(Records) /\ retained \subseteq retained'
             /\ BatchAnswers(batch, retained)'
  <2>1. /\ c \in Checkpoints /\ c.source = reader.source
        /\ Events(c.source.job, SubSeq(c.prefix, 1, batch.known)) \subseteq retained
    BY <1>2, <1>4 DEF BatchAnswers
  <2>2. Fresh(batch) = All(c) \ Events(c.source.job, SubSeq(c.prefix, 1, batch.known))
    BY <1>4 DEF Fresh, All
  <2>3. All(c) \subseteq retained'
    BY <1>1, <2>1, <2>2
  <2>4. c.source.job \in Jobs /\ c.prefix \in Seq(Records)
    BY <2>1 DEF Checkpoints, Jobs
  <2>5. All(c) \subseteq Jobs \X Seq(Records)
    BY <2>4, EventsType DEF All
  <2>6. retained' \subseteq Jobs \X Seq(Records)
    BY <1>1, <2>2, <2>5 DEF Inv, ReaderTypes
  <2>7. retained \subseteq retained'
    BY <1>1
  <2>8. BatchAnswers(batch, retained)'
    BY <1>1, <1>2, <1>3, <2>3, <2>7 DEF BatchAnswers
  <2> QED
    BY <2>6, <2>7, <2>8
<1>5. ASSUME batch.refusals # {}
      PROVE  /\ retained' \subseteq Jobs \X Seq(Records) /\ retained \subseteq retained'
             /\ BatchAnswers(batch, retained)'
  <2>1. Fresh(batch) = {}
    BY <1>5 DEF Fresh
  <2>2. retained' = retained
    BY <1>1, <2>1
  <2>3. BatchAnswers(batch, retained)'
    BY <1>3, <1>5 DEF BatchAnswers
  <2> QED
    BY <2>2, <2>3 DEF Inv, ReaderTypes
<1>6. /\ retained' \subseteq Jobs \X Seq(Records) /\ retained \subseteq retained'
      /\ BatchAnswers(batch, retained)'
  BY <1>4, <1>5
<1>7. BatchRefuses(batch, retained)'
  BY <1>1, <1>2, <1>3, <1>6 DEF BatchRefuses, Held, Job
<1>8. ProducerOK' /\ ReaderTypes' /\ Covered'
  BY <1>1, <1>3, <1>6 DEF Inv, ProducerOK, Sizes, ReaderTypes, Covered, Held
<1>9. AllGood(dir, written, rewritten)'
  BY <1>1, <1>3 DEF Inv, AllGood, GoodOrNone
<1>10. PollOK'
  BY <1>1 DEF PollOK
<1>11. BatchOK'
  BY <1>1, <1>2, <1>6, <1>7 DEF BatchOK
<1> QED
  BY <1>8, <1>9, <1>10, <1>11 DEF Inv

(* The checkpoint of a batch that was retained passes over nothing.        *)
LEMMA KeptHeld ==
    ASSUME Inv, batch # None, batch.kept
    PROVE  /\ Held(batch.checkpoint, retained) /\ reader \in Readers /\ batch \in Batches
           /\ batch.checkpoint \in Checkpoints \cup {None}
           /\ GoodOrNone(batch.checkpoint, dir, written, rewritten)
<1>1. reader \in Readers /\ BatchAnswers(batch, retained) /\ BatchRefuses(batch, retained)
  BY DEF Inv, BatchOK
<1>2. Held(batch.checkpoint, retained)
  BY <1>1 DEF BatchAnswers, BatchRefuses, Held
<1>3. batch \in Batches /\ batch.checkpoint \in Checkpoints \cup {None}
  BY DEF Inv, ReaderTypes, Batches
<1> QED
  BY <1>1, <1>2, <1>3 DEF Inv, AllGood

LEMMA SaveInv == ASSUME Inv, Save PROVE Inv'
<1>1. /\ batch # None /\ batch.kept /\ poll.at = "idle" /\ saved' = batch.checkpoint
      /\ UNCHANGED <<dir, now, written, changes, rewritten, reader, poll, batch, retained, errors>>
  BY DEF Save, Idle, producer
<1>2. ProducerOK' /\ ReaderTypes' /\ Covered'
  BY <1>1, KeptHeld DEF Inv, ProducerOK, Sizes, ReaderTypes, Covered
<1>3. AllGood(dir, written, rewritten)'
  BY <1>1, KeptHeld DEF Inv, AllGood
<1>4. PollOK' /\ BatchOK'
  BY <1>1 DEF Inv, PollOK, BatchOK, BatchAnswers, BatchRefuses, Job
<1> QED
  BY <1>2, <1>3, <1>4 DEF Inv

LEMMA AcceptInv == ASSUME Inv, AcceptCheckpoint PROVE Inv'
<1>1. /\ batch # None /\ batch.kept /\ poll.at = "idle" /\ batch.checkpoint # None
      /\ reader' = [reader EXCEPT !.checkpoint = batch.checkpoint]
      /\ UNCHANGED <<dir, now, written, changes, rewritten, poll, batch, retained, saved, errors>>
  BY DEF AcceptCheckpoint, Idle, producer
<1>2. /\ reader \in Readers /\ BatchAnswers(batch, retained) /\ BatchRefuses(batch, retained)
  BY <1>1 DEF Inv, BatchOK
<1>3. reader' \in Readers /\ reader'.checkpoint = batch.checkpoint /\ reader'.source = reader.source
  BY <1>1, <1>2, KeptHeld DEF Readers
<1>4. ProducerOK' /\ ReaderTypes' /\ Covered'
  BY <1>1, <1>3, KeptHeld DEF Inv, ProducerOK, Sizes, ReaderTypes, Covered
<1>5. AllGood(dir, written, rewritten)'
  BY <1>1, <1>3, KeptHeld DEF Inv, AllGood
<1>6. PollOK'
  BY <1>1 DEF PollOK
<1>7. BatchAnswers(batch, retained)'
  BY <1>1, <1>2, <1>3, PrefixSame DEF BatchAnswers
<1>8. BatchRefuses(batch, retained)'
  BY <1>1, <1>2, <1>3 DEF BatchRefuses, Job
<1>9. BatchOK'
  BY <1>1, <1>3, <1>7, <1>8 DEF BatchOK
<1> QED
  BY <1>4, <1>5, <1>6, <1>9 DEF Inv

LEMMA InvStep == Inv /\ [Next]_vars => Inv'
<1> SUFFICES ASSUME Inv, [Next]_vars PROVE Inv'
  OBVIOUS
<1>1. CASE UNCHANGED vars
  <2>1. UNCHANGED <<dir, now, reader, poll, batch, retained, saved, written, changes, rewritten, errors>>
    BY <1>1 DEF vars
  <2>2. ProducerOK' /\ ReaderTypes' /\ Covered' /\ AllGood(dir, written, rewritten)'
    BY <2>1 DEF Inv, ProducerOK, Sizes, ReaderTypes, Covered, AllGood
  <2>3. PollOK'
    BY <2>1 DEF Inv, PollOK, Unchanging, Continues, Rotated, Truncated, SameJob, Old, Job
  <2>4. BatchOK'
    BY <2>1 DEF Inv, BatchOK, BatchAnswers, BatchRefuses, Job
  <2> QED
    BY <2>2, <2>3, <2>4 DEF Inv
<1> QED
  BY <1>1, ProduceInv, PollInv, ReadFailsInv, OpenInv, CrashInv, RetainInv, SaveInv, AcceptInv
     DEF Next

(* The inductive invariant holds of every behaviour.                       *)
THEOREM InvCorrect == Spec => []Inv
  BY InvInit, InvStep, PTL DEF Spec

LEMMA InvImplies == Inv => TypeOK /\ NothingSkipped /\ DiagnosticIsTruthful
<1> SUFFICES ASSUME Inv PROVE TypeOK /\ NothingSkipped /\ DiagnosticIsTruthful
  OBVIOUS
<1>1. TypeOK
  BY DEF Inv, ProducerOK, ReaderTypes, TypeOK
<1>2. NothingSkipped
  <2>1. saved # None => All(saved) \subseteq retained
    BY DEF Inv, Covered, Held
  <2>2. reader # None /\ reader.checkpoint # None => All(reader.checkpoint) \subseteq retained
    BY DEF Inv, Covered, Held, ReaderTypes
  <2>3. batch # None /\ batch.kept /\ batch.refusals = {} => All(batch.checkpoint) \subseteq retained
    BY DEF Inv, BatchOK, BatchAnswers
  <2> QED
    BY <2>1, <2>2, <2>3 DEF NothingSkipped, All
<1>3. DiagnosticIsTruthful
  BY DEF Inv, BatchOK, BatchAnswers, BatchRefuses, DiagnosticIsTruthful
<1> QED
  BY <1>1, <1>2, <1>3

(* The variables keep their types.                                         *)
THEOREM TypeCorrect == Spec => []TypeOK
  BY InvCorrect, InvImplies, PTL

(* No checkpoint ever passes over an event its caller does not have.       *)
THEOREM NothingIsSkipped == Spec => []NothingSkipped
  BY InvCorrect, InvImplies, PTL

(* What a poll says of the file is true.                                   *)
THEOREM DiagnosticsTruthful == Spec => []DiagnosticIsTruthful
  BY InvCorrect, InvImplies, PTL

=============================================================================
