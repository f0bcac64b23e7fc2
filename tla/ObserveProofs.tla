---------------------------- MODULE ObserveProofs ----------------------------
(***************************************************************************)
(* Theorems about Observe, for any worktree, any number of policy          *)
(* revisions and any number of changes.                                    *)
(***************************************************************************)
EXTENDS Observe, TLAPS

-----------------------------------------------------------------------------
(* The surroundings keep the variables in their types.                     *)
LEMMA SurroundingsType == TypeOK /\ Surroundings => TypeOK'
<1> USE ChangesAssumption
<1> SUFFICES ASSUME TypeOK, Surroundings PROVE TypeOK'
  OBVIOUS
<1>1. ASSUME NEW p \in Parts, Write(p) PROVE TypeOK'
  <2>1. changes + 1 \in Versions /\ changes' = changes + 1
    BY <1>1 DEF TypeOK, Write, MayChange, Versions
  <2>2. tree' \in Tree
    BY <1>1, <2>1 DEF TypeOK, Write, Tree
  <2>3. worlds' \subseteq Tree
    BY <1>1, <2>2 DEF TypeOK, Write
  <2> QED
    BY <1>1, <2>1, <2>2, <2>3 DEF TypeOK, Write
<1>2. ASSUME NEW p \in Parts, PutBack(p) PROVE TypeOK'
  <2>1. PICK w \in worlds : tree' = [tree EXCEPT ![p] = w[p]]
    BY <1>2 DEF PutBack
  <2>2. w[p] \in Versions
    BY <2>1 DEF TypeOK, Tree
  <2>3. tree' \in Tree
    BY <2>1, <2>2 DEF TypeOK, Tree
  <2>4. worlds' \subseteq Tree /\ returned' \subseteq Parts
    BY <1>2, <2>3 DEF TypeOK, PutBack
  <2>5. changes' \in Versions
    BY <1>2 DEF TypeOK, PutBack, MayChange, Versions
  <2> QED
    BY <1>2, <2>3, <2>4, <2>5 DEF TypeOK, PutBack
<1>3. ASSUME Rename PROVE TypeOK'
  BY <1>3 DEF TypeOK, Rename, MayChange, Versions
<1>4. ASSUME NEW policy \in Policies, EditPolicy(policy) PROVE TypeOK'
  <2>1. changes' \in Versions /\ edits' \in Nat
    BY <1>4 DEF TypeOK, EditPolicy, MayChange, Versions
  <2>2. withdrawn' \in BOOLEAN
    BY <1>4 DEF EditPolicy
  <2> QED
    BY <1>4, <2>1, <2>2 DEF TypeOK, EditPolicy
<1>5. ASSUME ApprovalLapses PROVE TypeOK'
  BY <1>5 DEF TypeOK, ApprovalLapses
<1>6. ASSUME NEW reason \in Stops, Halt(reason) PROVE TypeOK'
  BY <1>6 DEF TypeOK, Halt, history
<1>7. ASSUME NEW p \in Paths, Imitate(p) PROVE TypeOK'
  <2>1. changes + 1 \in Versions /\ changes' = changes + 1 /\ p \in Parts
    BY <1>7 DEF TypeOK, Imitate, MayChange, Versions, Parts
  <2>2. tree' \in Tree
    BY <1>7, <2>1 DEF TypeOK, Imitate, Tree
  <2>3. worlds' \subseteq Tree /\ returned' \subseteq Parts
    BY <1>7, <2>1, <2>2 DEF TypeOK, Imitate
  <2>4. PICK w \in worlds : signature' = [signature EXCEPT ![changes + 1] = signature[w[p]]]
    BY <1>7 DEF Imitate
  <2>5. signature[w[p]] \in Versions
    BY <2>1, <2>4 DEF TypeOK, Tree
  <2>6. signature' \in [Versions -> Versions]
    BY <2>1, <2>4, <2>5 DEF TypeOK
  <2> QED
    BY <1>7, <2>1, <2>2, <2>3, <2>6 DEF TypeOK, Imitate
<1> QED
  BY <1>1, <1>2, <1>3, <1>4, <1>5, <1>6, <1>7 DEF Surroundings

(* Nothing but obs changes in most steps of the observation.               *)
LEMMA QuietType == TypeOK /\ Quiet /\ obs' \in ObsType => TypeOK'
  BY DEF TypeOK, Quiet, surroundings, history

LEMMA EndType ==
    ASSUME TypeOK, NEW code \in Codes, End(code)
    PROVE  obs' \in ObsType
  BY DEF TypeOK, End, ObsType, Points

LEMMA GotoType ==
    ASSUME TypeOK, NEW point \in Points, Goto(point)
    PROVE  obs' \in ObsType
  BY DEF TypeOK, Goto, ObsType

LEMMA StartScanType ==
    ASSUME TypeOK, NEW point \in Points, StartScan(point)
    PROVE  obs' \in ObsType
  BY DEF TypeOK, StartScan, ObsType

LEMMA ReasonsType == Reason \in Codes /\ ReasonAfterwards \in Codes
  BY DEF Reason, ReasonAfterwards, Codes

(* The observation keeps the variables in their types.                     *)
LEMMA ObservationType == TypeOK /\ Observation => TypeOK'
<1> SUFFICES ASSUME TypeOK, Observation PROVE TypeOK'
  OBVIOUS
<1> USE EndType, GotoType, StartScanType, ReasonsType
<1>1. CASE Start
  <2>1. obs' \in ObsType
    BY <1>1 DEF Start, Points
  <2>2. worlds' \subseteq Tree
    BY <1>1 DEF TypeOK, Start
  <2> QED
    BY <1>1, <2>1, <2>2 DEF TypeOK, Start, surroundings
<1>2. CASE ReadTarget
  <2>1. obs' \in ObsType
    BY <1>2 DEF TypeOK, ReadTarget, ObsType, Points
  <2>2. withdrawn' \in BOOLEAN
    BY <1>2 DEF ReadTarget
  <2> QED
    BY <1>2, <2>1, <2>2 DEF TypeOK, ReadTarget, surroundings
<1>3. CASE EvaluatePolicy
  <2>1. obs' \in ObsType
    BY <1>3 DEF EvaluatePolicy, Points, Codes
  <2> QED
    BY <1>3, <2>1, QuietType DEF EvaluatePolicy
<1>4. CASE Validate
  <2>1. obs' \in ObsType
    BY <1>4 DEF Validate, Points, Codes
  <2> QED
    BY <1>4, <2>1, QuietType DEF Validate
<1>5. CASE ScanEnds
  <2>1. obs' \in ObsType
    BY <1>5 DEF ScanEnds, Points, Codes
  <2> QED
    BY <1>5, <2>1, QuietType DEF ScanEnds
<1>6. CASE StatusEnds
  <2>1. obs' \in ObsType
    BY <1>6 DEF TypeOK, StatusEnds, ObsType, Points
  <2> QED
    BY <1>6, <2>1, QuietType DEF StatusEnds
<1>7. ASSUME NEW p \in Paths, Scan(p) PROVE TypeOK'
  <2>1. CASE stops # {}
    BY <1>7, <2>1, QuietType DEF Scan
  <2>2. CASE stops = {}
    <3>1. p \in Parts /\ signature[tree[p]] \in Versions
      BY DEF TypeOK, Tree, Parts
    <3>2. [obs.seen EXCEPT ![p] = signature[tree[p]]] \in Tree
      BY <3>1 DEF TypeOK, ObsType, Tree
    <3>3. obs.left \ {p} \in SUBSET Paths
      BY DEF TypeOK, ObsType
    <3>4. ASSUME obs.again PROVE obs' \in ObsType
      <4> DEFINE differs == obs.differs \/ signature[tree[p]] # obs.seen[p]
      <4>1. obs' = [obs EXCEPT !.left = obs.left \ {p}, !.differs = differs]
        BY <1>7, <2>2, <3>4 DEF Scan
      <4>2. differs \in BOOLEAN
        BY DEF TypeOK, ObsType
      <4> HIDE DEF differs
      <4> QED
        BY <3>3, <4>1, <4>2 DEF TypeOK, ObsType
    <3>5. ASSUME ~obs.again PROVE obs' \in ObsType
      <4>1. obs' = [obs EXCEPT !.left = obs.left \ {p},
                               !.seen = [obs.seen EXCEPT ![p] = signature[tree[p]]]]
        BY <1>7, <2>2, <3>5 DEF Scan
      <4> QED
        BY <3>2, <3>3, <4>1 DEF TypeOK, ObsType
    <3>6. obs' \in ObsType
      BY <3>4, <3>5
    <3> QED
      BY <1>7, <3>6, QuietType DEF Scan
  <2> QED
    BY <2>1, <2>2
<1>8. ASSUME NEW p \in Paths, Status(p) PROVE TypeOK'
  <2>1. CASE stops # {}
    BY <1>8, <2>1, QuietType DEF Status
  <2>2. CASE stops = {}
    <3>1. tree[p] \in Versions
      BY DEF TypeOK, Tree, Parts
    <3>2. [obs.status EXCEPT ![p] = tree[p]] \in [Paths -> Versions]
      BY <3>1 DEF TypeOK, ObsType
    <3>3. obs' = [obs EXCEPT !.left = obs.left \ {p},
                             !.status = [obs.status EXCEPT ![p] = tree[p]]]
      BY <1>8, <2>2 DEF Status
    <3>4. obs.left \ {p} \in SUBSET Paths
      BY DEF TypeOK, ObsType
    <3>5. obs' \in ObsType
      BY <3>2, <3>3, <3>4 DEF TypeOK, ObsType
    <3> QED
      BY <1>8, <3>5, QuietType DEF Status
  <2> QED
    BY <2>1, <2>2
<1>9. ASSUME NEW part \in {"head", "ref", "index"}, ReadPart(part) PROVE TypeOK'
  <2>1. tree[part] \in Versions /\ part \in Parts
    BY DEF TypeOK, Tree, Parts, Metadata
  <2>2. [obs.seen EXCEPT ![part] = tree[part]] \in Tree
    BY <2>1 DEF TypeOK, ObsType, Tree
  <2>3. AfterPart[part] \in Points
    BY DEF AfterPart, Points
  <2>4. obs' \in ObsType
    BY <1>9, <2>2, <2>3 DEF TypeOK, ReadPart, ObsType
  <2> QED
    BY <1>9, <2>4, QuietType DEF ReadPart
<1>10. ASSUME NEW part \in {"head", "ref", "index"}, ReadPartAgain(part) PROVE TypeOK'
  <2> DEFINE differs == obs.differs \/ tree[part] # obs.seen[part]
  <2>1. AfterPart[part] \in Points /\ differs \in BOOLEAN
    BY DEF AfterPart, Points, TypeOK, ObsType
  <2>2. CASE differs /\ part # "head"
    BY <1>10, <2>2, QuietType DEF ReadPartAgain, Codes
  <2>3. CASE ~(differs /\ part # "head") /\ part = "index"
    BY <1>10, <2>3, QuietType DEF ReadPartAgain, Points
  <2>4. CASE ~(differs /\ part # "head") /\ part # "index"
    <3>1. obs' = [obs EXCEPT !.at = AfterPart[part], !.differs = differs]
      BY <1>10, <2>4 DEF ReadPartAgain
    <3>2. obs' \in ObsType
      BY <2>1, <3>1 DEF TypeOK, ObsType
    <3> QED
      BY <1>10, <3>2, QuietType DEF ReadPartAgain
  <2> QED
    BY <2>2, <2>3, <2>4
<1>11. CASE Verify
  BY <1>11, QuietType DEF Verify, RequestStopped, Points, Codes
<1>12. CASE Fetch
  <2>1. obs \in ObsType /\ remote \in BOOLEAN
    BY DEF TypeOK
  <2>2. CASE stops # {}
    BY <1>12, <2>2, QuietType DEF Fetch, RequestStopped
  <2>3. CASE stops = {}
    <3>1. obs' = [obs EXCEPT !.at = "verify", !.again = TRUE, !.fromEnrolled = remote]
      BY <1>12, <2>3 DEF Fetch
    <3>2. obs' \in ObsType
      BY <2>1, <3>1, ZenonT(30) DEF ObsType, Points
    <3> QED
      BY <1>12, <3>2, QuietType DEF Fetch
  <2> QED
    BY <2>2, <2>3
<1>13. CASE Guard
  BY <1>13, QuietType DEF Guard, Points
<1>14. CASE ReadTargetAgain
  BY <1>14, QuietType DEF ReadTargetAgain, Points, Codes
<1>15. CASE EvaluatePolicyAgain
  <2>1. obs' \in ObsType
    BY <1>15 DEF EvaluatePolicyAgain, Codes
  <2> QED
    BY <1>15, <2>1, QuietType DEF EvaluatePolicyAgain
<1>16. CASE StepFails
  BY <1>16, QuietType DEF StepFails, Codes
<1> QED
  BY <1>1, <1>2, <1>3, <1>4, <1>5, <1>6, <1>7, <1>8, <1>9, <1>10, <1>11, <1>12, <1>13, <1>14,
     <1>15, <1>16 DEF Observation

(* Type correctness.                                                       *)
THEOREM TypeCorrect == Spec => []TypeOK
<1> USE ChangesAssumption
<1>1. Init => TypeOK
  <2> SUFFICES ASSUME Init PROVE TypeOK
    OBVIOUS
  <2>1. tree \in Tree /\ NoSnapshot \in Tree /\ changes \in Versions
        /\ signature \in [Versions -> Versions]
    BY DEF Init, Tree, Versions, NoSnapshot
  <2>2. [p \in Paths |-> 0] \in [Paths -> Versions]
    BY DEF Versions
  <2>3. obs \in ObsType
    BY <2>1, <2>2 DEF Init, ObsType, Points, Codes
  <2> QED
    BY <2>1, <2>3 DEF Init, TypeOK
<1>2. TypeOK /\ [Next]_vars => TypeOK'
  <2>1. TypeOK /\ UNCHANGED vars => TypeOK'
    BY DEF TypeOK, vars, surroundings, history
  <2> QED
    BY <2>1, SurroundingsType, ObservationType DEF Next
<1> QED
  BY <1>1, <1>2, PTL DEF Spec

-----------------------------------------------------------------------------
(* A code that says why the observation was stopped is true of it.         *)
StopInv ==
    /\ obs.code = "CANCELLED" => "cancelled" \in stops
    /\ obs.code = "EXPIRED" => "expired" \in stops
    /\ obs.code = "EXTENSION_DISABLED" => "disabled" \in stops
    /\ obs.at # "ended" => obs.code = "none"

Reasons == {"CANCELLED", "EXPIRED", "EXTENSION_DISABLED"}

LEMMA StopKept ==
    ASSUME StopInv, stops \subseteq stops', obs' = obs
    PROVE  StopInv'
  BY DEF StopInv

LEMMA StopEnd ==
    ASSUME TypeOK, stops' = stops, NEW code, End(code), code \notin Reasons
    PROVE  StopInv'
  BY DEF StopInv, End, Reasons, TypeOK, ObsType

LEMMA StopReason ==
    ASSUME TypeOK, stops' = stops, stops # {}, End(Reason) \/ End(ReasonAfterwards)
    PROVE  StopInv'
<1>1. stops \cap Stops # {}
  BY DEF TypeOK
<1> QED
  BY <1>1 DEF StopInv, End, Reason, ReasonAfterwards, TypeOK, ObsType, Stops

LEMMA StopOn ==
    ASSUME StopInv, stops' = stops, obs.at # "ended", obs'.code = obs.code
    PROVE  StopInv'
  BY DEF StopInv

LEMMA StopStep == TypeOK /\ StopInv /\ [Next]_vars => StopInv'
<1> SUFFICES ASSUME TypeOK, StopInv, [Next]_vars PROVE StopInv'
  OBVIOUS
<1>1. CASE UNCHANGED vars
  BY <1>1, StopKept DEF vars, surroundings
<1>2. CASE Surroundings
  BY <1>2, StopKept
  DEF Surroundings, Write, PutBack, Imitate, Rename, EditPolicy, ApprovalLapses, Halt
<1>3. CASE Observation
  <2>1. stops' = stops
    BY <1>3 DEF Observation, Start, ReadTarget, EvaluatePolicy, Validate, ScanEnds, StatusEnds,
       Scan, Status, ReadPart, ReadPartAgain, Verify, RequestStopped, Fetch, Guard, ReadTargetAgain,
       EvaluatePolicyAgain, StepFails, Quiet, surroundings
  <2>2. CASE \E code \in Codes : End(code) /\ code \notin Reasons
    BY <2>1, <2>2, StopEnd
  <2>3. CASE stops # {} /\ (End(Reason) \/ End(ReasonAfterwards))
    BY <2>1, <2>3, StopReason
  <2>4. CASE obs.at # "ended" /\ obs'.code = obs.code
    BY <2>1, <2>4, StopOn
  <2> DEFINE Outcome == \/ \E code \in Codes : End(code) /\ code \notin Reasons
                        \/ stops # {} /\ (End(Reason) \/ End(ReasonAfterwards))
                        \/ obs.at # "ended" /\ obs'.code = obs.code
  <2>5. CASE Start \/ ReadTarget \/ EvaluatePolicy \/ Validate
    <3>1. Outcome
      BY <2>5 DEF Start, ReadTarget, EvaluatePolicy, Validate, Goto, StartScan, Codes, Reasons,
         TypeOK, ObsType
    <3> QED
      BY <3>1, <2>2, <2>3, <2>4
  <2>6. CASE ScanEnds \/ StatusEnds \/ (\E p \in Paths : Scan(p) \/ Status(p))
    <3>1. Outcome
      BY <2>6 DEF ScanEnds, StatusEnds, Scan, Status, Goto, Codes, Reasons, TypeOK, ObsType
    <3> QED
      BY <3>1, <2>2, <2>3, <2>4
  <2>7. CASE \E part \in {"head", "ref", "index"} : ReadPart(part) \/ ReadPartAgain(part)
    <3>1. Outcome
      BY <2>7 DEF ReadPart, ReadPartAgain, StartScan, Codes, Reasons, TypeOK, ObsType
    <3> QED
      BY <3>1, <2>2, <2>3, <2>4
  <2>8. CASE Verify \/ Fetch \/ Guard \/ ReadTargetAgain \/ EvaluatePolicyAgain \/ StepFails
    <3>1. Outcome
      BY <2>8 DEF Verify, RequestStopped, Fetch, Guard, ReadTargetAgain, EvaluatePolicyAgain, StepFails, Goto,
         Codes, Reasons, TypeOK, ObsType
    <3> QED
      BY <3>1, <2>2, <2>3, <2>4
  <2> QED
    BY <1>3, <2>5, <2>6, <2>7, <2>8 DEF Observation
<1> QED
  BY <1>1, <1>2, <1>3 DEF Next

(* An observation that ends as cancelled, expired or disabled was.         *)
THEOREM StopsAreTruthful == Spec => []StopIsTruthful
<1>1. Init => StopInv
  BY DEF Init, StopInv
<1>2. StopInv => StopIsTruthful
  BY DEF StopInv, StopIsTruthful
<1> QED
  BY <1>1, <1>2, TypeCorrect, StopStep, PTL DEF Spec

-----------------------------------------------------------------------------
(* Since the policy was read first: unless it was edited the observation   *)
(* is permitted, and after one change a permission that was withdrawn      *)
(* either is so still or shows in the enrollment, until that was compared. *)
Permitted == Permits(mailbox, approval, obs.target)

PermitInv ==
    /\ obs.at \in {"idle", "target"} => edits = 0
    /\ Authorised /\ edits = 0 =>
         /\ mailbox = obs.target
         /\ withdrawn => obs.at = "policy" /\ ~Permitted
    /\ Authorised /\ edits <= 1 /\ withdrawn =>
         ~Permitted \/ (mailbox # obs.target /\ obs.at # "policyAgain")
    /\ obs.code = "OK" => obs.at = "ended" /\ (edits <= 1 => ~withdrawn)

LEMMA PermitKept ==
    ASSUME PermitInv,
           UNCHANGED <<mailbox, approval, edits, withdrawn, obs>>
    PROVE  PermitInv'
  BY DEF PermitInv, Authorised, Permitted, Permits

(* Steps between the two evaluations.                                      *)
LEMMA PermitOn ==
    ASSUME PermitInv, Authorised,
           UNCHANGED <<mailbox, approval, edits, withdrawn>>,
           obs'.target = obs.target, obs'.code = obs.code,
           obs'.at \notin {"idle", "target", "policy", "policyAgain"},
           obs.at = "policy" => Permitted
    PROVE  PermitInv'
  BY DEF PermitInv, Authorised, Permitted, Permits

LEMMA PermitEnd ==
    ASSUME TypeOK, NEW code \in Codes, End(code), code # "OK"
    PROVE  PermitInv'
  BY DEF PermitInv, End, Authorised, TypeOK, ObsType

LEMMA PermitSurroundings == TypeOK /\ PermitInv /\ Surroundings => PermitInv'
<1> SUFFICES ASSUME TypeOK, PermitInv, Surroundings PROVE PermitInv'
  OBVIOUS
<1>1. CASE \/ \E p \in Parts : Write(p) \/ PutBack(p)
           \/ \E p \in Paths : Imitate(p)
           \/ Rename
           \/ \E reason \in Stops : Halt(reason)
  BY <1>1, PermitKept DEF Write, PutBack, Imitate, Rename, Halt, history
<1>2. ASSUME NEW policy \in Policies, EditPolicy(policy) PROVE PermitInv'
  <2>1. /\ mailbox' = policy /\ policy # mailbox
        /\ approval' = approval /\ obs' = obs
        /\ edits' = IF Authorised THEN edits + 1 ELSE edits
        /\ withdrawn' = (withdrawn \/ (Authorised /\ ~Permits(policy, approval, obs.target)))
        /\ Running
    BY <1>2 DEF EditPolicy, MayChange
  <2>2. CASE Authorised
    <3>1. edits \in Nat /\ edits' = edits + 1
      BY <2>1, <2>2 DEF TypeOK
    <3>2. edits' <= 1 => edits = 0 /\ edits' # 0
      BY <3>1
    <3>3. Permitted' <=> Permits(policy, approval, obs.target)
      BY <2>1 DEF Permitted, Permits
    <3>4. edits' # 0
      BY <3>1
    <3>5. obs.at \notin {"idle", "target", "ended"}
      BY <2>2 DEF Authorised
    <3> QED
      BY <2>1, <2>2, <3>2, <3>3, <3>4, <3>5 DEF PermitInv, Authorised
  <2>3. CASE ~Authorised
    BY <2>1, <2>3 DEF PermitInv, Authorised, Running
  <2> QED
    BY <2>2, <2>3
<1>3. CASE ApprovalLapses
  <2>1. /\ mailbox' = mailbox /\ approval' = NoPolicy /\ obs' = obs
        /\ edits' = IF Authorised THEN edits + 1 ELSE edits
        /\ withdrawn' = (withdrawn \/ (Authorised /\ ~Permits(mailbox, NoPolicy, obs.target)))
        /\ Running
    BY <1>3 DEF ApprovalLapses
  <2>2. CASE Authorised
    <3>1. edits \in Nat /\ edits' = edits + 1
      BY <2>1, <2>2 DEF TypeOK
    <3>2. edits' <= 1 => edits = 0
      BY <3>1
    <3>3. Permitted' => Permitted
      BY <2>1 DEF Permitted, Permits
    <3>4. Permitted' <=> Permits(mailbox, NoPolicy, obs.target)
      BY <2>1 DEF Permitted, Permits
    <3>5. edits' # 0
      BY <3>1
    <3>6. obs.at \notin {"idle", "target", "ended"}
      BY <2>2 DEF Authorised
    <3> QED
      BY <2>1, <2>2, <3>2, <3>3, <3>4, <3>5, <3>6 DEF PermitInv, Authorised
  <2>3. CASE ~Authorised
    BY <2>1, <2>3 DEF PermitInv, Authorised, Running
  <2> QED
    BY <2>2, <2>3
<1> QED
  BY <1>1, <1>2, <1>3 DEF Surroundings

LEMMA PermitObservation == TypeOK /\ StopInv /\ PermitInv /\ Observation => PermitInv'
<1> SUFFICES ASSUME TypeOK, StopInv, PermitInv, Observation PROVE PermitInv'
  OBVIOUS
<1> DEFINE Outcome == \/ \E code \in Codes : End(code) /\ code # "OK"
                      \/ /\ Authorised /\ (obs.at = "policy" => Permitted)
                         /\ UNCHANGED <<mailbox, approval, edits, withdrawn>>
                         /\ obs'.target = obs.target /\ obs'.code = obs.code
                         /\ obs'.at \notin {"idle", "target", "policy", "policyAgain"}
<1>1. Outcome => PermitInv'
  BY PermitEnd, PermitOn
<1>2. CASE Start
  <2>1. CASE stops # {}
    <3>1. Outcome
      BY <1>2, <2>1, ReasonsType DEF Start, Reason
    <3> QED
      BY <1>1, <3>1
  <2>2. CASE stops = {}
    <3>1. obs' = [obs EXCEPT !.at = "target"] /\ edits' = edits /\ obs.at = "idle"
      BY <1>2, <2>2 DEF Start, Goto
    <3>2. obs'.at = "target" /\ obs'.code = obs.code
      BY <3>1 DEF TypeOK, ObsType
    <3>3. obs'.code # "OK"
      BY <3>1, <3>2 DEF StopInv
    <3> QED
      BY <3>1, <3>2, <3>3 DEF PermitInv, Authorised
  <2> QED
    BY <2>1, <2>2
<1>3. CASE ReadTarget
  <2>1. /\ obs.at = "target" /\ obs' = [obs EXCEPT !.at = "policy", !.target = mailbox]
        /\ withdrawn' = ~Permits(mailbox, approval, mailbox)
        /\ mailbox' = mailbox /\ approval' = approval /\ edits' = edits
    BY <1>3 DEF ReadTarget, surroundings
  <2>2. obs'.at = "policy" /\ obs'.target = mailbox /\ obs'.code = obs.code
    BY <2>1 DEF TypeOK, ObsType
  <2>3. obs'.code # "OK"
    BY <2>1, <2>2 DEF StopInv
  <2>4. Permitted' <=> Permits(mailbox, approval, mailbox)
    BY <2>1, <2>2 DEF Permitted, Permits
  <2> QED
    BY <2>1, <2>2, <2>3, <2>4 DEF PermitInv, Authorised
<1>4. CASE EvaluatePolicy
  <2>1. CASE Permitted
    <3>1. Outcome
      BY <1>4, <2>1 DEF EvaluatePolicy, Permitted, Goto, Quiet, surroundings, history, Authorised,
         TypeOK, ObsType
    <3> QED
      BY <1>1, <3>1
  <2>2. CASE ~Permitted
    <3>1. Outcome
      BY <1>4, <2>2 DEF EvaluatePolicy, Permitted, Codes
    <3> QED
      BY <1>1, <3>1
  <2> QED
    BY <2>1, <2>2
<1>5. CASE Validate
  <2>1. Outcome
    BY <1>5 DEF Validate, Goto, StartScan, Codes, Quiet, surroundings, history, Authorised,
         TypeOK, ObsType
  <2> QED
    BY <1>1, <2>1
<1>11. CASE ScanEnds \/ StatusEnds
  <2>1. Outcome
    BY <1>11 DEF ScanEnds, StatusEnds, Goto, Codes, Quiet, surroundings, history, Authorised,
         TypeOK, ObsType
  <2> QED
    BY <1>1, <2>1
<1>10. ASSUME NEW p \in Paths, Scan(p) \/ Status(p) PROVE PermitInv'
  <2>1. CASE stops # {}
    <3>1. End(ReasonAfterwards)
      BY <1>10, <2>1 DEF Scan, Status
    <3>2. ReasonAfterwards # "OK"
      BY DEF ReasonAfterwards
    <3> QED
      BY <3>1, <3>2, PermitEnd, ReasonsType
  <2>2. CASE stops = {}
    <3>1. /\ obs.at \in {"scan", "status"}
          /\ UNCHANGED <<mailbox, approval, edits, withdrawn>>
      BY <1>10 DEF Scan, Status, Quiet, surroundings, history
    <3>2. CASE Scan(p)
      <4>1. obs'.target = obs.target /\ obs'.code = obs.code /\ obs'.at = obs.at
        BY <2>2, <3>2 DEF Scan, TypeOK, ObsType
      <4> QED
        BY <3>1, <4>1, PermitOn DEF Authorised
    <3>3. CASE Status(p)
      <4>1. obs'.target = obs.target /\ obs'.code = obs.code /\ obs'.at = obs.at
        BY <2>2, <3>3 DEF Status, TypeOK, ObsType
      <4> QED
        BY <3>1, <4>1, PermitOn DEF Authorised
    <3> QED
      BY <1>10, <3>2, <3>3
  <2> QED
    BY <2>1, <2>2
<1>6. ASSUME NEW part \in {"head", "ref", "index"}, ReadPart(part) \/ ReadPartAgain(part)
      PROVE  PermitInv'
  <2>1. /\ obs.at \in {"head", "ref", "index"}
        /\ UNCHANGED <<mailbox, approval, edits, withdrawn>>
    BY <1>6 DEF ReadPart, ReadPartAgain, Quiet, surroundings, history
  <2>2. AfterPart[part] \in {"ref", "index", "status"}
    BY DEF AfterPart
  <2> HIDE DEF Outcome
  <2>3. CASE ReadPart(part)
    <3>1. obs'.target = obs.target /\ obs'.code = obs.code /\ obs'.at = AfterPart[part]
      BY <2>3 DEF ReadPart, TypeOK, ObsType
    <3> QED
      BY <2>1, <2>2, <3>1, PermitOn DEF Authorised
  <2>4. CASE ReadPartAgain(part)
    <3>1. PICK d \in BOOLEAN :
            IF d /\ part # "head" THEN End("WORKTREE_CHANGED")
            ELSE IF part = "index" THEN StartScan("scan")
            ELSE obs' = [obs EXCEPT !.at = AfterPart[part], !.differs = d]
      BY <2>4 DEF ReadPartAgain, TypeOK, ObsType
    <3>2. CASE d /\ part # "head"
      BY <3>1, <3>2, PermitEnd DEF Codes
    <3>3. CASE ~(d /\ part # "head") /\ part = "index"
      <4>1. obs'.target = obs.target /\ obs'.code = obs.code /\ obs'.at = "scan"
        BY <3>1, <3>3 DEF StartScan, TypeOK, ObsType
      <4> QED
        BY <2>1, <4>1, PermitOn DEF Authorised
    <3>4. CASE ~(d /\ part # "head") /\ part # "index"
      <4>1. obs'.target = obs.target /\ obs'.code = obs.code /\ obs'.at = AfterPart[part]
        BY <3>1, <3>4 DEF TypeOK, ObsType
      <4> QED
        BY <2>1, <2>2, <4>1, PermitOn DEF Authorised
    <3> QED
      BY <3>2, <3>3, <3>4
  <2> QED
    BY <1>6, <2>3, <2>4
<1>7. CASE Verify \/ Fetch \/ Guard \/ StepFails
  <2>1. CASE StepFails
    <3>1. Outcome
      BY <2>1 DEF StepFails, Codes
    <3> QED
      BY <1>1, <3>1
  <2>2. CASE Verify \/ Fetch \/ Guard
    <3>1. Outcome
      <4>1. CASE stops # {}
        BY <2>2, <4>1, ReasonsType
        DEF Verify, RequestStopped, Fetch, Guard, Reason, ReasonAfterwards, Quiet, surroundings,
            history
      <4>2. CASE stops = {}
        <5>1. UNCHANGED <<mailbox, approval, edits, withdrawn>> /\ obs \in ObsType
              /\ Authorised /\ obs.at # "policy"
          BY <2>2, <4>2
          DEF Verify, Fetch, Guard, Quiet, surroundings, history, TypeOK, Authorised
        <5>2. \/ End("REMOTE_IDENTITY_CHANGED")
              \/ obs' = [obs EXCEPT !.at = "guard"]
              \/ obs' = [obs EXCEPT !.at = "fetch"]
              \/ obs' = [obs EXCEPT !.at = "targetAgain"]
              \/ obs' = [obs EXCEPT !.at = "verify", !.again = TRUE, !.fromEnrolled = remote]
          BY <2>2, <4>2 DEF Verify, Fetch, Guard, Goto
        <5>3. CASE End("REMOTE_IDENTITY_CHANGED")
          BY <5>3 DEF Codes
        <5>4. CASE ~End("REMOTE_IDENTITY_CHANGED")
          <6>1. /\ obs'.target = obs.target /\ obs'.code = obs.code
                /\ obs'.at \notin {"idle", "target", "policy", "policyAgain"}
            BY <5>1, <5>2, <5>4 DEF ObsType
          <6> QED
            BY <5>1, <6>1
        <5> QED
          BY <5>3, <5>4
      <4> QED
        BY <4>1, <4>2
    <3> QED
      BY <1>1, <3>1
  <2> QED
    BY <1>7, <2>1, <2>2
<1>8. CASE ReadTargetAgain
  <2>1. CASE mailbox # obs.target
    <3>1. Outcome
      BY <1>8, <2>1 DEF ReadTargetAgain, Codes
    <3> QED
      BY <1>1, <3>1
  <2>2. CASE mailbox = obs.target
    <3>1. /\ obs.at = "targetAgain" /\ obs' = [obs EXCEPT !.at = "policyAgain"]
          /\ UNCHANGED <<mailbox, approval, edits, withdrawn>>
      BY <1>8, <2>2 DEF ReadTargetAgain, Goto, Quiet, surroundings, history
    <3>2. obs'.at = "policyAgain" /\ obs'.target = obs.target /\ obs'.code = obs.code
      BY <3>1 DEF TypeOK, ObsType
    <3>3. Permitted' <=> Permitted
      BY <3>1, <3>2 DEF Permitted, Permits
    <3> QED
      BY <2>2, <3>1, <3>2, <3>3 DEF PermitInv, Authorised
  <2> QED
    BY <2>1, <2>2
<1>9. CASE EvaluatePolicyAgain
  <2>1. CASE Permitted
    <3>1. /\ obs.at = "policyAgain" /\ obs' = [obs EXCEPT !.at = "ended", !.code = "OK"]
          /\ UNCHANGED <<edits, withdrawn>>
      BY <1>9, <2>1 DEF EvaluatePolicyAgain, End, Permitted, Quiet, history
    <3>2. obs'.at = "ended"
      BY <3>1 DEF TypeOK, ObsType
    <3>3. edits <= 1 => ~withdrawn
      BY <2>1, <3>1 DEF PermitInv, Authorised
    <3> QED
      BY <3>1, <3>2, <3>3 DEF PermitInv, Authorised
  <2>2. CASE ~Permitted
    <3>1. Outcome
      BY <1>9, <2>2 DEF EvaluatePolicyAgain, Permitted, Codes
    <3> QED
      BY <1>1, <3>1
  <2> QED
    BY <2>1, <2>2
<1> QED
  BY <1>2, <1>3, <1>4, <1>5, <1>6, <1>7, <1>8, <1>9,
     <1>10, <1>11 DEF Observation

(* An observation that is returned was permitted all the time, unless the  *)
(* enrollment and its approval changed more than once meanwhile.           *)
THEOREM PermissionHolds == Spec => []PermittedThroughout
<1>1. Init => PermitInv
  BY DEF Init, PermitInv, Authorised
<1>2. TypeOK /\ StopInv /\ PermitInv /\ [Next]_vars => PermitInv'
  <2>1. PermitInv /\ UNCHANGED vars => PermitInv'
    BY PermitKept DEF vars, surroundings, history
  <2> QED
    BY <2>1, PermitSurroundings, PermitObservation DEF Next
<1>3. PermitInv => PermittedThroughout
  BY DEF PermitInv, PermittedThroughout
<1>4. Init => StopInv
  BY DEF Init, StopInv
<1> QED
  BY <1>1, <1>2, <1>3, <1>4, TypeCorrect, StopStep, PTL DEF Spec

-----------------------------------------------------------------------------
(* The repository.  The first request and the last ask who has the name,   *)
(* the object is read between them: an object of another repository means  *)
(* that the name went and came back, two changes.                          *)
RepoInv ==
    obs.capability = "github" =>
        /\ obs.at \notin {"validate", "scan", "head", "ref", "index", "status"}
        /\ obs.at \in {"idle", "target", "policy"} => ~obs.again
        /\ obs.at = "fetch" => remote \/ renames >= 1
        /\ obs.at = "verify" /\ obs.again =>
             obs.fromEnrolled \/ (~remote /\ renames >= 1) \/ renames >= 2
        /\ obs.at \in {"guard", "targetAgain", "policyAgain"} \/ obs.code = "OK" =>
             obs.fromEnrolled \/ renames >= 2

LEMMA RepoSurroundings == TypeOK /\ StopInv /\ RepoInv /\ Surroundings => RepoInv'
<1> SUFFICES ASSUME TypeOK, StopInv, RepoInv, Surroundings PROVE RepoInv'
  OBVIOUS
<1>1. CASE Rename
  <2>1. obs' = obs /\ remote' = ~remote /\ renames' = renames + 1 /\ remote \in BOOLEAN
        /\ renames \in Nat
    BY <1>1 DEF Rename, TypeOK
  <2>2. renames' >= 1 /\ (renames >= 1 => renames' >= 2) /\ (renames >= 2 => renames' >= 2)
    BY <2>1
  <2> QED
    BY <2>1, <2>2 DEF RepoInv
<1>2. CASE \/ \E p \in Parts : Write(p) \/ PutBack(p)
           \/ \E p \in Paths : Imitate(p)
           \/ \E policy \in Policies : EditPolicy(policy)
           \/ ApprovalLapses
           \/ \E reason \in Stops : Halt(reason)
  <2>1. UNCHANGED <<obs, remote, renames>>
    BY <1>2 DEF Write, PutBack, Imitate, EditPolicy, ApprovalLapses, Halt, history
  <2> QED
    BY <2>1 DEF RepoInv
<1> QED
  BY <1>1, <1>2 DEF Surroundings

LEMMA RepoEnd ==
    ASSUME TypeOK, NEW code \in Codes, End(code), code # "OK"
    PROVE  RepoInv'
  BY DEF RepoInv, End, TypeOK, ObsType

(* Steps that leave the object and the repository as they are.             *)
LEMMA RepoGoto ==
    ASSUME TypeOK, StopInv, RepoInv, UNCHANGED <<remote, renames>>, NEW point \in Points, Goto(point),
           obs.at # "ended", point # "idle",
           obs.capability = "github" =>
               \/ point \in {"target", "policy"} /\ obs.at \in {"idle", "target"}
               \/ point = "verify" /\ obs.at = "policy"
               \/ point = "fetch" /\ remote
               \/ /\ point = "guard"
                  /\ obs.at = "verify" /\ obs.again /\ remote
               \/ /\ point \in {"targetAgain", "policyAgain"}
                  /\ obs.at \in {"guard", "targetAgain", "policyAgain"}
    PROVE  RepoInv'
<1>1. obs'.at = point /\ obs'.capability = obs.capability /\ obs'.again = obs.again
      /\ obs'.fromEnrolled = obs.fromEnrolled /\ obs'.code = obs.code
  BY DEF Goto, TypeOK, ObsType
<1>2. obs'.code # "OK"
  BY <1>1 DEF StopInv
<1> QED
  BY <1>1, <1>2 DEF RepoInv

LEMMA RepoObservation == TypeOK /\ StopInv /\ RepoInv /\ Observation => RepoInv'
<1> SUFFICES ASSUME TypeOK, StopInv, RepoInv, Observation PROVE RepoInv'
  OBVIOUS
<1> USE RepoEnd, RepoGoto, ReasonsType
<1>1. CASE Start
  BY <1>1 DEF Start, Reason, surroundings, Points
<1>2. CASE ReadTarget
  <2>1. /\ obs' = [obs EXCEPT !.at = "policy", !.target = mailbox]
        /\ obs.at = "target"
    BY <1>2 DEF ReadTarget
  <2>2. obs'.at = "policy" /\ obs'.capability = obs.capability /\ obs'.again = obs.again
        /\ obs'.code = obs.code
    BY <2>1 DEF TypeOK, ObsType
  <2>3. obs'.code # "OK"
    BY <2>1, <2>2 DEF StopInv
  <2> QED
    BY <2>1, <2>2, <2>3 DEF RepoInv
<1>3. CASE EvaluatePolicy
  BY <1>3 DEF EvaluatePolicy, Quiet, surroundings, history, Points, Codes, TypeOK, ObsType, Capabilities
<1>4. CASE Verify
  <2>1. CASE stops # {} \/ ~remote
    BY <1>4, <2>1 DEF Verify, RequestStopped, Reason, ReasonAfterwards, Codes
  <2>2. CASE stops = {} /\ remote /\ obs.again
    BY <1>4, <2>2 DEF Verify, RequestStopped, Quiet, surroundings, history, Points
  <2>3. CASE stops = {} /\ remote /\ ~obs.again
    BY <1>4, <2>3 DEF Verify, RequestStopped, Quiet, surroundings, history, Points
  <2> QED
    BY <2>1, <2>2, <2>3
<1>5. CASE Fetch
  <2>1. CASE stops # {}
    BY <1>5, <2>1 DEF Fetch, RequestStopped, Reason, ReasonAfterwards
  <2>2. CASE stops = {}
    <3>1. /\ obs' = [obs EXCEPT !.at = "verify", !.again = TRUE, !.fromEnrolled = remote]
          /\ obs.at = "fetch" /\ UNCHANGED <<remote, renames>>
      BY <1>5, <2>2 DEF Fetch, RequestStopped, Quiet, surroundings, history
    <3>2. obs'.at = "verify" /\ obs'.capability = obs.capability /\ obs'.fromEnrolled = remote
          /\ obs'.code = obs.code
      BY <3>1 DEF TypeOK, ObsType
    <3>3. obs'.code # "OK"
      BY <3>1, <3>2 DEF StopInv
    <3> QED
      BY <3>1, <3>2, <3>3 DEF RepoInv
  <2> QED
    BY <2>1, <2>2
<1>6. CASE Guard
  BY <1>6 DEF Guard, Reason, Quiet, surroundings, history, Points
<1>7. CASE ReadTargetAgain
  BY <1>7 DEF ReadTargetAgain, Quiet, surroundings, history, Points, Codes
<1>8. CASE EvaluatePolicyAgain
  <2>1. CASE End("OK")
    <3>1. obs'.at = "ended" /\ obs'.capability = obs.capability /\ obs'.again = obs.again
          /\ obs'.fromEnrolled = obs.fromEnrolled
      BY <2>1 DEF End, TypeOK, ObsType
    <3>2. obs.at = "policyAgain" /\ renames' = renames
      BY <1>8 DEF EvaluatePolicyAgain, Quiet, history
    <3> QED
      BY <3>1, <3>2 DEF RepoInv
  <2> QED
    BY <1>8, <2>1 DEF EvaluatePolicyAgain, Codes
<1>9. CASE StepFails
  BY <1>9 DEF StepFails, Codes
<1>10. ASSUME obs.at \in {"validate", "scan", "head", "ref", "index", "status"},
              obs'.capability = obs.capability
       PROVE  RepoInv'
  BY <1>10 DEF RepoInv
<1>11. CASE Validate \/ ScanEnds \/ StatusEnds
  BY <1>10, <1>11 DEF Validate, ScanEnds, StatusEnds, Goto, StartScan, End, TypeOK, ObsType
<1>12. ASSUME NEW p \in Paths, Scan(p) \/ Status(p) PROVE RepoInv'
  BY <1>10, <1>12 DEF Scan, Status, End, TypeOK, ObsType
<1>13. ASSUME NEW part \in {"head", "ref", "index"}, ReadPart(part) \/ ReadPartAgain(part)
       PROVE  RepoInv'
  <2>1. CASE ReadPart(part)
    BY <1>10, <2>1 DEF ReadPart, TypeOK, ObsType
  <2>2. CASE ReadPartAgain(part)
    <3>1. /\ obs.at \in {"head", "ref", "index"}
          /\ \/ End("WORKTREE_CHANGED")
             \/ StartScan("scan")
             \/ \E d : obs' = [obs EXCEPT !.at = AfterPart[part], !.differs = d]
      BY <2>2 DEF ReadPartAgain
    <3> QED
      BY <1>10, <3>1 DEF End, StartScan, TypeOK, ObsType
  <2> QED
    BY <1>13, <2>1, <2>2
<1> QED
  BY <1>1, <1>2, <1>3, <1>4, <1>5, <1>6, <1>7, <1>8, <1>9, <1>11, <1>12, <1>13 DEF Observation

(* An object of another repository is returned only if the name went to    *)
(* that one and came back while it was read.                               *)
THEOREM RepositoryHolds == Spec => []RepositoryIsTheOne
<1>1. Init => RepoInv /\ StopInv
  BY DEF Init, RepoInv, StopInv
<1>2. TypeOK /\ StopInv /\ RepoInv /\ [Next]_vars => RepoInv'
  <2>1. RepoInv /\ UNCHANGED vars => RepoInv'
    BY DEF RepoInv, vars, surroundings, history
  <2> QED
    BY <2>1, RepoSurroundings, RepoObservation DEF Next
<1>3. TypeOK /\ RepoInv => RepositoryIsTheOne
  BY DEF RepoInv, RepositoryIsTheOne, TypeOK
<1> QED
  BY <1>1, <1>2, <1>3, TypeCorrect, StopStep, PTL DEF Spec

-----------------------------------------------------------------------------
(* The status.  A part that never goes back only grows, so one that is the *)
(* same at both looks was the same at every time between.  The index is    *)
(* read last and confirmed by nothing: the moment that the status is of is *)
(* the one when the index was read.                                        *)
BoundInv ==
    /\ tree \in worlds
    /\ \A p \in Parts : tree[p] <= changes /\ \A w \in worlds : w[p] <= changes

(* Files that never looked like an earlier version have their own look.    *)
OwnLook ==
    /\ \A v \in Versions : v > changes => signature[v] = v
    /\ \A p \in Paths \ returned : signature[tree[p]] = tree[p]

Live == obs.capability = "worktree" /\ (obs.at # "ended" \/ obs.code = "OK")

(* The parts, but for the index, whose versions only went forward.         *)
Kept == Parts \ ({"index"} \cup returned)

Shape ==
    /\ obs.at \notin {"verify", "fetch"}
    /\ obs.at \in {"idle", "target", "policy", "status"} => ~obs.again
    /\ obs.at \in {"guard", "targetAgain", "policyAgain", "ended"} => obs.again
    /\ obs.seen["place"] = 0

(* The parts that the second look has found as they were at the first.     *)
Confirmed ==
    {p \in Parts \ {"index"} :
        /\ obs.again
        /\ p = "place" => obs.at # "validate"
        /\ p = "head" => obs.at \notin {"validate", "head"} /\ (obs.at = "ref" => ~obs.differs)
        /\ p = "ref" => obs.at \notin {"validate", "head", "ref"}
        /\ p \in Paths => /\ obs.at \notin {"validate", "head", "ref", "index"}
                          /\ obs.at = "scan" => p \notin obs.left /\ ~obs.differs}

(* The files that git has read.                                            *)
Finished == {p \in Paths : obs.again \/ (obs.at = "status" /\ p \notin obs.left)}

AfterIndex == obs.again \/ obs.at = "status"

IsMoment(w) ==
    /\ w["index"] = obs.seen["index"]
    /\ \A p \in Kept :
         obs.seen[p] <= w[p] /\ w[p] <= tree[p] /\ (p \in Confirmed => w[p] = obs.seen[p])

SnapInv ==
    Live => /\ Shape
            /\ \A p \in Kept : obs.seen[p] <= tree[p]
            /\ AfterIndex => \E w \in worlds : IsMoment(w)
            /\ \A p \in Finished \ returned :
                 /\ obs.seen[p] <= obs.status[p] /\ obs.status[p] <= tree[p]
                 /\ p \in Confirmed => obs.status[p] = obs.seen[p]

(* A change that gives one part the next version.                          *)
LEMMA BoundNext ==
    ASSUME TypeOK, BoundInv, NEW p \in Parts, changes' = changes + 1,
           tree' = [tree EXCEPT ![p] = changes + 1], worlds' = worlds \cup {tree'}
    PROVE  BoundInv'
<1>0. changes \in Nat /\ tree \in Tree /\ worlds \subseteq Tree
      /\ \A w \in Tree : \A q \in Parts : w[q] \in Nat
  BY ChangesAssumption DEF TypeOK, Versions, Tree
<1>1. \A q \in Parts : tree'[q] <= changes'
  BY <1>0 DEF BoundInv, Tree
<1>2. \A w \in worlds : \A q \in Parts : w[q] <= changes'
  <2> SUFFICES ASSUME NEW w \in worlds, NEW q \in Parts PROVE w[q] <= changes'
    OBVIOUS
  <2>1. w[q] \in Nat /\ w[q] <= changes
    BY <1>0 DEF BoundInv
  <2> QED
    BY <1>0, <2>1
<1> QED
  BY <1>1, <1>2 DEF BoundInv

LEMMA BoundStep == TypeOK /\ BoundInv /\ [Next]_vars => BoundInv'
<1> SUFFICES ASSUME TypeOK, BoundInv, [Next]_vars PROVE BoundInv'
  OBVIOUS
<1>0. changes \in Nat /\ tree \in Tree /\ worlds \subseteq Tree
      /\ \A w \in Tree : \A p \in Parts : w[p] \in Nat
  BY ChangesAssumption DEF TypeOK, Versions, Tree
<1>1. ASSUME NEW p \in Parts, Write(p) \/ (p \in Paths /\ Imitate(p)) PROVE BoundInv'
  BY <1>1, BoundNext DEF Write, Imitate, MayChange
<1>2. ASSUME NEW p \in Parts, PutBack(p) PROVE BoundInv'
  <2>1. PICK w \in worlds : tree' = [tree EXCEPT ![p] = w[p]]
    BY <1>2 DEF PutBack
  <2>2. changes' = changes + 1 /\ worlds' = worlds \cup {tree'}
    BY <1>2 DEF PutBack, MayChange
  <2>3. \A q \in Parts : tree'[q] <= changes /\ tree'[q] \in Nat
    BY <1>0, <2>1 DEF BoundInv, Tree
  <2>4. \A v \in worlds \cup {tree'} : \A q \in Parts : v[q] \in Nat /\ v[q] <= changes
    BY <1>0, <2>3 DEF BoundInv
  <2>5. \A v \in worlds \cup {tree'} : \A q \in Parts : v[q] <= changes + 1
    BY <1>0, <2>4
  <2> QED
    BY <2>2, <2>5 DEF BoundInv
<1>3. ASSUME UNCHANGED tree, worlds' = worlds \/ worlds' = {tree},
             changes' = changes \/ changes' = changes + 1
      PROVE  BoundInv'
  <2>1. \A v \in worlds : \A q \in Parts : v[q] \in Nat /\ v[q] <= changes
    BY <1>0 DEF BoundInv
  <2>2. \A v \in worlds : \A q \in Parts : v[q] <= changes'
    BY <1>0, <1>3, <2>1
  <2> QED
    BY <1>3, <2>2 DEF BoundInv
<1>4. CASE \/ Rename \/ ApprovalLapses
           \/ \E policy \in Policies : EditPolicy(policy)
           \/ \E reason \in Stops : Halt(reason)
  BY <1>3, <1>4 DEF Rename, ApprovalLapses, EditPolicy, Halt, MayChange, history
<1>5. CASE Observation
  <2>1. UNCHANGED <<tree, changes>> /\ (worlds' = worlds \/ worlds' = {tree})
    BY <1>5 DEF Observation, Start, ReadTarget, EvaluatePolicy, Validate, ScanEnds, StatusEnds,
       Scan, Status, ReadPart, ReadPartAgain, Verify, RequestStopped, Fetch, Guard, ReadTargetAgain,
       EvaluatePolicyAgain, StepFails, Quiet, surroundings, history
  <2> QED
    BY <1>3, <2>1
<1>6. CASE UNCHANGED vars
  BY <1>3, <1>6 DEF vars, surroundings, history
<1>7. ASSUME NEW p \in Paths, Imitate(p) PROVE BoundInv'
  BY <1>1, <1>7 DEF Parts
<1> QED
  BY <1>1, <1>2, <1>4, <1>5, <1>6, <1>7 DEF Next, Surroundings

LEMMA LookStep == TypeOK /\ BoundInv /\ OwnLook /\ [Next]_vars => OwnLook'
<1> SUFFICES ASSUME TypeOK, BoundInv, OwnLook, [Next]_vars PROVE OwnLook'
  OBVIOUS
<1>0. changes \in Nat /\ changes' \in Nat /\ changes <= changes'
  <2>1. changes' = changes \/ MayChange
    <3>1. CASE Surroundings
      BY <3>1 DEF Surroundings, Write, PutBack, Imitate, Rename, EditPolicy, ApprovalLapses, Halt, history
    <3>2. CASE Observation
      BY <3>2 DEF Observation, Start, ReadTarget, EvaluatePolicy, Validate, ScanEnds, StatusEnds, Scan,
         Status, ReadPart, ReadPartAgain, Verify, RequestStopped, Fetch, Guard, ReadTargetAgain,
         EvaluatePolicyAgain, StepFails, Quiet, history
    <3> QED
      BY <3>1, <3>2 DEF Next, vars, history
  <2>2. changes \in Nat
    BY DEF TypeOK, Versions
  <2> QED
    BY <2>1, <2>2 DEF MayChange
<1>1. \A p \in Paths : p \in Parts /\ tree[p] \in Versions /\ tree[p] <= changes
  BY DEF TypeOK, BoundInv, Tree, Parts
<1>2. \A v \in Versions : v \in Nat
  BY DEF Versions
<1>3. ASSUME UNCHANGED signature, \A p \in Paths \ returned' : tree'[p] = tree[p] \/ tree'[p] > changes,
             \A p \in Paths : tree'[p] \in Versions, returned \subseteq returned'
      PROVE  OwnLook'
  <2>1. \A v \in Versions : v > changes' => v > changes
    BY <1>0, <1>2
  <2> QED
    BY <1>3, <2>1 DEF OwnLook
<1>4. ASSUME NEW p \in Parts, Write(p) PROVE OwnLook'
  <2>1. tree' = [tree EXCEPT ![p] = changes + 1] /\ returned' = returned /\ UNCHANGED signature
    BY <1>4 DEF Write
  <2>3. changes < MaxChanges
    BY <1>4 DEF Write, MayChange
  <2>4. changes + 1 > changes /\ changes + 1 \in Versions
    BY <1>0, <2>3, ChangesAssumption DEF Versions
  <2>2. \A q \in Paths : tree'[q] = IF q = p THEN changes + 1 ELSE tree[q]
    BY <1>1, <2>1 DEF TypeOK, Tree
  <2> QED
    BY <1>1, <1>3, <2>1, <2>2, <2>4
<1>5. ASSUME NEW p \in Parts, PutBack(p) PROVE OwnLook'
  <2>1. PICK w \in worlds : tree' = [tree EXCEPT ![p] = w[p]]
    BY <1>5 DEF PutBack
  <2>2. returned' = returned \cup {p} /\ UNCHANGED signature /\ w[p] \in Versions
    BY <1>5 DEF PutBack, TypeOK, Tree
  <2>3. \A q \in Paths : tree'[q] = IF q = p THEN w[p] ELSE tree[q]
    BY <1>1, <2>1 DEF TypeOK, Tree
  <2> QED
    BY <1>1, <1>3, <2>2, <2>3
<1>6. ASSUME NEW p \in Paths, Imitate(p) PROVE OwnLook'
  <2>1. PICK u : signature' = [signature EXCEPT ![changes + 1] = u]
    BY <1>6 DEF Imitate
  <2>2. tree' = [tree EXCEPT ![p] = changes + 1] /\ returned' = returned \cup {p}
        /\ changes' = changes + 1
    BY <1>6 DEF Imitate, MayChange
  <2>3. \A v \in Versions : v # changes + 1 => signature'[v] = signature[v]
    BY <2>1 DEF TypeOK
  <2>4. \A q \in Paths : q # p => tree'[q] = tree[q]
    BY <1>1, <2>2 DEF TypeOK, Tree
  <2>5. \A v \in Versions : v > changes' => v > changes /\ v # changes + 1
    BY <1>0, <1>2, <2>2
  <2>6. \A q \in Paths : tree[q] # changes + 1
    BY <1>0, <1>1, <1>2
  <2>7. ASSUME NEW q \in Paths \ returned' PROVE signature'[tree'[q]] = tree'[q]
    <3>1. q # p /\ q \in Paths \ returned /\ tree'[q] = tree[q]
      BY <2>2, <2>4
    <3>2. signature'[tree[q]] = signature[tree[q]]
      BY <1>1, <2>3, <2>6
    <3> QED
      BY <3>1, <3>2 DEF OwnLook
  <2> QED
    BY <2>3, <2>5, <2>7 DEF OwnLook
<1>7. CASE UNCHANGED <<tree, signature, returned>>
  BY <1>1, <1>3, <1>7
<1>8. ASSUME UNCHANGED vars \/ Rename \/ ApprovalLapses \/ Observation
             \/ (\E policy \in Policies : EditPolicy(policy)) \/ (\E reason \in Stops : Halt(reason))
      PROVE  UNCHANGED <<tree, signature, returned>>
  BY <1>8 DEF vars, surroundings, history, Rename, ApprovalLapses, EditPolicy, Halt,
     Observation, Start, ReadTarget, EvaluatePolicy, Validate, ScanEnds, StatusEnds,
     Scan, Status, ReadPart, ReadPartAgain, Verify, RequestStopped, Fetch, Guard, ReadTargetAgain,
     EvaluatePolicyAgain, StepFails, Quiet
<1> QED
  BY <1>4, <1>5, <1>6, <1>7, <1>8 DEF Next, Surroundings

LEMMA SnapSurroundings == TypeOK /\ BoundInv /\ SnapInv /\ Surroundings => SnapInv'
<1> SUFFICES ASSUME TypeOK, BoundInv, SnapInv, Surroundings PROVE SnapInv'
  OBVIOUS
<1>0. changes \in Nat /\ tree \in Tree /\ worlds \subseteq Tree
      /\ \A w \in Tree : \A p \in Parts : w[p] \in Nat
  BY ChangesAssumption DEF TypeOK, Versions, Tree
<1>1. /\ obs' = obs
      /\ Live' = Live /\ Shape' = Shape /\ Confirmed' = Confirmed /\ Finished' = Finished
      /\ AfterIndex' = AfterIndex
  <2>1. obs' = obs
    BY DEF Surroundings, Write, PutBack, Imitate, Rename, EditPolicy, ApprovalLapses, Halt
  <2> QED
    BY <2>1 DEF Live, Shape, Confirmed, Finished, AfterIndex
(* The parts that are kept only grow.                                      *)
<1>2. ASSUME worlds \subseteq worlds', returned \subseteq returned',
             \A p \in Kept' : tree'[p] >= tree[p] /\ tree'[p] \in Nat
      PROVE  SnapInv'
  <2> SUFFICES ASSUME Live
               PROVE  /\ \A p \in Kept' : obs.seen[p] <= tree'[p]
                      /\ AfterIndex => \E w \in worlds' : IsMoment(w)'
                      /\ \A p \in Finished \ returned' :
                           /\ obs.seen[p] <= obs.status[p] /\ obs.status[p] <= tree'[p]
                           /\ p \in Confirmed => obs.status[p] = obs.seen[p]
    BY <1>1 DEF SnapInv
  <2>0. Kept' \subseteq Kept /\ Finished \ returned' \subseteq Finished \ returned
        /\ Finished \ returned' \subseteq Kept' /\ Kept \subseteq Parts
    BY <1>2, PathsAssumption DEF Kept, Finished, Parts, Metadata
  <2>1. /\ \A p \in Kept : obs.seen[p] <= tree[p]
        /\ AfterIndex => \E w \in worlds : IsMoment(w)
        /\ \A p \in Finished \ returned :
             /\ obs.seen[p] <= obs.status[p] /\ obs.status[p] <= tree[p]
             /\ p \in Confirmed => obs.status[p] = obs.seen[p]
    BY DEF SnapInv
  <2>2. \A p \in Parts : obs.seen[p] \in Nat /\ tree[p] \in Nat
    BY <1>0 DEF TypeOK, ObsType, Tree, Versions
  <2>3. \A p \in Finished : obs.status[p] \in Nat
    BY ChangesAssumption DEF TypeOK, ObsType, Versions, Finished
  <2>4. \A p \in Kept' : obs.seen[p] <= tree'[p]
    BY <1>2, <2>0, <2>1, <2>2
  <2>5. \A p \in Finished \ returned' : obs.status[p] <= tree'[p]
    BY <1>2, <2>0, <2>1, <2>2, <2>3
  <2>6. ASSUME NEW w \in worlds, IsMoment(w) PROVE IsMoment(w)'
    <3>1. \A p \in Parts : w[p] \in Nat
      BY <1>0
    <3>2. \A p \in Kept' : w[p] <= tree'[p]
      BY <1>2, <2>0, <2>2, <2>6, <3>1 DEF IsMoment
    <3> QED
      BY <1>1, <2>0, <2>6, <3>2 DEF IsMoment
  <2> QED
    BY <1>2, <2>0, <2>1, <2>4, <2>5, <2>6
<1>3. ASSUME NEW q \in Parts, tree' = [tree EXCEPT ![q] = changes + 1],
             worlds \subseteq worlds', returned \subseteq returned'
      PROVE  SnapInv'
  <2>1. ASSUME NEW p \in Parts PROVE tree'[p] >= tree[p] /\ tree'[p] \in Nat
    <3>1. tree[p] \in Nat /\ tree[p] <= changes
      BY <1>0 DEF BoundInv
    <3>2. tree'[p] = IF p = q THEN changes + 1 ELSE tree[p]
      BY <1>0, <1>3 DEF Tree
    <3> QED
      BY <1>0, <3>1, <3>2
  <2> QED
    BY <1>2, <1>3, <2>1 DEF Kept
<1>4. ASSUME NEW q \in Parts, PutBack(q) PROVE SnapInv'
  <2>1. worlds \subseteq worlds' /\ returned' = returned \cup {q}
    BY <1>4 DEF PutBack
  <2>2. PICK v : tree' = [tree EXCEPT ![q] = v]
    BY <1>4 DEF PutBack
  <2>3. ASSUME NEW p \in Kept' PROVE tree'[p] = tree[p] /\ tree[p] \in Nat
    BY <1>0, <2>1, <2>2 DEF Tree, Kept
  <2>4. \A n \in Nat : n >= n
    OBVIOUS
  <2> QED
    BY <1>2, <2>1, <2>3, <2>4
<1>5. CASE \/ Rename \/ ApprovalLapses
           \/ \E policy \in Policies : EditPolicy(policy)
           \/ \E reason \in Stops : Halt(reason)
  <2>1. UNCHANGED <<tree, worlds, returned>>
    BY <1>5 DEF Rename, ApprovalLapses, EditPolicy, Halt, history
  <2>2. \A p \in Kept' : tree[p] \in Nat
    BY <1>0 DEF Kept
  <2>3. \A n \in Nat : n >= n
    OBVIOUS
  <2> QED
    BY <1>2, <2>1, <2>2, <2>3
<1>6. ASSUME NEW q \in Parts, Write(q) PROVE SnapInv'
  BY <1>3, <1>6 DEF Write
<1>7. ASSUME NEW q \in Paths, Imitate(q) PROVE SnapInv'
  BY <1>3, <1>7 DEF Imitate, Parts
<1> QED
  BY <1>4, <1>5, <1>6, <1>7 DEF Surroundings

(* Steps of the observation that read nothing new: what they confirm is as *)
(* it was.                                                                 *)
LEMMA SnapOn ==
    ASSUME TypeOK, BoundInv, SnapInv, obs.at # "ended", UNCHANGED <<tree, worlds, returned>>,
           obs'.capability = obs.capability, obs'.seen = obs.seen, obs'.status = obs.status,
           Live' => /\ Shape'
                    /\ AfterIndex' => AfterIndex
                    /\ Finished' \subseteq Finished
                    /\ \A p \in Confirmed' : p \in Confirmed \/ p \in returned \/ tree[p] = obs.seen[p]
    PROVE  SnapInv'
<1>0. Kept' = Kept /\ Kept \subseteq Parts /\ Kept \cap returned = {}
  BY DEF Kept
<1> SUFFICES ASSUME Live'
             PROVE  /\ \A p \in Kept : obs.seen[p] <= tree[p]
                    /\ AfterIndex' => \E w \in worlds : IsMoment(w)'
                    /\ \A p \in Finished' \ returned :
                         /\ obs.seen[p] <= obs.status[p] /\ obs.status[p] <= tree[p]
                         /\ p \in Confirmed' => obs.status[p] = obs.seen[p]
  BY <1>0 DEF SnapInv
<1>1. Live
  BY DEF Live
<1>2. /\ \A p \in Kept : obs.seen[p] <= tree[p]
      /\ AfterIndex => \E w \in worlds : IsMoment(w)
      /\ \A p \in Finished \ returned :
           /\ obs.seen[p] <= obs.status[p] /\ obs.status[p] <= tree[p]
           /\ p \in Confirmed => obs.status[p] = obs.seen[p]
  BY <1>1 DEF SnapInv
<1>3. \A p \in Parts : obs.seen[p] \in Nat /\ tree[p] \in Nat /\ \A w \in worlds : w[p] \in Nat
  BY ChangesAssumption DEF TypeOK, ObsType, Tree, Versions
<1>4. \A p \in Paths : obs.status[p] \in Nat
  BY ChangesAssumption DEF TypeOK, ObsType, Versions
<1>5. ASSUME NEW w \in worlds, IsMoment(w) PROVE IsMoment(w)'
  <2>1. ASSUME NEW p \in Kept, p \in Confirmed' PROVE w[p] = obs.seen[p]
    <3>1. CASE p \in Confirmed
      BY <1>5, <3>1 DEF IsMoment
    <3>2. CASE tree[p] = obs.seen[p]
      <4>1. obs.seen[p] <= w[p] /\ w[p] <= obs.seen[p]
        BY <1>5, <3>2 DEF IsMoment
      <4> QED
        BY <1>0, <1>3, <4>1
    <3> QED
      BY <1>0, <2>1, <3>1, <3>2
  <2> QED
    BY <1>0, <1>5, <2>1 DEF IsMoment
<1>6. ASSUME NEW p \in Finished' \ returned, p \in Confirmed' PROVE obs.status[p] = obs.seen[p]
  <2>1. p \in Finished \ returned /\ p \in Paths /\ p \in Parts
    BY DEF Finished, Parts
  <2>2. CASE p \in Confirmed
    BY <1>2, <2>1, <2>2
  <2>3. CASE tree[p] = obs.seen[p]
    <3>1. obs.seen[p] <= obs.status[p] /\ obs.status[p] <= obs.seen[p]
      BY <1>2, <2>1, <2>3
    <3> QED
      BY <1>3, <1>4, <2>1, <3>1
  <2> QED
    BY <1>6, <2>1, <2>2, <2>3
<1> QED
  BY <1>2, <1>5, <1>6

LEMMA SnapEnd ==
    ASSUME TypeOK, NEW code \in Codes, End(code), code # "OK"
    PROVE  SnapInv'
<1>1. obs'.at = "ended" /\ obs'.code = code
  BY DEF End, TypeOK, ObsType
<1> QED
  BY <1>1 DEF SnapInv, Live

(* A step before the index is read for the first time.                     *)
LEMMA SnapBefore ==
    ASSUME TypeOK, SnapInv, obs.at # "ended", UNCHANGED <<tree, returned>>,
           obs'.capability = obs.capability,
           Live' => /\ Shape'
                    /\ obs'.at # "status" /\ ~obs'.again
                    /\ \A p \in Kept : obs'.seen[p] = obs.seen[p] \/ obs'.seen[p] = tree[p]
    PROVE  SnapInv'
<1>1. Kept' = Kept /\ \A p \in Kept : tree[p] \in Nat
  BY ChangesAssumption DEF Kept, TypeOK, Tree, Versions
<1>2. Live' => Live
  BY DEF Live
<1>3. \A n \in Nat : n <= n
  OBVIOUS
<1>4. Live' => \A p \in Kept : obs'.seen[p] <= tree[p]
  BY <1>1, <1>2, <1>3 DEF SnapInv
<1>5. Live' => Finished' = {} /\ ~AfterIndex'
  BY DEF Finished, AfterIndex
<1> QED
  BY <1>1, <1>4, <1>5 DEF SnapInv

LEMMA SnapObservation == TypeOK /\ BoundInv /\ OwnLook /\ StopInv /\ SnapInv /\ Observation => SnapInv'
<1> SUFFICES ASSUME TypeOK, BoundInv, OwnLook, StopInv, SnapInv, Observation PROVE SnapInv'
  OBVIOUS
<1>0. Live => Shape
  BY DEF SnapInv
<1>1. CASE Start
  <2>1. CASE stops # {}
    BY <1>1, <2>1, SnapEnd, ReasonsType DEF Start, Reason
  <2>2. CASE stops = {}
    <3>1. obs' = [obs EXCEPT !.at = "target"] /\ obs.at = "idle" /\ UNCHANGED <<tree, returned>>
      BY <1>1, <2>2 DEF Start, Goto, surroundings
    <3>2. obs'.at = "target" /\ obs'.capability = obs.capability /\ obs'.seen = obs.seen
          /\ obs'.again = obs.again
      BY <3>1 DEF TypeOK, ObsType
    <3>3. Live' => Live
      BY <3>1, <3>2 DEF Live
    <3> QED
      BY <1>0, <3>1, <3>2, <3>3, SnapBefore DEF Shape
  <2> QED
    BY <2>1, <2>2
<1>2. CASE ReadTarget
  <2>1. obs' = [obs EXCEPT !.at = "policy", !.target = mailbox] /\ obs.at = "target"
        /\ UNCHANGED <<tree, returned>>
    BY <1>2 DEF ReadTarget, surroundings
  <2>2. obs'.at = "policy" /\ obs'.capability = obs.capability /\ obs'.seen = obs.seen
        /\ obs'.again = obs.again
    BY <2>1 DEF TypeOK, ObsType
  <2>3. Live' => Live
    BY <2>1, <2>2 DEF Live
  <2> QED
    BY <1>0, <2>1, <2>2, <2>3, SnapBefore DEF Shape
<1>3. CASE EvaluatePolicy
  <2>1. CASE ~Permits(mailbox, approval, obs.target)
    BY <1>3, <2>1, SnapEnd DEF EvaluatePolicy, Codes
  <2>2. CASE Permits(mailbox, approval, obs.target)
    <3>1. PICK point \in {"validate", "verify"} :
            /\ obs' = [obs EXCEPT !.at = point]
            /\ obs.capability = "worktree" => point = "validate"
      BY <1>3, <2>2 DEF EvaluatePolicy, Goto
    <3>2. obs'.at = point /\ obs'.capability = obs.capability /\ obs'.seen = obs.seen
          /\ obs'.again = obs.again
      BY <3>1 DEF TypeOK, ObsType
    <3>3. obs.at = "policy" /\ UNCHANGED <<tree, returned>>
      BY <1>3 DEF EvaluatePolicy, Quiet, surroundings, history
    <3>4. Live' => Live /\ point = "validate"
      BY <3>1, <3>2, <3>3 DEF Live
    <3> QED
      BY <1>0, <3>2, <3>3, <3>4, SnapBefore DEF Shape
  <2> QED
    BY <2>1, <2>2
<1>4. CASE Validate
  <2>0. obs.at = "validate" /\ UNCHANGED <<tree, worlds, returned>>
    BY <1>4 DEF Validate, Quiet, surroundings, history
  <2>1. CASE tree["place"] # 0
    BY <1>4, <2>1, SnapEnd DEF Validate, Codes
  <2>2. CASE tree["place"] = 0 /\ obs.again
    <3>1. obs' = [obs EXCEPT !.at = "head"]
      BY <1>4, <2>2 DEF Validate, Goto
    <3>2. obs'.at = "head" /\ obs'.capability = obs.capability /\ obs'.seen = obs.seen
          /\ obs'.again = obs.again /\ obs'.status = obs.status
      BY <3>1 DEF TypeOK, ObsType
    <3>3. Live' => Live /\ obs.seen["place"] = 0
      BY <1>0, <2>0, <3>2 DEF Live, Shape
    <3>4. Confirmed' \subseteq {"place"} /\ "place" \in Parts
      BY <3>2 DEF Confirmed, Parts, Metadata
    <3>5. Live' => Confirmed' \subseteq {p \in Parts : tree[p] = obs.seen[p]}
      BY <2>2, <3>3, <3>4
    <3>6. AfterIndex /\ Finished' \subseteq Finished
      BY <2>2, <3>2 DEF AfterIndex, Finished
    <3>7. Live' => Shape'
      BY <1>0, <2>2, <3>2, <3>3 DEF Shape
    <3> QED
      BY <2>0, <3>2, <3>5, <3>6, <3>7, SnapOn
  <2>3. CASE tree["place"] = 0 /\ ~obs.again
    <3>1. obs' = [obs EXCEPT !.at = "scan", !.left = Paths]
      BY <1>4, <2>3 DEF Validate, StartScan
    <3>2. obs'.at = "scan" /\ obs'.capability = obs.capability /\ obs'.seen = obs.seen
          /\ obs'.again = obs.again
      BY <3>1 DEF TypeOK, ObsType
    <3>3. Live' => Live
      BY <2>0, <3>2 DEF Live
    <3> QED
      BY <1>0, <2>0, <2>3, <3>2, <3>3, SnapBefore DEF Shape
  <2> QED
    BY <2>1, <2>2, <2>3
<1>5. ASSUME NEW q \in Paths, Scan(q) PROVE SnapInv'
  <2>0. obs.at = "scan" /\ q \in obs.left /\ UNCHANGED <<tree, worlds, returned>> /\ q \in Parts
        /\ q # "place"
    BY <1>5, PathsAssumption DEF Scan, Quiet, surroundings, history, Parts, Metadata
  <2>1. CASE stops # {}
    <3>1. End(ReasonAfterwards) /\ ReasonAfterwards # "OK"
      BY <1>5, <2>1 DEF Scan, ReasonAfterwards
    <3> QED
      BY <3>1, SnapEnd, ReasonsType
  <2>2. CASE stops = {} /\ obs.again
    <3>1. obs' = [obs EXCEPT !.left = @ \ {q}, !.differs = @ \/ signature[tree[q]] # obs.seen[q]]
      BY <1>5, <2>2 DEF Scan
    <3>2. obs'.at = "scan" /\ obs'.capability = obs.capability /\ obs'.seen = obs.seen
          /\ obs'.again = obs.again /\ obs'.status = obs.status /\ obs'.left = obs.left \ {q}
          /\ obs'.differs = (obs.differs \/ signature[tree[q]] # obs.seen[q])
      BY <2>0, <3>1 DEF TypeOK, ObsType
    <3>3. Live' => Live
      BY <2>0, <3>2 DEF Live
    <3>4. AfterIndex /\ Finished' \subseteq Finished
      BY <2>2, <3>2 DEF AfterIndex, Finished
    <3>5. \A p \in Confirmed' : p \in Confirmed \/ (p = q /\ signature[tree[q]] = obs.seen[q])
      BY <2>0, <3>2 DEF Confirmed
    <3>6. Live' => Shape'
      BY <1>0, <2>2, <3>2, <3>3 DEF Shape
    <3>7. q \in returned \/ signature[tree[q]] = tree[q]
      BY DEF OwnLook
    <3> QED
      BY <2>0, <3>2, <3>4, <3>5, <3>6, <3>7, SnapOn
  <2>3. CASE stops = {} /\ ~obs.again
    <3>1. obs' = [obs EXCEPT !.left = @ \ {q}, !.seen[q] = signature[tree[q]]]
      BY <1>5, <2>3 DEF Scan
    <3>2. obs'.at = "scan" /\ obs'.capability = obs.capability
          /\ obs'.seen = [obs.seen EXCEPT ![q] = signature[tree[q]]] /\ obs'.again = obs.again
      BY <2>0, <3>1 DEF TypeOK, ObsType
    <3>3. Live' => Live
      BY <2>0, <3>2 DEF Live
    <3>4. \A p \in Parts : obs'.seen[p] = IF p = q THEN signature[tree[q]] ELSE obs.seen[p]
      BY <3>2 DEF TypeOK, ObsType, Tree
    <3>5. "place" \in Parts
      BY DEF Parts, Metadata
    <3>6. Live' => Shape'
      BY <1>0, <2>0, <2>3, <3>2, <3>3, <3>4, <3>5 DEF Shape
    <3>7. \A p \in Kept : obs'.seen[p] = obs.seen[p] \/ obs'.seen[p] = tree[p]
      BY <3>4 DEF Kept, OwnLook
    <3> QED
      BY <2>0, <2>3, <3>2, <3>6, <3>7, SnapBefore
  <2> QED
    BY <2>1, <2>2, <2>3
<1>6. CASE ScanEnds
  <2>0. obs.at = "scan" /\ obs.left = {} /\ UNCHANGED <<tree, worlds, returned>>
    BY <1>6 DEF ScanEnds, Quiet, surroundings, history
  <2>1. CASE ~obs.again
    <3>1. obs' = [obs EXCEPT !.at = "head"]
      BY <1>6, <2>1 DEF ScanEnds, Goto
    <3>2. obs'.at = "head" /\ obs'.capability = obs.capability /\ obs'.seen = obs.seen
          /\ obs'.again = obs.again
      BY <3>1 DEF TypeOK, ObsType
    <3>3. Live' => Live
      BY <2>0, <3>2 DEF Live
    <3> QED
      BY <1>0, <2>0, <2>1, <3>2, <3>3, SnapBefore DEF Shape
  <2>2. CASE obs.again /\ obs.differs
    BY <1>6, <2>2, SnapEnd DEF ScanEnds, Codes
  <2>3. CASE obs.again /\ ~obs.differs
    <3>1. obs' = [obs EXCEPT !.at = "guard"]
      BY <1>6, <2>3 DEF ScanEnds, Goto
    <3>2. obs'.at = "guard" /\ obs'.capability = obs.capability /\ obs'.seen = obs.seen
          /\ obs'.again = obs.again /\ obs'.status = obs.status
      BY <3>1 DEF TypeOK, ObsType
    <3>3. Live' => Live
      BY <2>0, <3>2 DEF Live
    <3>4. AfterIndex /\ Finished' \subseteq Finished
      BY <2>3, <3>2 DEF AfterIndex, Finished
    <3>5. Confirmed' \subseteq Confirmed
      BY <2>0, <2>3 DEF Confirmed
    <3>6. Live' => Shape'
      BY <1>0, <2>3, <3>2, <3>3 DEF Shape
    <3> QED
      BY <2>0, <3>2, <3>4, <3>5, <3>6, SnapOn
  <2> QED
    BY <2>1, <2>2, <2>3
<1>7. ASSUME NEW part \in {"head", "ref", "index"}, ReadPart(part) PROVE SnapInv'
  <2>0. obs.at = part /\ ~obs.again /\ UNCHANGED <<tree, worlds, returned>> /\ part \in Parts
        /\ "place" \in Parts
    BY <1>7 DEF ReadPart, Quiet, surroundings, history, Parts, Metadata
  <2>1. obs' = [obs EXCEPT !.seen[part] = tree[part], !.at = AfterPart[part],
                           !.left = IF part = "index" THEN Paths ELSE {}]
    BY <1>7 DEF ReadPart
  <2>2. obs'.at = AfterPart[part] /\ obs'.capability = obs.capability
        /\ obs'.seen = [obs.seen EXCEPT ![part] = tree[part]] /\ obs'.again = obs.again
        /\ obs'.left = IF part = "index" THEN Paths ELSE {}
    BY <2>1 DEF TypeOK, ObsType
  <2>3. \A p \in Parts : obs'.seen[p] = IF p = part THEN tree[p] ELSE obs.seen[p]
    BY <2>2 DEF TypeOK, ObsType, Tree
  <2>4. Live' => Live
    BY <2>0, <2>2 DEF Live
  <2>5. AfterPart[part] \in {"ref", "index", "status"} /\ (AfterPart[part] = "status" <=> part = "index")
    BY DEF AfterPart
  <2>6. Live' => Shape'
    BY <1>0, <2>0, <2>2, <2>3, <2>4, <2>5 DEF Shape
  <2>7. CASE part # "index"
    BY <2>0, <2>2, <2>3, <2>5, <2>6, <2>7, SnapBefore
  <2>8. CASE part = "index"
    <3>0. Kept' = Kept /\ Kept \subseteq Parts \ {"index"}
      BY <2>0 DEF Kept
    <3> SUFFICES ASSUME Live'
                 PROVE  /\ \A p \in Kept : obs'.seen[p] <= tree[p]
                        /\ \E w \in worlds : IsMoment(w)'
                        /\ Finished' = {}
      BY <2>0, <2>6, <3>0 DEF SnapInv
    <3>1. \A p \in Kept : obs.seen[p] <= tree[p]
      BY <2>0, <2>4 DEF SnapInv
    <3>2. \A p \in Parts : tree[p] \in Nat
      BY ChangesAssumption DEF TypeOK, Tree, Versions
    <3>3. \A n \in Nat : n <= n
      OBVIOUS
    <3>4. Confirmed' = {} /\ Finished' = {}
      BY <2>0, <2>2, <2>8 DEF Confirmed, Finished
    <3>5. tree'["index"] = obs'.seen["index"] /\ tree' = tree /\ tree \in worlds
      BY <2>0, <2>3, <2>8 DEF BoundInv
    <3>6. \A p \in Kept : obs'.seen[p] <= tree[p] /\ tree[p] <= tree[p]
      BY <2>3, <2>8, <3>0, <3>1, <3>2, <3>3
    <3>8. \E w \in worlds : IsMoment(w)'
      BY <3>0, <3>5, <3>6, <3>4 DEF IsMoment
    <3> QED
      BY <3>4, <3>6, <3>8
  <2> QED
    BY <2>7, <2>8
<1>8. ASSUME NEW part \in {"head", "ref", "index"}, ReadPartAgain(part) PROVE SnapInv'
  <2>0. obs.at = part /\ obs.again /\ UNCHANGED <<tree, worlds, returned>> /\ part \in Parts
    BY <1>8 DEF ReadPartAgain, Quiet, surroundings, history, Parts, Metadata
  <2>1. PICK d \in BOOLEAN :
          /\ d = (obs.differs \/ tree[part] # obs.seen[part])
          /\ IF d /\ part # "head" THEN End("WORKTREE_CHANGED")
             ELSE IF part = "index" THEN StartScan("scan")
             ELSE obs' = [obs EXCEPT !.at = AfterPart[part], !.differs = d]
    BY <1>8 DEF ReadPartAgain, TypeOK, ObsType
  <2>2. CASE d /\ part # "head"
    BY <2>1, <2>2, SnapEnd DEF Codes
  <2>3. CASE ~(d /\ part # "head")
    <3>1. /\ obs'.at \in {"ref", "index", "scan"} /\ obs'.capability = obs.capability
          /\ obs'.seen = obs.seen /\ obs'.status = obs.status /\ obs'.again = obs.again
          /\ part = "head" => obs'.at = "ref" /\ obs'.differs = d
          /\ part = "ref" => obs'.at = "index"
          /\ part = "index" => obs'.at = "scan" /\ obs'.left = Paths
      <4>1. CASE part = "index"
        BY <2>1, <2>3, <4>1 DEF StartScan, TypeOK, ObsType
      <4>2. CASE part # "index"
        <5>1. obs' = [obs EXCEPT !.at = AfterPart[part], !.differs = d] /\ part \in {"head", "ref"}
          BY <2>1, <2>3, <4>2
        <5>2. /\ obs'.at = AfterPart[part] /\ obs'.capability = obs.capability
              /\ obs'.seen = obs.seen /\ obs'.status = obs.status /\ obs'.again = obs.again
              /\ obs'.differs = d
          BY <5>1 DEF TypeOK, ObsType
        <5> QED
          BY <5>1, <5>2 DEF AfterPart
      <4> QED
        BY <4>1, <4>2
    <3>2. Live' => Live
      BY <2>0, <3>1 DEF Live
    <3>3. AfterIndex /\ Finished' \subseteq Finished
      BY <2>0, <3>1 DEF AfterIndex, Finished
    <3>4. ~d => tree[part] = obs.seen[part] /\ ~obs.differs
      BY <2>1
    <3>5. Confirmed' \subseteq Confirmed \cup {p \in Parts : tree[p] = obs.seen[p]}
      <4>1. CASE part = "head"
        BY <2>0, <3>1, <3>4, <4>1, PathsAssumption DEF Confirmed, Parts, Metadata
      <4>2. CASE part = "ref"
        BY <2>0, <2>3, <3>1, <3>4, <4>2, PathsAssumption DEF Confirmed, Parts, Metadata
      <4>3. CASE part = "index"
        BY <2>0, <2>3, <3>1, <3>4, <4>3, PathsAssumption DEF Confirmed, Parts, Metadata
      <4> QED
        BY <4>1, <4>2, <4>3
    <3>6. Live' => Shape'
      BY <1>0, <2>0, <3>1, <3>2 DEF Shape
    <3> QED
      BY <2>0, <3>1, <3>3, <3>5, <3>6, SnapOn
  <2> QED
    BY <2>2, <2>3
<1>9. ASSUME NEW q \in Paths, Status(q) PROVE SnapInv'
  <2>0. obs.at = "status" /\ q \in obs.left /\ UNCHANGED <<tree, worlds, returned>> /\ q \in Parts
    BY <1>9 DEF Status, Quiet, surroundings, history, Parts
  <2>1. CASE stops # {}
    <3>1. End(ReasonAfterwards) /\ ReasonAfterwards # "OK"
      BY <1>9, <2>1 DEF Status, ReasonAfterwards
    <3> QED
      BY <3>1, SnapEnd, ReasonsType
  <2>2. CASE stops = {}
    <3>1. obs' = [obs EXCEPT !.left = @ \ {q}, !.status[q] = tree[q]]
      BY <1>9, <2>2 DEF Status
    <3>2. obs'.at = "status" /\ obs'.capability = obs.capability /\ obs'.seen = obs.seen
          /\ obs'.status = [obs.status EXCEPT ![q] = tree[q]] /\ obs'.again = obs.again
          /\ obs'.left = obs.left \ {q}
      BY <2>0, <3>1 DEF TypeOK, ObsType
    <3>3. \A p \in Paths : obs'.status[p] = IF p = q THEN tree[p] ELSE obs.status[p]
      BY <3>2 DEF TypeOK, ObsType
    <3>4. Live' => Live /\ Shape'
      BY <1>0, <2>0, <3>2 DEF Live, Shape
    <3>5. Live' => Confirmed' = {} /\ Confirmed = {}
      BY <1>0, <2>0, <3>2, <3>4 DEF Confirmed, Shape
    <3>0. Kept' = Kept
      BY <2>0 DEF Kept
    <3> SUFFICES ASSUME Live'
                 PROVE  /\ \A p \in Kept : obs.seen[p] <= tree[p]
                        /\ \E w \in worlds : IsMoment(w)'
                        /\ \A p \in Finished' \ returned :
                             obs.seen[p] <= obs'.status[p] /\ obs'.status[p] <= tree[p]
      BY <2>0, <3>0, <3>2, <3>4, <3>5 DEF SnapInv
    <3>6. /\ \A p \in Kept : obs.seen[p] <= tree[p]
          /\ \E w \in worlds : IsMoment(w)
          /\ \A p \in Finished \ returned : obs.seen[p] <= obs.status[p] /\ obs.status[p] <= tree[p]
      BY <2>0, <3>4 DEF SnapInv, AfterIndex
    <3>7. \E w \in worlds : IsMoment(w)'
      BY <2>0, <3>0, <3>2, <3>5, <3>6 DEF IsMoment
    <3>8. ASSUME NEW p \in Finished' \ returned
          PROVE  obs.seen[p] <= obs'.status[p] /\ obs'.status[p] <= tree[p]
      <4>1. p \in Paths /\ p \in Kept /\ tree[p] \in Nat
        BY PathsAssumption, ChangesAssumption
        DEF Finished, Kept, Parts, Metadata, TypeOK, Tree, Versions
      <4>2. CASE p = q
        BY <3>3, <3>6, <4>1, <4>2
      <4>3. CASE p # q
        <5>1. p \in Finished \ returned
          BY <2>0, <3>2, <4>3 DEF Finished
        <5> QED
          BY <3>3, <3>6, <4>1, <4>3, <5>1
      <4> QED
        BY <4>2, <4>3
    <3> QED
      BY <3>6, <3>7, <3>8
  <2> QED
    BY <2>1, <2>2
<1>10. CASE StatusEnds
  <2>0. obs.at = "status" /\ obs.left = {} /\ UNCHANGED <<tree, worlds, returned>>
    BY <1>10 DEF StatusEnds, Quiet, surroundings, history
  <2>1. obs' = [obs EXCEPT !.at = "validate", !.again = TRUE]
    BY <1>10 DEF StatusEnds
  <2>2. obs'.at = "validate" /\ obs'.capability = obs.capability /\ obs'.seen = obs.seen
        /\ obs'.status = obs.status /\ obs'.again
    BY <2>1 DEF TypeOK, ObsType
  <2>3. Live' => Live
    BY <2>0, <2>2 DEF Live
  <2>4. AfterIndex /\ Finished' \subseteq Finished
    BY <2>0 DEF AfterIndex, Finished
  <2>5. Confirmed' = {}
    BY <2>2, PathsAssumption DEF Confirmed, Parts, Metadata
  <2>6. Live' => Shape'
    BY <1>0, <2>2, <2>3 DEF Shape
  <2> QED
    BY <2>0, <2>2, <2>4, <2>5, <2>6, SnapOn
(* What follows comes after both looks.                                    *)
<1>11. ASSUME obs.at \in {"guard", "targetAgain", "policyAgain"},
              obs'.at \in {"targetAgain", "policyAgain", "ended"},
              UNCHANGED <<tree, worlds, returned>>,
              obs'.capability = obs.capability, obs'.seen = obs.seen,
              obs'.status = obs.status, obs'.again = obs.again
       PROVE  SnapInv'
  <2>1. Live' => Live
    BY <1>11 DEF Live
  <2>2. Confirmed' \subseteq Confirmed /\ Finished' \subseteq Finished
    BY <1>11 DEF Confirmed, Finished
  <2>3. AfterIndex' => AfterIndex
    BY <1>11 DEF AfterIndex
  <2>4. Live' => Shape'
    BY <1>0, <1>11, <2>1 DEF Shape
  <2> QED
    BY <1>11, <2>2, <2>3, <2>4, SnapOn
<1>12. CASE Guard
  BY <1>12, <1>11, SnapEnd, ReasonsType
  DEF Guard, Goto, Reason, Quiet, surroundings, history, TypeOK, ObsType
<1>13. CASE ReadTargetAgain
  BY <1>13, <1>11, SnapEnd
  DEF ReadTargetAgain, Goto, Quiet, surroundings, history, Codes, TypeOK, ObsType
<1>14. CASE EvaluatePolicyAgain
  BY <1>14, <1>11
  DEF EvaluatePolicyAgain, End, Quiet, surroundings, history, TypeOK, ObsType
<1>15. CASE StepFails
  BY <1>15, SnapEnd DEF StepFails, Codes
(* The points of the other capability.                                     *)
<1>16. CASE Verify \/ Fetch
  <2>1. obs.at \in {"verify", "fetch"} /\ obs'.capability = obs.capability
    BY <1>16 DEF Verify, RequestStopped, Fetch, Goto, End, TypeOK, ObsType
  <2>2. obs'.capability # "worktree"
    BY <1>0, <2>1 DEF Live, Shape
  <2> QED
    BY <2>2 DEF SnapInv, Live
<1> QED
  BY <1>1, <1>2, <1>3, <1>4, <1>5, <1>6, <1>7, <1>8, <1>9, <1>10, <1>12, <1>13, <1>14, <1>15, <1>16
  DEF Observation

(* A status that is returned says the truth of one instant of the          *)
(* observation about every part that did not come back meanwhile to what   *)
(* it was, or was made to look so.                                         *)
THEOREM SnapshotHolds == Spec => []SnapshotIsConsistent
<1>1. Init => BoundInv /\ OwnLook /\ StopInv /\ SnapInv
  <2> SUFFICES ASSUME Init PROVE BoundInv /\ OwnLook /\ StopInv /\ SnapInv
    OBVIOUS
  <2>1. BoundInv
    BY DEF Init, BoundInv
  <2>2. obs.at = "idle" /\ ~obs.again /\ obs.code = "none"
        /\ \A p \in Parts : obs.seen[p] = 0 /\ tree[p] = 0
    BY DEF Init, NoSnapshot
  <2>3. "place" \in Parts
    BY DEF Parts, Metadata
  <2>4. OwnLook
    BY ChangesAssumption DEF Init, OwnLook, Versions, Parts
  <2> QED
    BY <2>1, <2>2, <2>3, <2>4 DEF StopInv, SnapInv, Shape, AfterIndex, Finished, Kept
<1>2. TypeOK /\ BoundInv /\ OwnLook /\ StopInv /\ SnapInv /\ [Next]_vars => SnapInv'
  <2>1. SnapInv /\ UNCHANGED vars => SnapInv'
    BY DEF vars, surroundings, history, SnapInv, Live, Shape, Kept, AfterIndex, IsMoment,
       Confirmed, Finished
  <2> QED
    BY <2>1, SnapSurroundings, SnapObservation DEF Next
<1>3. TypeOK /\ StopInv /\ SnapInv => SnapshotIsConsistent
  <2> SUFFICES ASSUME TypeOK, StopInv, SnapInv, obs.code = "OK", obs.capability = "worktree"
               PROVE  \E w \in worlds : /\ w["index"] = obs.seen["index"]
                                        /\ \A p \in Parts \ returned : w[p] = obs.seen[p]
                                        /\ "place" \notin returned => w["place"] = 0
                                        /\ \A p \in Paths \ returned : obs.status[p] = w[p]
    BY DEF SnapshotIsConsistent
  <2>1. Live /\ obs.at = "ended"
    BY DEF Live, StopInv
  <2>2. Shape /\ obs.again
    BY <2>1 DEF SnapInv, Shape
  <2>3. Confirmed = Parts \ {"index"} /\ Finished = Paths
    BY <2>1, <2>2 DEF Confirmed, Finished
  <2>4. PICK w \in worlds : IsMoment(w)
    BY <2>1, <2>2 DEF SnapInv, AfterIndex
  <2>5. w["index"] = obs.seen["index"] /\ \A p \in Parts \ returned : w[p] = obs.seen[p]
    BY <2>3, <2>4 DEF IsMoment, Kept
  <2>6. \A p \in Paths \ returned : p \in Parts \ returned /\ obs.status[p] = obs.seen[p]
    BY <2>1, <2>3, PathsAssumption DEF SnapInv, Parts, Metadata
  <2>7. "place" \notin returned => w["place"] = 0
    BY <2>2, <2>5 DEF Shape, Parts, Metadata
  <2> QED
    BY <2>5, <2>6, <2>7
<1> QED
  BY <1>1, <1>2, <1>3, TypeCorrect, StopStep, BoundStep, LookStep, PTL DEF Spec

=============================================================================
