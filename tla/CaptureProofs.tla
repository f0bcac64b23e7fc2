---------------------------- MODULE CaptureProofs ----------------------------
(***************************************************************************)
(* Theorems about Capture, for any number of windows, processes, calls,    *)
(* pictures and changes of the desktop.                                    *)
(***************************************************************************)
EXTENDS Capture, TLAPS

-----------------------------------------------------------------------------
(* The types.  A number that counts changes is no larger than moves, and   *)
(* what stands for a window is one as soon as it is used.                  *)
HasWindow(c) == call[c].at \notin {"idle", "ended"}
HasOutput(c) ==
    \/ call[c].at \in {"read", "reading", "store"}
    \/ call[c].at \in {"identity", "focus"} /\ call[c].round # "before"

TypeInv ==
    /\ TypeOK
    /\ focus \in Visible \cup {NoHandle}
    /\ \A p \in Pids : created[p] <= moves
    /\ \A i \in Ids : lease[i].state = "held" => lease[i].window \in Identities
    /\ \A c \in Calls : /\ call[c].began <= moves
                        /\ HasWindow(c) => call[c].window \in Identities
                        /\ HasOutput(c) => call[c].stable \in Names
                        /\ call[c].at = "idle" => call[c].round = "before"

LEMMA IdentityType ==
    ASSUME TypeOK, NEW h \in Visible
    PROVE  Identity(h) \in Identities
  BY DEF TypeOK, Identity, Identities, Visible

(* What holds of the calls.                                                *)
CallOK(r) ==
    /\ r \in CallType
    /\ r.began <= moves
    /\ r.at \notin {"idle", "ended"} => r.window \in Identities
    /\ \/ r.at \in {"read", "reading", "store"}
       \/ r.at \in {"identity", "focus"} /\ r.round # "before"
       => r.stable \in Names
    /\ r.at = "idle" => r.round = "before"

LEMMA CallsOK == TypeInv => \A c \in Calls : CallOK(call[c])
  BY DEF TypeInv, TypeOK, CallOK, HasWindow, HasOutput

(* A step that changes one call only.                                      *)
LEMMA OneCall ==
    ASSUME TypeInv, UNCHANGED <<shown, created, focus, agreed, moves, files>>,
           shot' \in [Shots -> ShotType], artifact' \in [Calls -> ArtifactType],
           lease' \in [Ids -> LeaseType],
           \A i \in Ids : lease'[i].state = "held" => lease'[i].window \in Identities,
           NEW c \in Calls, NEW r, CallOK(r), call' = [call EXCEPT ![c] = r]
    PROVE  TypeInv'
<1>1. \A d \in Calls : call'[d] = IF d = c THEN r ELSE call[d]
  BY DEF TypeInv, TypeOK
<1>2. \A d \in Calls : CallOK(call'[d])
  BY <1>1, CallsOK
<1>3. call' \in [Calls -> CallType]
  BY <1>1, <1>2 DEF CallOK, TypeInv, TypeOK
<1>4. TypeOK'
  BY <1>3 DEF TypeInv, TypeOK
<1> QED
  BY <1>2, <1>4 DEF TypeInv, Visible, CallOK, HasWindow, HasOutput

LEMMA NoCallOK ==
    ASSUME TypeInv, NEW code \in Codes
    PROVE  /\ NoCall \in CallType
           /\ CallOK([NoCall EXCEPT !.at = "ended", !.code = code])
<1>1. 0 \in 0 .. MaxMoves /\ NoFile \in Signatures /\ NoWindow \in Windows
  BY MovesAssumption DEF Signatures, Windows
<1>2. NoCall \in CallType
  BY <1>1 DEF NoCall, CallType, Points, Rounds, Codes
<1>3. moves \in Nat
  BY MovesAssumption DEF TypeInv, TypeOK
<1>4. [NoCall EXCEPT !.at = "ended", !.code = code] \in CallType
  BY <1>2 DEF CallType, Points
<1>5. NoCall.began = 0
  BY DEF NoCall
<1> QED
  BY <1>2, <1>3, <1>4, <1>5 DEF CallOK, CallType

LEMMA EndOK ==
    ASSUME TypeInv, NEW c \in Calls, NEW code \in Codes, End(c, code), Untouched
    PROVE  TypeInv'
<1>1. CallOK([NoCall EXCEPT !.at = "ended", !.code = code])
  BY NoCallOK
<1> QED
  BY <1>1, OneCall DEF End, Untouched, world, desktop, greenshot, TypeInv, TypeOK

(* A step of one call that goes on, and touches nothing else.              *)
LEMMA GoesOnOK ==
    ASSUME TypeInv, NEW c \in Calls, NEW r, CallOK(r), call' = [call EXCEPT ![c] = r], Untouched
    PROVE  TypeInv'
  BY OneCall DEF Untouched, world, desktop, greenshot, TypeInv, TypeOK

LEMMA GotoOK ==
    ASSUME TypeInv, NEW c \in Calls, NEW point \in Points, Goto(c, point), Untouched,
           HasWindow(c), point # "idle", point \in {"read", "reading", "store"} => HasOutput(c),
           point \in {"identity", "focus"} => call[c].at \in {"identity", "focus"}
    PROVE  TypeInv'
<1> DEFINE r == [call[c] EXCEPT !.at = point]
<1>1. call[c] \in CallType /\ CallOK(call[c])
  BY CallsOK DEF TypeInv, TypeOK
<1>2. r \in CallType /\ r.at = point /\ r.window = call[c].window /\ r.round = call[c].round
      /\ r.stable = call[c].stable /\ r.began = call[c].began
  BY <1>1 DEF CallType
<1>3. call' = [call EXCEPT ![c] = r]
  BY DEF Goto, TypeInv, TypeOK
<1>4. call[c].window \in Identities
  BY DEF TypeInv
<1>5. point \in {"read", "reading", "store"} => call[c].stable \in Names
  BY DEF TypeInv
<1>6. point \in {"identity", "focus"} /\ call[c].round # "before" => call[c].stable \in Names
  BY DEF TypeInv, HasOutput
<1>7. CallOK(r)
  <2> HIDE DEF r
  <2> QED
    BY <1>1, <1>2, <1>4, <1>5, <1>6 DEF CallOK
<1> HIDE DEF r
<1> QED
  BY <1>3, <1>7, GoesOnOK

-----------------------------------------------------------------------------
(* The desktop and Greenshot.                                              *)
LEMMA MoveOK ==
    ASSUME TypeInv, moves' \in 0 .. MaxMoves, moves' >= moves,
           shown' \in [Handles -> Pids \cup {NoPid}], created' \in [Pids -> 0 .. MaxMoves],
           focus' \in Visible' \cup {NoHandle}, \A p \in Pids : created'[p] <= moves',
           agreed' \in BOOLEAN,
           UNCHANGED <<shot, files, lease, artifact>>,
           \A c \in Calls : /\ call'[c] \in CallType
                            /\ call'[c].at = call[c].at /\ call'[c].round = call[c].round
                            /\ call'[c].window = call[c].window
                            /\ call'[c].stable = call[c].stable
                            /\ call'[c].began = call[c].began,
           call' = [c \in Calls |-> call'[c]]
    PROVE  TypeInv'
<1>1. call' \in [Calls -> CallType]
  OBVIOUS
<1>2. TypeOK'
  <2>1. focus' \in Handles \cup {NoHandle}
    BY DEF Visible
  <2> QED
    BY <1>1, <2>1 DEF TypeInv, TypeOK
<1>3. moves \in Nat /\ moves' \in Nat /\ \A c \in Calls : call[c].began \in Nat
  BY MovesAssumption DEF TypeInv, TypeOK, CallType
<1>4. \A c \in Calls : call'[c].began <= moves'
  BY <1>3 DEF TypeInv
<1>5. \A c \in Calls : /\ HasWindow(c)' => call'[c].window \in Identities
                       /\ HasOutput(c)' => call'[c].stable \in Names
                       /\ call'[c].at = "idle" => call'[c].round = "before"
  BY DEF TypeInv, HasWindow, HasOutput
<1> QED
  BY <1>2, <1>4, <1>5 DEF TypeInv

LEMMA DisturbType ==
    ASSUME TypeInv, NEW S, Disturb(S)
    PROVE  /\ call' = [c \in Calls |-> call'[c]]
           /\ \A c \in Calls :
                /\ call'[c] \in CallType
                /\ call'[c].at = call[c].at /\ call'[c].round = call[c].round
                /\ call'[c].window = call[c].window /\ call'[c].base = call[c].base
                /\ call'[c].stable = call[c].stable /\ call'[c].marker = call[c].marker
                /\ call'[c].code = call[c].code /\ call'[c].began = call[c].began
                /\ call'[c].disturbed = (call[c].disturbed \/ c \in S)
<1>1. \A c \in Calls : call'[c] = IF c \in S THEN [call[c] EXCEPT !.disturbed = TRUE] ELSE call[c]
  BY DEF Disturb
<1>2. \A c \in Calls : call[c] \in CallType
  BY DEF TypeInv, TypeOK
<1> QED
  BY <1>1, <1>2 DEF Disturb, CallType

LEMMA DesktopOK == TypeInv /\ Desktop => TypeInv'
<1> SUFFICES ASSUME TypeInv, Desktop PROVE TypeInv'
  OBVIOUS
<1>1. /\ UNCHANGED <<agreed, shot, files, lease, call, artifact>>
      /\ moves \in 0 .. MaxMoves /\ moves < MaxMoves /\ moves' = moves + 1
  BY DEF Desktop, OpenWindow, CloseWindow, SwitchTo, ProcessEnds, MayMove, greenshot, provider,
     TypeInv, TypeOK
<1>2. moves' \in 0 .. MaxMoves /\ moves' >= moves /\ moves \in Nat /\ moves' \in Nat
  BY <1>1, MovesAssumption
<1>3. \A c \in Calls : call'[c] \in CallType
  BY <1>1 DEF TypeInv, TypeOK
<1>4. \A p \in Pids : created[p] \in Nat /\ created[p] <= moves
  BY MovesAssumption DEF TypeInv, TypeOK
<1>5. call' = [c \in Calls |-> call'[c]] /\ agreed' \in BOOLEAN
  BY <1>1 DEF TypeInv, TypeOK
<1>6. ASSUME shown' \in [Handles -> Pids \cup {NoPid}], created' \in [Pids -> 0 .. MaxMoves],
             focus' \in Visible' \cup {NoHandle}, \A p \in Pids : created'[p] <= moves'
      PROVE  TypeInv'
  BY <1>1, <1>2, <1>3, <1>5, <1>6, MoveOK
<1>7. created \in [Pids -> 0 .. MaxMoves] /\ shown \in [Handles -> Pids \cup {NoPid}]
      /\ focus \in Visible \cup {NoHandle}
  BY DEF TypeInv, TypeOK
<1>8. \A p \in Pids : created[p] <= moves'
  BY <1>1, <1>2, <1>4
<1>9. ASSUME NEW h \in Handles, NEW p \in Pids, OpenWindow(h, p) PROVE TypeInv'
  <2>1. shown' = [shown EXCEPT ![h] = p] /\ created' = created /\ focus' \in {focus, h}
    BY <1>9 DEF OpenWindow
  <2>2. \A g \in Handles : shown'[g] = IF g = h THEN p ELSE shown[g]
    BY <1>7, <2>1
  <2>3. p # NoPid
    BY NobodyAssumption
  <2>4. Visible' = Visible \cup {h}
    BY <2>2, <2>3 DEF Visible
  <2> QED
    BY <1>6, <1>7, <1>8, <2>1, <2>4
<1>10. ASSUME NEW h \in Handles, CloseWindow(h) PROVE TypeInv'
  <2>1. shown' = [shown EXCEPT ![h] = NoPid] /\ created' = created
        /\ focus' \in IF focus = h THEN (Visible \ {h}) \cup {NoHandle} ELSE {focus}
    BY <1>10 DEF CloseWindow
  <2>2. Visible' = Visible \ {h}
    BY <1>7, <2>1 DEF Visible
  <2> QED
    BY <1>6, <1>7, <1>8, <2>1, <2>2
<1>11. ASSUME NEW h, SwitchTo(h) PROVE TypeInv'
  <2>1. UNCHANGED <<shown, created>> /\ focus' \in Visible \cup {NoHandle}
    BY <1>11 DEF SwitchTo
  <2>2. Visible' = Visible
    BY <2>1 DEF Visible
  <2> QED
    BY <1>6, <1>7, <1>8, <2>1, <2>2
<1>12. ASSUME NEW p \in Pids, ProcessEnds(p) PROVE TypeInv'
  <2>1. /\ created' = [created EXCEPT ![p] = @ + 1]
        /\ shown' = [h \in Handles |-> IF shown[h] = p THEN NoPid ELSE shown[h]]
        /\ focus' \in {h \in Visible : shown[h] # p} \cup {NoHandle}
    BY <1>7, <1>12 DEF ProcessEnds
  <2>2. shown' \in [Handles -> Pids \cup {NoPid}]
    BY <1>7, <2>1
  <2>3. focus' \in Visible' \cup {NoHandle}
    BY <2>1 DEF Visible
  <2>4. created[p] + 1 \in 0 .. MaxMoves /\ created[p] + 1 <= moves'
    BY <1>1, <1>2, <1>4, MovesAssumption
  <2>5. created' \in [Pids -> 0 .. MaxMoves] /\ \A q \in Pids : created'[q] <= moves'
    BY <1>7, <1>8, <2>1, <2>4
  <2> QED
    BY <1>6, <2>2, <2>3, <2>5
<1> QED
  BY <1>9, <1>10, <1>11, <1>12 DEF Desktop

LEMMA GreenshotOK == TypeInv /\ Greenshot => TypeInv'
<1> SUFFICES ASSUME TypeInv, Greenshot PROVE TypeInv'
  OBVIOUS
<1>1. CASE EditPreferences
  <2>1. moves' \in 0 .. MaxMoves /\ moves' >= moves /\ moves \in Nat /\ moves' \in Nat
    BY <1>1, MovesAssumption DEF EditPreferences, MayMove, TypeInv, TypeOK
  <2>2. UNCHANGED <<shown, created, focus, shot, files, lease, artifact>> /\ agreed' \in BOOLEAN
    BY <1>1 DEF EditPreferences, desktop, greenshot
  <2>3. \A p \in Pids : created'[p] <= moves'
    BY <2>1, <2>2, MovesAssumption DEF TypeInv, TypeOK
  <2>4. Visible' = Visible
    BY <2>2 DEF Visible
  <2>5. PICK S : Disturb(S)
    BY <1>1 DEF EditPreferences
  <2> QED
    BY <2>1, <2>2, <2>3, <2>4, <2>5, DisturbType, MoveOK DEF TypeInv, TypeOK
<1>2. ASSUME NEW c \in Calls, TakeShot(c) PROVE TypeInv'
  <2>1. PICK subject \in Windows : shot' = [shot EXCEPT ![c].phase = "taken", ![c].subject = subject]
    <3>1. NoWindow \in Windows /\ (focus # NoHandle => Identity(focus) \in Windows)
      BY IdentityType DEF TypeInv, Windows
    <3> QED
      BY <1>2, <3>1 DEF TakeShot
  <2>2. shot' \in [Shots -> ShotType]
    <3>1. shot \in [Shots -> ShotType] /\ c \in Shots
      BY DEF TypeInv, TypeOK, Shots
    <3> QED
      BY <2>1, <3>1 DEF ShotType
  <2>3. UNCHANGED <<shown, created, focus, agreed, moves, files, lease, call, artifact>>
    BY <1>2 DEF TakeShot, desktop, provider
  <2> QED
    BY <2>2, <2>3 DEF TypeInv, TypeOK, Visible, HasWindow, HasOutput
<1>3. ASSUME NEW s \in Shots, NEW n \in Names, WriteFile(s, n) PROVE TypeInv'
  <2>1. PICK good \in BOOLEAN, k \in Empty .. Whole :
          /\ files' = [files EXCEPT ![n] = [by |-> s, stage |-> k]]
          /\ shot' = [shot EXCEPT ![s].name = n, ![s].good = good]
    BY <1>3 DEF WriteFile
  <2>2. files' \in [Names -> Signatures]
    BY <2>1 DEF TypeInv, TypeOK, Signatures, FileType
  <2>3. shot' \in [Shots -> ShotType]
    <3>1. shot \in [Shots -> ShotType]
      BY DEF TypeInv, TypeOK
    <3> QED
      BY <2>1, <3>1 DEF ShotType
  <2>4. UNCHANGED <<shown, created, focus, agreed, moves, lease, artifact>>
    BY <1>3 DEF WriteFile, desktop
  <2>5. PICK S : Disturb(S)
    BY <1>3 DEF WriteFile
  <2>6. call' \in [Calls -> CallType]
    BY <2>5, DisturbType
  <2>7. TypeOK'
    BY <2>2, <2>3, <2>4, <2>6 DEF TypeInv, TypeOK
  <2>8. \A c \in Calls : /\ call'[c].began <= moves
                         /\ HasWindow(c)' => call'[c].window \in Identities
                         /\ HasOutput(c)' => call'[c].stable \in Names
                         /\ call'[c].at = "idle" => call'[c].round = "before"
    BY <2>5, DisturbType DEF TypeInv, HasWindow, HasOutput
  <2> QED
    BY <2>4, <2>7, <2>8 DEF TypeInv, Visible
<1> QED
  BY <1>1, <1>2, <1>3 DEF Greenshot

-----------------------------------------------------------------------------
(* The provider.                                                           *)
LEMMA ListOK == TypeInv /\ ListWindows => TypeInv'
<1> SUFFICES ASSUME TypeInv, ListWindows PROVE TypeInv'
  OBVIOUS
<1>1. PICK id, old : lease' = Leases(id, old)
  BY DEF ListWindows
<1>2. UNCHANGED <<world, call, artifact>>
  BY DEF ListWindows
<1>3. ASSUME NEW i \in Ids
      PROVE  lease'[i] \in LeaseType /\ (lease'[i].state = "held" => lease'[i].window \in Identities)
  <2>1. CASE \E h \in InScope : id[h] = i
    <3>1. (CHOOSE h \in InScope : id[h] = i) \in Visible
      BY <2>1 DEF InScope
    <3>2. Identity(CHOOSE h \in InScope : id[h] = i) \in Identities
      BY <3>1, IdentityType DEF TypeInv
    <3>3. lease'[i] = [state |-> "held", window |-> Identity(CHOOSE h \in InScope : id[h] = i)]
      BY <1>1, <2>1 DEF Leases
    <3> QED
      BY <3>2, <3>3 DEF LeaseType, Windows
  <2>2. CASE ~ \E h \in InScope : id[h] = i
    <3>1. lease'[i] = [lease[i] EXCEPT !.state = "gone"] \/ lease'[i] = lease[i]
      BY <1>1, <2>2 DEF Leases
    <3>2. lease[i] \in LeaseType /\ (lease[i].state = "held" => lease[i].window \in Identities)
      BY DEF TypeInv, TypeOK
    <3> QED
      BY <3>1, <3>2 DEF LeaseType
  <2> QED
    BY <2>1, <2>2
<1>4. lease' \in [Ids -> LeaseType]
  BY <1>1, <1>3 DEF Leases
<1> QED
  BY <1>2, <1>3, <1>4
  DEF TypeInv, TypeOK, world, desktop, greenshot, Visible, HasWindow, HasOutput

LEMMA BeginOK == \A c \in Calls, i \in Ids : TypeInv /\ (Begin(c, i) \/ LeaseRefused(c, i)) => TypeInv'
<1> SUFFICES ASSUME NEW c \in Calls, NEW i \in Ids, TypeInv, Begin(c, i) \/ LeaseRefused(c, i)
             PROVE  TypeInv'
  OBVIOUS
<1>0. call[c] \in CallType /\ CallOK(call[c])
  BY CallsOK DEF TypeInv, TypeOK
<1>1. CASE Begin(c, i)
  <2> DEFINE r == [call[c] EXCEPT !.at = "identity", !.window = lease[i].window]
  <2>1. call' = [call EXCEPT ![c] = r] /\ Untouched /\ lease[i].state = "held" /\ call[c].at = "idle"
    BY <1>1 DEF Begin, Free, TypeInv, TypeOK
  <2>2. lease[i].window \in Identities
    BY <2>1 DEF TypeInv
  <2>3. /\ r \in CallType /\ r.at = "identity" /\ r.round = "before" /\ r.began = call[c].began
        /\ r.window = lease[i].window
    BY <1>0, <2>1, <2>2 DEF CallType, Windows, Points, CallOK
  <2> HIDE DEF r
  <2>4. CallOK(r)
    BY <1>0, <2>2, <2>3 DEF CallOK
  <2> QED
    BY <2>1, <2>4, GoesOnOK
<1>2. CASE LeaseRefused(c, i)
  <2>1. PICK code \in Codes : End(c, code)
    BY <1>2 DEF LeaseRefused, Codes
  <2>2. lease' = [lease EXCEPT ![i].state = IF @ = "held" THEN "gone" ELSE @]
        /\ UNCHANGED <<world, artifact>>
    BY <1>2 DEF LeaseRefused
  <2>3. lease' \in [Ids -> LeaseType] /\ \A j \in Ids : lease'[j].state = "held" => lease'[j] = lease[j]
    BY <2>2 DEF TypeInv, TypeOK, LeaseType
  <2>4. \A j \in Ids : lease'[j].state = "held" => lease'[j].window \in Identities
    BY <2>3 DEF TypeInv
  <2>5. CallOK([NoCall EXCEPT !.at = "ended", !.code = code])
    BY NoCallOK
  <2> QED
    BY <2>1, <2>2, <2>3, <2>4, <2>5, OneCall DEF End, world, desktop, greenshot, TypeInv, TypeOK
<1> QED
  BY <1>1, <1>2

LEMMA WorksOK == \A c \in Calls : TypeInv /\ Works(c) => TypeInv'
<1> SUFFICES ASSUME NEW c \in Calls, TypeInv, Works(c) PROVE TypeInv'
  OBVIOUS
<1>0. call[c] \in CallType /\ CallOK(call[c])
  BY CallsOK DEF TypeInv, TypeOK
<1>1. CASE CheckIdentity(c)
  <2>1. call[c].at = "identity" /\ Untouched
        /\ \/ \E code \in Codes : End(c, code)
           \/ Goto(c, "focus")
    BY <1>1 DEF CheckIdentity, Codes
  <2>2. HasWindow(c)
    BY <2>1 DEF HasWindow
  <2> QED
    BY <2>1, <2>2, EndOK, GotoOK DEF Points
<1>2. CASE CheckForeground(c)
  <2>0. call[c].at = "focus" /\ Untouched
    BY <1>2 DEF CheckForeground
  <2>1. CASE focus # call[c].window.handle
    BY <1>2, <2>0, <2>1, EndOK DEF CheckForeground, Codes
  <2>2. CASE focus = call[c].window.handle
    <3> DEFINE r == [call[c] EXCEPT !.at = AfterTheLook[call[c].round],
                                    !.began = IF call[c].round = "before" THEN moves ELSE @]
    <3>1. call' = [call EXCEPT ![c] = r]
      BY <1>2, <2>2 DEF CheckForeground, TypeInv, TypeOK
    <3>2. call[c].round \in Rounds /\ AfterTheLook[call[c].round] \in {"settings", "read", "store"}
          /\ (call[c].round = "before" => AfterTheLook[call[c].round] = "settings")
      BY <1>0 DEF CallType, Rounds, AfterTheLook
    <3>3. moves \in 0 .. MaxMoves /\ moves <= moves
      BY MovesAssumption DEF TypeInv, TypeOK
    <3>4. /\ r \in CallType /\ r.at = AfterTheLook[call[c].round] /\ r.window = call[c].window
          /\ r.stable = call[c].stable /\ r.began \in {moves, call[c].began}
      BY <1>0, <3>2, <3>3 DEF CallType, Points
    <3> HIDE DEF r
    <3>5. CallOK(r)
      BY <1>0, <2>0, <3>2, <3>3, <3>4 DEF CallOK
    <3> QED
      BY <2>0, <3>1, <3>5, GoesOnOK
  <2> QED
    BY <2>1, <2>2
<1>3. CASE ReadSettings(c)
  <2>1. call[c].at = "settings" /\ Untouched
        /\ \/ \E code \in Codes : End(c, code)
           \/ Goto(c, "baseline")
    BY <1>3 DEF ReadSettings, Codes
  <2>2. HasWindow(c)
    BY <2>1 DEF HasWindow
  <2> QED
    BY <2>1, <2>2, EndOK, GotoOK DEF Points
<1>4. CASE TakeBaseline(c)
  <2> DEFINE r == [call[c] EXCEPT !.at = "hotkey", !.base = files]
  <2>1. call[c].at = "baseline" /\ Untouched /\ call' = [call EXCEPT ![c] = r]
    BY <1>4 DEF TakeBaseline, TypeInv, TypeOK
  <2>2. files \in [Names -> Signatures]
    BY DEF TypeInv, TypeOK
  <2>3. r \in CallType /\ r.at = "hotkey" /\ r.window = call[c].window /\ r.began = call[c].began
    BY <1>0, <2>2 DEF CallType, Points
  <2> HIDE DEF r
  <2>4. CallOK(r)
    BY <1>0, <2>1, <2>3 DEF CallOK
  <2> QED
    BY <2>1, <2>4, GoesOnOK
<1>5. CASE SendHotkey(c)
  <2>1. call[c].at = "hotkey" /\ UNCHANGED <<desktop, agreed, moves, files, lease, artifact>>
        /\ \/ End(c, "HOTKEY_NOT_SENT")
           \/ Goto(c, "poll")
    BY <1>5 DEF SendHotkey
  <2>2. shot' \in [Shots -> ShotType]
    <3>1. shot \in [Shots -> ShotType] /\ c \in Shots
      BY DEF TypeInv, TypeOK, Shots
    <3>2. shot' = shot \/ shot' = [shot EXCEPT ![c].phase = "asked"]
      BY <1>5 DEF SendHotkey
    <3> QED
      BY <3>1, <3>2 DEF ShotType
  <2>3. ASSUME NEW r, CallOK(r), call' = [call EXCEPT ![c] = r] PROVE TypeInv'
    BY <2>1, <2>2, <2>3, OneCall DEF desktop, TypeInv, TypeOK
  <2>4. CASE End(c, "HOTKEY_NOT_SENT")
    BY <2>3, <2>4, NoCallOK DEF End, Codes
  <2>5. CASE Goto(c, "poll")
    <3> DEFINE r == [call[c] EXCEPT !.at = "poll"]
    <3>1. r \in CallType /\ r.at = "poll" /\ r.window = call[c].window /\ r.began = call[c].began
      BY <1>0 DEF CallType, Points
    <3>2. call' = [call EXCEPT ![c] = r]
      BY <2>5 DEF Goto, TypeInv, TypeOK
    <3> HIDE DEF r
    <3>3. CallOK(r)
      BY <1>0, <2>1, <3>1 DEF CallOK
    <3> QED
      BY <2>3, <3>2, <3>3
  <2> QED
    BY <2>1, <2>4, <2>5
<1>6. CASE Poll(c)
  <2>0. call[c].at = "poll" /\ Untouched
    BY <1>6 DEF Poll
  <2>1. CASE \E code \in Codes : End(c, code)
    BY <2>0, <2>1, EndOK
  <2>2. ASSUME NEW stable \in Names \cup {NoName}, NEW marker \in Signatures,
               call' = [call EXCEPT ![c].stable = stable, ![c].marker = marker]
        PROVE  TypeInv'
    <3> DEFINE r == [call[c] EXCEPT !.stable = stable, !.marker = marker]
    <3>1. call' = [call EXCEPT ![c] = r]
      BY <2>2 DEF TypeInv, TypeOK
    <3>2. r \in CallType /\ r.at = "poll" /\ r.window = call[c].window /\ r.began = call[c].began
      BY <1>0, <2>0 DEF CallType
    <3> HIDE DEF r
    <3>3. CallOK(r)
      BY <1>0, <2>0, <3>2 DEF CallOK
    <3> QED
      BY <2>0, <3>1, <3>3, GoesOnOK
  <2>3. ASSUME call[c].stable \in Names,
               call' = [call EXCEPT ![c].at = "identity", ![c].round = "during"]
        PROVE  TypeInv'
    <3> DEFINE r == [call[c] EXCEPT !.at = "identity", !.round = "during"]
    <3>1. call' = [call EXCEPT ![c] = r]
      BY <2>3 DEF TypeInv, TypeOK
    <3>2. r \in CallType /\ r.at = "identity" /\ r.window = call[c].window
          /\ r.began = call[c].began /\ r.stable = call[c].stable
      BY <1>0 DEF CallType, Points, Rounds
    <3> HIDE DEF r
    <3>3. CallOK(r)
      BY <1>0, <2>0, <2>3, <3>2 DEF CallOK
    <3> QED
      BY <2>0, <3>1, <3>3, GoesOnOK
  <2>4. NoFile \in Signatures
    BY DEF Signatures
  <2>5. ASSUME NEW n \in Names, LookAt(c, n) PROVE TypeInv'
    <3>1. files[n] \in Signatures
      BY DEF TypeInv, TypeOK
    <3>2. \/ End(c, "OUTPUT_REFUSED")
          \/ call' = [call EXCEPT ![c].stable = n, ![c].marker = files[n]]
          \/ call[c].stable = n /\ call' = [call EXCEPT ![c].at = "identity", ![c].round = "during"]
      BY <2>5 DEF LookAt
    <3> QED
      BY <2>1, <2>2, <2>3, <3>1, <3>2 DEF Codes
  <2>6. \/ End(c, "OUTPUT_AMBIGUOUS")
        \/ call' = [call EXCEPT ![c].stable = NoName, ![c].marker = NoFile]
        \/ \E n \in Names : LookAt(c, n)
    BY <1>6 DEF Poll, Changed
  <2> QED
    BY <2>1, <2>2, <2>4, <2>5, <2>6 DEF Codes
<1>7. CASE ReadBegins(c)
  <2>1. call[c].at = "read" /\ Untouched
    BY <1>7 DEF ReadBegins
  <2>2. files[call[c].stable] \in Signatures
    BY <2>1 DEF TypeInv, TypeOK, HasOutput
  <2> DEFINE r == [call[c] EXCEPT !.at = "reading", !.marker = files[call[c].stable]]
  <2>3. End(c, "IMAGE_INVALID") \/ call' = [call EXCEPT ![c] = r]
    BY <1>7 DEF ReadBegins, TypeInv, TypeOK
  <2>4. r \in CallType /\ r.at = "reading" /\ r.window = call[c].window
        /\ r.began = call[c].began /\ r.stable = call[c].stable
    BY <1>0, <2>2 DEF CallType, Points
  <2> HIDE DEF r
  <2>5. CallOK(r)
    BY <1>0, <2>1, <2>4 DEF CallOK
  <2> QED
    BY <2>1, <2>3, <2>5, GoesOnOK, EndOK DEF Codes
<1>8. CASE ReadEnds(c)
  <2>1. call[c].at = "reading" /\ Untouched
    BY <1>8 DEF ReadEnds
  <2>2. Payload(c) \in Signatures \cup {Torn}
    BY <1>0 DEF Payload, CallType
  <2> DEFINE r == [call[c] EXCEPT !.at = "identity", !.round = "after", !.marker = Payload(c)]
  <2>3. (\E code \in Codes : End(c, code)) \/ call' = [call EXCEPT ![c] = r]
    BY <1>8 DEF ReadEnds, TypeInv, TypeOK, Codes
  <2>4. r \in CallType /\ r.at = "identity" /\ r.window = call[c].window
        /\ r.began = call[c].began /\ r.stable = call[c].stable
    BY <1>0, <2>2 DEF CallType, Points, Rounds
  <2> HIDE DEF r
  <2>5. CallOK(r)
    BY <1>0, <2>1, <2>4 DEF CallOK
  <2> QED
    BY <2>1, <2>3, <2>5, GoesOnOK, EndOK
<1>9. CASE Store(c)
  <2>1. call[c].at = "store" /\ UNCHANGED <<world, lease>> /\ End(c, "STORED")
    BY <1>9 DEF Store
  <2> DEFINE a == [file |-> call[c].marker, window |-> call[c].window,
                   moved |-> moves - call[c].began, disturbed |-> call[c].disturbed]
  <2>2. moves - call[c].began \in 0 .. MaxMoves
    <3>1. moves \in 0 .. MaxMoves /\ call[c].began \in 0 .. MaxMoves /\ call[c].began <= moves
      BY <1>0 DEF TypeInv, TypeOK, CallType
    <3> QED
      BY <3>1, MovesAssumption
  <2>3. a \in ArtifactType
    BY <1>0, <2>2 DEF CallType, ArtifactType
  <2>4. artifact' = [artifact EXCEPT ![c] = a]
    BY <1>9 DEF Store
  <2>5. artifact' \in [Calls -> ArtifactType]
    BY <2>3, <2>4 DEF TypeInv, TypeOK
  <2>6. CallOK([NoCall EXCEPT !.at = "ended", !.code = "STORED"])
    BY NoCallOK DEF Codes
  <2> HIDE DEF a
  <2> QED
    BY <2>1, <2>5, <2>6, OneCall DEF End, world, desktop, greenshot, TypeInv, TypeOK
<1> QED
  BY <1>1, <1>2, <1>3, <1>4, <1>5, <1>6, <1>7, <1>8, <1>9 DEF Works

LEMMA CrashOK == TypeInv /\ Crash => TypeInv'
<1> SUFFICES ASSUME TypeInv, Crash PROVE TypeInv'
  OBVIOUS
<1>1. CallOK([NoCall EXCEPT !.at = "ended", !.code = "CRASHED"])
  BY NoCallOK DEF Codes
<1>2. \A c \in Calls : CallOK(call'[c])
  BY <1>1, CallsOK DEF Crash
<1>3. call' \in [Calls -> CallType]
  BY <1>2 DEF Crash, CallOK
<1>4. \A i \in Ids : lease'[i] \in LeaseType
                    /\ (lease'[i].state = "held" => lease'[i].window \in Identities)
  BY DEF Crash, TypeInv, TypeOK, LeaseType
<1>5. lease' \in [Ids -> LeaseType]
  BY <1>4 DEF Crash
<1> QED
  BY <1>2, <1>3, <1>4, <1>5
  DEF Crash, TypeInv, TypeOK, CallOK, HasWindow, HasOutput, Visible, world, desktop, greenshot

LEMMA TypeInit == Init => TypeInv
<1> SUFFICES ASSUME Init PROVE TypeInv
  OBVIOUS
<1>1. 0 \in 0 .. MaxMoves /\ NoFile \in Signatures /\ NoWindow \in Windows
  BY MovesAssumption DEF Signatures, Windows
<1>2. NoCall \in CallType /\ NoCall.began = 0 /\ NoCall.at = "idle" /\ NoCall.round = "before"
  BY <1>1 DEF NoCall, CallType, Points, Rounds, Codes
<1>3. NoArtifact \in ArtifactType
  BY <1>1 DEF NoArtifact, ArtifactType
<1>4. shot \in [Shots -> ShotType]
  BY <1>1 DEF Init, ShotType
<1>5. lease \in [Ids -> LeaseType]
  BY <1>1 DEF Init, LeaseType
<1>6. shown \in [Handles -> Pids \cup {NoPid}] /\ created \in [Pids -> 0 .. MaxMoves]
      /\ focus \in Handles \cup {NoHandle} /\ agreed \in BOOLEAN /\ moves = 0
  BY <1>1, DesktopAssumption DEF Init, Visible
<1>7. call = [c \in Calls |-> NoCall] /\ artifact = [c \in Calls |-> NoArtifact]
      /\ files = [n \in Names |-> NoFile]
  BY DEF Init
<1>8. TypeOK
  BY <1>1, <1>2, <1>3, <1>4, <1>5, <1>6, <1>7 DEF TypeOK
<1>9. \A c \in Calls : CallOK(call[c])
  BY <1>2, <1>6, <1>7, MovesAssumption DEF CallOK
<1> QED
  BY <1>8, <1>9, <1>6, <1>1 DEF Init, TypeInv, CallOK, HasWindow, HasOutput

LEMMA TypeStep == TypeInv /\ [Next]_vars => TypeInv'
<1> SUFFICES ASSUME TypeInv, [Next]_vars PROVE TypeInv'
  OBVIOUS
<1>1. ASSUME NEW c \in Calls, Timeout(c) \/ StepFails(c) PROVE TypeInv'
  BY <1>1, EndOK DEF Timeout, StepFails, Codes
<1>2. CASE UNCHANGED vars
  BY <1>2 DEF vars, world, desktop, greenshot, provider, TypeInv, TypeOK, Visible, HasWindow,
     HasOutput
<1> QED
  BY <1>1, <1>2, DesktopOK, GreenshotOK, ListOK, BeginOK, WorksOK, CrashOK DEF Next, Provider

(* The variables of the provider and of the world around it keep their     *)
(* types.                                                                  *)
THEOREM TypeCorrect == Spec => []TypeOK
<1>1. TypeInv => TypeOK
  BY DEF TypeInv
<1> QED
  BY <1>1, TypeInit, TypeStep, PTL DEF Spec

-----------------------------------------------------------------------------
(* What is read.  Whether a picture is acceptable is decided when its file *)
(* gets its name, and does not change; a file that is read as one thing,   *)
(* whole, is that picture.                                                 *)
Named(f, shots) == f \in FileType /\ shots[f.by].name # NoName
Fine(f, shots) == Named(f, shots) /\ f.stage = Whole /\ shots[f.by].good

FileCall(r, stored, shots) ==
    /\ r.at = "reading" => Named(r.marker, shots)
    /\ r.at = "store" => Fine(r.marker, shots)
    /\ r.at \in {"identity", "focus"} /\ r.round = "after" => Fine(r.marker, shots)
    /\ r.code = "STORED" => r.at = "ended" /\ Fine(stored.file, shots)

FileInv ==
    /\ \A n \in Names : files[n] # NoFile => Named(files[n], shot)
    /\ \A c \in Calls : FileCall(call[c], artifact[c], shot)

Kept == \A s \in Shots : shot[s].name # NoName =>
            shot'[s].name # NoName /\ shot'[s].good = shot[s].good

LEMMA FileCallKept ==
    ASSUME Kept, NEW r, NEW stored, FileCall(r, stored, shot)
    PROVE  FileCall(r, stored, shot')
<1>1. \A f : Named(f, shot) => Named(f, shot')
  BY DEF Named, Kept, FileType
<1>2. \A f : Fine(f, shot) => Fine(f, shot')
  BY <1>1 DEF Fine, Named, Kept, FileType
<1> QED
  BY <1>1, <1>2 DEF FileCall

LEMMA FileOne ==
    ASSUME TypeInv, FileInv, Kept, files' = files,
           NEW c \in Calls, NEW r, call' = [call EXCEPT ![c] = r],
           FileCall(r, artifact'[c], shot'), \A d \in Calls \ {c} : artifact'[d] = artifact[d]
    PROVE  FileInv'
<1>1. \A d \in Calls : call'[d] = IF d = c THEN r ELSE call[d]
  BY DEF TypeInv, TypeOK
<1>2. \A d \in Calls : FileCall(call'[d], artifact'[d], shot')
  BY <1>1, FileCallKept DEF FileInv
<1>3. \A n \in Names : files'[n] # NoFile => Named(files'[n], shot')
  BY DEF FileInv, Named, Kept, FileType
<1> QED
  BY <1>2, <1>3 DEF FileInv

LEMMA FileSame ==
    ASSUME TypeInv, FileInv, Kept, files' = files, artifact' = artifact,
           \A c \in Calls : /\ call'[c].at = call[c].at /\ call'[c].round = call[c].round
                            /\ call'[c].marker = call[c].marker /\ call'[c].code = call[c].code
    PROVE  FileInv'
<1>1. \A c \in Calls : FileCall(call[c], artifact[c], shot')
  BY FileCallKept DEF FileInv
<1>2. \A c \in Calls : FileCall(call'[c], artifact'[c], shot')
  BY <1>1 DEF FileCall
<1>3. \A n \in Names : files'[n] # NoFile => Named(files'[n], shot')
  BY DEF FileInv, Named, Kept, FileType
<1> QED
  BY <1>2, <1>3 DEF FileInv

LEMMA FileEnd ==
    ASSUME TypeInv, FileInv, NEW c \in Calls, NEW code \in Codes, code # "STORED", End(c, code),
           UNCHANGED <<files, shot, artifact>>
    PROVE  FileInv'
<1> DEFINE r == [NoCall EXCEPT !.at = "ended", !.code = code]
<1>1. r.at = "ended" /\ r.code = code
  BY DEF NoCall
<1>2. call' = [call EXCEPT ![c] = r] /\ Kept
  BY DEF End, Kept
<1> HIDE DEF r
<1>3. FileCall(r, artifact'[c], shot')
  BY <1>1 DEF FileCall
<1> QED
  BY <1>2, <1>3, FileOne

(* A step of one call to a point where nothing is asked of the marker.     *)
LEMMA FileOn ==
    ASSUME TypeInv, FileInv, NEW c \in Calls, NEW r, call' = [call EXCEPT ![c] = r],
           UNCHANGED <<files, artifact>>, Kept,
           r.at \notin {"reading", "store", "ended"}, r.code = call[c].code, call[c].at # "ended",
           r.at \in {"identity", "focus"} /\ r.round = "after" => Fine(r.marker, shot)
    PROVE  FileInv'
<1>1. r.code # "STORED"
  BY DEF FileInv, FileCall
<1>2. Fine(r.marker, shot) => Fine(r.marker, shot')
  BY DEF Fine, Named, Kept, FileType
<1>3. FileCall(r, artifact'[c], shot')
  BY <1>1, <1>2 DEF FileCall
<1> QED
  BY <1>3, FileOne

LEMMA FileWorld == TypeInv /\ FileInv /\ (Desktop \/ Greenshot) => FileInv'
<1> SUFFICES ASSUME TypeInv, FileInv, Desktop \/ Greenshot PROVE FileInv'
  OBVIOUS
<1>1. CASE Desktop
  <2>1. UNCHANGED <<files, shot, artifact, call>>
    BY <1>1 DEF Desktop, OpenWindow, CloseWindow, SwitchTo, ProcessEnds, greenshot, provider
  <2> QED
    BY <2>1, FileSame DEF Kept
<1>2. CASE EditPreferences
  <2>1. UNCHANGED <<files, shot, artifact>>
    BY <1>2 DEF EditPreferences, greenshot
  <2>2. PICK S : Disturb(S)
    BY <1>2 DEF EditPreferences
  <2> QED
    BY <2>1, <2>2, DisturbType, FileSame DEF Kept
<1>3. ASSUME NEW c \in Calls, TakeShot(c) PROVE FileInv'
  <2>1. UNCHANGED <<files, artifact, call>>
    BY <1>3 DEF TakeShot, provider
  <2>2. PICK subject : shot' = [shot EXCEPT ![c].phase = "taken", ![c].subject = subject]
    BY <1>3 DEF TakeShot
  <2>3. shot \in [Shots -> ShotType] /\ c \in Shots
    BY DEF TypeInv, TypeOK, Shots
  <2>4. Kept
    BY <2>2, <2>3 DEF Kept, ShotType
  <2> QED
    BY <2>1, <2>4, FileSame
<1>4. ASSUME NEW s \in Shots, NEW n \in Names, WriteFile(s, n) PROVE FileInv'
  <2>1. PICK good \in BOOLEAN, k \in Empty .. Whole :
          /\ shot[s].name = NoName \/ good = shot[s].good
          /\ files' = [files EXCEPT ![n] = [by |-> s, stage |-> k]]
          /\ shot' = [shot EXCEPT ![s].name = n, ![s].good = good]
    BY <1>4 DEF WriteFile
  <2>2. shot \in [Shots -> ShotType] /\ n # NoName
    BY NobodyAssumption DEF TypeInv, TypeOK
  <2>3. \A t \in Shots : /\ t = s => shot'[t].name = n /\ shot'[t].good = good
                         /\ t # s => shot'[t] = shot[t]
    BY <2>1, <2>2 DEF ShotType
  <2>4. Kept
    BY <2>1, <2>2, <2>3 DEF Kept
  <2>5. PICK S : Disturb(S)
    BY <1>4 DEF WriteFile
  <2>6. \A c \in Calls : FileCall(call[c], artifact[c], shot')
    BY <2>4, FileCallKept DEF FileInv
  <2>7. artifact' = artifact
    BY <1>4 DEF WriteFile
  <2>8. \A c \in Calls : FileCall(call'[c], artifact'[c], shot')
    BY <2>5, <2>6, <2>7, DisturbType DEF FileCall
  <2>9. ASSUME NEW m \in Names, files'[m] # NoFile PROVE Named(files'[m], shot')
    <3>1. CASE m = n
      <4>1. files'[m] = [by |-> s, stage |-> k]
        BY <2>1, <3>1 DEF TypeInv, TypeOK
      <4>2. files'[m] \in FileType /\ files'[m].by = s
        BY <4>1 DEF FileType
      <4> QED
        BY <2>2, <2>3, <4>2 DEF Named
    <3>2. CASE m # n
      <4>1. files'[m] = files[m]
        BY <2>1, <3>2 DEF TypeInv, TypeOK
      <4> QED
        BY <2>4, <2>9, <4>1 DEF FileInv, Named, Kept, FileType
    <3> QED
      BY <3>1, <3>2
  <2> QED
    BY <2>8, <2>9 DEF FileInv
<1> QED
  BY <1>1, <1>2, <1>3, <1>4 DEF Greenshot

LEMMA FileWorks == \A c \in Calls : TypeInv /\ FileInv /\ Works(c) => FileInv'
<1> SUFFICES ASSUME NEW c \in Calls, TypeInv, FileInv, Works(c) PROVE FileInv'
  OBVIOUS
<1>0. call[c] \in CallType /\ FileCall(call[c], artifact[c], shot) /\ call \in [Calls -> CallType]
  BY DEF TypeInv, TypeOK, FileInv
<1>1. ASSUME NEW point \in {"focus", "baseline", "poll"}, Goto(c, point),
             UNCHANGED <<files, artifact>>, Kept, call[c].at # "ended",
             point = "focus" => call[c].at = "identity"
      PROVE  FileInv'
  <2> DEFINE r == [call[c] EXCEPT !.at = point]
  <2>1. r.at = point /\ r.round = call[c].round /\ r.marker = call[c].marker /\ r.code = call[c].code
    BY <1>0 DEF CallType
  <2>2. call' = [call EXCEPT ![c] = r]
    BY <1>0, <1>1 DEF Goto
  <2> HIDE DEF r
  <2>3. r.at \in {"identity", "focus"} /\ r.round = "after" => Fine(r.marker, shot)
    BY <1>0, <1>1, <2>1 DEF FileCall
  <2> QED
    BY <1>1, <2>1, <2>2, <2>3, FileOn
<1>2. ASSUME Untouched PROVE UNCHANGED <<files, shot, artifact>> /\ Kept
  BY <1>2 DEF Untouched, world, greenshot, Kept
<1>3. ASSUME Untouched, NEW code \in Codes, code # "STORED", End(c, code) PROVE FileInv'
  BY <1>2, <1>3, FileEnd
<1>4. CASE CheckIdentity(c) \/ ReadSettings(c)
  <2>1. /\ call[c].at \in {"identity", "settings"} /\ Untouched
        /\ \/ \E code \in Codes : code # "STORED" /\ End(c, code)
           \/ Goto(c, "focus") /\ call[c].at = "identity"
           \/ Goto(c, "baseline")
    BY <1>4 DEF CheckIdentity, ReadSettings, Codes
  <2> QED
    BY <1>1, <1>2, <1>3, <2>1
<1>5. CASE CheckForeground(c)
  <2>0. call[c].at = "focus" /\ Untouched
    BY <1>5 DEF CheckForeground
  <2>1. CASE focus # call[c].window.handle
    BY <1>3, <1>5, <2>0, <2>1 DEF CheckForeground, Codes
  <2>2. CASE focus = call[c].window.handle
    <3> DEFINE r == [call[c] EXCEPT !.at = AfterTheLook[call[c].round],
                                    !.began = IF call[c].round = "before" THEN moves ELSE @]
    <3>1. call' = [call EXCEPT ![c] = r]
      BY <1>0, <1>5, <2>2 DEF CheckForeground
    <3>2. r.at = AfterTheLook[call[c].round] /\ r.code = call[c].code /\ r.marker = call[c].marker
      BY <1>0 DEF CallType
    <3>3. AfterTheLook[call[c].round] \in {"settings", "read", "store"}
          /\ (AfterTheLook[call[c].round] = "store" <=> call[c].round = "after")
      BY <1>0 DEF CallType, Rounds, AfterTheLook
    <3> HIDE DEF r
    <3>4. call[c].code # "STORED"
      BY <1>0, <2>0 DEF FileCall
    <3>5. FileCall(r, artifact'[c], shot')
      BY <1>0, <1>2, <2>0, <3>2, <3>3, <3>4 DEF FileCall
    <3> QED
      BY <1>2, <2>0, <3>1, <3>5, FileOne
  <2> QED
    BY <2>1, <2>2
<1>6. CASE TakeBaseline(c)
  <2> DEFINE r == [call[c] EXCEPT !.at = "hotkey", !.base = files]
  <2>1. call[c].at = "baseline" /\ Untouched /\ call' = [call EXCEPT ![c] = r]
    BY <1>0, <1>6 DEF TakeBaseline
  <2>2. r.at = "hotkey" /\ r.code = call[c].code
    BY <1>0 DEF CallType
  <2> HIDE DEF r
  <2> QED
    BY <1>2, <2>1, <2>2, FileOn
<1>7. CASE SendHotkey(c)
  <2>1. call[c].at = "hotkey" /\ UNCHANGED <<files, artifact>>
        /\ (shot' = shot \/ shot' = [shot EXCEPT ![c].phase = "asked"])
        /\ (End(c, "HOTKEY_NOT_SENT") \/ Goto(c, "poll"))
    BY <1>7 DEF SendHotkey
  <2>2. Kept
    BY <2>1, SMTT(30) DEF Kept, TypeInv, TypeOK, ShotType, Shots
  <2>3. CASE End(c, "HOTKEY_NOT_SENT")
    <3> DEFINE r == [NoCall EXCEPT !.at = "ended", !.code = "HOTKEY_NOT_SENT"]
    <3>1. r.at = "ended" /\ r.code = "HOTKEY_NOT_SENT"
      BY DEF NoCall
    <3>2. call' = [call EXCEPT ![c] = r]
      BY <2>3 DEF End
    <3> HIDE DEF r
    <3>3. FileCall(r, artifact'[c], shot')
      BY <3>1 DEF FileCall
    <3> QED
      BY <2>1, <2>2, <3>2, <3>3, FileOne
  <2> QED
    BY <1>1, <2>1, <2>2, <2>3
<1>8. CASE Poll(c)
  <2>0. call[c].at = "poll" /\ Untouched
    BY <1>8 DEF Poll
  <2>1. ASSUME NEW stable, NEW marker,
               call' = [call EXCEPT ![c].stable = stable, ![c].marker = marker]
        PROVE  FileInv'
    <3> DEFINE r == [call[c] EXCEPT !.stable = stable, !.marker = marker]
    <3>1. call' = [call EXCEPT ![c] = r]
      BY <1>0, <2>1
    <3>2. r.at = "poll" /\ r.code = call[c].code
      BY <1>0, <2>0 DEF CallType
    <3> HIDE DEF r
    <3> QED
      BY <1>2, <2>0, <3>1, <3>2, FileOn
  <2>2. ASSUME call' = [call EXCEPT ![c].at = "identity", ![c].round = "during"]
        PROVE  FileInv'
    <3> DEFINE r == [call[c] EXCEPT !.at = "identity", !.round = "during"]
    <3>1. call' = [call EXCEPT ![c] = r]
      BY <1>0, <2>2
    <3>2. r.at = "identity" /\ r.round = "during" /\ r.code = call[c].code
      BY <1>0 DEF CallType
    <3> HIDE DEF r
    <3> QED
      BY <1>2, <2>0, <3>1, <3>2, FileOn
  <2>3. \/ End(c, "OUTPUT_AMBIGUOUS") \/ End(c, "OUTPUT_REFUSED")
        \/ call' = [call EXCEPT ![c].stable = NoName, ![c].marker = NoFile]
        \/ \E n \in Names : call' = [call EXCEPT ![c].stable = n, ![c].marker = files[n]]
        \/ call' = [call EXCEPT ![c].at = "identity", ![c].round = "during"]
    BY <1>8 DEF Poll, LookAt, Changed
  <2> QED
    BY <1>3, <2>0, <2>1, <2>2, <2>3 DEF Codes
<1>9. CASE ReadBegins(c)
  <2>1. call[c].at = "read" /\ Untouched /\ call[c].stable \in Names
    BY <1>9 DEF ReadBegins, TypeInv, HasOutput
  <2>2. CASE files[call[c].stable].stage = Empty
    BY <1>3, <1>9, <2>1, <2>2 DEF ReadBegins, Codes
  <2>3. CASE files[call[c].stable].stage # Empty
    <3> DEFINE r == [call[c] EXCEPT !.at = "reading", !.marker = files[call[c].stable]]
    <3>1. call' = [call EXCEPT ![c] = r]
      BY <1>0, <1>9, <2>3 DEF ReadBegins
    <3>2. r.at = "reading" /\ r.code = call[c].code /\ r.marker = files[call[c].stable]
      BY <1>0 DEF CallType
    <3>3. files[call[c].stable] # NoFile
      BY <2>3 DEF NoFile
    <3>4. Named(files[call[c].stable], shot)
      BY <2>1, <3>3 DEF FileInv
    <3> HIDE DEF r
    <3>5. FileCall(r, artifact'[c], shot')
      BY <1>0, <1>2, <2>1, <3>2, <3>4 DEF FileCall
    <3> QED
      BY <1>2, <2>1, <3>1, <3>5, FileOne
  <2> QED
    BY <2>2, <2>3
<1>10. CASE ReadEnds(c)
  <2>1. call[c].at = "reading" /\ Untouched /\ Named(call[c].marker, shot)
    BY <1>0, <1>10 DEF ReadEnds, FileCall
  <2>2. CASE Payload(c) = Torn \/ ~PngOk(Payload(c))
    BY <1>3, <1>10, <2>1, <2>2 DEF ReadEnds, Codes
  <2>3. CASE Payload(c) # Torn /\ PngOk(Payload(c))
    <3> DEFINE r == [call[c] EXCEPT !.at = "identity", !.round = "after", !.marker = Payload(c)]
    <3>1. call' = [call EXCEPT ![c] = r]
      BY <1>0, <1>10, <2>3 DEF ReadEnds
    <3>2. r.at = "identity" /\ r.code = call[c].code /\ r.marker = Payload(c)
      BY <1>0 DEF CallType
    <3>3. Payload(c) = call[c].marker
      BY <2>3 DEF Payload
    <3>4. Fine(Payload(c), shot)
      BY <2>1, <2>3, <3>3 DEF PngOk, Fine
    <3> HIDE DEF r
    <3> QED
      BY <1>2, <2>1, <3>1, <3>2, <3>4, FileOn
  <2> QED
    BY <2>2, <2>3
<1>11. CASE Store(c)
  <2>1. call[c].at = "store" /\ UNCHANGED <<files, shot>> /\ End(c, "STORED")
    BY <1>11 DEF Store, world, greenshot
  <2> DEFINE a == [file |-> call[c].marker, window |-> call[c].window,
                   moved |-> moves - call[c].began, disturbed |-> call[c].disturbed]
  <2>2. artifact' = [artifact EXCEPT ![c] = a] /\ artifact \in [Calls -> ArtifactType]
    BY <1>11 DEF Store, TypeInv, TypeOK
  <2>3. artifact'[c].file = call[c].marker /\ \A d \in Calls \ {c} : artifact'[d] = artifact[d]
    BY <2>2
  <2> HIDE DEF a
  <2> DEFINE r == [NoCall EXCEPT !.at = "ended", !.code = "STORED"]
  <2>4. r.at = "ended" /\ call' = [call EXCEPT ![c] = r]
    BY <2>1 DEF End, NoCall
  <2>5. Fine(call[c].marker, shot') /\ Kept
    BY <1>0, <2>1 DEF FileCall, Kept
  <2> HIDE DEF r
  <2>6. FileCall(r, artifact'[c], shot')
    BY <2>3, <2>4, <2>5 DEF FileCall
  <2> QED
    BY <2>1, <2>3, <2>4, <2>5, <2>6, FileOne
<1> QED
  BY <1>4, <1>5, <1>6, <1>7, <1>8, <1>9, <1>10, <1>11 DEF Works

LEMMA FileProvider == TypeInv /\ FileInv /\ Provider => FileInv'
<1> SUFFICES ASSUME TypeInv, FileInv, Provider PROVE FileInv'
  OBVIOUS
<1>1. CASE ListWindows
  BY <1>1, FileSame DEF ListWindows, world, greenshot, Kept
<1>2. ASSUME NEW c \in Calls, NEW i \in Ids, Begin(c, i) \/ LeaseRefused(c, i) PROVE FileInv'
  <2>0. UNCHANGED <<files, shot, artifact>> /\ call[c].at = "idle" /\ call[c] \in CallType
    BY <1>2 DEF Begin, LeaseRefused, Free, Untouched, world, greenshot, TypeInv, TypeOK
  <2>1. CASE Begin(c, i)
    <3> DEFINE r == [call[c] EXCEPT !.at = "identity", !.window = lease[i].window]
    <3>1. call' = [call EXCEPT ![c] = r] /\ call[c].round = "before"
      BY <2>0, <2>1 DEF Begin, TypeInv, TypeOK
    <3>2. r.at = "identity" /\ r.round = "before" /\ r.code = call[c].code
      BY <2>0, <3>1 DEF CallType
    <3> HIDE DEF r
    <3> QED
      BY <2>0, <3>1, <3>2, FileOn DEF Kept
  <2>2. CASE LeaseRefused(c, i)
    BY <2>0, <2>2, FileEnd DEF LeaseRefused, Codes
  <2> QED
    BY <1>2, <2>1, <2>2
<1>3. ASSUME NEW c \in Calls, Timeout(c) \/ StepFails(c) PROVE FileInv'
  BY <1>3, FileEnd DEF Timeout, StepFails, Codes, Untouched, world, greenshot
<1>4. CASE Crash
  <2>1. UNCHANGED <<files, shot, artifact>>
    BY <1>4 DEF Crash, world, greenshot
  <2>2. [NoCall EXCEPT !.at = "ended", !.code = "CRASHED"].at = "ended"
        /\ [NoCall EXCEPT !.at = "ended", !.code = "CRASHED"].code = "CRASHED"
    BY DEF NoCall
  <2>3. \A c \in Calls : call'[c] = call[c] \/ (call'[c].at = "ended" /\ call'[c].code = "CRASHED")
    BY <1>4, <2>2 DEF Crash
  <2> QED
    BY <2>1, <2>3 DEF FileInv, FileCall
<1> QED
  BY <1>1, <1>2, <1>3, <1>4, FileWorks DEF Provider

(* What a call stores is one picture, whole and acceptable, whatever       *)
(* Greenshot and others write while the call waits and reads.              *)
THEOREM ArtifactsAreWhole == Spec => []ArtifactIsWhole
<1>1. Init => FileInv
  <2> SUFFICES ASSUME Init PROVE FileInv
    OBVIOUS
  <2>1. NoCall.at = "idle" /\ NoCall.code = "none"
    BY DEF NoCall
  <2> QED
    BY <2>1 DEF Init, FileInv, FileCall
<1>2. TypeInv /\ FileInv /\ [Next]_vars => FileInv'
  <2>1. TypeInv /\ FileInv /\ UNCHANGED vars => FileInv'
    BY FileSame DEF vars, world, greenshot, provider, Kept
  <2> QED
    BY <2>1, FileWorld, FileProvider DEF Next
<1>3. FileInv => ArtifactIsWhole
  <2>1. Torn \notin FileType
    BY NobodyAssumption DEF Torn, FileType, Shots
  <2> QED
    BY <2>1 DEF FileInv, FileCall, Fine, Named, ArtifactIsWhole, Stored
<1> QED
  BY <1>1, <1>2, <1>3, TypeInit, TypeStep, PTL DEF Spec

-----------------------------------------------------------------------------
(* What is shown.  Up to the hotkey there is no shot of the call; its time *)
(* begins with the first look at the foreground.  While nothing has moved, *)
(* the window in front is the one that was seen there, and a shot shows    *)
(* it.  After one move a shot may show what is in front no longer, and     *)
(* then the window is not in front at the next look, or has an identity    *)
(* that the look before that one refuses.                                  *)
Before(c) ==
    \/ call[c].at \in {"idle", "settings", "baseline", "hotkey"}
    \/ call[c].at \in {"identity", "focus"} /\ call[c].round = "before"
Looked(c) ==
    \/ call[c].at \in {"settings", "baseline", "hotkey", "poll", "read", "reading", "store"}
    \/ call[c].at \in {"identity", "focus"} /\ call[c].round # "before"
Found(c) ==
    \/ call[c].at \in {"reading", "store"}
    \/ call[c].at \in {"identity", "focus"} /\ call[c].round = "after"

InFront(c) == focus = call[c].window.handle
Shows(c) == shot[c].phase = "taken" /\ shot[c].subject = call[c].window

ShownOnce(c) ==
    /\ moves = call[c].began =>
         InFront(c) /\ (shot[c].phase = "taken" => shot[c].subject = Identity(focus))
    /\ moves <= call[c].began + 1 =>
         /\ shot[c].phase = "taken" /\ InFront(c) /\ Identity(focus) = call[c].window => Shows(c)
         /\ call[c].at = "focus" /\ call[c].round = "during" =>
              shot[c].phase = "taken" /\ (Shows(c) \/ (moves # call[c].began /\ ~InFront(c)))
         /\ call[c].at = "read" \/ Found(c) => Shows(c)

Honest(c) ==
    /\ Trusting(c) => agreed
    /\ Watching(c) => \A n \in Names : files[n] = call[c].base[n] \/ files[n].by = c
    /\ call[c].at = "read" \/ (call[c].at \in {"identity", "focus"} /\ call[c].round = "during") =>
         files[call[c].stable].by = c
    /\ Found(c) => call[c].marker.by = c
    /\ Looked(c) => ShownOnce(c)

ShotCall(c) ==
    /\ Before(c) => shot[c].phase = "none"
    /\ ~call[c].disturbed => Honest(c)
    /\ call[c].code = "STORED" =>
         /\ call[c].at = "ended"
         /\ artifact[c].moved <= 1 /\ ~artifact[c].disturbed =>
              /\ artifact[c].file.by = c
              /\ shot[c].phase = "taken" /\ shot[c].subject = artifact[c].window

ShotInv ==
    /\ \A s \in Shots : shot[s].name # NoName => shot[s].phase = "taken"
    /\ \A c \in Calls : ShotCall(c)

LEMMA ShotFrame ==
    ASSUME NEW d \in Calls, ShotCall(d), call'[d] = call[d], artifact'[d] = artifact[d],
           shot'[d] = shot[d], UNCHANGED <<shown, created, focus, agreed, moves, files>>
    PROVE  ShotCall(d)'
  BY DEF ShotCall, Before, Honest, Trusting, Watching, Found, Looked, ShownOnce, InFront, Shows,
         Identity

(* A step of one call.                                                     *)
LEMMA ShotOne ==
    ASSUME TypeInv, ShotInv, NEW c \in Calls, NEW r, call' = [call EXCEPT ![c] = r],
           UNCHANGED <<shown, created, focus, agreed, moves, files>>,
           shot' = shot \/ shot' = [shot EXCEPT ![c].phase = "asked"],
           \A d \in Calls \ {c} : artifact'[d] = artifact[d],
           shot' # shot => shot[c].name = NoName,
           call'[c] = r => ShotCall(c)'
    PROVE  ShotInv'
<1>1. \A d \in Calls : call'[d] = IF d = c THEN r ELSE call[d]
  BY DEF TypeInv, TypeOK
<1>2. shot \in [Shots -> ShotType] /\ Calls \subseteq Shots
  BY DEF TypeInv, TypeOK, Shots
<1>3. \A s \in Shots : s # c => shot'[s] = shot[s]
  BY <1>2
<1>4. \A s \in Shots : shot'[s].name = shot[s].name
  BY <1>2 DEF ShotType
<1>5. \A s \in Shots : shot'[s].name # NoName => shot'[s].phase = "taken"
  BY <1>3, <1>4 DEF ShotInv
<1>6. ASSUME NEW d \in Calls, d # c PROVE ShotCall(d)'
  <2>1. call'[d] = call[d] /\ artifact'[d] = artifact[d] /\ shot'[d] = shot[d]
    BY <1>1, <1>2, <1>3, <1>6
  <2> QED
    BY <2>1, ShotFrame DEF ShotInv
<1>7. ShotCall(c)'
  BY <1>1
<1> QED
  BY <1>5, <1>6, <1>7 DEF ShotInv

(* A step of one call that touches nothing else.                           *)
LEMMA ShotOn ==
    ASSUME TypeInv, ShotInv, NEW c \in Calls, NEW r, call' = [call EXCEPT ![c] = r], Untouched,
           call'[c] = r => ShotCall(c)'
    PROVE  ShotInv'
  BY ShotOne DEF Untouched, world, desktop, greenshot

LEMMA EndedCall ==
    ASSUME NEW c \in Calls, NEW code \in Codes, code # "STORED",
           call'[c] = [NoCall EXCEPT !.at = "ended", !.code = code]
    PROVE  ShotCall(c)'
<1>1. call'[c].at = "ended" /\ call'[c].code = code
  BY DEF NoCall
<1> QED
  BY <1>1 DEF ShotCall, Before, Honest, Trusting, Watching, Found, Looked

LEMMA ShotEnd ==
    ASSUME TypeInv, ShotInv, NEW c \in Calls, NEW code \in Codes, code # "STORED", End(c, code),
           Untouched
    PROVE  ShotInv'
  BY EndedCall, ShotOn DEF End

-----------------------------------------------------------------------------
(* A window that stays in front is the same window.                        *)
LEMMA StaysInFront ==
    ASSUME TypeInv, Desktop, focus' = focus, focus # NoHandle
    PROVE  Identity(focus)' = Identity(focus)
<1>1. focus \in Handles /\ focus \in Visible /\ shown[focus] # NoPid /\ shown[focus] \in Pids
  BY DEF TypeInv, TypeOK, Visible
<1>2. created \in [Pids -> 0 .. MaxMoves] /\ shown \in [Handles -> Pids \cup {NoPid}]
  BY DEF TypeInv, TypeOK
<1>3. ASSUME shown'[focus] = shown[focus], created'[shown[focus]] = created[shown[focus]]
      PROVE  Identity(focus)' = Identity(focus)
  BY <1>3 DEF Identity
<1>4. ASSUME NEW h \in Handles, NEW p \in Pids, OpenWindow(h, p) PROVE Identity(focus)' = Identity(focus)
  BY <1>1, <1>2, <1>3, <1>4 DEF OpenWindow
<1>5. ASSUME NEW h \in Handles, CloseWindow(h) PROVE Identity(focus)' = Identity(focus)
  BY <1>1, <1>2, <1>3, <1>5 DEF CloseWindow
<1>6. ASSUME NEW h, SwitchTo(h) PROVE Identity(focus)' = Identity(focus)
  BY <1>6 DEF SwitchTo
<1>7. ASSUME NEW p \in Pids, ProcessEnds(p) PROVE Identity(focus)' = Identity(focus)
  <2>1. shown[focus] # p
    BY <1>1, <1>7 DEF ProcessEnds
  <2>2. shown'[focus] = shown[focus]
    BY <1>1, <1>7, <2>1 DEF ProcessEnds
  <2>3. created'[shown[focus]] = created[shown[focus]]
    BY <1>1, <1>2, <1>7, <2>1 DEF ProcessEnds
  <2> QED
    BY <1>3, <2>2, <2>3
<1> QED
  BY <1>4, <1>5, <1>6, <1>7 DEF Desktop

LEMMA HandleOfCall ==
    ASSUME TypeInv, NEW c \in Calls, Looked(c)
    PROVE  call[c].window.handle # NoHandle
<1>1. call[c].window \in Identities
  BY DEF TypeInv, HasWindow, Looked
<1> QED
  BY <1>1, NobodyAssumption DEF Identities

LEMMA MovesType ==
    ASSUME TypeInv
    PROVE  moves \in Nat /\ \A c \in Calls : call[c].began \in Nat /\ call[c].began <= moves
  BY MovesAssumption DEF TypeInv, TypeOK, CallType

LEMMA ShotDesktop == TypeInv /\ ShotInv /\ Desktop => ShotInv'
<1> SUFFICES ASSUME TypeInv, ShotInv, Desktop PROVE ShotInv'
  OBVIOUS
<1>1. UNCHANGED <<agreed, shot, files, call, artifact>> /\ moves' = moves + 1
  BY DEF Desktop, OpenWindow, CloseWindow, SwitchTo, ProcessEnds, MayMove, greenshot, provider
<1>2. ASSUME NEW c \in Calls PROVE ShotCall(c)'
  <2>1. ShotCall(c)
    BY DEF ShotInv
  <2>2. ASSUME ~call[c].disturbed, Looked(c) PROVE ShownOnce(c)'
    <3>1. ShownOnce(c)
      BY <2>1, <2>2 DEF ShotCall, Honest
    <3>2. moves' # call[c].began /\ (moves' <= call[c].began + 1 => moves = call[c].began)
      BY <1>1, MovesType
    <3>3. call[c].window.handle # NoHandle
      BY <2>2, HandleOfCall
    <3> SUFFICES ASSUME moves = call[c].began
                 PROVE  /\ shot[c].phase = "taken" /\ InFront(c)' /\ Identity(focus)' = call[c].window => Shows(c)
                        /\ call[c].at = "focus" /\ call[c].round = "during" =>
                             shot[c].phase = "taken" /\ Shows(c)
                        /\ call[c].at = "read" \/ Found(c) => Shows(c)
      BY <1>1, <3>2 DEF ShownOnce, Shows, Found
    <3>4. InFront(c) /\ (shot[c].phase = "taken" => shot[c].subject = Identity(focus))
      BY <3>1 DEF ShownOnce
    <3>5. moves <= call[c].began + 1
      BY MovesType
    <3>6. InFront(c)' => Identity(focus)' = Identity(focus)
      BY <1>1, <3>3, <3>4, StaysInFront DEF InFront
    <3>7. /\ call[c].at = "focus" /\ call[c].round = "during" => shot[c].phase = "taken" /\ Shows(c)
          /\ call[c].at = "read" \/ Found(c) => Shows(c)
      BY <3>1, <3>5 DEF ShownOnce
    <3> QED
      BY <3>4, <3>6, <3>7 DEF Shows
  <2>3. Looked(c)' = Looked(c) /\ Before(c)' = Before(c) /\ Trusting(c)' = Trusting(c)
        /\ Watching(c)' = Watching(c) /\ Found(c)' = Found(c)
    BY <1>1 DEF Looked, Before, Trusting, Watching, Found
  <2>4. ASSUME ~call[c].disturbed PROVE Honest(c)'
    <3>1. Honest(c)
      BY <2>1, <2>4 DEF ShotCall
    <3> QED
      BY <1>1, <2>2, <2>3, <2>4, <3>1 DEF Honest
  <2> QED
    BY <1>1, <2>1, <2>3, <2>4 DEF ShotCall
<1> QED
  BY <1>1, <1>2 DEF ShotInv

LEMMA ShotPreferences == TypeInv /\ ShotInv /\ EditPreferences => ShotInv'
<1> SUFFICES ASSUME TypeInv, ShotInv, EditPreferences PROVE ShotInv'
  OBVIOUS
<1>1. UNCHANGED <<shown, created, focus, shot, files, artifact>> /\ moves' = moves + 1
      /\ Disturb({c \in Calls : Trusting(c)})
  BY DEF EditPreferences, MayMove, desktop, greenshot
<1>2. ASSUME NEW c \in Calls PROVE ShotCall(c)'
  <2>1. ShotCall(c)
    BY DEF ShotInv
  <2>2. /\ call'[c].at = call[c].at /\ call'[c].round = call[c].round
        /\ call'[c].window = call[c].window /\ call'[c].base = call[c].base
        /\ call'[c].stable = call[c].stable /\ call'[c].marker = call[c].marker
        /\ call'[c].code = call[c].code /\ call'[c].began = call[c].began
        /\ call'[c].disturbed = (call[c].disturbed \/ Trusting(c))
    BY <1>1, DisturbType
  <2>3. ASSUME ~call'[c].disturbed PROVE Honest(c)'
    <3>1. ~Trusting(c)' /\ ~Watching(c)' /\ ~Found(c)'
      BY <2>2, <2>3 DEF Trusting, Watching, Found
    <3>2. ~(call[c].at = "read" \/ (call[c].at \in {"identity", "focus"} /\ call[c].round = "during"))
      BY <2>2, <2>3 DEF Trusting, Watching
    <3>3. ASSUME Looked(c)' PROVE ShownOnce(c)'
      <4>1. call[c].at = "settings"
        BY <2>2, <2>3, <3>3 DEF Looked, Trusting, Watching
      <4>2. shot[c].phase = "none"
        BY <2>1, <4>1 DEF ShotCall, Before
      <4>3. moves' # call[c].began
        BY <1>1, MovesType
      <4> QED
        BY <1>1, <2>2, <4>1, <4>2, <4>3 DEF ShownOnce, Found
    <3> QED
      BY <2>2, <3>1, <3>2, <3>3 DEF Honest
  <2> QED
    BY <1>1, <2>1, <2>2, <2>3 DEF ShotCall, Before
<1> QED
  BY <1>1, <1>2 DEF ShotInv

LEMMA ShotTaken == \A c \in Calls : TypeInv /\ FileInv /\ ShotInv /\ TakeShot(c) => ShotInv'
<1> SUFFICES ASSUME NEW c \in Calls, TypeInv, FileInv, ShotInv, TakeShot(c) PROVE ShotInv'
  OBVIOUS
<1>1. UNCHANGED <<shown, created, focus, agreed, moves, files, call, artifact>>
      /\ shot[c].phase = "asked"
  BY DEF TakeShot, desktop, provider
<1>2. PICK subject : /\ shot' = [shot EXCEPT ![c].phase = "taken", ![c].subject = subject]
                     /\ agreed /\ focus # NoHandle => subject = Identity(focus)
  BY DEF TakeShot
<1>3. shot \in [Shots -> ShotType] /\ Calls \subseteq Shots
  BY DEF TypeInv, TypeOK, Shots
<1>4. /\ \A s \in Shots : s # c => shot'[s] = shot[s]
      /\ shot'[c].phase = "taken" /\ shot'[c].subject = subject /\ shot'[c].name = shot[c].name
  BY <1>2, <1>3 DEF ShotType
<1>5. \A d \in Calls : d # c => ShotCall(d)'
  BY <1>1, <1>3, <1>4, ShotFrame DEF ShotInv
<1>6. ShotCall(c)'
  <2>1. ShotCall(c)
    BY DEF ShotInv
  <2>2. ~Before(c)
    BY <1>1, <2>1 DEF ShotCall
  <2>3. /\ Before(c)' = Before(c) /\ Trusting(c)' = Trusting(c) /\ Watching(c)' = Watching(c)
        /\ Found(c)' = Found(c) /\ Looked(c)' = Looked(c) /\ InFront(c)' = InFront(c)
    BY <1>1 DEF Before, Trusting, Watching, Found, Looked, InFront
  <2>4. ASSUME ~call[c].disturbed, Looked(c) PROVE ShownOnce(c)'
    <3>1. Honest(c) /\ ShownOnce(c)
      BY <2>1, <2>4 DEF ShotCall, Honest
    <3>2. Trusting(c)
      BY <2>2, <2>4 DEF Looked, Before, Trusting, Watching
    <3>3. agreed
      BY <3>1, <3>2 DEF Honest
    <3>4. InFront(c) => subject = Identity(focus)
      BY <1>2, <2>4, <3>3, HandleOfCall DEF InFront
    <3>5. Identity(focus)' = Identity(focus)
      BY <1>1 DEF Identity
    <3>6. ~Shows(c)
      BY <1>1 DEF Shows
    <3> QED
      BY <1>1, <1>4, <2>3, <3>1, <3>4, <3>5, <3>6 DEF ShownOnce, Shows
  <2>5. ~call[c].disturbed => Honest(c)'
    BY <1>1, <2>1, <2>3, <2>4 DEF ShotCall, Honest
  <2> QED
    BY <1>1, <2>1, <2>2, <2>3, <2>5 DEF ShotCall
<1> QED
  BY <1>1, <1>3, <1>4, <1>5, <1>6 DEF ShotInv

LEMMA ShotWritten ==
    \A s \in Shots, n \in Names : TypeInv /\ ShotInv /\ WriteFile(s, n) => ShotInv'
<1> SUFFICES ASSUME NEW s \in Shots, NEW n \in Names, TypeInv, ShotInv, WriteFile(s, n)
             PROVE  ShotInv'
  OBVIOUS
<1>1. UNCHANGED <<shown, created, focus, agreed, moves, artifact>> /\ shot[s].phase = "taken"
      /\ Disturb({c \in Calls \ {s} : Watching(c)})
  BY DEF WriteFile, desktop
<1>2. PICK good, k : /\ files' = [files EXCEPT ![n] = [by |-> s, stage |-> k]]
                     /\ shot' = [shot EXCEPT ![s].name = n, ![s].good = good]
  BY DEF WriteFile
<1>3. \A t \in Shots : shot'[t].phase = shot[t].phase /\ shot'[t].subject = shot[t].subject
                       /\ (t # s => shot'[t].name = shot[t].name)
  BY <1>2 DEF TypeInv, TypeOK, ShotType
<1>4. \A m \in Names : IF m = n THEN files'[m].by = s ELSE files'[m] = files[m]
  BY <1>2 DEF TypeInv, TypeOK
<1>5. ASSUME NEW c \in Calls PROVE ShotCall(c)'
  <2>1. ShotCall(c) /\ c \in Shots
    BY DEF ShotInv, Shots
  <2>2. /\ call'[c].at = call[c].at /\ call'[c].round = call[c].round
        /\ call'[c].window = call[c].window /\ call'[c].base = call[c].base
        /\ call'[c].stable = call[c].stable /\ call'[c].marker = call[c].marker
        /\ call'[c].code = call[c].code /\ call'[c].began = call[c].began
        /\ call'[c].disturbed = (call[c].disturbed \/ (c # s /\ Watching(c)))
    BY <1>1, DisturbType
  <2>3. /\ Before(c)' = Before(c) /\ Trusting(c)' = Trusting(c) /\ Watching(c)' = Watching(c)
        /\ Found(c)' = Found(c) /\ Looked(c)' = Looked(c) /\ InFront(c)' = InFront(c)
        /\ Shows(c)' = Shows(c)
    BY <1>1, <1>3, <2>1, <2>2 DEF Before, Trusting, Watching, Found, Looked, InFront, Shows
  <2>4. ASSUME ~call'[c].disturbed PROVE Honest(c)'
    <3>1. Honest(c) /\ (Watching(c) => c = s)
      BY <2>1, <2>2, <2>4 DEF ShotCall
    <3>2. ShownOnce(c)' = ShownOnce(c)
      BY <1>1, <1>3, <2>1, <2>2, <2>3 DEF ShownOnce, Identity
    <3>3. ASSUME Watching(c), NEW m \in Names
          PROVE  files'[m] = call[c].base[m] \/ files'[m].by = c
      BY <1>4, <3>1, <3>3 DEF Honest
    <3>4. ASSUME call[c].at = "read" \/ (call[c].at \in {"identity", "focus"} /\ call[c].round = "during")
          PROVE  files'[call[c].stable].by = c
      <4>1. Watching(c) /\ call[c].stable \in Names
        BY <3>4 DEF Watching, TypeInv, HasOutput
      <4> QED
        BY <1>4, <3>1, <3>4, <4>1 DEF Honest
    <3> QED
      BY <1>1, <2>2, <2>3, <3>1, <3>2, <3>3, <3>4 DEF Honest
  <2> QED
    BY <1>1, <1>3, <2>1, <2>2, <2>3, <2>4 DEF ShotCall
<1>6. \A t \in Shots : shot'[t].name # NoName => shot'[t].phase = "taken"
  BY <1>1, <1>3 DEF ShotInv
<1> QED
  BY <1>5, <1>6 DEF ShotInv

-----------------------------------------------------------------------------
(* The steps of a call.                                                    *)
LEMMA ShotWorks == \A c \in Calls : TypeInv /\ FileInv /\ ShotInv /\ Works(c) => ShotInv'
<1> SUFFICES ASSUME NEW c \in Calls, TypeInv, FileInv, ShotInv, Works(c) PROVE ShotInv'
  OBVIOUS
<1>0. call[c] \in CallType /\ call \in [Calls -> CallType] /\ ShotCall(c)
      /\ FileCall(call[c], artifact[c], shot)
  BY DEF TypeInv, TypeOK, ShotInv, FileInv
<1>1. ASSUME Untouched
      PROVE  UNCHANGED <<shown, created, focus, agreed, moves, shot, files, artifact>>
  BY <1>1 DEF Untouched, world, desktop, greenshot
<1>2. CASE CheckIdentity(c)
  <2>0. call[c].at = "identity" /\ Untouched
    BY <1>2 DEF CheckIdentity
  <2> DEFINE h == call[c].window.handle
  <2>1. CASE shown[h] = NoPid \/ Identity(h) # call[c].window
    BY <1>2, <2>0, <2>1, ShotEnd DEF CheckIdentity, Codes
  <2>2. CASE shown[h] # NoPid /\ Identity(h) = call[c].window
    <3> DEFINE r == [call[c] EXCEPT !.at = "focus"]
    <3>1. call' = [call EXCEPT ![c] = r]
      BY <1>0, <1>2, <2>2 DEF CheckIdentity, Goto
    <3>2. /\ r.at = "focus" /\ r.round = call[c].round /\ r.window = call[c].window
          /\ r.base = call[c].base /\ r.stable = call[c].stable /\ r.marker = call[c].marker
          /\ r.code = call[c].code /\ r.began = call[c].began /\ r.disturbed = call[c].disturbed
      BY <1>0 DEF CallType
    <3> HIDE DEF r
    <3>3. ASSUME call'[c] = r PROVE ShotCall(c)'
      <4>1. /\ Before(c)' = Before(c) /\ Trusting(c)' = Trusting(c) /\ Watching(c)' = Watching(c)
            /\ Found(c)' = Found(c) /\ Looked(c)' = Looked(c) /\ InFront(c)' = InFront(c)
            /\ Shows(c)' = Shows(c)
        BY <1>1, <2>0, <3>2, <3>3
        DEF Before, Trusting, Watching, Found, Looked, InFront, Shows
      <4>2. ASSUME ~call[c].disturbed, Looked(c) PROVE ShownOnce(c)'
        <5>1. Honest(c) /\ ShownOnce(c)
          BY <1>0, <4>2 DEF ShotCall, Honest
        <5>2. ASSUME call[c].round = "during", moves <= call[c].began + 1
              PROVE  shot[c].phase = "taken" /\ (Shows(c) \/ (moves # call[c].began /\ ~InFront(c)))
          <6>1. call[c].stable \in Names /\ files[call[c].stable].by = c
            BY <2>0, <5>1, <5>2 DEF TypeInv, HasOutput, Honest
          <6>2. files[call[c].stable] # NoFile
            BY <6>1, NobodyAssumption DEF NoFile
          <6>3. shot[c].name # NoName /\ c \in Shots
            BY <6>1, <6>2 DEF FileInv, Named, Shots
          <6>4. shot[c].phase = "taken"
            BY <6>3 DEF ShotInv
          <6>5. InFront(c) => Shows(c)
            BY <2>2, <5>1, <5>2, <6>4 DEF ShownOnce, InFront
          <6>6. moves = call[c].began => InFront(c)
            BY <5>1 DEF ShownOnce
          <6> QED
            BY <6>4, <6>5, <6>6
        <5>3. Identity(focus)' = Identity(focus)
          BY <1>1, <2>0 DEF Identity
        <5> QED
          BY <1>1, <2>0, <3>2, <3>3, <4>1, <5>1, <5>2, <5>3 DEF ShownOnce
      <4>3. ~call[c].disturbed => Honest(c)'
        BY <1>0, <1>1, <2>0, <3>2, <3>3, <4>1, <4>2 DEF ShotCall, Honest
      <4> QED
        BY <1>0, <1>1, <2>0, <3>2, <3>3, <4>1, <4>3 DEF ShotCall
    <3> QED
      BY <2>0, <3>1, <3>3, ShotOn
  <2> QED
    BY <2>1, <2>2
<1>3. CASE CheckForeground(c)
  <2>0. call[c].at = "focus" /\ Untouched
    BY <1>3 DEF CheckForeground
  <2>1. CASE focus # call[c].window.handle
    BY <1>3, <2>0, <2>1, ShotEnd DEF CheckForeground, Codes
  <2>2. CASE focus = call[c].window.handle
    <3> DEFINE r == [call[c] EXCEPT !.at = AfterTheLook[call[c].round],
                                    !.began = IF call[c].round = "before" THEN moves ELSE @]
    <3>1. call' = [call EXCEPT ![c] = r]
      BY <1>0, <1>3, <2>2 DEF CheckForeground
    <3>2. /\ r.at = AfterTheLook[call[c].round] /\ r.round = call[c].round
          /\ r.window = call[c].window
          /\ r.base = call[c].base /\ r.stable = call[c].stable /\ r.marker = call[c].marker
          /\ r.code = call[c].code /\ r.disturbed = call[c].disturbed
          /\ r.began = IF call[c].round = "before" THEN moves ELSE call[c].began
      BY <1>0 DEF CallType
    <3>3. \/ call[c].round = "before" /\ r.at = "settings"
          \/ call[c].round = "during" /\ r.at = "read"
          \/ call[c].round = "after" /\ r.at = "store"
      BY <1>0, <3>2 DEF CallType, Rounds, AfterTheLook
    <3> HIDE DEF r
    <3>4. ASSUME call'[c] = r PROVE ShotCall(c)'
      <4>1. CASE call[c].round = "before"
        <5>1. shot[c].phase = "none"
          BY <1>0, <2>0, <4>1 DEF ShotCall, Before
        <5>2. InFront(c)' /\ ~Trusting(c)' /\ ~Watching(c)' /\ ~Found(c)'
          BY <1>1, <2>0, <2>2, <3>2, <3>3, <3>4, <4>1 DEF InFront, Trusting, Watching, Found
        <5>3. ShownOnce(c)'
          BY <1>1, <2>0, <3>2, <3>3, <3>4, <4>1, <5>1, <5>2 DEF ShownOnce
        <5>4. Honest(c)'
          BY <3>3, <3>4, <4>1, <5>2, <5>3 DEF Honest
        <5>5. r.code # "STORED"
          BY <1>0, <2>0, <3>2 DEF ShotCall
        <5> QED
          BY <1>1, <2>0, <3>4, <5>1, <5>4, <5>5 DEF ShotCall
      <4>2. CASE call[c].round # "before"
        <5>1. /\ Before(c)' = Before(c) /\ Trusting(c)' = Trusting(c) /\ Watching(c)' = Watching(c)
              /\ Found(c)' = Found(c) /\ Looked(c)' = Looked(c) /\ InFront(c)
              /\ Shows(c)' = Shows(c) /\ InFront(c)' = InFront(c)
          BY <1>1, <2>0, <2>2, <3>2, <3>3, <3>4, <4>2
          DEF Before, Trusting, Watching, Found, Looked, InFront, Shows
        <5>2. ASSUME ~call[c].disturbed, Looked(c) PROVE ShownOnce(c)'
          <6>1. ShownOnce(c)
            BY <1>0, <5>2 DEF ShotCall, Honest
          <6>2. Identity(focus)' = Identity(focus)
            BY <1>1, <2>0 DEF Identity
          <6>3. call[c].round = "during" /\ moves <= call[c].began + 1 => Shows(c)
            BY <2>0, <5>1, <6>1 DEF ShownOnce
          <6>4. call[c].round = "after" => Found(c)
            BY <2>0 DEF Found
          <6> QED
            BY <1>1, <2>0, <3>2, <3>3, <3>4, <4>2, <5>1, <6>1, <6>2, <6>3, <6>4 DEF ShownOnce
        <5>3. ~call[c].disturbed => Honest(c)'
          BY <1>0, <1>1, <2>0, <3>2, <3>3, <3>4, <4>2, <5>1, <5>2 DEF ShotCall, Honest
        <5>4. r.code # "STORED"
          BY <1>0, <2>0, <3>2 DEF ShotCall
        <5> QED
          BY <1>0, <1>1, <2>0, <3>2, <3>4, <5>1, <5>3, <5>4 DEF ShotCall
      <4> QED
        BY <4>1, <4>2
    <3> QED
      BY <2>0, <3>1, <3>4, ShotOn
  <2> QED
    BY <2>1, <2>2
<1>4. CASE ReadSettings(c)
  <2>0. call[c].at = "settings" /\ Untouched
    BY <1>4 DEF ReadSettings
  <2>1. CASE ~agreed
    BY <1>4, <2>0, <2>1, ShotEnd DEF ReadSettings, Codes
  <2>2. CASE agreed
    <3> DEFINE r == [call[c] EXCEPT !.at = "baseline"]
    <3>1. call' = [call EXCEPT ![c] = r]
      BY <1>0, <1>4, <2>2 DEF ReadSettings, Goto
    <3>2. /\ r.at = "baseline" /\ r.window = call[c].window
          /\ r.code = call[c].code /\ r.began = call[c].began /\ r.disturbed = call[c].disturbed
      BY <1>0 DEF CallType
    <3> HIDE DEF r
    <3>3. ASSUME call'[c] = r PROVE ShotCall(c)'
      <4>1. shot[c].phase = "none" /\ call[c].code # "STORED"
        BY <1>0, <2>0 DEF ShotCall, Before
      <4>2. ~call[c].disturbed => ShownOnce(c)
        BY <1>0, <2>0 DEF ShotCall, Honest, Looked
      <4>3. ~Watching(c)' /\ ~Found(c)' /\ InFront(c)' = InFront(c)
        BY <1>1, <2>0, <3>2, <3>3 DEF Watching, Found, InFront
      <4>4. ~call[c].disturbed => ShownOnce(c)'
        BY <1>1, <2>0, <3>2, <3>3, <4>1, <4>2, <4>3 DEF ShownOnce
      <4>5. ~call[c].disturbed => Honest(c)'
        BY <1>1, <2>0, <2>2, <3>2, <3>3, <4>3, <4>4 DEF Honest
      <4> QED
        BY <1>1, <2>0, <3>2, <3>3, <4>1, <4>5 DEF ShotCall
    <3> QED
      BY <2>0, <3>1, <3>3, ShotOn
  <2> QED
    BY <2>1, <2>2
<1>5. CASE TakeBaseline(c)
  <2>0. call[c].at = "baseline" /\ Untouched
    BY <1>5 DEF TakeBaseline
  <2> DEFINE r == [call[c] EXCEPT !.at = "hotkey", !.base = files]
  <2>1. call' = [call EXCEPT ![c] = r]
    BY <1>0, <1>5 DEF TakeBaseline
  <2>2. /\ r.at = "hotkey" /\ r.window = call[c].window /\ r.base = files
        /\ r.code = call[c].code /\ r.began = call[c].began /\ r.disturbed = call[c].disturbed
    BY <1>0 DEF CallType
  <2> HIDE DEF r
  <2>3. ASSUME call'[c] = r PROVE ShotCall(c)'
    <3>1. shot[c].phase = "none" /\ call[c].code # "STORED"
      BY <1>0, <2>0 DEF ShotCall, Before
    <3>2. ~call[c].disturbed => ShownOnce(c) /\ agreed
      BY <1>0, <2>0 DEF ShotCall, Honest, Looked, Trusting
    <3>3. ~Found(c)' /\ InFront(c)' = InFront(c)
      BY <1>1, <2>0, <2>2, <2>3 DEF Found, InFront
    <3>4. ~call[c].disturbed => ShownOnce(c)'
      BY <1>1, <2>0, <2>2, <2>3, <3>1, <3>2, <3>3 DEF ShownOnce
    <3>5. ~call[c].disturbed => Honest(c)'
      BY <1>1, <2>0, <2>2, <2>3, <3>2, <3>3, <3>4 DEF Honest
    <3> QED
      BY <1>1, <2>0, <2>2, <2>3, <3>1, <3>5 DEF ShotCall
  <2> QED
    BY <2>0, <2>1, <2>3, ShotOn
<1>6. CASE SendHotkey(c)
  <2>0. call[c].at = "hotkey" /\ UNCHANGED <<shown, created, focus, agreed, moves, files, artifact>>
        /\ (shot' = shot \/ shot' = [shot EXCEPT ![c].phase = "asked"])
        /\ (End(c, "HOTKEY_NOT_SENT") \/ Goto(c, "poll"))
    BY <1>6 DEF SendHotkey, desktop
  <2>1. shot[c].phase = "none" /\ call[c].code # "STORED" /\ c \in Shots /\ shot \in [Shots -> ShotType]
    BY <1>0, <2>0 DEF ShotCall, Before, TypeInv, TypeOK, Shots
  <2>2. shot[c].name = NoName
    BY <2>1 DEF ShotInv
  <2>3. CASE End(c, "HOTKEY_NOT_SENT")
    BY <2>0, <2>2, <2>3, EndedCall, ShotOne DEF End, Codes
  <2>4. CASE Goto(c, "poll")
    <3> DEFINE r == [call[c] EXCEPT !.at = "poll"]
    <3>1. call' = [call EXCEPT ![c] = r]
      BY <1>0, <2>4 DEF Goto
    <3>2. /\ r.at = "poll" /\ r.window = call[c].window /\ r.base = call[c].base
          /\ r.code = call[c].code /\ r.began = call[c].began /\ r.disturbed = call[c].disturbed
      BY <1>0 DEF CallType
    <3> HIDE DEF r
    <3>3. ASSUME call'[c] = r PROVE ShotCall(c)'
      <4>1. shot'[c].phase # "taken"
        BY <2>0, <2>1 DEF ShotType
      <4>2. ~call[c].disturbed => Honest(c) /\ ShownOnce(c) /\ agreed
        BY <1>0, <2>0 DEF ShotCall, Honest, Looked, Trusting, Watching
      <4>3. ~Before(c)' /\ ~Found(c)' /\ InFront(c)' = InFront(c) /\ Watching(c)
        BY <2>0, <3>2, <3>3 DEF Before, Found, InFront, Watching
      <4>4. ~call[c].disturbed => ShownOnce(c)'
        BY <2>0, <3>2, <3>3, <4>1, <4>2, <4>3 DEF ShownOnce
      <4>5. ~call[c].disturbed => Honest(c)'
        BY <2>0, <3>2, <3>3, <4>2, <4>3, <4>4 DEF Honest
      <4> QED
        BY <2>0, <2>1, <3>2, <3>3, <4>3, <4>5 DEF ShotCall
    <3> QED
      BY <2>0, <2>2, <3>1, <3>3, ShotOne
  <2> QED
    BY <2>0, <2>3, <2>4
(* From here on the shot is made, or not; what a call finds is its own.    *)
<1>7. ASSUME Untouched, NEW r, call' = [call EXCEPT ![c] = r], ~Before(c), ~Before(c)',
             r.window = call[c].window, r.base = call[c].base, r.code = call[c].code,
             r.began = call[c].began, r.disturbed = call[c].disturbed,
             call[c].at # "ended", Watching(c), Looked(c), r.at # "focus",
             r.at = "read" \/ (r.at = "identity" /\ r.round = "during") =>
                 (~r.disturbed => files[r.stable].by = c),
             r.at \in {"reading", "store"} \/ (r.at = "identity" /\ r.round = "after") =>
                 /\ ~r.disturbed => r.marker.by = c
                 /\ call[c].at = "read" \/ Found(c),
             r.at # "read", call'[c] = r
      PROVE  ShotCall(c)'
  <2>1. call[c].code # "STORED"
    BY <1>0, <1>7 DEF ShotCall
  <2>2. ~call[c].disturbed => Honest(c) /\ ShownOnce(c)
    BY <1>0, <1>7 DEF ShotCall, Honest
  <2>3. /\ InFront(c)' = InFront(c) /\ Shows(c)' = Shows(c) /\ Identity(focus)' = Identity(focus)
    BY <1>1, <1>7 DEF InFront, Shows, Identity
  <2>4. Found(c)' => call[c].at = "read" \/ Found(c)
    BY <1>7 DEF Found
  <2>5. ~call[c].disturbed => ShownOnce(c)'
    BY <1>1, <1>7, <2>2, <2>3, <2>4 DEF ShownOnce
  <2>6. Found(c)' /\ ~r.disturbed => r.marker.by = c
    BY <1>7 DEF Found
  <2>7. ~call[c].disturbed => agreed
    BY <1>7, <2>2 DEF Honest, Trusting
  <2>8. ~call[c].disturbed => Honest(c)'
    BY <1>1, <1>7, <2>2, <2>5, <2>6, <2>7 DEF Honest
  <2> QED
    BY <1>7, <2>1, <2>8 DEF ShotCall
<1>8. CASE Poll(c)
  <2>0. call[c].at = "poll" /\ Untouched /\ ~Before(c) /\ Watching(c) /\ Looked(c)
    BY <1>8 DEF Poll, Before, Watching, Looked
  <2>1. ASSUME NEW stable, NEW marker,
               call' = [call EXCEPT ![c].stable = stable, ![c].marker = marker]
        PROVE  ShotInv'
    <3> DEFINE r == [call[c] EXCEPT !.stable = stable, !.marker = marker]
    <3>1. call' = [call EXCEPT ![c] = r]
      BY <1>0, <2>1
    <3>2. /\ r.at = "poll" /\ r.window = call[c].window /\ r.base = call[c].base
          /\ r.code = call[c].code /\ r.began = call[c].began /\ r.disturbed = call[c].disturbed
      BY <1>0, <2>0 DEF CallType
    <3> HIDE DEF r
    <3>3. call'[c] = r => ShotCall(c)'
      BY <1>7, <2>0, <3>1, <3>2 DEF Before
    <3> QED
      BY <2>0, <3>1, <3>3, ShotOn
  <2>2. ASSUME NEW n \in Changed(c), call[c].stable = n,
               call' = [call EXCEPT ![c].at = "identity", ![c].round = "during"]
        PROVE  ShotInv'
    <3> DEFINE r == [call[c] EXCEPT !.at = "identity", !.round = "during"]
    <3>1. call' = [call EXCEPT ![c] = r]
      BY <1>0, <2>2
    <3>2. /\ r.at = "identity" /\ r.round = "during" /\ r.stable = n
          /\ r.window = call[c].window /\ r.base = call[c].base
          /\ r.code = call[c].code /\ r.began = call[c].began /\ r.disturbed = call[c].disturbed
      BY <1>0, <2>2 DEF CallType
    <3> HIDE DEF r
    <3>3. ~r.disturbed => files[r.stable].by = c
      BY <1>0, <2>0, <3>2 DEF ShotCall, Honest, Changed
    <3>4. call'[c] = r => ShotCall(c)'
      BY <1>7, <2>0, <3>1, <3>2, <3>3 DEF Before
    <3> QED
      BY <2>0, <3>1, <3>4, ShotOn
  <2>3. \/ End(c, "OUTPUT_AMBIGUOUS") \/ End(c, "OUTPUT_REFUSED")
        \/ call' = [call EXCEPT ![c].stable = NoName, ![c].marker = NoFile]
        \/ \E n \in Changed(c) :
             \/ call' = [call EXCEPT ![c].stable = n, ![c].marker = files[n]]
             \/ call[c].stable = n /\ call' = [call EXCEPT ![c].at = "identity", ![c].round = "during"]
    BY <1>8 DEF Poll, LookAt
  <2> QED
    BY <2>0, <2>1, <2>2, <2>3, ShotEnd DEF Codes
<1>9. CASE ReadBegins(c)
  <2>0. call[c].at = "read" /\ Untouched /\ ~Before(c) /\ Watching(c) /\ Looked(c)
    BY <1>9 DEF ReadBegins, Before, Watching, Looked
  <2>1. CASE files[call[c].stable].stage = Empty
    BY <1>9, <2>0, <2>1, ShotEnd DEF ReadBegins, Codes
  <2>2. CASE files[call[c].stable].stage # Empty
    <3> DEFINE r == [call[c] EXCEPT !.at = "reading", !.marker = files[call[c].stable]]
    <3>1. call' = [call EXCEPT ![c] = r]
      BY <1>0, <1>9, <2>2 DEF ReadBegins
    <3>2. /\ r.at = "reading" /\ r.marker = files[call[c].stable]
          /\ r.window = call[c].window /\ r.base = call[c].base
          /\ r.code = call[c].code /\ r.began = call[c].began /\ r.disturbed = call[c].disturbed
      BY <1>0 DEF CallType
    <3> HIDE DEF r
    <3>3. ~r.disturbed => r.marker.by = c
      BY <1>0, <2>0, <3>2 DEF ShotCall, Honest
    <3>4. call'[c] = r => ShotCall(c)'
      BY <1>7, <2>0, <3>1, <3>2, <3>3 DEF Before
    <3> QED
      BY <2>0, <3>1, <3>4, ShotOn
  <2> QED
    BY <2>1, <2>2
<1>10. CASE ReadEnds(c)
  <2>0. call[c].at = "reading" /\ Untouched /\ ~Before(c) /\ Watching(c) /\ Looked(c) /\ Found(c)
    BY <1>10 DEF ReadEnds, Before, Watching, Looked, Found
  <2>1. CASE Payload(c) = Torn \/ ~PngOk(Payload(c))
    BY <1>10, <2>0, <2>1, ShotEnd DEF ReadEnds, Codes
  <2>2. CASE Payload(c) # Torn /\ PngOk(Payload(c))
    <3> DEFINE r == [call[c] EXCEPT !.at = "identity", !.round = "after", !.marker = Payload(c)]
    <3>1. call' = [call EXCEPT ![c] = r]
      BY <1>0, <1>10, <2>2 DEF ReadEnds
    <3>2. /\ r.at = "identity" /\ r.round = "after" /\ r.marker = Payload(c)
          /\ r.window = call[c].window /\ r.base = call[c].base
          /\ r.code = call[c].code /\ r.began = call[c].began /\ r.disturbed = call[c].disturbed
      BY <1>0 DEF CallType
    <3>3. Payload(c) = call[c].marker
      BY <2>2 DEF Payload
    <3> HIDE DEF r
    <3>4. ~r.disturbed => r.marker.by = c
      BY <1>0, <2>0, <3>2, <3>3 DEF ShotCall, Honest
    <3>5. call'[c] = r => ShotCall(c)'
      BY <1>7, <2>0, <3>1, <3>2, <3>4 DEF Before
    <3> QED
      BY <2>0, <3>1, <3>5, ShotOn
  <2> QED
    BY <2>1, <2>2
<1>11. CASE Store(c)
  <2>0. call[c].at = "store" /\ UNCHANGED <<shown, created, focus, agreed, moves, shot, files>>
        /\ End(c, "STORED") /\ Looked(c) /\ Found(c)
    BY <1>11 DEF Store, world, desktop, greenshot, Looked, Found
  <2> DEFINE a == [file |-> call[c].marker, window |-> call[c].window,
                   moved |-> moves - call[c].began, disturbed |-> call[c].disturbed]
  <2>1. artifact' = [artifact EXCEPT ![c] = a] /\ artifact \in [Calls -> ArtifactType]
    BY <1>11 DEF Store, TypeInv, TypeOK
  <2>2. /\ artifact'[c].file = call[c].marker /\ artifact'[c].window = call[c].window
        /\ artifact'[c].moved = moves - call[c].began
        /\ artifact'[c].disturbed = call[c].disturbed
        /\ \A d \in Calls \ {c} : artifact'[d] = artifact[d]
    BY <2>1
  <2> HIDE DEF a
  <2> DEFINE r == [NoCall EXCEPT !.at = "ended", !.code = "STORED"]
  <2>3. r.at = "ended" /\ call' = [call EXCEPT ![c] = r]
    BY <2>0 DEF End, NoCall
  <2> HIDE DEF r
  <2>4. moves - call[c].began <= 1 => moves <= call[c].began + 1
    BY MovesType
  <2>5. ~call[c].disturbed => /\ call[c].marker.by = c
                              /\ moves <= call[c].began + 1 => Shows(c)
    BY <1>0, <2>0 DEF ShotCall, Honest, ShownOnce
  <2>6. ASSUME call'[c] = r PROVE ShotCall(c)'
    <3>1. Honest(c)'
      BY <2>3, <2>6 DEF Honest, Trusting, Watching, Found, Looked
    <3>2. ~Before(c)'
      BY <2>3, <2>6 DEF Before
    <3> QED
      BY <2>0, <2>2, <2>3, <2>4, <2>5, <2>6, <3>1, <3>2 DEF ShotCall, Shows
  <2> QED
    BY <2>0, <2>2, <2>3, <2>6, ShotOne
<1> QED
  BY <1>2, <1>3, <1>4, <1>5, <1>6, <1>8, <1>9, <1>10, <1>11 DEF Works

LEMMA ShotProvider == TypeInv /\ FileInv /\ ShotInv /\ Provider => ShotInv'
<1> SUFFICES ASSUME TypeInv, FileInv, ShotInv, Provider PROVE ShotInv'
  OBVIOUS
<1>1. ASSUME UNCHANGED <<shown, created, focus, agreed, moves, shot, files, call, artifact>>
      PROVE  ShotInv'
  BY <1>1, ShotFrame DEF ShotInv
<1>2. CASE ListWindows
  BY <1>1, <1>2 DEF ListWindows, world, desktop, greenshot
<1>3. ASSUME NEW c \in Calls, NEW i \in Ids, Begin(c, i) PROVE ShotInv'
  <2>0. Untouched /\ call[c].at = "idle" /\ call[c].round = "before" /\ call[c] \in CallType
        /\ ShotCall(c) /\ UNCHANGED <<shot, artifact>>
    BY <1>3 DEF Begin, Free, TypeInv, TypeOK, ShotInv, Untouched, world, greenshot
  <2> DEFINE r == [call[c] EXCEPT !.at = "identity", !.window = lease[i].window]
  <2>1. call' = [call EXCEPT ![c] = r]
    BY <1>3 DEF Begin, TypeInv, TypeOK
  <2>2. r.at = "identity" /\ r.round = "before" /\ r.code = call[c].code
    BY <2>0 DEF CallType
  <2> HIDE DEF r
  <2>3. ASSUME call'[c] = r PROVE ShotCall(c)'
    <3>1. ~Trusting(c)' /\ ~Watching(c)' /\ ~Found(c)' /\ ~Looked(c)'
      BY <2>2, <2>3 DEF Trusting, Watching, Found, Looked
    <3>2. Honest(c)'
      BY <2>2, <2>3, <3>1 DEF Honest
    <3>3. shot[c].phase = "none" /\ call[c].code # "STORED"
      BY <2>0 DEF ShotCall, Before
    <3> QED
      BY <2>0, <2>2, <2>3, <3>2, <3>3 DEF ShotCall
  <2> QED
    BY <2>0, <2>1, <2>3, ShotOn
<1>4. ASSUME NEW c \in Calls, NEW i \in Ids, LeaseRefused(c, i) PROVE ShotInv'
  <2>1. PICK code \in Codes : code # "STORED" /\ End(c, code)
    BY <1>4 DEF LeaseRefused, Codes
  <2>2. UNCHANGED <<shown, created, focus, agreed, moves, shot, files, artifact>>
    BY <1>4 DEF LeaseRefused, world, desktop, greenshot
  <2> QED
    BY <2>1, <2>2, EndedCall, ShotOne DEF End
<1>5. ASSUME NEW c \in Calls, Timeout(c) \/ StepFails(c) PROVE ShotInv'
  BY <1>5, ShotEnd DEF Timeout, StepFails, Codes
<1>6. CASE Crash
  <2>1. UNCHANGED <<shown, created, focus, agreed, moves, shot, files, artifact>>
    BY <1>6 DEF Crash, world, desktop, greenshot
  <2>2. ASSUME NEW c \in Calls PROVE ShotCall(c)'
    <3>1. CASE Active(c)
      <4>1. call'[c] = [NoCall EXCEPT !.at = "ended", !.code = "CRASHED"]
        BY <1>6, <3>1 DEF Crash
      <4> QED
        BY <4>1, EndedCall DEF Codes
    <3>2. CASE ~Active(c)
      <4>1. call'[c] = call[c]
        BY <1>6, <3>2 DEF Crash
      <4> QED
        BY <2>1, <4>1, ShotFrame DEF ShotInv
    <3> QED
      BY <3>1, <3>2
  <2> QED
    BY <2>1, <2>2 DEF ShotInv
<1> QED
  BY <1>2, <1>3, <1>4, <1>5, <1>6, ShotWorks DEF Provider

(* A picture that is stored shows the window that was asked for, unless    *)
(* the call was disturbed, or the desktop moved more than once under it.   *)
THEOREM PicturesShowTheLease == Spec => []ShowsTheLease
<1>1. Init => FileInv /\ ShotInv
  <2> SUFFICES ASSUME Init PROVE FileInv /\ ShotInv
    OBVIOUS
  <2>1. NoCall.at = "idle" /\ NoCall.code = "none" /\ NoCall.disturbed = FALSE
    BY DEF NoCall
  <2>2. FileInv
    BY <2>1 DEF Init, FileInv, FileCall
  <2>3. \A s \in Shots : shot[s].name = NoName
    BY DEF Init
  <2>4. ASSUME NEW c \in Calls PROVE ShotCall(c)
    <3>1. call[c].at = "idle" /\ call[c].code = "none" /\ shot[c].phase = "none"
      BY <2>1 DEF Init, Shots
    <3> QED
      BY <3>1 DEF ShotCall, Honest, Trusting, Watching, Found, Looked
  <2> QED
    BY <2>2, <2>3, <2>4 DEF ShotInv
<1>2. TypeInv /\ FileInv /\ ShotInv /\ [Next]_vars => FileInv' /\ ShotInv'
  <2> SUFFICES ASSUME TypeInv, FileInv, ShotInv, [Next]_vars PROVE FileInv' /\ ShotInv'
    OBVIOUS
  <2>1. CASE UNCHANGED vars
    <3>1. FileInv'
      BY <2>1, FileSame DEF vars, world, greenshot, provider, Kept
    <3>2. ShotInv'
      BY <2>1, ShotFrame DEF vars, world, desktop, greenshot, provider, ShotInv
    <3> QED
      BY <3>1, <3>2
  <2>2. CASE Next
    <3>1. FileInv'
      BY <2>2, FileWorld, FileProvider DEF Next
    <3>2. ShotInv'
      BY <2>2, ShotDesktop, ShotPreferences, ShotTaken, ShotWritten, ShotProvider
      DEF Next, Greenshot
    <3> QED
      BY <3>1, <3>2
  <2> QED
    BY <2>1, <2>2
<1>3. ShotInv => ShowsTheLease
  BY DEF ShotInv, ShotCall, ShowsTheLease, Stored
<1> QED
  BY <1>1, <1>2, <1>3, TypeInit, TypeStep, PTL DEF Spec

=============================================================================
