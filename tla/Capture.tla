------------------------------- MODULE Capture -------------------------------
(***************************************************************************)
(* The capture provider (capabilities/capture/greenshot.py).  It takes no  *)
(* picture itself: it looks at the desktop, sends the hotkey of Greenshot, *)
(* another program, waits for a file in the directory where Greenshot puts *)
(* its pictures, and looks at the desktop again.  Nothing ties the file to *)
(* the hotkey, and each look at the desktop or at the directory is a call  *)
(* of its own.                                                             *)
(*                                                                         *)
(* The desktop, Greenshot and its user are external.  Windows have a       *)
(* handle, and a handle is used again when its window is gone; so is the   *)
(* number of a process.                                                    *)
(***************************************************************************)
EXTENDS Naturals, FiniteSets

CONSTANTS
    Handles,         \* window handles (HWND)
    NoHandle,
    Pids,            \* process numbers
    NoPid,
    AllowedPids,     \* CaptureScope.allowed_pids
    Ids,             \* window ids that list_windows gives out
    Calls,           \* calls of capture
    Strays,          \* pictures that others put in the capture directory
    Names,           \* names of PNG files in the capture directory
    NoName,
    FirstWindows,    \* what the handles are at the start
    MaxMoves         \* bound: changes of the desktop and of Greenshot's preferences

ASSUME NobodyAssumption == /\ NoHandle \notin Handles /\ NoPid \notin Pids /\ NoName \notin Names
                           /\ {"nobody", "torn"} \cap (Calls \cup Strays) = {}
ASSUME ScopeAssumption == AllowedPids \subseteq Pids
ASSUME ShotsAssumption == Calls \cap Strays = {}
ASSUME DesktopAssumption == FirstWindows \in [Handles -> Pids \cup {NoPid}]
ASSUME MovesAssumption == MaxMoves \in Nat

VARIABLES
    shown,       \* the process whose window a handle is
    created,     \* when the process of a number was created
    focus,       \* the foreground window
    agreed,      \* Greenshot's preferences are those the provider asks for
    moves,       \* history: changes of these four
    shot,        \* what Greenshot makes of each hotkey
    files,       \* the capture directory
    lease,       \* the leases of the provider
    call,        \* the calls of capture
    artifact     \* what the calls stored

desktop == <<shown, created, focus>>
greenshot == <<shot, files>>
provider == <<lease, call, artifact>>
world == <<desktop, agreed, moves, greenshot>>
vars == <<world, provider>>

-----------------------------------------------------------------------------
Identities == [handle : Handles, pid : Pids, created : 0 .. MaxMoves]
NoWindow == [handle |-> NoHandle, pid |-> NoPid, created |-> 0]
Windows == Identities \cup {NoWindow}

(* A shot is known by who pressed the hotkey: a call of capture, or anyone *)
(* else who makes a picture in that directory.  NoWindow as its subject is *)
(* anything but one whole window: a region, or the whole screen.           *)
Shots == Calls \cup Strays
ShotType == [phase : {"none", "asked", "taken"}, subject : Windows,
             good : BOOLEAN, name : Names \cup {NoName}]

(* A file is what was written last under its name: how far of which shot.  *)
(* Two files are equal only if no write came between, since each write     *)
(* gives another size or time; so a file is also its _signature.  "torn"   *)
(* is the mixture of two files that are read as one.                       *)
Empty == 0
Whole == 2
FileType == [by : Shots, stage : Empty .. Whole]
NoFile == [by |-> "nobody", stage |-> Empty]
Signatures == FileType \cup {NoFile}
Torn == [by |-> "torn", stage |-> Whole]

LeaseType == [state : {"unused", "held", "gone"}, window : Windows]

Points == {"idle", "identity", "focus", "settings", "baseline", "hotkey", "poll", "read",
           "reading", "store", "ended"}
Codes == {"none", "STORED", "CRASHED", "FAILED", "WINDOW_NOT_ENROLLED", "WINDOW_ID_EXPIRED",
          "WINDOW_UNAVAILABLE", "WINDOW_IDENTITY_CHANGED", "WINDOW_NOT_FOREGROUND",
          "GREENSHOT_CONFIG_MISMATCH", "HOTKEY_NOT_SENT", "OUTPUT_AMBIGUOUS", "OUTPUT_TIMEOUT", "OUTPUT_REFUSED",
          "OUTPUT_CHANGED", "IMAGE_INVALID"}
Rounds == {"before", "during", "after"}
CallType == [at : Points, round : Rounds, window : Windows,
             base : [Names -> Signatures], stable : Names \cup {NoName},
             marker : Signatures \cup {Torn}, code : Codes, began : 0 .. MaxMoves, disturbed : BOOLEAN]
ArtifactType == [file : Signatures \cup {Torn}, window : Windows,
                 moved : 0 .. MaxMoves, disturbed : BOOLEAN]

NoCall == [at |-> "idle", round |-> "before", window |-> NoWindow,
           base |-> [n \in Names |-> NoFile], stable |-> NoName, marker |-> NoFile,
           code |-> "none", began |-> 0, disturbed |-> FALSE]
NoArtifact == [file |-> NoFile, window |-> NoWindow, moved |-> 0, disturbed |-> FALSE]

Visible == {h \in Handles : shown[h] # NoPid}
Identity(h) == [handle |-> h, pid |-> shown[h], created |-> created[shown[h]]]

Init ==
    /\ shown = FirstWindows
    /\ created = [p \in Pids |-> 0]
    /\ focus \in Visible \cup {NoHandle}
    /\ moves = 0
    /\ agreed \in BOOLEAN
    /\ shot = [s \in Shots |-> [phase |-> IF s \in Calls THEN "none" ELSE "taken", subject |-> NoWindow,
                                good |-> FALSE, name |-> NoName]]
    /\ files = [n \in Names |-> NoFile]
    /\ lease = [i \in Ids |-> [state |-> "unused", window |-> NoWindow]]
    /\ call = [c \in Calls |-> NoCall]
    /\ artifact = [c \in Calls |-> NoArtifact]

-----------------------------------------------------------------------------
(* The desktop.                                                            *)

MayMove == moves < MaxMoves /\ moves' = moves + 1

OpenWindow(h, p) ==
    /\ MayMove
    /\ shown[h] = NoPid
    /\ shown' = [shown EXCEPT ![h] = p]
    /\ focus' \in {focus, h}
    /\ UNCHANGED <<created, agreed, greenshot, provider>>

CloseWindow(h) ==
    /\ MayMove
    /\ shown[h] # NoPid
    /\ shown' = [shown EXCEPT ![h] = NoPid]
    /\ focus' \in IF focus = h THEN (Visible \ {h}) \cup {NoHandle} ELSE {focus}
    /\ UNCHANGED <<created, agreed, greenshot, provider>>

(* For moments there is no foreground window.                              *)
SwitchTo(h) ==
    /\ MayMove
    /\ h \in (Visible \cup {NoHandle}) \ {focus}
    /\ focus' = h
    /\ UNCHANGED <<shown, created, agreed, greenshot, provider>>

(* The process ends, and later one is created that gets its number.        *)
ProcessEnds(p) ==
    /\ MayMove
    /\ created' = [created EXCEPT ![p] = @ + 1]
    /\ shown' = [h \in Handles |-> IF shown[h] = p THEN NoPid ELSE shown[h]]
    /\ focus' \in LET left == {h \in Visible : shown[h] # p}
                  IN  IF focus \in left THEN {focus} ELSE left \cup {NoHandle}
    /\ UNCHANGED <<agreed, greenshot, provider>>

Desktop ==
    \/ \E h \in Handles : (\E p \in Pids : OpenWindow(h, p)) \/ CloseWindow(h)
    \/ \E h \in Handles \cup {NoHandle} : SwitchTo(h)
    \/ \E p \in Pids : ProcessEnds(p)

-----------------------------------------------------------------------------
(* Greenshot and its user.                                                 *)

(* From here on a call depends on the preferences it has read, and from    *)
(* there on it has listed the directory.                                   *)
Watching(c) ==
    \/ call[c].at \in {"hotkey", "poll", "read", "reading", "store"}
    \/ call[c].at \in {"identity", "focus"} /\ call[c].round # "before"
Trusting(c) == call[c].at = "baseline" \/ Watching(c)

Disturb(S) == call' = [c \in Calls |-> IF c \in S THEN [call[c] EXCEPT !.disturbed = TRUE]
                                                  ELSE call[c]]

EditPreferences ==
    /\ MayMove
    /\ agreed' = ~agreed
    /\ Disturb({c \in Calls : Trusting(c)})
    /\ UNCHANGED <<desktop, greenshot, lease, artifact>>

(* It takes what is in front when it comes to it, a window if its          *)
(* preferences say so.  It need never come to it.                          *)
TakeShot(c) ==
    /\ shot[c].phase = "asked"
    /\ \E subject \in {IF focus # NoHandle THEN Identity(focus) ELSE NoWindow} \cup
                      (IF agreed THEN {} ELSE {NoWindow}) :
            shot' = [shot EXCEPT ![c].phase = "taken", ![c].subject = subject]
    /\ UNCHANGED <<desktop, agreed, moves, files, provider>>

(* The file comes into being in one write or in several.  Its name may be  *)
(* that of an earlier file, and it need not be one the provider accepts.   *)
WriteFile(s, n) ==
    /\ shot[s].phase = "taken"
    /\ \E good \in BOOLEAN, k \in Empty .. Whole :
         /\ \/ shot[s].name = NoName /\ (files[n] = NoFile \/ files[n].stage = Whole)
            \/ shot[s].name = n /\ files[n].by = s /\ good = shot[s].good /\ k > files[n].stage
         /\ files' = [files EXCEPT ![n] = [by |-> s, stage |-> k]]
         /\ shot' = [shot EXCEPT ![s].name = n, ![s].good = good]
    /\ Disturb({c \in Calls \ {s} : Watching(c)})
    /\ UNCHANGED <<desktop, agreed, moves, lease, artifact>>

Greenshot ==
    \/ EditPreferences
    \/ \E c \in Calls : TakeShot(c)
    \/ \E s \in Shots, n \in Names : WriteFile(s, n)

-----------------------------------------------------------------------------
(* The provider.                                                           *)

InScope == {h \in Visible : shown[h] \in AllowedPids}
InState(state) == {i \in Ids : lease[i].state = state}

(* The windows get these ids, and the leases whose time is up are dropped. *)
Leases(id, old) ==
    [i \in Ids |->
        IF \E h \in InScope : id[h] = i
        THEN [state |-> "held", window |-> Identity(CHOOSE h \in InScope : id[h] = i)]
        ELSE IF i \in old THEN [lease[i] EXCEPT !.state = "gone"] ELSE lease[i]]

ListWindows ==
    /\ \E id \in [InScope -> InState("unused")], old \in SUBSET InState("held") :
         /\ \A g, h \in InScope : id[g] = id[h] => g = h
         /\ lease' = Leases(id, old)
    /\ UNCHANGED <<world, call, artifact>>

(* A call ends with a code, and its locals with it.                        *)
End(c, code) ==
    call' = [call EXCEPT ![c] = [NoCall EXCEPT !.at = "ended", !.code = code]]
Goto(c, point) == call' = [call EXCEPT ![c].at = point]
Untouched == UNCHANGED <<world, lease, artifact>>

(* The provider is synchronous: it has one call at a time.                 *)
Free(c) == call[c].at = "idle" /\ \A d \in Calls : call[d].at \in {"idle", "ended"}

Begin(c, i) ==
    /\ Free(c) /\ lease[i].state = "held"
    /\ call' = [call EXCEPT ![c].at = "identity", ![c].window = lease[i].window]
    /\ Untouched

LeaseRefused(c, i) ==
    /\ Free(c)
    /\ IF lease[i].state = "held" THEN End(c, "WINDOW_ID_EXPIRED") ELSE End(c, "WINDOW_NOT_ENROLLED")
    /\ lease' = [lease EXCEPT ![i].state = IF @ = "held" THEN "gone" ELSE @]
    /\ UNCHANGED <<world, artifact>>

CheckIdentity(c) ==
    /\ call[c].at = "identity"
    /\ LET h == call[c].window.handle
       IN  IF shown[h] = NoPid THEN End(c, "WINDOW_UNAVAILABLE")
           ELSE IF Identity(h) # call[c].window THEN End(c, "WINDOW_IDENTITY_CHANGED")
           ELSE Goto(c, "focus")
    /\ Untouched

AfterTheLook == [before |-> "settings", during |-> "read", after |-> "store"]

(* Bug: the foreground is looked at before the hotkey only.                *)
ForegroundOnce(c) ==
    /\ call[c].at = "focus"
    /\ IF call[c].round = "before" /\ focus # call[c].window.handle
       THEN End(c, "WINDOW_NOT_FOREGROUND")
       ELSE call' = [call EXCEPT ![c].at = AfterTheLook[call[c].round],
                                 ![c].began = IF call[c].round = "before" THEN moves ELSE @]
    /\ Untouched

CheckForeground(c) ==
    /\ call[c].at = "focus"
    /\ IF focus # call[c].window.handle THEN End(c, "WINDOW_NOT_FOREGROUND")
       ELSE call' = [call EXCEPT ![c].at = AfterTheLook[call[c].round],
                                 ![c].began = IF call[c].round = "before" THEN moves ELSE @]
    /\ Untouched

ReadSettings(c) ==
    /\ call[c].at = "settings"
    /\ IF agreed THEN Goto(c, "baseline") ELSE End(c, "GREENSHOT_CONFIG_MISMATCH")
    /\ Untouched

TakeBaseline(c) ==
    /\ call[c].at = "baseline"
    /\ call' = [call EXCEPT ![c].at = "hotkey", ![c].base = files]
    /\ Untouched

(* SendInput may send a part of the chord only: then the keys are released *)
(* and the call fails, whatever Greenshot makes of what it got.            *)
SendHotkey(c) ==
    /\ call[c].at = "hotkey"
    /\ \E pressed, sent \in BOOLEAN :
         /\ sent => pressed
         /\ shot' = IF pressed THEN [shot EXCEPT ![c].phase = "asked"] ELSE shot
         /\ IF sent THEN Goto(c, "poll") ELSE End(c, "HOTKEY_NOT_SENT")
    /\ UNCHANGED <<desktop, agreed, moves, files, lease, artifact>>

Changed(c) == {n \in Names : files[n] # NoFile /\ files[n] # call[c].base[n]}

(* Bug: the signature is taken when the name is first seen, never again.   *)
RememberFirst(c, n) ==
    \/ ~shot[files[n].by].good /\ End(c, "OUTPUT_REFUSED")
    \/ IF call[c].stable = n /\ call[c].marker = files[n] /\ files[n].stage > Empty
       THEN call' = [call EXCEPT ![c].at = "identity", ![c].round = "during"]
       ELSE call' = [call EXCEPT ![c].stable = n,
                                 ![c].marker = IF call[c].stable = n THEN @ ELSE files[n]]

(* A file that is a link or too large is refused; another one is taken     *)
(* when it has not changed since the poll before.                          *)
LookAt(c, n) ==
    \/ ~shot[files[n].by].good /\ End(c, "OUTPUT_REFUSED")
    \/ IF call[c].stable = n /\ call[c].marker = files[n] /\ files[n].stage > Empty
       THEN call' = [call EXCEPT ![c].at = "identity", ![c].round = "during"]
       ELSE call' = [call EXCEPT ![c].stable = n, ![c].marker = files[n]]

Poll(c) ==
    /\ call[c].at = "poll"
    /\ IF Cardinality(Changed(c)) > 1 THEN End(c, "OUTPUT_AMBIGUOUS")
       ELSE IF Changed(c) = {}
       THEN call' = [call EXCEPT ![c].stable = NoName, ![c].marker = NoFile]
       ELSE \E n \in Changed(c) : LookAt(c, n)
    /\ Untouched

(* The deadline has passed.                                                *)
Timeout(c) ==
    /\ call[c].at = "poll"
    /\ End(c, "OUTPUT_TIMEOUT")
    /\ Untouched

ReadBegins(c) ==
    /\ call[c].at = "read"
    /\ LET f == files[call[c].stable]
       IN  IF f.stage = Empty THEN End(c, "IMAGE_INVALID")
           ELSE call' = [call EXCEPT ![c].at = "reading", ![c].marker = f]
    /\ Untouched

Payload(c) == IF files[call[c].stable] = call[c].marker THEN call[c].marker ELSE Torn

(* _png_dimensions: all chunks are there.  A mixture may pass for one.     *)
PngOk(f) == f = Torn \/ (f.stage = Whole /\ shot[f.by].good)

(* Bug: what is read is not compared with what the directory says.         *)
ReadOnce(c) ==
    /\ call[c].at = "reading"
    /\ IF ~PngOk(Payload(c)) THEN End(c, "IMAGE_INVALID")
       ELSE call' = [call EXCEPT ![c].at = "identity", ![c].round = "after",
                                 ![c].marker = Payload(c)]
    /\ Untouched

ReadEnds(c) ==
    /\ call[c].at = "reading"
    /\ IF Payload(c) = Torn THEN End(c, "OUTPUT_CHANGED")
       ELSE IF ~PngOk(Payload(c)) THEN End(c, "IMAGE_INVALID")
       ELSE call' = [call EXCEPT ![c].at = "identity", ![c].round = "after",
                                 ![c].marker = Payload(c)]
    /\ Untouched

Store(c) ==
    /\ call[c].at = "store"
    /\ artifact' = [artifact EXCEPT ![c] =
            [file |-> call[c].marker, window |-> call[c].window,
             moved |-> moves - call[c].began, disturbed |-> call[c].disturbed]]
    /\ End(c, "STORED")
    /\ UNCHANGED <<world, lease>>

(* An operation on a file or a directory fails.                            *)
StepFails(c) ==
    /\ call[c].at \in {"settings", "baseline", "poll", "read", "reading", "store"}
    /\ End(c, "FAILED")
    /\ Untouched

Active(c) == call[c].at \notin {"idle", "ended"}

(* The process of the provider ends: its leases are in memory only.        *)
Crash ==
    /\ \E c \in Calls : Active(c)
    /\ call' = [c \in Calls |-> IF Active(c) THEN [NoCall EXCEPT !.at = "ended", !.code = "CRASHED"]
                                             ELSE call[c]]
    /\ lease' = [i \in Ids |-> IF lease[i].state = "held"
                               THEN [lease[i] EXCEPT !.state = "gone"] ELSE lease[i]]
    /\ UNCHANGED <<world, artifact>>

Works(c) ==
    \/ CheckIdentity(c) \/ CheckForeground(c) \/ ReadSettings(c) \/ TakeBaseline(c)
    \/ SendHotkey(c) \/ Poll(c) \/ ReadBegins(c) \/ ReadEnds(c) \/ Store(c)

Provider ==
    \/ ListWindows
    \/ \E c \in Calls, i \in Ids : Begin(c, i) \/ LeaseRefused(c, i)
    \/ \E c \in Calls : Works(c) \/ Timeout(c) \/ StepFails(c)
    \/ Crash

(* Bound: nothing is followed past the end of the last call.               *)
Next == (\E c \in Calls : call[c].at # "ended") /\ (Desktop \/ Greenshot \/ Provider)

(* A call that has begun goes on.  Nothing is assumed of Greenshot, of the *)
(* desktop or of the clock.                                                *)
Spec == Init /\ [][Next]_vars /\ \A c \in Calls : WF_vars(Works(c))

-----------------------------------------------------------------------------
TypeOK ==
    /\ shown \in [Handles -> Pids \cup {NoPid}]
    /\ created \in [Pids -> 0 .. MaxMoves]
    /\ focus \in Handles \cup {NoHandle}
    /\ moves \in 0 .. MaxMoves
    /\ agreed \in BOOLEAN
    /\ shot \in [Shots -> ShotType]
    /\ files \in [Names -> Signatures]
    /\ lease \in [Ids -> LeaseType]
    /\ call \in [Calls -> CallType]
    /\ artifact \in [Calls -> ArtifactType]

Stored == {c \in Calls : call[c].code = "STORED"}

(* The picture that a call stores shows the window that was asked for,     *)
(* even when the desktop changed under the call: one change, wherever it   *)
(* falls between the first look and the last, is always noticed.  Two may  *)
(* undo each other around the shot (another window comes to the front, the *)
(* shot is taken, the first one comes back), and the looks before and      *)
(* after cannot tell.  Nor can the call tell a picture that somebody       *)
(* else's hotkey brought, alone, while it waited, or that was made after   *)
(* the preferences it had read were changed: such a call is "disturbed".   *)
ShowsTheLease ==
    \A c \in Stored : artifact[c].moved <= 1 /\ ~artifact[c].disturbed =>
        shot[artifact[c].file.by].subject = artifact[c].window

(* What is stored is one picture, whole and acceptable, also when the call *)
(* was disturbed: never a file that was still being written, nor parts of  *)
(* two files.                                                              *)
ArtifactIsWhole ==
    \A c \in Stored : /\ artifact[c].file # Torn
                      /\ artifact[c].file.stage = Whole
                      /\ shot[artifact[c].file.by].good

(* A call that waits does not wait past its picture: while there is a file *)
(* that was not there before and is not empty, the polls find it, stable   *)
(* at last, and the call goes on, to success or not, without help of the   *)
(* deadline.                                                               *)
Overlooking(c) == call[c].at = "poll" /\ \E n \in Changed(c) : files[n].stage > Empty
OutputIsTaken == \A c \in Calls : []<>~Overlooking(c)

=============================================================================
