--------------------------- MODULE ServicesProofs ---------------------------
(***************************************************************************)
(* The invariants of the run services, proved for every number of calls,   *)
(* callers, scripts, timer threads and deaths of the process.  Each is the *)
(* consequence of an inductive invariant about the variables of one part,  *)
(* which the steps of the other parts leave alone.                         *)
(***************************************************************************)
EXTENDS MCServices, TLAPS

-----------------------------------------------------------------------------
(* LogUpload.  The number is cleared in the same section that collects the *)
(* script; a caller about to start one has seen or made it clear.          *)
Uncollected == Upload!Uncollected

UploadType ==
  /\ pid \in Upload!Scripts \cup {Upload!NoPid}
  /\ script \in [Upload!Scripts -> Uncollected \cup {"none", "reaped"}]
  /\ uploadPc \in [Upload!Uploaders -> {"idle", "start", "replace", "abort"}]
  /\ uploadRaced \in BOOLEAN

(* The bus thread waits for the recorded script only.                      *)
WaitsForRecorded == waiting \in {Upload!NoPid, pid}

RecordedIsOurs == pid # Upload!NoPid => script[pid] \in Uncollected

OthersAreCollected ==
  ~uploadRaced => \A k \in Upload!Scripts : script[k] \in Uncollected => k = pid

StartsFromNothing ==
  ~uploadRaced =>
    \A c \in Upload!Uploaders : uploadPc[c] = "start" => pid = Upload!NoPid

UploadInv == /\ UploadType /\ WaitsForRecorded /\ RecordedIsOurs
             /\ OthersAreCollected /\ StartsFromNothing

LEMMA ZeroIsNoScript == Upload!NoPid \notin Upload!Scripts
BY DEF Upload!NoPid, Upload!Scripts

LEMMA EnterKeeps ==
  ASSUME UploadInv, NEW c \in Upload!Uploaders,
         NEW then \in {"abort", "replace", "start"}, Upload!Enter(c, then),
         then = "start" => pid = Upload!NoPid
  PROVE  UploadInv'
<1> USE DEF Upload!Enter
<1>1. UploadType' /\ WaitsForRecorded' /\ RecordedIsOurs' /\ OthersAreCollected'
  BY DEF UploadInv, UploadType, WaitsForRecorded, RecordedIsOurs, OthersAreCollected
<1>2. StartsFromNothing'
  BY DEF UploadInv, UploadType, StartsFromNothing
<1>3. QED  BY <1>1, <1>2 DEF UploadInv

LEMMA AbortKeeps ==
  ASSUME UploadInv, NEW c \in Upload!Uploaders, Upload!abortLogUpload(c)
  PROVE  UploadInv'
<1> USE DEF Upload!abortLogUpload, Upload!MutexFree
<1>1. pid' = Upload!NoPid /\ UNCHANGED <<waiting, uploadRaced>>
  BY DEF Upload!Abort
<1>2. script' = IF pid = Upload!NoPid THEN script ELSE [script EXCEPT ![pid] = "reaped"]
  BY DEF Upload!Abort
<1>3. \A k \in Upload!Scripts : script'[k] \in Uncollected => script[k] \in Uncollected /\ k # pid
  BY <1>2, ZeroIsNoScript DEF UploadInv, UploadType, Uncollected, Upload!Uncollected
<1>4. UploadType'
  <2>1. script' \in [Upload!Scripts -> Uncollected \cup {"none", "reaped"}]
    BY <1>2 DEF UploadInv, UploadType
  <2>2. uploadPc' \in [Upload!Uploaders -> {"idle", "start", "replace", "abort"}]
    BY DEF UploadInv, UploadType
  <2>3. QED  BY <1>1, <2>1, <2>2 DEF UploadInv, UploadType
<1>5. WaitsForRecorded' /\ RecordedIsOurs' /\ StartsFromNothing'
  BY <1>1 DEF WaitsForRecorded, RecordedIsOurs, StartsFromNothing
<1>6. OthersAreCollected'
  BY <1>1, <1>3 DEF UploadInv, OthersAreCollected
<1>7. QED  BY <1>4, <1>5, <1>6 DEF UploadInv

LEMMA StartKeeps ==
  ASSUME UploadInv, NEW c \in Upload!Uploaders, Upload!Start(c)
  PROVE  UploadInv'
<1>1. /\ uploadPc[c] = "start" /\ waiting = Upload!NoPid /\ UNCHANGED waiting
      /\ uploadPc' = [uploadPc EXCEPT ![c] = "idle"]
  BY DEF Upload!Start, Upload!MutexFree
<1>2. PICK k \in Upload!Scripts \cup {Upload!NoPid} : Upload!logUploadAsync(k) /\ pid' = k
  BY DEF Upload!Start
<1>3. script' = IF k = Upload!NoPid THEN script ELSE [script EXCEPT ![k] = "running"]
  BY <1>2 DEF Upload!logUploadAsync
<1>4. uploadRaced' = (uploadRaced \/ \E d \in Upload!Uploaders \ {c} :
                                       uploadPc[d] \in {"start", "replace"})
  BY DEF Upload!Start
<1>5. UploadType'
  <2>1. uploadRaced' \in BOOLEAN
    BY <1>4
  <2>2. script' \in [Upload!Scripts -> Uncollected \cup {"none", "reaped"}]
    BY <1>3 DEF UploadInv, UploadType, Uncollected, Upload!Uncollected
  <2>3. uploadPc' \in [Upload!Uploaders -> {"idle", "start", "replace", "abort"}]
    BY <1>1 DEF UploadInv, UploadType
  <2>4. QED  BY <1>2, <2>1, <2>2, <2>3 DEF UploadType
<1>6. WaitsForRecorded'
  BY <1>1 DEF WaitsForRecorded
<1>7. RecordedIsOurs'
  BY <1>2, <1>3 DEF RecordedIsOurs, UploadInv, UploadType, Uncollected, Upload!Uncollected
<1>8. ASSUME ~uploadRaced'
      PROVE  /\ \A j \in Upload!Scripts : script'[j] \in Uncollected => j = pid'
             /\ \A d \in Upload!Uploaders : uploadPc'[d] # "start"
  <2>1. ~uploadRaced /\ \A d \in Upload!Uploaders \ {c} : uploadPc[d] # "start"
    BY <1>4, <1>8
  <2>2. pid = Upload!NoPid
    BY <1>1, <2>1 DEF UploadInv, StartsFromNothing
  <2>3. \A j \in Upload!Scripts : script[j] \notin Uncollected
    BY <2>1, <2>2, ZeroIsNoScript DEF UploadInv, OthersAreCollected
  <2>4. QED
    BY <1>1, <1>2, <1>3, <2>1, <2>3 DEF UploadInv, UploadType
<1>9. QED
  BY <1>5, <1>6, <1>7, <1>8 DEF UploadInv, OthersAreCollected, StartsFromNothing

LEMMA ScriptEndKeeps ==
  ASSUME UploadInv, \/ \E k \in Upload!Scripts : Upload!Report(k) \/ Upload!Exit(k) \/ Upload!Die(k)
                    \/ Upload!onLogUpload
  PROVE  UploadInv'
<1>1. ASSUME NEW k \in Upload!Scripts, Upload!Report(k) \/ Upload!Exit(k) \/ Upload!Die(k)
      PROVE  UploadInv'
  <2>1. /\ script[k] \in Uncollected
        /\ \E s \in Uncollected : script' = [script EXCEPT ![k] = s]
        /\ UNCHANGED <<pid, waiting, uploadPc, uploadRaced>>
    BY <1>1 DEF Upload!Report, Upload!Exit, Upload!Die, Uncollected, Upload!Uncollected
  <2>2. /\ script' \in [Upload!Scripts -> Uncollected \cup {"none", "reaped"}]
        /\ \A j \in Upload!Scripts : script'[j] \in Uncollected <=> script[j] \in Uncollected
    BY <2>1 DEF UploadInv, UploadType, Uncollected, Upload!Uncollected
  <2>3. UploadType' /\ WaitsForRecorded'
    BY <2>1, <2>2 DEF UploadInv, UploadType, WaitsForRecorded
  <2>4. RecordedIsOurs' /\ OthersAreCollected' /\ StartsFromNothing'
    BY <2>1, <2>2 DEF UploadInv, UploadType, RecordedIsOurs, OthersAreCollected,
                      StartsFromNothing
  <2>5. QED  BY <2>3, <2>4 DEF UploadInv
<1>2. CASE Upload!Deliver
  BY <1>2 DEF Upload!Deliver, UploadInv, UploadType, WaitsForRecorded,
              RecordedIsOurs, OthersAreCollected, StartsFromNothing
<1>3. CASE Upload!Collect
  <2>1. /\ waiting = pid /\ pid \in Upload!Scripts
        /\ script' = [script EXCEPT ![pid] = "reaped"]
        /\ pid' = Upload!NoPid /\ waiting' = Upload!NoPid
        /\ UNCHANGED <<uploadPc, uploadRaced>>
    BY <1>3 DEF Upload!Collect, UploadInv, UploadType, WaitsForRecorded
  <2>2. /\ script' \in [Upload!Scripts -> Uncollected \cup {"none", "reaped"}]
        /\ \A j \in Upload!Scripts :
             script'[j] \in Uncollected => script[j] \in Uncollected /\ j # pid
    BY <2>1 DEF UploadInv, UploadType, Uncollected, Upload!Uncollected
  <2>3. UploadType' /\ WaitsForRecorded' /\ RecordedIsOurs' /\ StartsFromNothing'
    BY <2>1, <2>2 DEF UploadInv, UploadType, WaitsForRecorded, RecordedIsOurs,
                      StartsFromNothing
  <2>4. OthersAreCollected'
    BY <2>1, <2>2 DEF UploadInv, OthersAreCollected
  <2>5. QED  BY <2>3, <2>4 DEF UploadInv
<1>4. QED  BY <1>1, <1>2, <1>3 DEF Upload!onLogUpload

(* The recorded process is one of ours that nobody has collected, and,     *)
(* unless two uploads overlapped between their two sections, every script  *)
(* that is not collected is the recorded one (uploadLogsAsync,             *)
(* abortLogUpload, onLogUpload): for any number of scripts and calls.      *)
THEOREM ScriptsAreRecorded == Spec => []ScriptIsRecorded
<1>1. Init => UploadInv
  BY ZeroIsNoScript
     DEF Init, Upload!Init, UploadInv, UploadType, WaitsForRecorded, RecordedIsOurs,
         OthersAreCollected, StartsFromNothing, Uncollected, Upload!Uncollected
<1>2. UploadInv /\ [Next]_vars => UploadInv'
  <2> SUFFICES ASSUME UploadInv, [Next]_vars PROVE UploadInv'
    OBVIOUS
  <2>1. Upload!Next \/ UNCHANGED uploadVars
    BY DEF Next, vars
  <2>2. ASSUME NEW c \in Upload!Uploaders, Upload!uploadLogsAsync(c)
        PROVE  UploadInv'
    <3>1. CASE pid = Upload!NoPid
      <4>1. Upload!Enter(c, "start")
        BY <2>2, <3>1 DEF Upload!uploadLogsAsync
      <4>2. QED  BY <3>1, <4>1, EnterKeeps
    <3>2. CASE pid # Upload!NoPid
      <4>1. Upload!Enter(c, "replace")
        BY <2>2, <3>2 DEF Upload!uploadLogsAsync
      <4>2. QED  BY <4>1, EnterKeeps
    <3>3. QED  BY <3>1, <3>2
  <2>3. ASSUME NEW c \in Upload!Uploaders, Upload!Enter(c, "abort")
        PROVE  UploadInv'
    BY <2>3, EnterKeeps
  <2>4. "api" \in Upload!Uploaders /\ "power" \in Upload!Uploaders
    BY DEF Upload!Uploaders
  <2>5. CASE Upload!Next
    BY <2>2, <2>3, <2>4, <2>5, AbortKeeps, StartKeeps, ScriptEndKeeps, Zenon
       DEF Upload!Next, Upload!AbortCall, Upload!onSystemPowerStateChanged
  <2>6. CASE UNCHANGED uploadVars
    BY <2>6 DEF uploadVars, UploadInv, UploadType, WaitsForRecorded,
                RecordedIsOurs, OthersAreCollected, StartsFromNothing
  <2>7. QED  BY <2>1, <2>5, <2>6
<1>3. UploadInv => ScriptIsRecorded
  BY DEF UploadInv, RecordedIsOurs, OthersAreCollected, Uncollected, Upload!Uncollected,
         ScriptIsRecorded, Upload!ScriptIsRecorded
<1>4. QED  BY <1>1, <1>2, <1>3, PTL DEF Spec

-----------------------------------------------------------------------------
(* OperatingMode.  Between the assignment of the mode and the end of the   *)
(* call the files are behind; the duration only until the timer is set,    *)
(* and only after the restart that read it from the file.                  *)
ModePcs == {"down", "idle", "none", "loop", "expired", "called"} \cup Mode!InSetMode

InSetMode(a) == modePc[a] \in Mode!InSetMode
Writing == \E a \in Mode!Actors : InSetMode(a)

OperatingType ==
  /\ saved \in [mode : Mode!Modes \cup {Mode!NoMode}, duration : Nat]
  /\ mode \in Mode!Modes \cup {Mode!NoMode} /\ remaining \in Nat
  /\ modePc \in [Mode!Actors -> ModePcs]
  /\ arg \in [Mode!Actors -> Nat]
  /\ collided \in BOOLEAN

DurationIsSaved == mode # Mode!NoMode /\ modePc[Mode!Api] # "timer" => saved.duration = remaining

(* As long as calls do not meet, one is in setMode at a time, and what it  *)
(* has found the mode to be still holds.                                   *)
OneModeCall ==
  ~collided => \A a, b \in Mode!Actors : InSetMode(a) /\ InSetMode(b) => a = b

TestHolds ==
  ~collided => \A a \in Mode!Actors : /\ modePc[a] = "create" => mode = "WAREHOUSE"
                                      /\ modePc[a] = "unlink" => mode # "WAREHOUSE"

ModeIsSaved ==
  ~collided /\ mode # Mode!NoMode /\ ~Writing =>
    saved.mode = mode /\ (marker <=> mode = "WAREHOUSE")

(* A process begins without a mode and does nothing until it has one.      *)
ModeComesFirst == mode = Mode!NoMode => \A a \in Mode!Actors : modePc[a] \in {"down", "none"}

OperatingInv ==
  OperatingType /\ DurationIsSaved /\ OneModeCall /\ TestHolds /\ ModeIsSaved /\ ModeComesFirst

LEMMA NoModeIsNone == Mode!NoMode \notin Mode!Modes /\ "NORMAL" \in Mode!Modes
BY Zenon DEF Mode!NoMode, Mode!Modes

LEMMA ApiIsNoThread ==
  /\ Mode!Api \notin Mode!Threads /\ Mode!Api \in Mode!Actors
  /\ \A t \in Mode!Threads : t \in Mode!Actors
BY DEF Mode!Api, Mode!Threads, Mode!Actors

(* Nobody enters setMode in these steps.                                   *)
LEMMA NobodyEnters ==
  ASSUME OneModeCall, TestHolds, UNCHANGED <<collided, mode>>,
         \A b \in Mode!Actors :
            InSetMode(b)' => InSetMode(b) /\ modePc'[b] \in {modePc[b], "tell"}
  PROVE  OneModeCall' /\ TestHolds'
<1>1. OneModeCall'
  BY DEF OneModeCall
<1>2. TestHolds'
  BY DEF TestHolds, InSetMode, Mode!InSetMode
<1>3. QED  BY <1>1, <1>2

LEMMA DeathKeeps ==
  ASSUME OperatingInv, Mode!Die
  PROVE  OperatingInv'
<1>1. /\ mode' = Mode!NoMode /\ remaining' = 0 /\ UNCHANGED <<saved, collided>>
      /\ modePc' \in [Mode!Actors -> {"down", "none"}] /\ arg' \in [Mode!Actors -> Nat]
  BY DEF Mode!Die
<1>2. modePc' \in [Mode!Actors -> ModePcs]
  BY <1>1 DEF ModePcs
<1>3. OperatingType'
  BY <1>1, <1>2 DEF OperatingInv, OperatingType
<1>4. \A b \in Mode!Actors : ~InSetMode(b)'
  BY <1>1 DEF InSetMode, Mode!InSetMode
<1>5. OneModeCall' /\ TestHolds'
  BY <1>4 DEF OneModeCall, TestHolds, InSetMode, Mode!InSetMode
<1>6. QED
  BY <1>1, <1>3, <1>5 DEF OperatingInv, DurationIsSaved, ModeIsSaved, ModeComesFirst

(* A decision leaves the mode alone, or leaves the files to write.         *)
LEMMA DecisionKeeps ==
  ASSUME OperatingInv, NEW a \in Mode!Actors,
         NEW m \in Mode!Modes, NEW d \in Int, Mode!Decide(a, m, d),
         ~InSetMode(a), mode = Mode!NoMode => a = Mode!Api,
         UNCHANGED <<remaining, saved, marker>>
  PROVE  OperatingInv'
<1>1. CASE mode = "NORMAL" /\ (d = 0 \/ m = "NORMAL")
  <2>1. /\ modePc' = [modePc EXCEPT ![a] = IF a = Mode!Api THEN "idle" ELSE "called"]
        /\ UNCHANGED <<mode, arg, collided>>
    BY <1>1 DEF Mode!Decide, Mode!Return
  <2>2. OperatingType'
    BY <2>1 DEF OperatingInv, OperatingType, ModePcs
  <2>3. modePc'[Mode!Api] # "timer" => modePc[Mode!Api] # "timer"
    BY <2>1, ApiIsNoThread DEF OperatingInv, OperatingType, InSetMode, Mode!InSetMode
  <2>4. \A b \in Mode!Actors : /\ InSetMode(b)' <=> InSetMode(b)
                               /\ InSetMode(b) => modePc'[b] = modePc[b]
    BY <2>1 DEF InSetMode, Mode!InSetMode, OperatingInv, OperatingType
  <2>5. OneModeCall' /\ TestHolds' /\ (Writing => Writing')
    BY <2>1, <2>4, NobodyEnters DEF Writing, OperatingInv
  <2>6. QED
    BY <1>1, <2>1, <2>2, <2>3, <2>5, NoModeIsNone DEF OperatingInv, DurationIsSaved,
                                        ModeIsSaved, ModeComesFirst
<1>2. CASE ~(mode = "NORMAL" /\ (d = 0 \/ m = "NORMAL"))
  <2>1. /\ mode' = IF m # "NORMAL" /\ d # 0 THEN m ELSE "NORMAL"
        /\ arg' = [arg EXCEPT ![a] = IF m # "NORMAL" /\ d > 0 THEN d ELSE 0]
        /\ modePc' = [modePc EXCEPT ![a] = "timer"]
    BY <1>2 DEF Mode!Decide
  <2>2. collided' = (collided \/ \E b \in Mode!Actors \ {a} :
                                   modePc[b] \in Mode!InSetMode \cup {"expired"})
    BY <1>2 DEF Mode!Decide
  <2>3. mode' \in Mode!Modes
    BY <2>1 DEF Mode!Modes
  <2> mode' # Mode!NoMode
    BY <2>3, NoModeIsNone
  <2>4. OperatingType'
    <3>1. modePc' \in [Mode!Actors -> ModePcs]
      BY <2>1 DEF OperatingInv, OperatingType, ModePcs, Mode!InSetMode
    <3>2. arg' \in [Mode!Actors -> Nat]
      <4> DEFINE v == IF m # "NORMAL" /\ d > 0 THEN d ELSE 0
      <4>1. v \in Nat
        OBVIOUS
      <4> HIDE DEF v
      <4>2. QED  BY <2>1, <4>1 DEF v, OperatingInv, OperatingType
    <3>3. collided' \in BOOLEAN
      BY <2>2, Zenon
    <3>4. QED  BY <2>3, <3>1, <3>2, <3>3 DEF OperatingInv, OperatingType
  <2>5. Writing'
    BY <2>1 DEF Writing, InSetMode, Mode!InSetMode, OperatingInv, OperatingType
  <2>6. OneModeCall' /\ TestHolds'
    <3>1. \A b \in Mode!Actors \ {a} : InSetMode(b)' => InSetMode(b)
      BY <2>1 DEF InSetMode, OperatingInv, OperatingType
    <3>2. ~collided' => \A b \in Mode!Actors \ {a} : ~InSetMode(b)
      BY <2>2, Zenon DEF InSetMode
    <3>3. OneModeCall'
      BY <3>1, <3>2, Zenon DEF OneModeCall
    <3>4. modePc'[a] = "timer"
      BY <2>1 DEF OperatingInv, OperatingType
    <3>5. TestHolds'
      BY <3>1, <3>2, <3>4 DEF TestHolds, InSetMode, Mode!InSetMode
    <3>6. QED  BY <3>3, <3>5
  <2>7. DurationIsSaved'
    <3>1. CASE a = Mode!Api
      BY <2>1, <3>1, ApiIsNoThread DEF DurationIsSaved, OperatingInv, OperatingType
    <3>2. CASE a # Mode!Api
      <4>1. modePc'[Mode!Api] = modePc[Mode!Api] /\ mode # Mode!NoMode
        BY <2>1, <3>2, ApiIsNoThread DEF OperatingInv, OperatingType
      <4>2. QED  BY <4>1 DEF DurationIsSaved, OperatingInv
    <3>3. QED  BY <3>1, <3>2
  <2>8. QED
    BY <2>4, <2>5, <2>6, <2>7 DEF OperatingInv, ModeIsSaved, ModeComesFirst
<1>3. QED  BY <1>1, <1>2

LEMMA TimerKeeps ==
  ASSUME OperatingInv, NEW a \in Mode!Actors, Mode!ChangeTimer(a)
  PROVE  OperatingInv'
<1> mode # Mode!NoMode
  BY DEF Mode!ChangeTimer, OperatingInv, ModeComesFirst
<1> modePc[a] = "timer"
  BY DEF Mode!ChangeTimer
<1>1. CASE Mode!Die
  BY <1>1, DeathKeeps
<1>2. CASE arg[a] > 0 /\ Mode!startModeTimer(a) /\ UNCHANGED <<mode, arg, marker, collided>>
  <2>1. PICK t \in Mode!Threads :
          modePc[t] = "none" /\ modePc' = [modePc EXCEPT ![t] = "loop", ![a] = "tell"]
    BY <1>2 DEF Mode!startModeTimer
  <2>2. /\ remaining' = arg[a] /\ saved' = [saved EXCEPT !.duration = arg[a]]
        /\ arg[a] \in Nat
    BY <1>2 DEF Mode!startModeTimer, OperatingInv, OperatingType
  <2>3. modePc' \in [Mode!Actors -> ModePcs] /\ modePc'[a] = "tell"
    BY <2>1, ApiIsNoThread DEF OperatingInv, OperatingType, ModePcs, Mode!InSetMode
  <2>4. saved' \in [mode : Mode!Modes \cup {Mode!NoMode}, duration : Nat]
        /\ saved'.duration = remaining'
    BY <2>2 DEF OperatingInv, OperatingType
  <2>5. \A b \in Mode!Actors :
          InSetMode(b)' => InSetMode(b) /\ modePc'[b] \in {modePc[b], "tell"}
    BY <2>1, ApiIsNoThread DEF InSetMode, Mode!InSetMode, OperatingInv, OperatingType
  <2>6. OneModeCall' /\ TestHolds' /\ Writing'
    BY <1>2, <2>3, <2>5, NobodyEnters DEF OperatingInv, Writing, InSetMode, Mode!InSetMode
  <2>7. QED
    BY <1>2, <2>2, <2>3, <2>4, <2>6 DEF OperatingInv, OperatingType, DurationIsSaved,
                                        ModeIsSaved, ModeComesFirst
<1>3. CASE /\ Mode!stopModeTimer /\ modePc' = [modePc EXCEPT ![a] = "tell"]
           /\ UNCHANGED <<mode, arg, marker, collided>>
  <2>1. /\ saved' \in [mode : Mode!Modes \cup {Mode!NoMode}, duration : Nat]
        /\ saved'.duration = 0 /\ remaining' = 0
    BY <1>3 DEF Mode!stopModeTimer, OperatingInv, OperatingType
  <2>2. modePc' \in [Mode!Actors -> ModePcs] /\ modePc'[a] = "tell"
    BY <1>3 DEF OperatingInv, OperatingType, ModePcs, Mode!InSetMode
  <2>3. \A b \in Mode!Actors :
          InSetMode(b)' => InSetMode(b) /\ modePc'[b] \in {modePc[b], "tell"}
    BY <1>3 DEF InSetMode, Mode!InSetMode, OperatingInv, OperatingType
  <2>4. OneModeCall' /\ TestHolds' /\ Writing'
    BY <1>3, <2>2, <2>3, NobodyEnters DEF OperatingInv, Writing, InSetMode, Mode!InSetMode
  <2>5. QED
    BY <1>3, <2>1, <2>2, <2>4 DEF OperatingInv, OperatingType, DurationIsSaved,
                                  ModeIsSaved, ModeComesFirst
<1>4. QED  BY <1>1, <1>2, <1>3 DEF Mode!ChangeTimer

LEMMA TellKeeps ==
  ASSUME OperatingInv, NEW a \in Mode!Actors, Mode!Tell(a)
  PROVE  OperatingInv'
<1>1. PICK accepted \in BOOLEAN : Mode!Answered(accepted)
  BY DEF Mode!Tell
<1>2. /\ mode' = IF accepted THEN mode ELSE "NORMAL"
      /\ remaining' = IF accepted THEN remaining ELSE 0
      /\ saved' = IF accepted THEN saved ELSE [saved EXCEPT !.duration = 0]
  BY <1>1 DEF Mode!Answered
<1>3. /\ modePc[a] = "tell" /\ modePc' = [modePc EXCEPT ![a] = "test"]
      /\ UNCHANGED <<arg, collided>>
  BY DEF Mode!Tell
<1>4. mode # Mode!NoMode
  BY <1>3 DEF OperatingInv, ModeComesFirst
<1>5. mode' \in Mode!Modes \cup {Mode!NoMode} /\ mode' # Mode!NoMode /\ remaining' \in Nat
  BY <1>2, <1>4, NoModeIsNone DEF OperatingInv, OperatingType
<1>6. /\ saved' \in [mode : Mode!Modes \cup {Mode!NoMode}, duration : Nat]
      /\ saved'.duration = IF accepted THEN saved.duration ELSE 0
  BY <1>2 DEF OperatingInv, OperatingType
<1>7. modePc' \in [Mode!Actors -> ModePcs] /\ modePc'[a] = "test"
  BY <1>3 DEF OperatingInv, OperatingType, ModePcs, Mode!InSetMode
<1>8. OperatingType'
  BY <1>3, <1>5, <1>6, <1>7 DEF OperatingInv, OperatingType
<1>9. DurationIsSaved'
  <2>1. modePc'[Mode!Api] # "timer" => modePc[Mode!Api] # "timer"
    BY <1>3, ApiIsNoThread DEF OperatingInv, OperatingType
  <2>2. QED  BY <1>2, <1>4, <1>6, <2>1 DEF OperatingInv, DurationIsSaved
<1>10. \A b \in Mode!Actors : /\ InSetMode(b)' => InSetMode(b)
                              /\ b # a => modePc'[b] = modePc[b]
  BY <1>3 DEF InSetMode, Mode!InSetMode, OperatingInv, OperatingType
<1>11. OneModeCall'
  BY <1>3, <1>10 DEF OperatingInv, OneModeCall
<1>12. TestHolds'
  <2> SUFFICES ASSUME ~collided', NEW b \in Mode!Actors
               PROVE  modePc'[b] \notin {"create", "unlink"}
    BY Zenon DEF TestHolds
  <2>1. CASE b = a
    BY <1>7, <2>1
  <2>2. CASE b # a
    BY <1>3, <1>10, <2>2 DEF OperatingInv, OneModeCall, InSetMode, Mode!InSetMode
  <2>3. QED  BY <2>1, <2>2
<1>13. Writing'
  BY <1>7 DEF Writing, InSetMode, Mode!InSetMode
<1>14. QED
  BY <1>5, <1>8, <1>9, <1>11, <1>12, <1>13 DEF OperatingInv, ModeIsSaved, ModeComesFirst

LEMMA TestKeeps ==
  ASSUME OperatingInv, NEW a \in Mode!Actors, Mode!TestMode(a)
  PROVE  OperatingInv'
<1>1. /\ modePc[a] = "test"
      /\ modePc' = [modePc EXCEPT ![a] = IF mode = "WAREHOUSE" THEN "create" ELSE "unlink"]
      /\ UNCHANGED <<mode, remaining, arg, saved, marker, collided>>
  BY DEF Mode!TestMode
<1>2. mode # Mode!NoMode
  BY <1>1 DEF OperatingInv, ModeComesFirst
<1>3. /\ modePc' \in [Mode!Actors -> ModePcs]
      /\ modePc'[a] = IF mode = "WAREHOUSE" THEN "create" ELSE "unlink"
      /\ \A b \in Mode!Actors \ {a} : modePc'[b] = modePc[b]
  BY <1>1 DEF OperatingInv, OperatingType, ModePcs, Mode!InSetMode
<1>4. OperatingType'
  BY <1>1, <1>3 DEF OperatingInv, OperatingType
<1>5. \A b \in Mode!Actors : InSetMode(b)' => InSetMode(b)
  BY <1>1, <1>3 DEF InSetMode, Mode!InSetMode
<1>6. OneModeCall'
  BY <1>1, <1>5 DEF OperatingInv, OneModeCall
<1>7. TestHolds'
  BY <1>1, <1>3 DEF OperatingInv, TestHolds
<1>8. Writing'
  BY <1>3 DEF Writing, InSetMode, Mode!InSetMode
<1>9. DurationIsSaved'
  <2>1. modePc'[Mode!Api] # "timer" => modePc[Mode!Api] # "timer"
    BY <1>1, <1>3, ApiIsNoThread
  <2>2. QED  BY <1>1, <2>1 DEF OperatingInv, DurationIsSaved
<1>10. QED
  BY <1>1, <1>2, <1>4, <1>6, <1>7, <1>8, <1>9
     DEF OperatingInv, ModeIsSaved, ModeComesFirst

(* The marker follows a test that still holds: with one call in setMode    *)
(* nothing can come between, and with two the exception holds.             *)
LEMMA SaveKeeps ==
  ASSUME OperatingInv, NEW a \in Mode!Actors, Mode!SaveMode(a)
  PROVE  OperatingInv'
<1>1. /\ modePc[a] \in {"create", "unlink"}
      /\ modePc' = [modePc EXCEPT ![a] = IF a = Mode!Api THEN "idle" ELSE "called"]
      /\ marker' = (modePc[a] = "create") /\ saved' = [mode |-> mode, duration |-> remaining]
      /\ UNCHANGED <<mode, remaining, arg, collided>>
  BY DEF Mode!SaveMode, Mode!Return
<1>2. mode # Mode!NoMode
  BY <1>1 DEF OperatingInv, ModeComesFirst
<1>3. modePc' \in [Mode!Actors -> ModePcs]
  BY <1>1 DEF OperatingInv, OperatingType, ModePcs
<1>4. OperatingType'
  BY <1>1, <1>3 DEF OperatingInv, OperatingType
<1>5. \A b \in Mode!Actors :
        InSetMode(b)' => InSetMode(b) /\ modePc'[b] \in {modePc[b], "tell"}
  BY <1>1 DEF InSetMode, Mode!InSetMode, OperatingInv, OperatingType
<1>6. OneModeCall' /\ TestHolds'
  BY <1>1, <1>5, NobodyEnters DEF OperatingInv
<1>7. ~collided => (marker' <=> mode = "WAREHOUSE")
  BY <1>1 DEF OperatingInv, TestHolds
<1>8. DurationIsSaved' /\ ModeIsSaved' /\ ModeComesFirst'
  BY <1>1, <1>2, <1>7 DEF DurationIsSaved, ModeIsSaved, ModeComesFirst
<1>9. QED  BY <1>4, <1>6, <1>8 DEF OperatingInv

LEMMA ThreadKeeps ==
  ASSUME OperatingInv, NEW t \in Mode!Threads, Mode!Step(t)
  PROVE  OperatingInv'
<1>1. t \in Mode!Actors /\ t # Mode!Api
  BY ApiIsNoThread
<1>2. ASSUME UNCHANGED <<mode, arg, marker, collided>>, remaining' \in Nat,
             \/ UNCHANGED <<saved, remaining>>
             \/ saved' = [saved EXCEPT !.duration = remaining'],
             NEW w \in {"none", "loop", "expired", "called"},
             modePc[t] \in {"loop", "expired", "called"},
             modePc' = [modePc EXCEPT ![t] = w]
      PROVE  OperatingInv'
  <2>1. /\ modePc' \in [Mode!Actors -> ModePcs]
        /\ modePc'[Mode!Api] = modePc[Mode!Api]
        /\ \A b \in Mode!Actors : /\ InSetMode(b)' <=> InSetMode(b)
                                  /\ InSetMode(b) => modePc'[b] = modePc[b]
    BY <1>1, <1>2, ApiIsNoThread DEF OperatingInv, OperatingType, InSetMode, ModePcs,
                                     Mode!InSetMode
  <2> OneModeCall' /\ TestHolds' /\ (Writing => Writing')
    BY <1>2, <2>1, NobodyEnters DEF OperatingInv, Writing
  <2>2. CASE UNCHANGED <<saved, remaining>>
    BY <1>1, <1>2, <2>1, <2>2 DEF OperatingInv, OperatingType, DurationIsSaved,
                                  ModeIsSaved, ModeComesFirst
  <2>3. CASE saved' = [saved EXCEPT !.duration = remaining']
    <3>1. /\ saved' \in [mode : Mode!Modes \cup {Mode!NoMode}, duration : Nat]
          /\ saved'.mode = saved.mode /\ saved'.duration = remaining'
      BY <1>2, <2>3 DEF OperatingInv, OperatingType
    <3>2. OperatingType'
      BY <1>2, <2>1, <3>1 DEF OperatingInv, OperatingType
    <3>3. mode # Mode!NoMode
      BY <1>1, <1>2 DEF OperatingInv, ModeComesFirst
    <3>4. DurationIsSaved' /\ ModeComesFirst'
      BY <1>2, <3>1, <3>3 DEF DurationIsSaved, ModeComesFirst
    <3>5. ModeIsSaved'
      BY <1>2, <2>1, <3>1 DEF OperatingInv, ModeIsSaved
    <3>6. QED  BY <3>2, <3>4, <3>5 DEF OperatingInv
  <2>4. QED  BY <1>2, <2>2, <2>3
<1>3. CASE Mode!Tick(t)
  <2> USE DEF Mode!Tick
  <2>1. CASE clear
    BY <1>2, <1>3, <2>1 DEF OperatingInv, OperatingType
  <2>2. CASE ~clear /\ remaining > 0
    <3>1. /\ remaining' = remaining - 1 /\ saved' = [saved EXCEPT !.duration = remaining']
          /\ UNCHANGED <<mode, arg, marker, modePc, collided>>
      BY <1>3, <2>2
    <3>2. remaining' \in Nat
      BY <2>2, <3>1 DEF OperatingInv, OperatingType
    <3>3. modePc[t] = "loop" /\ modePc' = [modePc EXCEPT ![t] = "loop"]
      BY <1>1, <1>3, <3>1 DEF OperatingInv, OperatingType
    <3>4. QED  BY <1>2, <3>1, <3>2, <3>3
  <2>3. CASE ~clear /\ ~(remaining > 0)
    BY <1>2, <1>3, <2>3 DEF Mode!Expire, OperatingInv, OperatingType
  <2>4. QED  BY <2>1, <2>2, <2>3
<1>4. CASE Mode!DetachNothing(t)
  BY <1>4, DeathKeeps DEF Mode!DetachNothing
<1>5. CASE Mode!LeaveMode(t)
  <2>1. modePc[t] = "expired" /\ UNCHANGED <<remaining, saved, marker>>
    BY <1>5 DEF Mode!LeaveMode
  <2> mode # Mode!NoMode
    BY <1>1, <2>1 DEF OperatingInv, ModeComesFirst
  <2>2. CASE modeActive
    <3>1. Mode!Decide(t, "NORMAL", 0)
      BY <1>5, <2>2 DEF Mode!LeaveMode
    <3>2. "NORMAL" \in Mode!Modes /\ 0 \in Int
      BY DEF Mode!Modes
    <3>3. QED  BY <1>1, <2>1, <3>1, <3>2, DecisionKeeps DEF InSetMode, Mode!InSetMode
  <2>3. CASE ~modeActive
    <3>1. /\ modePc' = [modePc EXCEPT ![t] = "called"] /\ UNCHANGED <<mode, arg, collided>>
      BY <1>5, <2>3 DEF Mode!LeaveMode
    <3>2. QED  BY <1>2, <2>1, <3>1 DEF OperatingInv, OperatingType
  <2>4. QED  BY <2>2, <2>3
<1>6. CASE Mode!EndCallback(t)
  <2>1. /\ modePc[t] = "called" /\ modePc' = [modePc EXCEPT ![t] = "loop"]
        /\ saved' = [saved EXCEPT !.duration = remaining]
        /\ UNCHANGED <<mode, remaining, arg, marker, collided>>
    BY <1>6 DEF Mode!EndCallback
  <2>2. QED  BY <1>2, <2>1 DEF OperatingInv, OperatingType
<1>7. QED  BY <1>3, <1>4, <1>5, <1>6 DEF Mode!Step

LEMMA ApiKeeps ==
  ASSUME OperatingInv,
         \/ Mode!Initialize \/ Mode!Deinitialize \/ Mode!Killed
         \/ \E m \in Mode!Modes, d \in -1..MaxDuration : Mode!setMode(m, d)
  PROVE  OperatingInv'
<1>1. CASE Mode!Initialize
  <2>1. modePc[Mode!Api] = "down" /\ UNCHANGED <<remaining, saved, marker>>
    BY <1>1 DEF Mode!Initialize
  <2>2. CASE mode # Mode!NoMode
    <3>1. modePc' = [modePc EXCEPT ![Mode!Api] = "idle"] /\ UNCHANGED <<mode, arg, collided>>
      BY <1>1, <2>2 DEF Mode!Initialize
    <3>2. /\ OperatingType'
          /\ \A b \in Mode!Actors : /\ InSetMode(b)' <=> InSetMode(b)
                                    /\ InSetMode(b) => modePc'[b] = modePc[b]
      BY <2>1, <3>1, ApiIsNoThread DEF OperatingInv, OperatingType, InSetMode, ModePcs,
                                       Mode!InSetMode
    <3> OneModeCall' /\ TestHolds' /\ (Writing => Writing')
      BY <3>1, <3>2, NobodyEnters DEF OperatingInv, Writing
    <3>3. QED
      BY <2>1, <2>2, <3>1, <3>2 DEF OperatingInv, DurationIsSaved, ModeIsSaved,
                                    ModeComesFirst
  <2>3. CASE mode = Mode!NoMode
    <3>1. PICK d \in {0, saved.duration} :
            IF saved.mode = Mode!NoMode THEN Mode!Decide(Mode!Api, "NORMAL", -1)
                               ELSE Mode!Decide(Mode!Api, saved.mode, d)
      BY <1>1, <2>3 DEF Mode!Initialize
    <3>2. saved.mode \in Mode!Modes \cup {Mode!NoMode} /\ saved.duration \in Nat
      BY DEF OperatingInv, OperatingType
    <3> d \in Int /\ -1 \in Int /\ "NORMAL" \in Mode!Modes
      BY <3>1, <3>2 DEF Mode!Modes
    <3>3. CASE saved.mode = Mode!NoMode
      <4>1. Mode!Decide(Mode!Api, "NORMAL", -1)
        BY <3>1, <3>3
      <4>2. QED  BY <2>1, <3>2, <4>1, ApiIsNoThread, DecisionKeeps DEF InSetMode, Mode!InSetMode
    <3>4. CASE saved.mode # Mode!NoMode
      <4>1. Mode!Decide(Mode!Api, saved.mode, d) /\ saved.mode \in Mode!Modes
        BY <3>1, <3>2, <3>4
      <4>2. QED  BY <2>1, <3>2, <4>1, ApiIsNoThread, DecisionKeeps DEF InSetMode, Mode!InSetMode
    <3>5. QED  BY <3>3, <3>4
  <2>4. QED  BY <2>2, <2>3
<1>2. CASE Mode!Deinitialize
  <2>1. /\ modePc[Mode!Api] = "idle" /\ modePc' = [modePc EXCEPT ![Mode!Api] = "down"]
        /\ UNCHANGED <<mode, remaining, arg, saved, marker>>
        /\ collided' = (collided \/ \E t \in Mode!Threads : modePc[t] # "none")
    BY <1>2 DEF Mode!Deinitialize
  <2>2. collided' \in BOOLEAN /\ (~collided' => ~collided)
    BY <2>1, Zenon DEF OperatingInv, OperatingType
  <2> \A b \in Mode!Actors : /\ InSetMode(b)' <=> InSetMode(b)
                             /\ InSetMode(b) => modePc'[b] = modePc[b]
    BY <2>1, ApiIsNoThread DEF OperatingInv, OperatingType, InSetMode, Mode!InSetMode
  <2> OperatingType'
    BY <2>1, <2>2, ApiIsNoThread DEF OperatingInv, OperatingType, ModePcs
  <2> OneModeCall' /\ (Writing => Writing')
    BY <2>2 DEF OperatingInv, OneModeCall, Writing
  <2> TestHolds'
    BY <2>1, <2>2 DEF OperatingInv, TestHolds, InSetMode, Mode!InSetMode
  <2>3. mode # Mode!NoMode
    BY <2>1, ApiIsNoThread DEF OperatingInv, ModeComesFirst
  <2>4. QED
    BY <2>1, <2>2, <2>3 DEF OperatingInv, DurationIsSaved, ModeIsSaved, ModeComesFirst
<1>3. CASE Mode!Killed
  BY <1>3, DeathKeeps DEF Mode!Killed
<1>4. ASSUME NEW m \in Mode!Modes, NEW d \in -1..MaxDuration, Mode!setMode(m, d)
      PROVE  OperatingInv'
  <2>1. /\ modePc[Mode!Api] = "idle" /\ Mode!Decide(Mode!Api, m, d)
        /\ UNCHANGED <<remaining, saved, marker>> /\ d \in Int
    BY <1>4 DEF Mode!setMode
  <2>2. QED  BY <2>1, ApiIsNoThread, DecisionKeeps DEF InSetMode, Mode!InSetMode
<1>5. QED  BY <1>1, <1>2, <1>3, <1>4

(* Whenever no call of setMode is under way, the marker of the warehouse   *)
(* mode and the file from which a restart takes the mode agree with        *)
(* m_currentMode and m_remainingDuration (setMode, updateDuration): for    *)
(* any number of calls, timer threads and deaths of the process, whatever  *)
(* the daemon refuses, as long as no two calls of setMode have met.        *)
THEOREM FilesFollow == Spec => []FilesFollowMode
<1>1. Init => OperatingInv
  <2> SUFFICES ASSUME Mode!Init PROVE OperatingInv
    BY DEF Init
  <2>1. OperatingType
    BY DEF Mode!Init, Mode!NothingSaved, OperatingType, ModePcs
  <2>2. OneModeCall /\ TestHolds
    BY DEF Mode!Init, OneModeCall, TestHolds, InSetMode, Mode!InSetMode
  <2>3. QED
    BY <2>1, <2>2 DEF Mode!Init, OperatingInv, DurationIsSaved, ModeIsSaved, ModeComesFirst
<1>2. OperatingInv /\ [Next]_vars => OperatingInv'
  <2> SUFFICES ASSUME OperatingInv, [Next]_vars PROVE OperatingInv'
    OBVIOUS
  <2>1. Mode!Next \/ UNCHANGED modeVars
    BY DEF Next, vars
  <2>2. CASE Mode!Next
    BY <2>2, TimerKeeps, TellKeeps, TestKeeps, SaveKeeps, ThreadKeeps, ApiKeeps, Zenon
       DEF Mode!Next, Mode!Progress
  <2>3. CASE UNCHANGED modeVars
    BY <2>3 DEF modeVars, OperatingInv, OperatingType, DurationIsSaved, ModeIsSaved,
                ModeComesFirst, OneModeCall, TestHolds, Writing, InSetMode
  <2>4. QED  BY <2>1, <2>2, <2>3
<1>3. OperatingInv => FilesFollowMode
  <2> SUFFICES ASSUME OperatingInv, Mode!Quiet, ~collided, mode # Mode!NoMode
               PROVE  /\ marker <=> mode = "WAREHOUSE"
                      /\ saved = [mode |-> mode, duration |-> remaining]
    BY DEF FilesFollowMode, Mode!FilesFollowMode
  <2>1. ~Writing /\ modePc[Mode!Api] # "timer"
    BY DEF Mode!Quiet, Writing, InSetMode, Mode!InSetMode, Mode!Actors
  <2>2. QED
    BY <2>1 DEF OperatingInv, OperatingType, DurationIsSaved, ModeIsSaved
<1>4. QED  BY <1>1, <1>2, <1>3, PTL DEF Spec

-----------------------------------------------------------------------------
(* SystemQueries.  As long as no change met another one or a read, every   *)
(* value that is on its way into the cache is the one PowerManager has.    *)
Truths == BOOLEAN

NetworkType ==
  /\ network \in [value : Truths, valid : BOOLEAN]
  /\ queryPc \in [Callers -> {Queries!Idle} \cup [at : {"set"}]
                             \cup [at : {"got"}, value : Truths]]
  /\ pmNetwork \in Truths
  /\ coming \subseteq [n : Int, value : Truths, other : BOOLEAN]
  /\ queryRaced \in BOOLEAN /\ queryCalls \in Int

ReadsAreReal == \A c \in Callers : queryPc[c].at = "got" => queryPc[c].value = pmNetwork

EventsAreReal == \A e \in coming : e.value = pmNetwork

CacheIsReal ==
  network.valid => \/ network.value = pmNetwork
                   \/ \E c \in Callers : queryPc[c].at = "set"
                   \/ \E e \in coming : e.other

NetworkInv == /\ NetworkType
              /\ ~queryRaced => ReadsAreReal /\ EventsAreReal /\ CacheIsReal

LEMMA IdleIsIdle == Queries!Idle.at = "idle"
BY DEF Queries!Idle

(* A change, by a caller of the plugin or by another client.               *)
LEMMA ChangeKeeps ==
  ASSUME NetworkInv, NEW v \in Truths, NEW other \in BOOLEAN,
         pmNetwork' = v, UNCHANGED network, queryCalls' = queryCalls + 1,
         coming' = coming \cup {[n |-> queryCalls, value |-> v, other |-> other]},
         queryRaced' = (queryRaced \/ Queries!UnderWay),
         \/ other /\ UNCHANGED queryPc
         \/ \E c \in Callers : queryPc' = [queryPc EXCEPT ![c] = [at |-> "set"]]
  PROVE  NetworkInv'
<1> DEFINE e == [n |-> queryCalls, value |-> v, other |-> other]
<1>1. e \in [n : Int, value : Truths, other : BOOLEAN] /\ e.value = v /\ e.other = other
  BY DEF NetworkInv, NetworkType
<1> HIDE DEF e
<1>2. coming' = coming \cup {e}
  BY DEF e
<1>3. queryPc' \in [Callers -> {Queries!Idle} \cup [at : {"set"}]
                               \cup [at : {"got"}, value : Truths]]
  BY DEF NetworkInv, NetworkType
<1>4. NetworkType'
  <2>1. queryRaced' \in BOOLEAN
    OBVIOUS
  <2>2. coming' \subseteq [n : Int, value : Truths, other : BOOLEAN]
    BY <1>1, <1>2 DEF NetworkInv, NetworkType
  <2>3. queryCalls' \in Int
    BY DEF NetworkInv, NetworkType
  <2>4. QED  BY <1>3, <2>1, <2>2, <2>3 DEF NetworkInv, NetworkType
<1>5. ASSUME ~queryRaced'
      PROVE  ReadsAreReal' /\ EventsAreReal' /\ CacheIsReal'
  <2>1. coming = {} /\ \A c \in Callers : queryPc[c].at = "idle"
    BY <1>5 DEF Queries!UnderWay
  <2>2. EventsAreReal'
    BY <1>1, <1>2, <2>1 DEF EventsAreReal
  <2>3. CASE other /\ UNCHANGED queryPc
    BY <1>1, <1>2, <2>1, <2>2, <2>3 DEF ReadsAreReal, CacheIsReal
  <2>4. ASSUME NEW c \in Callers, queryPc' = [queryPc EXCEPT ![c] = [at |-> "set"]]
        PROVE  ReadsAreReal' /\ CacheIsReal'
    <3>1. queryPc'[c].at = "set" /\ \A d \in Callers : d # c => queryPc'[d].at = "idle"
      BY <2>1, <2>4 DEF NetworkInv, NetworkType
    <3>2. QED  BY <3>1 DEF ReadsAreReal, CacheIsReal
  <2>5. QED  BY <2>2, <2>3, <2>4
<1>6. QED  BY <1>4, <1>5 DEF NetworkInv

(* A step that reads or leaves the cache.                                  *)
LEMMA CallerKeeps ==
  ASSUME NetworkInv, NEW c \in Callers,
         Queries!DropCached(c) \/ Queries!getNetworkStandbyMode(c) \/ Queries!KeepRead(c)
  PROVE  NetworkInv'
<1> UNCHANGED <<pmNetwork, coming, queryRaced>> /\ queryCalls' \in Int
  BY DEF Queries!DropCached, Queries!getNetworkStandbyMode, Queries!KeepRead,
         Queries!Call, NetworkInv, NetworkType
<1>1. CASE Queries!DropCached(c)
  <2>1. /\ queryPc' = [queryPc EXCEPT ![c] = Queries!Idle]
        /\ network' = [network EXCEPT !.valid = FALSE]
    BY <1>1 DEF Queries!DropCached
  <2>2. network' \in [value : Truths, valid : BOOLEAN] /\ ~network'.valid
    BY <2>1 DEF NetworkInv, NetworkType
  <2>3. NetworkType'
    BY <2>1, <2>2 DEF NetworkInv, NetworkType
  <2>4. ~queryRaced' => ReadsAreReal' /\ EventsAreReal'
    BY <2>1, IdleIsIdle DEF NetworkInv, NetworkType, ReadsAreReal, EventsAreReal
  <2>5. CacheIsReal'
    BY <2>2 DEF CacheIsReal
  <2>6. QED  BY <2>3, <2>4, <2>5 DEF NetworkInv
<1>2. CASE Queries!getNetworkStandbyMode(c)
  <2>1. UNCHANGED network /\ queryPc[c] = Queries!Idle
    BY <1>2 DEF Queries!getNetworkStandbyMode
  <2>2. CASE UNCHANGED queryPc
    BY <2>1, <2>2 DEF NetworkInv, NetworkType, ReadsAreReal, EventsAreReal, CacheIsReal
  <2>3. CASE queryPc' = [queryPc EXCEPT ![c] = [at |-> "got", value |-> pmNetwork]]
    <3>1. NetworkType'
      BY <2>1, <2>3 DEF NetworkInv, NetworkType
    <3>2. /\ queryPc'[c].at = "got" /\ queryPc'[c].value = pmNetwork
          /\ \A d \in Callers : d # c => queryPc'[d] = queryPc[d]
      BY <2>3 DEF NetworkInv, NetworkType
    <3>3. queryPc[c].at # "set"
      BY <2>1, IdleIsIdle
    <3>4. QED
      BY <2>1, <3>1, <3>2, <3>3 DEF NetworkInv, ReadsAreReal, EventsAreReal, CacheIsReal
  <2>4. QED  BY <1>2, <2>2, <2>3 DEF Queries!getNetworkStandbyMode
<1>3. CASE Queries!KeepRead(c)
  <2>1. /\ queryPc[c].at = "got" /\ queryPc' = [queryPc EXCEPT ![c] = Queries!Idle]
        /\ network' = [value |-> queryPc[c].value, valid |-> TRUE]
    BY <1>3 DEF Queries!KeepRead
  <2>2. queryPc[c].value \in Truths
    <3>1. queryPc[c] \in [at : {"got"}, value : Truths]
      BY <2>1, IdleIsIdle DEF NetworkInv, NetworkType
    <3>2. QED  BY <3>1
  <2>3. network' \in [value : Truths, valid : BOOLEAN]
        /\ network'.value = queryPc[c].value
    BY <2>1, <2>2
  <2>4. NetworkType'
    BY <2>1, <2>3 DEF NetworkInv, NetworkType
  <2>5. ~queryRaced' => ReadsAreReal' /\ EventsAreReal'
    BY <2>1, IdleIsIdle DEF NetworkInv, NetworkType, ReadsAreReal, EventsAreReal
  <2>6. ~queryRaced' => CacheIsReal'
    BY <2>1, <2>3 DEF NetworkInv, ReadsAreReal, CacheIsReal
  <2>7. QED  BY <2>4, <2>5, <2>6 DEF NetworkInv
<1>4. QED  BY <1>1, <1>2, <1>3

LEMMA EventKeeps ==
  ASSUME NetworkInv, NEW e \in coming, Queries!onNetworkStandbyModeChanged(e)
  PROVE  NetworkInv'
<1>1. /\ coming' = coming \ {e} /\ network' = [value |-> e.value, valid |-> TRUE]
      /\ UNCHANGED <<pmNetwork, queryPc, queryRaced, queryCalls>>
  BY DEF Queries!onNetworkStandbyModeChanged, Queries!onNetworkModeChanged
<1>2. e.value \in Truths
  BY DEF NetworkInv, NetworkType
<1>3. network' \in [value : Truths, valid : BOOLEAN] /\ network'.value = e.value
  BY <1>1, <1>2
<1>4. NetworkType'
  BY <1>1, <1>3 DEF NetworkInv, NetworkType
<1>5. ~queryRaced' => ReadsAreReal' /\ EventsAreReal' /\ CacheIsReal'
  BY <1>1, <1>3 DEF NetworkInv, ReadsAreReal, EventsAreReal, CacheIsReal
<1>6. QED  BY <1>4, <1>5 DEF NetworkInv

(* All other requests and events leave the network standby mode alone.     *)
LEMMA OtherQueriesKeep ==
  ASSUME NetworkInv, Queries!Power \/ Queries!Info
  PROVE  NetworkInv'
<1>1. Queries!Rest /\ Queries!Call
  BY Zenon DEF Queries!Power, Queries!Info, Queries!Query, Queries!KeptQuery,
     Queries!setDevicePowerState, Queries!getDevicePowerState,
     Queries!setDeepSleepTimer, Queries!setWakeupSrcConfiguration,
     Queries!getWakeupReason, Queries!getLastWakeupKeyCode,
     Queries!requestSystemReboot, Queries!onPwrMgrReboot,
     Queries!onTimeStatusChanged, Queries!handleThermalLevelChange,
     Queries!getMfgSerialNumber, Queries!getManufacturerData,
     Queries!getPowerStateBeforeReboot, Queries!getDeviceInfo,
     Queries!getSerialNumber, Queries!getRFCConfig, Queries!getSystemTimeStatus,
     Queries!requestSystemUptime, Queries!getSystemVersions
<1>2. UNCHANGED <<pmNetwork, coming, network, queryPc, queryRaced>>
  BY <1>1 DEF Queries!Rest
<1>3. queryCalls' \in Int
  BY <1>1 DEF Queries!Call, NetworkInv, NetworkType
<1>4. QED
  BY <1>2, <1>3 DEF NetworkInv, NetworkType, ReadsAreReal, EventsAreReal, CacheIsReal

(* A cached network standby mode is the mode PowerManager has, unless a    *)
(* request of the plugin is between its change and its return or the event *)
(* of another client's change is on its way (setNetworkStandbyMode,        *)
(* getNetworkStandbyMode, onNetworkStandbyModeChanged): for any number of  *)
(* callers and calls, as long as no change met another change or a read.   *)
THEOREM CachedModesAreReal == Spec => []CachedModeIsReal
<1>1. Init => NetworkInv
  <2> SUFFICES ASSUME Queries!Init PROVE NetworkInv
    BY DEF Init
  <2>1. network \in [value : Truths, valid : BOOLEAN] /\ ~network.valid
    BY DEF Queries!Init, Truths
  <2>2. pmNetwork \in Truths /\ queryRaced \in BOOLEAN
    BY DEF Queries!Init, Truths
  <2>3. NetworkType
    <3>1. queryPc = [c \in Callers |-> Queries!Idle] /\ coming = {} /\ queryCalls = 0
      BY DEF Queries!Init
    <3>2. queryPc \in [Callers -> {Queries!Idle} \cup [at : {"set"}]
                                  \cup [at : {"got"}, value : Truths]]
      BY <3>1
    <3>3. queryCalls \in Int
      BY <3>1
    <3>4. QED  BY <2>1, <2>2, <3>1, <3>2, <3>3 DEF NetworkType
  <2>4. ReadsAreReal /\ EventsAreReal /\ CacheIsReal
    BY <2>1, IdleIsIdle DEF Queries!Init, ReadsAreReal, EventsAreReal, CacheIsReal
  <2>5. QED  BY <2>3, <2>4 DEF NetworkInv
<1>2. NetworkInv /\ [Next]_vars => NetworkInv'
  <2> SUFFICES ASSUME NetworkInv, [Next]_vars PROVE NetworkInv'
    OBVIOUS
  <2>1. Queries!Next \/ UNCHANGED queryVars
    BY DEF Next, vars
  <2>2. ASSUME NEW c \in Callers, NEW v \in BOOLEAN, Queries!setNetworkStandbyMode(c, v)
        PROVE  NetworkInv'
    <3>1. UNCHANGED network /\ queryCalls' = queryCalls + 1
      BY <2>2 DEF Queries!setNetworkStandbyMode, Queries!Call
    <3>2. CASE /\ pmNetwork' = v
               /\ coming' = coming \cup {[n |-> queryCalls, value |-> v, other |-> FALSE]}
               /\ queryPc' = [queryPc EXCEPT ![c] = [at |-> "set"]]
               /\ queryRaced' = (queryRaced \/ Queries!UnderWay)
      <4>1. v \in Truths /\ FALSE \in BOOLEAN
        BY DEF Truths
      <4>2. QED  BY <3>1, <3>2, <4>1, ChangeKeeps
    <3>3. CASE UNCHANGED <<pmNetwork, coming, queryPc, queryRaced>>
      <4>1. queryCalls' \in Int
        BY <3>1 DEF NetworkInv, NetworkType
      <4>2. QED
        BY <3>1, <3>3, <4>1 DEF NetworkInv, NetworkType, ReadsAreReal,
                                EventsAreReal, CacheIsReal
    <3>4. QED  BY <2>2, <3>2, <3>3 DEF Queries!setNetworkStandbyMode
  <2>3. ASSUME NEW v \in BOOLEAN, Queries!OtherClient(v)
        PROVE  NetworkInv'
    <3>1. v \in Truths /\ TRUE \in BOOLEAN
      BY DEF Truths
    <3>2. QED
      BY <2>3, <3>1, ChangeKeeps DEF Queries!OtherClient, Queries!Call
  <2>4. CASE Queries!Next
    BY <2>2, <2>3, <2>4, CallerKeeps, EventKeeps, OtherQueriesKeep, Zenon
       DEF Queries!Next, Queries!Network
  <2>5. CASE UNCHANGED queryVars
    BY <2>5 DEF queryVars, NetworkInv, NetworkType, ReadsAreReal, EventsAreReal,
                CacheIsReal
  <2>6. QED  BY <2>1, <2>4, <2>5
<1>3. NetworkInv => CachedModeIsReal
  BY DEF NetworkInv, CacheIsReal, CachedModeIsReal, Queries!CachedModeIsReal
<1>4. QED  BY <1>1, <1>2, <1>3, PTL DEF Spec

-----------------------------------------------------------------------------
(* SystemStore.  The file never holds a region without the territory it    *)
(* was set with.  At most one call of setTimeZoneDST, and one of           *)
(* setFriendlyName, is between its steps; how far it is says which of the  *)
(* files, the parameter and the event it has changed.                      *)
ZoneCalls == [at : {"idle", "zone", "accuracy", "tell"},
              zone : Store!Zones \cup {Store!Unset}, old : Store!Zones \cup {Store!Unset},
              accuracy : Store!Accuracies \cup {Store!Unset},
              oldAccuracy : Store!Accuracies \cup {Store!Unset}]

Accuracy == Store!getTimeZoneAccuracyDSTHelper

StoreType ==
  /\ territoryFile \in [territory : Store!Territories \cup {Store!Unset},
                        region : Store!Regions \cup {Store!Unset}]
  /\ tzFile \in Store!Zones \cup {Store!Unset}
  /\ tz \in [Callers -> ZoneCalls]
  /\ naming \in [Callers -> {"idle", "tell", "save"}]
  /\ told \in [territory : Store!Territories \cup {Store!Unset},
               zone : Store!Zones \cup {Store!Unset},
               accuracy : Store!Accuracies, name : Store!Names \cup {Store!Unset}]
  /\ friendlyName \in Store!Names \cup {Store!Unset}
  /\ friendlyRfc \in Store!Names \cup {Store!Unset}
  /\ spoilt \in BOOLEAN

CallsFit ==
  \A c \in Callers : /\ tz[c].at = "idle" <=> tz[c] = Store!NoCall
                     /\ tz[c].at = "tell" => tz[c].accuracy \in Store!Accuracies

DownIsIdle == ~up => \A c \in Callers : naming[c] = "idle"

FileIsAPair == territoryFile.region # Store!Unset => territoryFile \in pairs

TerritoryTold == told.territory = territoryFile.territory

OneZoneCall ==
  \A c, d \in Callers : tz[c].at # "idle" /\ tz[d].at # "idle" => c = d

ZoneTold ==
  /\ (\A c \in Callers : tz[c].at = "idle") => told.zone = tzFile /\ told.accuracy = Accuracy
  /\ \A c \in Callers :
       /\ tz[c].at = "zone" => /\ told.zone = tzFile /\ told.accuracy = Accuracy
                               /\ tz[c].old = tzFile
       /\ tz[c].at = "accuracy" => /\ told.zone = tz[c].old /\ told.accuracy = Accuracy
                                   /\ tz[c].zone = tzFile
       /\ tz[c].at = "tell" =>
            /\ told.zone = tz[c].old /\ told.accuracy = tz[c].oldAccuracy
            /\ tz[c].zone = tzFile /\ tz[c].accuracy = Accuracy

OneNameCall ==
  \A c, d \in Callers : naming[c] # "idle" /\ naming[d] # "idle" => c = d

NameTold ==
  /\ (\A c \in Callers : naming[c] # "save") => told.name = friendlyRfc
  /\ \A c \in Callers : naming[c] = "save" => told.name = friendlyName

ZonePart == OneZoneCall /\ ZoneTold
NamePart == OneNameCall /\ NameTold

StoreInv == /\ StoreType /\ CallsFit /\ DownIsIdle /\ FileIsAPair /\ RegionFitsTerritory
            /\ ~spoilt => TerritoryTold /\ ZonePart /\ NamePart

(* The two parts speak of variables that the steps of the others leave.    *)
LEMMA ZoneSame ==
  ASSUME UNCHANGED <<tz, tzFile, accuracyFile>>,
         told'.zone = told.zone, told'.accuracy = told.accuracy
  PROVE  ZonePart => ZonePart'
BY DEF ZonePart, OneZoneCall, ZoneTold, Accuracy, Store!getTimeZoneAccuracyDSTHelper

LEMMA NameSame ==
  ASSUME UNCHANGED <<naming, friendlyName, friendlyRfc>>, told'.name = told.name
  PROVE  NamePart => NamePart'
BY DEF NamePart, OneNameCall, NameTold

LEMMA AnswerSame ==
  ASSUME StoreInv, UNCHANGED <<territoryFile, pairs>>,
         UNCHANGED reply \/ reply'.of # "territory"
  PROVE  FileIsAPair' /\ RegionFitsTerritory'
BY DEF StoreInv, FileIsAPair, RegionFitsTerritory, Store!RegionFitsTerritory

(* What does not concern territory, time zone and name.                    *)
LEMMA OtherValuesKeep ==
  ASSUME StoreInv,
         UNCHANGED <<territoryFile, pairs, tzFile, accuracyFile, tz, friendlyName,
                     friendlyRfc, naming, told, spoilt, up>>,
         UNCHANGED reply \/ reply'.of # "territory"
  PROVE  StoreInv'
<1>1. ZonePart => ZonePart'
  BY ZoneSame
<1>2. NamePart => NamePart'
  BY NameSame
<1>3. FileIsAPair' /\ RegionFitsTerritory'
  BY AnswerSame
<1>4. QED
  BY <1>1, <1>2, <1>3 DEF StoreInv, StoreType, CallsFit, DownIsIdle, TerritoryTold

LEMMA SetTerritoryKeeps ==
  ASSUME StoreInv, NEW t, NEW r, Store!setTerritory(t, r)
  PROVE  StoreInv'
<1>1. UNCHANGED <<tzFile, accuracyFile, tz, friendlyName, friendlyRfc, naming, reply, up>>
  BY DEF Store!setTerritory, Store!RestSame, Store!Call
<1>2. CASE UNCHANGED <<territoryFile, told, pairs, spoilt>>
  BY <1>1, <1>2, OtherValuesKeep
<1>3. CASE /\ t \in Store!Territories /\ (r = Store!Unset \/ Store!isRegionValid(r))
           /\ \/ Store!writeTerritory(t, r) /\ UNCHANGED spoilt
              \/ Store!writeTerritory(Store!Unset, Store!Unset) /\ spoilt' = TRUE
           /\ Store!onTerritoryChanged(t)
           /\ pairs' = pairs \cup {[territory |-> t, region |-> r]}
  <2>1. /\ told' = [told EXCEPT !.territory = t] /\ spoilt' \in BOOLEAN
        /\ r \in Store!Regions \cup {Store!Unset}
    BY <1>3 DEF Store!onTerritoryChanged, Store!isRegionValid, StoreInv, StoreType
  <2>2. \/ /\ territoryFile' = [territory |-> t, region |-> r]
           /\ territoryFile' \in pairs' /\ UNCHANGED spoilt
        \/ /\ territoryFile' = [territory |-> Store!Unset, region |-> Store!Unset]
           /\ spoilt' = TRUE
    BY <1>3 DEF Store!writeTerritory
  <2>3. territoryFile' \in [territory : Store!Territories \cup {Store!Unset},
                            region : Store!Regions \cup {Store!Unset}]
    BY <1>3, <2>1, <2>2
  <2>4. told' \in [territory : Store!Territories \cup {Store!Unset},
                   zone : Store!Zones \cup {Store!Unset},
                   accuracy : Store!Accuracies, name : Store!Names \cup {Store!Unset}]
    BY <1>3, <2>1 DEF StoreInv, StoreType
  <2>5. StoreType' /\ CallsFit' /\ DownIsIdle' /\ FileIsAPair'
    BY <1>1, <2>1, <2>2, <2>3, <2>4
       DEF StoreInv, StoreType, CallsFit, DownIsIdle, FileIsAPair
  <2>6. RegionFitsTerritory'
    BY <1>1, <1>3 DEF StoreInv, RegionFitsTerritory, Store!RegionFitsTerritory
  <2>7. /\ told'.zone = told.zone /\ told'.accuracy = told.accuracy
        /\ told'.name = told.name /\ told'.territory = t
    BY <2>1 DEF StoreInv, StoreType
  <2>8. ~spoilt' => ~spoilt /\ TerritoryTold'
    BY <2>2, <2>7 DEF TerritoryTold
  <2>9. QED
    BY <1>1, <2>5, <2>6, <2>7, <2>8, ZoneSame, NameSame DEF StoreInv
<1>4. QED  BY <1>2, <1>3 DEF Store!setTerritory

(* The members are cleared before the file is read, so that what it lacks  *)
(* is not filled from an earlier read.                                     *)
LEMMA GetTerritoryKeeps ==
  ASSUME StoreInv, Store!getTerritory
  PROVE  StoreInv'
<1>1. /\ UNCHANGED <<territoryFile, pairs, tzFile, accuracyFile, tz, friendlyName,
                     friendlyRfc, naming, told, spoilt, up>>
      /\ territory' = Store!readTerritoryFromFile(Store!Nowhere)
      /\ reply' = [of |-> "territory", value |-> territory']
  BY DEF Store!getTerritory, Store!RestSame, Store!Answer
<1>2. territory'.region # Store!Unset => territory' = territoryFile
  <2>1. CASE territoryFile.territory = Store!Unset
    BY <1>1, <2>1 DEF Store!readTerritoryFromFile, Store!Nowhere
  <2>2. CASE territoryFile.territory # Store!Unset
    <3>1. territory' = [territory |-> territoryFile.territory,
                        region |-> territoryFile.region]
      BY <1>1, <2>2 DEF Store!readTerritoryFromFile, Store!Nowhere
    <3>2. QED  BY <3>1 DEF StoreInv, StoreType
  <2>3. QED  BY <2>1, <2>2
<1>3. RegionFitsTerritory'
  BY <1>1, <1>2 DEF StoreInv, FileIsAPair, RegionFitsTerritory,
                    Store!RegionFitsTerritory
<1>4. ZonePart => ZonePart'
  BY <1>1, ZoneSame
<1>5. NamePart => NamePart'
  BY <1>1, NameSame
<1>6. QED
  BY <1>1, <1>3, <1>4, <1>5
     DEF StoreInv, StoreType, CallsFit, DownIsIdle, FileIsAPair, TerritoryTold

(* What the steps of setTimeZoneDST leave alone.                           *)
LEMMA ZoneStepKeeps ==
  ASSUME StoreInv,
         UNCHANGED <<territoryFile, pairs, friendlyName, friendlyRfc, naming, reply, up>>,
         told'.territory = told.territory, told'.name = told.name,
         StoreType', CallsFit', spoilt => spoilt', ~spoilt' => ZonePart'
  PROVE  StoreInv'
<1>1. NamePart => NamePart'
  BY NameSame
<1>2. FileIsAPair' /\ RegionFitsTerritory'
  BY AnswerSame
<1>3. QED
  BY <1>1, <1>2 DEF StoreInv, DownIsIdle, TerritoryTold

LEMMA AccuracyType == Accuracy \in Store!Accuracies
BY DEF Accuracy, Store!getTimeZoneAccuracyDSTHelper, Store!Accuracies

LEMMA SetTimeZoneKeeps ==
  ASSUME StoreInv, NEW c \in Callers, NEW zone,
         NEW accuracy \in Store!Accuracies \cup {Store!Unset},
         Store!setTimeZoneDST(c, zone, accuracy)
  PROVE  StoreInv'
<1> USE DEF Store!setTimeZoneDST, Store!TerritorySame
<1>1. CASE zone \notin Store!Zones
  BY <1>1, OtherValuesKeep DEF Store!Call
<1>2. CASE zone \in Store!Zones
  <2> DEFINE call == [at |-> "zone", zone |-> zone, old |-> tzFile, accuracy |-> accuracy,
                      oldAccuracy |-> Store!Unset]
  <2>1. /\ tz' = [tz EXCEPT ![c] = call]
        /\ spoilt' = (spoilt \/ \E d \in Callers : tz[d] # Store!NoCall)
        /\ UNCHANGED <<territoryFile, pairs, tzFile, accuracyFile, friendlyName,
                       friendlyRfc, naming, told, reply, up>>
    BY <1>2 DEF Store!getTimeZoneDSTHelper, Store!Call
  <2>2. call \in ZoneCalls /\ call.old = tzFile /\ call.at = "zone"
    BY <1>2 DEF ZoneCalls, StoreInv, StoreType
  <2> HIDE DEF call
  <2>3. /\ tz' \in [Callers -> ZoneCalls] /\ tz'[c] = call
        /\ \A d \in Callers : d # c => tz'[d] = tz[d]
    BY <2>1, <2>2 DEF StoreInv, StoreType
  <2>4. spoilt' \in BOOLEAN /\ (spoilt => spoilt')
    BY <2>1
  <2>5. StoreType' /\ CallsFit'
    BY <2>1, <2>2, <2>3, <2>4 DEF StoreInv, StoreType, CallsFit, Store!NoCall
  <2>6. ASSUME ~spoilt'
        PROVE  ZonePart'
    <3>1. ~spoilt /\ \A d \in Callers : tz[d].at = "idle"
      BY <2>1, <2>6 DEF StoreInv, CallsFit
    <3>2. told.zone = tzFile /\ told.accuracy = Accuracy
      BY <3>1 DEF StoreInv, ZonePart, ZoneTold
    <3>3. Accuracy' = Accuracy
      BY <2>1 DEF Accuracy, Store!getTimeZoneAccuracyDSTHelper
    <3>4. QED
      BY <2>1, <2>2, <2>3, <3>1, <3>2, <3>3 DEF ZonePart, OneZoneCall, ZoneTold
  <2>7. QED  BY <2>1, <2>4, <2>5, <2>6, ZoneStepKeeps
<1>3. QED  BY <1>1, <1>2

(* A call that goes on to its next position.                               *)
LEMMA ZoneCallMoves ==
  ASSUME StoreInv, NEW c \in Callers, tz[c].at # "idle",
         NEW call \in ZoneCalls, tz' = [tz EXCEPT ![c] = call]
  PROVE  /\ tz' \in [Callers -> ZoneCalls] /\ tz'[c] = call
         /\ \A d \in Callers : d # c => tz'[d] = tz[d]
         /\ OneZoneCall => OneZoneCall' /\ \A d \in Callers : d # c => tz'[d].at = "idle"
         /\ /\ call.at = "idle" <=> call = Store!NoCall
            /\ call.at = "tell" => call.accuracy \in Store!Accuracies
           => CallsFit'
BY DEF StoreInv, StoreType, OneZoneCall, CallsFit

LEMMA WriteTimeZoneKeeps ==
  ASSUME StoreInv, NEW c \in Callers, Store!WriteTimeZone(c)
  PROVE  StoreInv'
<1> DEFINE call == [tz[c] EXCEPT !.at = "accuracy"]
<1>1. tz[c] \in ZoneCalls /\ tz[c].at = "zone"
  BY DEF Store!WriteTimeZone, StoreInv, StoreType
<1>2. /\ tz' = [tz EXCEPT ![c] = call]
      /\ UNCHANGED <<territoryFile, pairs, accuracyFile, friendlyName, friendlyRfc,
                     naming, told, reply, up>>
  BY DEF Store!WriteTimeZone, Store!ZoneStep, Store!TerritorySame
<1>3. \/ tzFile' = tz[c].zone /\ UNCHANGED spoilt
      \/ tzFile' \in {tzFile, Store!Unset} /\ spoilt' = TRUE
      \/ tz[c].zone = tz[c].old /\ UNCHANGED <<tzFile, spoilt>>
  BY DEF Store!WriteTimeZone
<1>4. /\ call \in ZoneCalls /\ call.at = "accuracy" /\ call # Store!NoCall
      /\ call.old = tz[c].old /\ call.zone = tz[c].zone
  BY <1>1 DEF ZoneCalls, Store!NoCall
<1> HIDE DEF call
<1>5. /\ tz' \in [Callers -> ZoneCalls] /\ tz'[c] = call /\ CallsFit'
      /\ OneZoneCall => OneZoneCall' /\ \A d \in Callers : d # c => tz'[d].at = "idle"
  BY <1>1, <1>2, <1>4, ZoneCallMoves
<1>6. tzFile' \in Store!Zones \cup {Store!Unset} /\ spoilt' \in BOOLEAN /\ (spoilt => spoilt')
  BY <1>1, <1>3 DEF StoreInv, StoreType, ZoneCalls
<1>7. StoreType'
  BY <1>2, <1>5, <1>6 DEF StoreInv, StoreType
<1>8. ASSUME ~spoilt'
      PROVE  ZonePart'
  <2>1. ~spoilt /\ OneZoneCall /\ ZoneTold
    BY <1>6, <1>8 DEF StoreInv, ZonePart
  <2>2. told.zone = tzFile /\ told.accuracy = Accuracy /\ tz[c].old = tzFile
    BY <1>1, <2>1 DEF ZoneTold
  <2>3. tzFile' = tz[c].zone
    BY <1>3, <1>8, <2>2
  <2>4. Accuracy' = Accuracy
    BY <1>2 DEF Accuracy, Store!getTimeZoneAccuracyDSTHelper
  <2>5. ZoneTold'
    BY <1>2, <1>4, <1>5, <2>1, <2>2, <2>3, <2>4 DEF ZoneTold
  <2>6. QED  BY <1>5, <2>1, <2>5 DEF ZonePart
<1>9. QED  BY <1>2, <1>5, <1>6, <1>7, <1>8, ZoneStepKeeps

LEMMA WriteAccuracyKeeps ==
  ASSUME StoreInv, NEW c \in Callers, Store!WriteAccuracy(c)
  PROVE  StoreInv'
<1> DEFINE accuracy == IF tz[c].accuracy \in Store!Accuracies THEN tz[c].accuracy ELSE Accuracy
           call == [tz[c] EXCEPT !.at = "tell", !.accuracy = accuracy,
                                 !.oldAccuracy = Accuracy]
<1>1. tz[c] \in ZoneCalls /\ tz[c].at = "accuracy"
  BY DEF Store!WriteAccuracy, StoreInv, StoreType
<1>2. /\ tz' = [tz EXCEPT ![c] = call]
      /\ UNCHANGED <<territoryFile, pairs, tzFile, friendlyName, friendlyRfc,
                     naming, told, reply, up>>
  BY DEF Store!WriteAccuracy, Store!ZoneStep, Store!TerritorySame, Accuracy
<1>3. \/ accuracyFile' = accuracy /\ UNCHANGED spoilt
      \/ spoilt' = TRUE
      \/ accuracy = Accuracy /\ UNCHANGED <<accuracyFile, spoilt>>
  BY DEF Store!WriteAccuracy, Accuracy
<1>4. accuracy \in Store!Accuracies
  BY AccuracyType
<1> HIDE DEF accuracy
<1>5. /\ call \in ZoneCalls /\ call.at = "tell" /\ call # Store!NoCall
      /\ call.old = tz[c].old /\ call.zone = tz[c].zone
      /\ call.accuracy = accuracy /\ call.oldAccuracy = Accuracy
  BY <1>1, <1>4, AccuracyType DEF ZoneCalls, Store!NoCall
<1> HIDE DEF call
<1>6. /\ tz' \in [Callers -> ZoneCalls] /\ tz'[c] = call /\ CallsFit'
      /\ OneZoneCall => OneZoneCall' /\ \A d \in Callers : d # c => tz'[d].at = "idle"
  BY <1>1, <1>2, <1>4, <1>5, ZoneCallMoves
<1>7. spoilt' \in BOOLEAN /\ (spoilt => spoilt')
  BY <1>3 DEF StoreInv, StoreType
<1>8. StoreType'
  BY <1>2, <1>6, <1>7 DEF StoreInv, StoreType
<1>9. ASSUME ~spoilt'
      PROVE  ZonePart'
  <2>1. ~spoilt /\ OneZoneCall /\ ZoneTold
    BY <1>7, <1>9 DEF StoreInv, ZonePart
  <2>2. told.zone = tz[c].old /\ told.accuracy = Accuracy /\ tz[c].zone = tzFile
    BY <1>1, <2>1 DEF ZoneTold
  <2>3. Accuracy' = accuracy
    BY <1>3, <1>4, <1>9 DEF Accuracy, Store!getTimeZoneAccuracyDSTHelper
  <2>4. ZoneTold'
    BY <1>2, <1>5, <1>6, <2>1, <2>2, <2>3 DEF ZoneTold
  <2>5. QED  BY <1>6, <2>1, <2>4 DEF ZonePart
<1>10. QED  BY <1>2, <1>6, <1>7, <1>8, <1>9, ZoneStepKeeps

(* Whatever was written is announced, the accuracy alone included.         *)
LEMMA TellTimeZoneKeeps ==
  ASSUME StoreInv, NEW c \in Callers, Store!TellTimeZone(c)
  PROVE  StoreInv'
<1>1. tz[c] \in ZoneCalls /\ tz[c].at = "tell"
  BY DEF Store!TellTimeZone, StoreInv, StoreType
<1>2. /\ tz' = [tz EXCEPT ![c] = Store!NoCall]
      /\ UNCHANGED <<territoryFile, pairs, tzFile, accuracyFile, friendlyName, friendlyRfc,
                     naming, spoilt, reply, up>>
  BY DEF Store!TellTimeZone, Store!ZoneStep, Store!TerritorySame
<1>3. told' = IF tz[c].zone # tz[c].old \/ tz[c].accuracy # tz[c].oldAccuracy
              THEN [told EXCEPT !.zone = tz[c].zone, !.accuracy = tz[c].accuracy]
              ELSE told
  BY DEF Store!TellTimeZone, Store!onTimeZoneDSTChanged
<1>4. Store!NoCall \in ZoneCalls /\ Store!NoCall.at = "idle"
  BY DEF ZoneCalls, Store!NoCall
<1>5. /\ tz' \in [Callers -> ZoneCalls] /\ tz'[c] = Store!NoCall /\ CallsFit'
      /\ OneZoneCall => OneZoneCall' /\ \A d \in Callers : d # c => tz'[d].at = "idle"
  BY <1>1, <1>2, <1>4, ZoneCallMoves
<1>6. Accuracy' = Accuracy
  BY <1>2 DEF Accuracy, Store!getTimeZoneAccuracyDSTHelper
<1>7. tz[c].zone \in Store!Zones \cup {Store!Unset} /\ tz[c].accuracy \in Store!Accuracies
  BY <1>1 DEF ZoneCalls, StoreInv, CallsFit
<1>8. /\ told' \in [territory : Store!Territories \cup {Store!Unset},
                    zone : Store!Zones \cup {Store!Unset},
                    accuracy : Store!Accuracies, name : Store!Names \cup {Store!Unset}]
      /\ told'.territory = told.territory /\ told'.name = told.name
      /\ \/ told'.zone = tz[c].zone /\ told'.accuracy = tz[c].accuracy
         \/ told' = told /\ tz[c].zone = tz[c].old /\ tz[c].accuracy = tz[c].oldAccuracy
  BY <1>3, <1>7 DEF StoreInv, StoreType
<1>9. StoreType'
  BY <1>2, <1>5, <1>8 DEF StoreInv, StoreType
<1>10. ASSUME ~spoilt'
       PROVE  ZonePart'
  <2>1. OneZoneCall /\ ZoneTold
    BY <1>2, <1>10 DEF StoreInv, ZonePart
  <2>2. /\ tz[c].accuracy = Accuracy /\ tz[c].zone = tzFile
        /\ told.zone = tz[c].old /\ told.accuracy = tz[c].oldAccuracy
    BY <1>1, <2>1 DEF ZoneTold
  <2>3. told'.zone = tzFile' /\ told'.accuracy = Accuracy'
    BY <1>2, <1>6, <1>8, <2>2
  <2>4. \A d \in Callers : tz'[d].at = "idle"
    BY <1>4, <1>5, <2>1
  <2>5. QED  BY <1>5, <2>1, <2>3, <2>4 DEF ZonePart, ZoneTold
<1>11. QED  BY <1>2, <1>5, <1>8, <1>9, <1>10, ZoneStepKeeps

(* What the steps of setFriendlyName leave alone.                          *)
LEMMA NameStepKeeps ==
  ASSUME StoreInv,
         UNCHANGED <<territoryFile, pairs, tzFile, accuracyFile, tz, reply, up>>,
         told'.territory = told.territory, told'.zone = told.zone,
         told'.accuracy = told.accuracy,
         StoreType', DownIsIdle', spoilt => spoilt', ~spoilt' => NamePart'
  PROVE  StoreInv'
<1>1. ZonePart => ZonePart'
  BY ZoneSame
<1>2. FileIsAPair' /\ RegionFitsTerritory'
  BY AnswerSame
<1>3. QED
  BY <1>1, <1>2 DEF StoreInv, CallsFit, TerritoryTold

LEMMA SetNameKeeps ==
  ASSUME StoreInv, NEW c \in Callers, NEW n \in Store!Names, Store!setFriendlyName(c, n)
  PROVE  StoreInv'
<1> USE DEF Store!setFriendlyName, Store!TerritorySame
<1>1. CASE n = friendlyName
  BY <1>1, OtherValuesKeep DEF Store!Call
<1>2. CASE n # friendlyName
  <2>1. /\ naming' = [naming EXCEPT ![c] = "tell"] /\ friendlyName' = n /\ up /\ up'
        /\ spoilt' = (spoilt \/ \E d \in Callers : naming[d] # "idle")
        /\ UNCHANGED <<territoryFile, pairs, tzFile, accuracyFile, tz, friendlyRfc, told,
                       reply, up>>
    BY <1>2 DEF Store!Call
  <2>2. spoilt' \in BOOLEAN /\ (spoilt => spoilt')
    BY <2>1
  <2>3. StoreType' /\ DownIsIdle'
    BY <2>1, <2>2 DEF StoreInv, StoreType, DownIsIdle
  <2>4. ASSUME ~spoilt'
        PROVE  NamePart'
    <3>1. ~spoilt /\ \A d \in Callers : naming[d] = "idle"
      BY <2>1, <2>4
    <3>2. QED
      BY <2>1, <3>1 DEF StoreInv, StoreType, NamePart, OneNameCall, NameTold
  <2>5. QED  BY <2>1, <2>2, <2>3, <2>4, NameStepKeeps
<1>3. QED  BY <1>1, <1>2

LEMMA TellNameKeeps ==
  ASSUME StoreInv, NEW c \in Callers, Store!onFriendlyNameChanged(c)
  PROVE  StoreInv'
<1>1. /\ naming[c] = "tell" /\ naming' = [naming EXCEPT ![c] = "save"]
      /\ told' = [told EXCEPT !.name = friendlyName]
      /\ UNCHANGED <<territoryFile, pairs, tzFile, accuracyFile, tz, friendlyName,
                     friendlyRfc, spoilt, reply, up>>
  BY DEF Store!onFriendlyNameChanged, Store!NameStep, Store!TerritorySame
<1>2. /\ told'.territory = told.territory /\ told'.zone = told.zone
      /\ told'.accuracy = told.accuracy /\ told'.name = friendlyName
  BY <1>1 DEF StoreInv, StoreType
<1>3. StoreType' /\ DownIsIdle'
  BY <1>1 DEF StoreInv, StoreType, DownIsIdle
<1>4. ~spoilt' => NamePart'
  BY <1>1, <1>2 DEF StoreInv, StoreType, NamePart, OneNameCall, NameTold
<1>5. QED  BY <1>1, <1>2, <1>3, <1>4, NameStepKeeps

LEMMA SaveNameKeeps ==
  ASSUME StoreInv, NEW c \in Callers, Store!SaveFriendlyName(c)
  PROVE  StoreInv'
<1>1. /\ naming[c] = "save" /\ naming' = [naming EXCEPT ![c] = "idle"]
      /\ UNCHANGED <<territoryFile, pairs, tzFile, accuracyFile, tz, friendlyName,
                     told, reply, up>>
  BY DEF Store!SaveFriendlyName, Store!NameStep, Store!TerritorySame
<1>2. \/ friendlyRfc' = friendlyName /\ UNCHANGED spoilt
      \/ UNCHANGED friendlyRfc /\ spoilt' = TRUE
  BY DEF Store!SaveFriendlyName
<1>3. spoilt' \in BOOLEAN /\ (spoilt => spoilt')
  BY <1>2 DEF StoreInv, StoreType
<1>4. StoreType' /\ DownIsIdle'
  BY <1>1, <1>2, <1>3 DEF StoreInv, StoreType, DownIsIdle
<1>5. ~spoilt' => NamePart'
  BY <1>1, <1>2 DEF StoreInv, StoreType, NamePart, OneNameCall, NameTold
<1>6. QED  BY <1>1, <1>3, <1>4, <1>5, NameStepKeeps

LEMMA OtherSettersKeep ==
  ASSUME StoreInv,
         \/ \E v \in {"true", "false"} : \/ Store!setBlocklistFlag(v)
                                         \/ Store!setOptOutTelemetry(v)
                                         \/ Store!setFSRFlag(v)
         \/ \E s \in {"STARTED", "bad"} : Store!setMigrationStatus(s)
         \/ Store!setBootLoaderSplashScreen
         \/ Store!Getters /\ ~Store!getTerritory
  PROVE  StoreInv'
<1>1. UNCHANGED <<territoryFile, pairs, tzFile, accuracyFile, tz, friendlyName,
                  friendlyRfc, naming, told, spoilt, up>>
  BY DEF Store!setBlocklistFlag, Store!setOptOutTelemetry, Store!setFSRFlag,
     Store!setMigrationStatus, Store!setBootLoaderSplashScreen, Store!Getters,
     Store!getTimeZoneDST, Store!getTimeZones, Store!getFriendlyName,
     Store!getBlocklistFlag, Store!isOptOutTelemetry, Store!getFSRFlag,
     Store!getMigrationStatus, Store!getBootTypeInfo, Store!getBuildType,
     Store!Query, Store!FlagCall, Store!TerritorySame, Store!Call
<1>2. UNCHANGED reply \/ reply'.of # "territory"
  <2>1. ASSUME NEW of, NEW v, Store!Answer(of, v), of # "territory"
        PROVE  reply'.of # "territory"
    BY <2>1 DEF Store!Answer
  <2>2. ASSUME NEW v, \/ Store!setBlocklistFlag(v) \/ Store!setOptOutTelemetry(v)
                      \/ Store!setFSRFlag(v) \/ Store!setMigrationStatus(v)
        PROVE  UNCHANGED reply \/ reply'.of # "territory"
    BY <2>1, <2>2, Zenon DEF Store!setBlocklistFlag, Store!setOptOutTelemetry,
       Store!setFSRFlag, Store!setMigrationStatus, Store!onBlocklistChanged
  <2>3. ASSUME \/ Store!setBootLoaderSplashScreen \/ Store!getBootTypeInfo
               \/ Store!getTimeZoneDST \/ Store!getTimeZones \/ Store!getBuildType
        PROVE  reply'.of # "territory"
    BY <2>1, <2>3, Zenon DEF Store!setBootLoaderSplashScreen, Store!getBootTypeInfo,
       Store!getTimeZoneDST, Store!getTimeZones, Store!getBuildType
  <2>4. ASSUME \/ Store!getFriendlyName \/ Store!getBlocklistFlag \/ Store!getFSRFlag
               \/ Store!isOptOutTelemetry \/ Store!getMigrationStatus
        PROVE  reply'.of # "territory"
    BY <2>1, <2>4, Zenon DEF Store!getFriendlyName, Store!getBlocklistFlag,
       Store!getFSRFlag, Store!isOptOutTelemetry, Store!getMigrationStatus
  <2>5. QED  BY <2>2, <2>3, <2>4, Zenon DEF Store!Getters
<1>3. QED  BY <1>1, <1>2, OtherValuesKeep

LEMMA InitializeKeeps ==
  ASSUME StoreInv, Store!Initialize
  PROVE  StoreInv'
<1>1. /\ ~up /\ friendlyName' \in {friendlyRfc, friendlyName}
      /\ UNCHANGED <<territoryFile, pairs, tzFile, accuracyFile, tz, friendlyRfc, naming,
                     told, spoilt, reply>>
  BY DEF Store!Initialize
<1>2. \A c \in Callers : naming[c] = "idle"
  BY <1>1 DEF StoreInv, DownIsIdle
<1>3. NamePart => NamePart'
  BY <1>1, <1>2 DEF NamePart, OneNameCall, NameTold
<1>4. ZonePart => ZonePart'
  BY <1>1, ZoneSame
<1>5. FileIsAPair' /\ RegionFitsTerritory'
  BY <1>1, AnswerSame
<1>6. friendlyName' \in Store!Names \cup {Store!Unset}
  BY <1>1 DEF StoreInv, StoreType
<1>7. QED
  BY <1>1, <1>2, <1>3, <1>4, <1>5, <1>6
     DEF StoreInv, StoreType, CallsFit, DownIsIdle, TerritoryTold

(* A kill that finds no setter between its steps leaves what was told.     *)
LEMMA KilledKeeps ==
  ASSUME StoreInv, Store!Killed
  PROVE  StoreInv'
<1>1. /\ tz' = [c \in Callers |-> Store!NoCall] /\ naming' = [c \in Callers |-> "idle"]
      /\ friendlyName' = Store!Unset
      /\ UNCHANGED <<friendlyRfc, told, reply>>
  BY DEF Store!Killed
<1>2. Store!NoCall \in ZoneCalls /\ Store!NoCall.at = "idle"
  BY DEF ZoneCalls, Store!NoCall
<1>3. /\ tz' \in [Callers -> ZoneCalls] /\ naming' \in [Callers -> {"idle", "tell", "save"}]
      /\ CallsFit' /\ DownIsIdle' /\ OneZoneCall' /\ OneNameCall'
  BY <1>1, <1>2 DEF CallsFit, DownIsIdle, OneZoneCall, OneNameCall
<1>4. CASE /\ UNCHANGED <<territoryFile, pairs, tzFile, accuracyFile>>
           /\ spoilt' = (spoilt \/ Store!HalfDone)
  <2>1. FileIsAPair' /\ RegionFitsTerritory'
    BY <1>1, <1>4, AnswerSame
  <2>2. spoilt' \in BOOLEAN
    BY <1>4
  <2>3. StoreType'
    BY <1>1, <1>3, <1>4, <2>2 DEF StoreInv, StoreType
  <2>4. ASSUME ~spoilt'
        PROVE  TerritoryTold' /\ ZonePart' /\ NamePart'
    <3>1. ~spoilt /\ TerritoryTold /\ ZoneTold /\ NameTold
      BY <1>4, <2>4 DEF StoreInv, ZonePart, NamePart
    <3>2. \A c \in Callers : tz[c].at \in {"idle", "zone"} /\ naming[c] # "save"
      BY <1>4, <2>4 DEF Store!HalfDone, StoreInv, StoreType, ZoneCalls
    <3>3. Accuracy' = Accuracy
      BY <1>4 DEF Accuracy, Store!getTimeZoneAccuracyDSTHelper
    <3>4. told.zone = tzFile /\ told.accuracy = Accuracy
      BY <3>1, <3>2 DEF ZoneTold
    <3>5. ZoneTold' /\ NameTold' /\ TerritoryTold'
      BY <1>1, <1>2, <1>4, <3>1, <3>2, <3>3, <3>4 DEF ZoneTold, NameTold, TerritoryTold
    <3>6. QED  BY <1>3, <3>5 DEF ZonePart, NamePart
  <2>5. QED  BY <1>3, <2>1, <2>3, <2>4 DEF StoreInv
<1>5. CASE Store!TerritoryCut /\ spoilt' = TRUE /\ UNCHANGED tzFile
  <2>1. PICK t \in Store!Territories \cup {Store!Unset}, r \in Store!Regions \cup {Store!Unset} :
          /\ territoryFile' = [territory |-> t, region |-> r]
          /\ pairs' = pairs \cup {[territory |-> t, region |-> r]}
    BY <1>5 DEF Store!TerritoryCut, Store!writeTerritory
  <2>2. FileIsAPair'
    BY <2>1 DEF FileIsAPair
  <2>3. RegionFitsTerritory'
    BY <1>1, <2>1 DEF StoreInv, RegionFitsTerritory, Store!RegionFitsTerritory
  <2>4. StoreType'
    BY <1>1, <1>3, <1>5, <2>1 DEF StoreInv, StoreType
  <2>5. QED  BY <1>3, <1>5, <2>2, <2>3, <2>4 DEF StoreInv
<1>6. CASE /\ tzFile' \in {tzFile, Store!Unset} /\ spoilt' = TRUE
           /\ UNCHANGED <<territoryFile, pairs>>
  <2>1. FileIsAPair' /\ RegionFitsTerritory'
    BY <1>1, <1>6, AnswerSame
  <2>2. StoreType'
    BY <1>1, <1>3, <1>6 DEF StoreInv, StoreType
  <2>3. QED  BY <1>3, <1>6, <2>1, <2>2 DEF StoreInv
<1>7. QED  BY <1>4, <1>5, <1>6 DEF Store!Killed

LEMMA StoreIsInductive ==
  /\ Init => StoreInv
  /\ StoreInv /\ [Next]_vars => StoreInv'
<1>1. ASSUME Init PROVE StoreInv
  <2> Store!Init
    BY <1>1 DEF Init
  <2>1. Store!NoCall \in ZoneCalls /\ Store!NoCall.at = "idle"
    BY DEF ZoneCalls, Store!NoCall
  <2>2. StoreType
    BY <2>1 DEF Store!Init, StoreType, Store!Nowhere, Store!Accuracies
  <2>3. FileIsAPair /\ RegionFitsTerritory
    BY DEF Store!Init, FileIsAPair, RegionFitsTerritory, Store!RegionFitsTerritory
  <2>4. CallsFit /\ DownIsIdle /\ OneZoneCall /\ OneNameCall
    BY <2>1 DEF Store!Init, CallsFit, DownIsIdle, OneZoneCall, OneNameCall
  <2>5. Accuracy = "INITIAL"
    BY DEF Store!Init, Accuracy, Store!getTimeZoneAccuracyDSTHelper, Store!Unset,
           Store!Accuracies
  <2>6. TerritoryTold /\ ZoneTold /\ NameTold
    BY <2>1, <2>5 DEF Store!Init, TerritoryTold, ZoneTold, NameTold, Store!Nowhere
  <2>7. QED  BY <2>2, <2>3, <2>4, <2>6 DEF StoreInv, ZonePart, NamePart
<1>2. ASSUME StoreInv, [Next]_vars PROVE StoreInv'
  <2>1. Store!Next \/ UNCHANGED storeVars
    BY <1>2 DEF Next, vars
  <2>2. CASE Store!Next
    <3>1. CASE Store!Setters
      BY <1>2, <3>1, SetTerritoryKeeps, SetTimeZoneKeeps, WriteTimeZoneKeeps,
         WriteAccuracyKeeps, TellTimeZoneKeeps, SetNameKeeps, TellNameKeeps, SaveNameKeeps,
         OtherSettersKeep, Zenon DEF Store!Setters
    <3>2. CASE Store!Getters
      BY <1>2, <3>2, GetTerritoryKeeps, OtherSettersKeep, Zenon
    <3>3. QED
      BY <1>2, <2>2, <3>1, <3>2, KilledKeeps, InitializeKeeps, Zenon DEF Store!Next
  <2>3. CASE UNCHANGED storeVars
    BY <1>2, <2>3, OtherValuesKeep DEF storeVars
  <2>4. QED  BY <2>1, <2>2, <2>3
<1>3. QED  BY <1>1, <1>2

(* A region is only ever answered with the territory it was set with       *)
(* (setTerritory, getTerritory): for any number of calls, kills in the     *)
(* middle of a write included.                                             *)
THEOREM RegionsFit == Spec => []RegionFitsTerritory
<1>1. StoreInv => RegionFitsTerritory
  BY DEF StoreInv
<1>2. QED  BY <1>1, StoreIsInductive, PTL DEF Spec

(* What listeners were last told of territory, time zone, accuracy and     *)
(* name is what the next start finds, whenever no setter is between its    *)
(* steps (setTerritory, setTimeZoneDST, setFriendlyName): for any number   *)
(* of callers, calls and restarts, as long as no write failed, no kill     *)
(* came after the first write or event of a call and before its last, and  *)
(* no two calls of one setter overlapped.                                  *)
THEOREM ChangesTold == Spec => []ChangesAreTold
<1>1. StoreInv => ChangesAreTold
  <2> SUFFICES ASSUME StoreInv, ~spoilt, \A c \in Callers : Store!Ready(c)
               PROVE  told = [territory |-> territoryFile.territory, zone |-> tzFile,
                              accuracy |-> Accuracy, name |-> friendlyRfc]
    BY DEF ChangesAreTold, Store!ChangesAreTold, Accuracy
  <2>1. \A c \in Callers : tz[c].at = "idle" /\ naming[c] = "idle"
    BY DEF Store!Ready, StoreInv, CallsFit
  <2>2. /\ told.territory = territoryFile.territory /\ told.zone = tzFile
        /\ told.accuracy = Accuracy /\ told.name = friendlyRfc
    BY <2>1 DEF StoreInv, TerritoryTold, ZonePart, ZoneTold, NamePart, NameTold
  <2>3. QED  BY <2>2 DEF StoreInv, StoreType
<1>2. QED  BY <1>1, StoreIsInductive, PTL DEF Spec

=============================================================================
