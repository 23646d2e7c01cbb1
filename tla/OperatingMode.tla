--------------------------- MODULE OperatingMode ---------------------------
(***************************************************************************)
(* The operating mode of SystemServices: setMode from API threads and from *)
(* the thread of the mode timer, without a lock between them; the timer    *)
(* object cTimer; the temporary file from which a restarted process takes  *)
(* the mode; the marker file of the warehouse mode.  A call is taken in    *)
(* five steps: the mode is assigned, the timer is started or stopped, the  *)
(* daemon is told, the mode is tested for the marker, the files written.   *)
(***************************************************************************)
EXTENDS Integers, FiniteSets

CONSTANTS MaxDuration,   \* longest duration asked for
          MaxThreads,    \* timer threads at one time
          MaxCalls,      \* calls from outside
          MaxDeaths      \* kills from outside

NoThread == 0
Threads == 1..MaxThreads
Api == -1                \* the thread of a call from outside
Actors == Threads \cup {Api}
Modes == {"NORMAL", "WAREHOUSE", "EAS"}
NoMode == ""             \* m_currentMode until the first setMode of the process

VARIABLES
  mode,        \* m_currentMode
  remaining,   \* m_remainingDuration
  clear,       \* cTimer::clear
  handle,      \* the thread cTimer::timerThread owns, or NoThread
  pc,          \* where each thread is
  arg,         \* the branch of setMode an actor is in: its duration, or "stop"
  active,      \* _instance is set
  saved,       \* SYSTEM_SERVICE_TEMP_FILE
  marker,      \* WAREHOUSE_MODE_FILE exists
  timed,       \* history: the mode in force was asked for with a duration
  collided,    \* history: two calls of setMode have overlapped, or a timed mode was cut off by Deinitialize
  calls, deaths

vars == <<mode, remaining, clear, handle, pc, arg, active, saved, marker,
          timed, collided, calls, deaths>>

NothingSaved == [mode |-> NoMode, duration |-> 0]

Init == /\ mode = NoMode /\ remaining = 0 /\ clear = FALSE /\ handle = NoThread
        /\ pc = [a \in Actors |-> IF a = Api THEN "down" ELSE "none"]
        /\ arg = [a \in Actors |-> 0]
        /\ active = FALSE /\ saved = NothingSaved /\ marker = FALSE
        /\ timed = FALSE /\ collided = FALSE /\ calls = 0 /\ deaths = 0

-----------------------------------------------------------------------------
(* std::terminate, a kill or a crash: memory goes, files stay. *)
Die == /\ mode' = NoMode /\ remaining' = 0 /\ clear' = FALSE /\ handle' = NoThread
       /\ pc' = [a \in Actors |-> IF a = Api THEN "down" ELSE "none"]
       /\ arg' = [a \in Actors |-> 0]
       /\ active' = FALSE /\ timed' = FALSE
       /\ UNCHANGED <<saved, marker, collided, calls>>

(* Where a call of setMode is that has assigned m_currentMode. *)
InSetMode == {"timer", "tell", "test", "create", "unlink"}

(* The end of a call, to the caller or to the timer's callback. *)
Return(a) == pc' = [pc EXCEPT ![a] = IF a = Api THEN "idle" ELSE "called"]

(* setMode up to the assignment of m_currentMode; 0 and NORMAL in NORMAL    *)
(* mode change nothing, a mode with a duration is timed, a negative one     *)
(* stays until the next call, everything else means NORMAL.                 *)
Decide(a, m, d) ==
  IF mode = "NORMAL" /\ (d = 0 \/ m = "NORMAL")
  THEN /\ Return(a)
       /\ UNCHANGED <<mode, arg, timed, collided>>
  ELSE /\ mode' = IF m # "NORMAL" /\ d # 0 THEN m ELSE "NORMAL"
       /\ arg' = [arg EXCEPT ![a] = IF m # "NORMAL" /\ d > 0 THEN d ELSE 0]
       /\ timed' = (m # "NORMAL" /\ d > 0)
       /\ pc' = [pc EXCEPT ![a] = "timer"]
       /\ collided' = (collided \/ \E b \in Actors \ {a} : pc[b] \in InSetMode \cup {"expired"})

(* as startModeTimer below, but a stopped timer is not made ready again *)
startModeTimerStopped(a) ==
  /\ remaining' = arg[a]
  /\ UNCHANGED clear
  /\ \E t \in Threads :
       pc[t] = "none" /\ handle' = t /\ pc' = [pc EXCEPT ![t] = "loop", ![a] = "tell"]
  /\ saved' = [saved EXCEPT !.duration = arg[a]]

startModeTimer(a) ==
  /\ remaining' = arg[a]
  /\ clear' = FALSE
  /\ \E t \in Threads :
       /\ pc[t] = "none"
       /\ handle' = t
       /\ pc' = [pc EXCEPT ![t] = "loop", ![a] = "tell"]
  /\ saved' = [saved EXCEPT !.duration = arg[a]]

stopModeTimer == /\ remaining' = 0
                 /\ clear' = TRUE
                 /\ saved' = [saved EXCEPT !.duration = 0]

(* cTimer::start assigns the new thread to a handle that may still be      *)
(* joinable, since stop neither joins nor detaches: std::terminate.        *)
ChangeTimer(a) ==
  /\ pc[a] = "timer"
  /\ \/ /\ arg[a] > 0 /\ handle # NoThread
        /\ Die /\ UNCHANGED deaths
     \/ /\ \/ arg[a] > 0 /\ handle = NoThread /\ startModeTimer(a)
           \/ arg[a] = 0 /\ stopModeTimer /\ pc' = [pc EXCEPT ![a] = "tell"] /\ UNCHANGED handle
        /\ UNCHANGED <<mode, arg, active, marker, timed, collided, calls, deaths>>

(* The daemon has answered: if it refuses, the mode is NORMAL and not timed. *)
Answered(accepted) ==
  /\ mode' = IF accepted THEN mode ELSE "NORMAL"
  /\ remaining' = IF accepted THEN remaining ELSE 0
  /\ saved' = IF accepted THEN saved ELSE [saved EXCEPT !.duration = 0]
  /\ clear' = (clear \/ ~accepted)
  /\ timed' = (timed /\ accepted)

(* as Tell below, but a refusal is the end of the call *)
TellAndReturn(a) ==
  /\ pc[a] = "tell"
  /\ \E accepted \in BOOLEAN :
       Answered(accepted) /\ IF accepted THEN pc' = [pc EXCEPT ![a] = "test"] ELSE Return(a)
  /\ UNCHANGED <<handle, arg, active, marker, collided, calls, deaths>>

Tell(a) ==
  /\ pc[a] = "tell"
  /\ \E accepted \in BOOLEAN : Answered(accepted)
  /\ pc' = [pc EXCEPT ![a] = "test"]
  /\ UNCHANGED <<handle, arg, active, marker, collided, calls, deaths>>

(* m_currentMode decides whether there is to be a marker. *)
TestMode(a) ==
  /\ pc[a] = "test"
  /\ pc' = [pc EXCEPT ![a] = IF mode = "WAREHOUSE" THEN "create" ELSE "unlink"]
  /\ UNCHANGED <<mode, remaining, clear, handle, arg, active, saved, marker, timed, collided,
                 calls, deaths>>

(* The marker follows that decision, the temporary file m_currentMode. *)
SaveMode(a) ==
  /\ pc[a] \in {"create", "unlink"}
  /\ marker' = (pc[a] = "create")
  /\ saved' = [mode |-> mode, duration |-> remaining]
  /\ Return(a)
  /\ UNCHANGED <<mode, remaining, clear, handle, arg, active, timed, collided, calls, deaths>>

(* A call from outside; an unknown mode is refused before anything else.   *)
setMode(m, d) ==
  /\ active /\ pc[Api] = "idle" /\ calls < MaxCalls
  /\ calls' = calls + 1
  /\ m \in Modes
  /\ Decide(Api, m, d)
  /\ UNCHANGED <<remaining, clear, handle, active, saved, marker, deaths>>

-----------------------------------------------------------------------------
(* cTimer::timerFunction and its callback updateDuration, on thread t. *)
Expire(t) == /\ clear' = TRUE                 \* stop, detach
             /\ handle' = NoThread
             /\ pc' = [pc EXCEPT ![t] = "expired"]

Tick(t) ==
  /\ pc[t] = "loop"
  /\ IF clear
     THEN pc' = [pc EXCEPT ![t] = "none"] /\ UNCHANGED <<remaining, clear, handle, saved>>
     ELSE IF remaining > 0
          THEN /\ remaining' = remaining - 1
               /\ saved' = [saved EXCEPT !.duration = remaining - 1]
               /\ UNCHANGED <<clear, handle, pc>>
          ELSE handle # NoThread /\ Expire(t) /\ UNCHANGED <<remaining, saved>>
  /\ UNCHANGED <<mode, arg, active, marker, timed, collided, calls, deaths>>

(* detach throws when the handle owns no thread. *)
DetachNothing(t) == /\ pc[t] = "loop" /\ ~clear /\ remaining = 0 /\ handle = NoThread
                    /\ Die /\ UNCHANGED deaths

LeaveMode(t) ==
  /\ pc[t] = "expired"
  /\ IF active
     THEN Decide(t, "NORMAL", 0)
     ELSE pc' = [pc EXCEPT ![t] = "called"] /\ UNCHANGED <<mode, arg, timed, collided>>
  /\ UNCHANGED <<remaining, clear, handle, active, saved, marker, calls, deaths>>

EndCallback(t) ==
  /\ pc[t] = "called"
  /\ saved' = [saved EXCEPT !.duration = remaining]
  /\ pc' = [pc EXCEPT ![t] = "loop"]
  /\ UNCHANGED <<mode, remaining, clear, handle, arg, active, marker, timed, collided, calls, deaths>>

-----------------------------------------------------------------------------
(* Initialize: the first one of a process sets the saved mode, or NORMAL.  *)
(* The saved duration comes back as text, which Number() may read as 0.    *)
Initialize ==
  /\ pc[Api] = "down"
  /\ active' = TRUE
  /\ IF mode # NoMode
     THEN pc' = [pc EXCEPT ![Api] = "idle"] /\ UNCHANGED <<mode, arg, timed, collided>>
     ELSE \E d \in {0, saved.duration} :
            IF saved.mode = NoMode THEN Decide(Api, "NORMAL", -1) ELSE Decide(Api, saved.mode, d)
  /\ UNCHANGED <<remaining, clear, handle, saved, marker, calls, deaths>>

Deinitialize ==
  /\ active /\ pc[Api] = "idle" /\ calls < MaxCalls
  /\ calls' = calls + 1
  /\ clear' = TRUE /\ active' = FALSE
  /\ pc' = [pc EXCEPT ![Api] = "down"]
  /\ collided' = (collided \/ \E t \in Threads : pc[t] # "none")
  /\ UNCHANGED <<mode, remaining, handle, arg, saved, marker, timed, deaths>>

Killed == deaths < MaxDeaths /\ pc[Api] # "down" /\ Die /\ deaths' = deaths + 1

Step(t) == Tick(t) \/ DetachNothing(t) \/ LeaveMode(t) \/ EndCallback(t)
Progress == Initialize \/ \E a \in Actors : ChangeTimer(a) \/ Tell(a) \/ TestMode(a) \/ SaveMode(a)

Next == \/ Progress
        \/ \E t \in Threads : Step(t)
        \/ \E m \in Modes, d \in -1..MaxDuration : setMode(m, d)
        \/ Deinitialize
        \/ Killed

(* Threads run; the plugin is activated again; nobody has to call. *)
Fairness == WF_vars(Progress) /\ \A t \in Threads : WF_vars(Step(t))

Spec == Init /\ [][Next]_vars /\ Fairness

-----------------------------------------------------------------------------
Quiet == pc[Api] = "idle" /\ \A t \in Threads : pc[t] \in {"none", "loop"}

(* Whenever no call is under way, the marker of the warehouse mode and the *)
(* file a restart reads agree with m_currentMode and m_remainingDuration,  *)
(* whatever the daemon refused and whenever the process was killed, as     *)
(* long as no two calls of setMode have overlapped (setMode 1649-1704).    *)
FilesFollowMode ==
  Quiet /\ ~collided /\ mode # NoMode =>
    /\ marker <=> mode = "WAREHOUSE"
    /\ saved = [mode |-> mode, duration |-> remaining]

(* A mode set for a time ends: the timer's thread brings NORMAL back, or,  *)
(* if the process dies first, the restart does.  Two things can cut it off *)
(* from its timer: an overlapping setMode, whose stop may come after this  *)
(* one's start, and Deinitialize, which stops the timer and whose next     *)
(* Initialize does not start it (updateDuration, Initialize 665).          *)
TimedModeEnds == timed ~> (~timed \/ collided)
=============================================================================
