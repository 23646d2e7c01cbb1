----------------------------- MODULE FrameRate -----------------------------
(***************************************************************************)
(* FrameRate: samples of the frame rate, summed under m_callMutex and      *)
(* reported by a repeating timer (TpTimer, whose thread arms it again      *)
(* after the callback, without that mutex) and when the collection stops.  *)
(* Revoke of the framework's timer is taken not to wait for a callback     *)
(* that is running (external).  Queries of the display and the events of   *)
(* its frame rate are included; listeners are called under _adminLock in   *)
(* one and under m_callMutex in the other.                                 *)
(***************************************************************************)
EXTENDS Integers

CONSTANTS MaxCalls, Samples

DEFAULT_MIN_FPS_VALUE == 60
DEFAULT_MAX_FPS_VALUE == -1
MINIMUM_FPS_COLLECTION_TIME == 1        \* stands for 100 ms

VARIABLES
  stats,      \* m_minFpsValue, m_maxFpsValue, m_totalFpsValues, m_numberOfFpsUpdates
  last,       \* m_lastFpsValue
  collecting, \* m_fpsCollectionInProgress
  isActive,   \* TpTimer::m_isActive
  timer,      \* the job: none, pending, called (the callback), after (Timed goes on), start (it has tested m_isActive)
  frequency,  \* m_fpsCollectionFrequencyInMs
  display,    \* the frame rate and the mode the video device has (external)
  report,     \* the last onFpsEvent, or the last answer
  raced,      \* history: the collection was started or stopped during a callback
  calls

vars == <<stats, last, collecting, isActive, timer, frequency, display, report, raced, calls>>

Fresh == [min |-> DEFAULT_MIN_FPS_VALUE, max |-> DEFAULT_MAX_FPS_VALUE, total |-> 0, n |-> 0]

Init == /\ stats = Fresh /\ last = 0 /\ collecting = FALSE
        /\ isActive = FALSE /\ timer = "none" /\ frequency = 10
        /\ display = [rate |-> "default", mode |-> "0"]
        /\ report = [of |-> "none"] /\ raced = FALSE /\ calls = 0

Call == calls < MaxCalls /\ calls' = calls + 1

dispatchOnFpsEvent(s) ==
  report' = [of |-> "fps", average |-> IF s.n > 0 THEN s.total \div s.n ELSE -1,
             min |-> IF s.n > 0 THEN s.min ELSE DEFAULT_MIN_FPS_VALUE,
             max |-> IF s.n > 0 THEN s.max ELSE DEFAULT_MAX_FPS_VALUE, n |-> s.n]

InCallback == timer \in {"called", "after", "start"}

-----------------------------------------------------------------------------
(* stop and start of TpTimer; what is running goes on. *)
stop == /\ isActive' = FALSE
        /\ timer' = IF timer = "pending" THEN "none" ELSE timer

StartFpsCollection ==
  /\ Call
  /\ stats' = Fresh /\ last' = -1 /\ collecting' = TRUE
  /\ isActive' = TRUE
  /\ timer' = IF InCallback THEN timer ELSE "pending"
  /\ raced' = (raced \/ InCallback)
  /\ UNCHANGED <<frequency, display, report>>

StopFpsCollection ==
  /\ Call
  /\ IF isActive THEN stop ELSE UNCHANGED <<isActive, timer>>
  /\ collecting' = FALSE
  /\ IF collecting /\ stats.n > 0 THEN dispatchOnFpsEvent(stats) ELSE UNCHANGED report
  /\ raced' = (raced \/ InCallback)
  /\ UNCHANGED <<stats, last, frequency, display>>

UpdateFps(v) ==
  /\ Call /\ v >= 0
  /\ stats' = [min |-> IF v < stats.min THEN v ELSE stats.min,
               max |-> IF v > stats.max THEN v ELSE stats.max,
               total |-> stats.total + v, n |-> stats.n + 1]
  /\ last' = v
  /\ UNCHANGED <<collecting, isActive, timer, frequency, display, report, raced>>

(* What the callback leaves: the last sample stands for the next interval. *)
Carry == IF last >= 0 THEN [min |-> last, max |-> last, total |-> last, n |-> 1] ELSE Fresh

Expires == /\ timer = "pending" /\ calls < MaxCalls
           /\ timer' = "called"
           /\ UNCHANGED <<stats, last, collecting, isActive, frequency, display, report, raced, calls>>

onReportFpsTimer ==
  /\ timer = "called"
  /\ dispatchOnFpsEvent(stats)
  /\ stats' = Carry
  /\ timer' = "after"
  /\ calls' = IF calls < MaxCalls THEN calls + 1 ELSE calls
  /\ UNCHANGED <<last, collecting, isActive, frequency, display, raced>>

(* as Timed below, but the timer is a single shot *)
TimedOnce == /\ timer = "after"
             /\ timer' = "none" /\ isActive' = FALSE
             /\ UNCHANGED <<stats, last, collecting, frequency, display, report, raced, calls>>

(* TpTimer::Timed after its callback: it tests m_isActive, then arms. *)
Timed == \/ /\ timer = "after"
            /\ timer' = IF isActive THEN "start" ELSE "none"
            /\ UNCHANGED <<stats, last, collecting, isActive, frequency, display, report, raced, calls>>
         \/ /\ timer = "start"
            /\ timer' = "pending" /\ isActive' = TRUE
            /\ UNCHANGED <<stats, last, collecting, frequency, display, report, raced, calls>>

-----------------------------------------------------------------------------
(* The video device: none, an error of the library, or an answer. *)
Device == UNCHANGED <<stats, last, collecting, isActive, timer, raced>>
Answer(of, v) == report' = [of |-> of, value |-> v]

GetDisplayFrameRate == /\ Call /\ Device /\ UNCHANGED <<frequency, display>>
                       /\ \E v \in {display.rate, "failed"} : Answer("rate", v)

GetFrmMode == /\ Call /\ Device /\ UNCHANGED <<frequency, display>>
              /\ \E v \in {display.mode, "failed"} : Answer("mode", v)

SetDisplayFrameRate(r) ==
  /\ Call /\ Device /\ UNCHANGED frequency
  /\ \/ r # "bad" /\ display' = [display EXCEPT !.rate = r] /\ Answer("setRate", "done")
     \/ UNCHANGED display /\ Answer("setRate", "failed")

SetFrmMode(m) ==
  /\ Call /\ Device /\ UNCHANGED frequency
  /\ \/ m \in {"0", "1"} /\ display' = [display EXCEPT !.mode = m] /\ Answer("setMode", "done")
     \/ UNCHANGED display /\ Answer("setMode", "failed")

SetCollectionFrequency(f) ==
  /\ Call /\ Device /\ UNCHANGED display
  /\ IF f < MINIMUM_FPS_COLLECTION_TIME
     THEN UNCHANGED frequency /\ Answer("setFrequency", "failed")
     ELSE frequency' = f /\ Answer("setFrequency", "done")

(* OnDisplayFrameratePreChange and PostChange, through the worker pool. *)
DispatchDSMGRDisplayFramerateChangeEvent(e) ==
  /\ Call /\ Device /\ UNCHANGED <<frequency, display>>
  /\ Answer(e, "rate")

Video == \/ GetDisplayFrameRate \/ GetFrmMode
         \/ \E r \in {"1920x1080x60", "bad"} : SetDisplayFrameRate(r)
         \/ \E m \in {"0", "1", "2"} : SetFrmMode(m)
         \/ \E f \in 0..1 : SetCollectionFrequency(f)
         \/ \E e \in {"changing", "changed"} : DispatchDSMGRDisplayFramerateChangeEvent(e)

Next == \/ StartFpsCollection \/ StopFpsCollection
        \/ \E v \in Samples : UpdateFps(v)
        \/ Expires \/ onReportFpsTimer \/ Timed
        \/ Video

Spec == Init /\ [][Next]_vars

-----------------------------------------------------------------------------
(* Outside a callback a collection has a timer that will report, and none  *)
(* goes on reporting when the collection is over, as long as neither start *)
(* nor stop met a callback under way: Timed arms the timer without         *)
(* m_callMutex after its own test of m_isActive (tptimer.h 114-127).       *)
CollectionHasTimer ==
  ~raced /\ ~InCallback => (collecting <=> timer = "pending") /\ (collecting <=> isActive)
=============================================================================
