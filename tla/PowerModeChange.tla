--------------------------- MODULE PowerModeChange ---------------------------
(***************************************************************************)
(* PowerManagerImplementation::SetPowerState and what runs against it: the *)
(* acknowledging clients, the timer jobs of the sessions and the           *)
(* completion handler, one step per access to shared state.  A session is  *)
(* a PreModeChangeController (module AckController) whose operations are   *)
(* split here, because Schedule and the timer job run without _apiLock.    *)
(***************************************************************************)
EXTENDS Naturals, FiniteSets

CONSTANTS Callers,          \* threads that call SetPowerState
          Clients,          \* client ids, each with a thread of its own
          None,             \* no thread
          BootStates,       \* power states the settings hold at start
          MaxRequests,      \* bound on calls of SetPowerState
          ClientsAnswer,    \* clients acknowledge
          TimeoutsHappen,   \* a client may be late, so that timers are due
          PlatformMayFail   \* PLAT_API_SetPowerState may fail

ASSUME ThreadsAssumption ==
    /\ None \notin Callers \cup Clients
    /\ Callers \cap Clients = {}
    /\ BootStates \subseteq {"ON", "LIGHT", "DEEP"}
    /\ MaxRequests \in Nat
    /\ {ClientsAnswer, TimeoutsHappen, PlatformMayFail} \subseteq BOOLEAN

States == {"ON", "LIGHT", "DEEP"}

Tids == 1..MaxRequests

(* Where a caller can be in SetPowerState.                                 *)
Labels == {"idle", "lock", "read", "deactivate", "decide", "submit",
           "schedule", "run", "install", "arm", "inline"}

VARIABLES power,      \* PowerController: the current power state
          lastEvent,  \* the state clients were last told, OnPowerModeChanged
          ctrl,       \* _modeChangeController: its transaction id, 0 if none
          nextTid,    \* _nextTransactionId + 1
          session,    \* the sessions opened so far
          clients,    \* _modeChangeClients
          selfLock,   \* holder of SetPowerState's selfLock
          apiLock,    \* holder of _apiLock, where it outlives a step
          callbackLock, \* _callbackLock: free, or why callbacks are run
          delayJob,   \* the caller whose job Deactivate waits for, or None
          pc,         \* where a caller is in SetPowerState
          want,       \* newState of a caller
          cur,        \* currState of a caller
          acker,      \* where a client's thread is in Ack
          requests,   \* calls of SetPowerState so far
          latest,     \* history: the state requested last, unless ignored
          crashed     \* an empty std::function was called

vars == <<power, lastEvent, ctrl, nextTid, session, clients, selfLock,
          apiLock, callbackLock, delayJob, pc, want, cur, acker, requests,
          latest, crashed>>

(* The device side: what the platform and the notified clients see.        *)
device == <<power, lastEvent, callbackLock, delayJob>>

control == <<ctrl, nextTid>>

input == <<requests, latest, want>>

locks == <<selfLock, apiLock>>

(* A session; job is its timer job: "locked", "stop" and "handler" are the *)
(* steps of a dispatched job, which then owns a reference to the session.  *)
NoSession ==
    [target |-> "ON", from |-> "ON", sync |-> FALSE, announced |-> FALSE,
     pending |-> {}, running |-> FALSE, handler |-> FALSE, job |-> "none",
     stage |-> "none", by |-> "none", runs |-> 0, aborted |-> FALSE,
     cancelled |-> FALSE]

Sessions ==
    [target : States, from : States, sync : BOOLEAN, announced : BOOLEAN,
     pending : SUBSET Clients, running : BOOLEAN, handler : BOOLEAN,
     job : {"none", "armed", "locked", "stop", "handler", "done"},
     stage : {"none", "set", "notify", "callbacks", "finish"},
     by : {"none", "caller", "ack", "timer"}, runs : Nat,
     aborted : BOOLEAN, cancelled : BOOLEAN]

TypeOK ==
    /\ power \in States /\ lastEvent \in States /\ latest \in States
    /\ ctrl \in 0..MaxRequests
    /\ nextTid \in 1..(MaxRequests + 1)
    /\ session \in [Tids -> Sessions]
    /\ clients \in SUBSET Clients
    /\ selfLock \in Callers \cup {None}
    /\ apiLock \in Clients \cup {None}
    /\ callbackLock \in {"free", "modeChanged", "other"}
    /\ delayJob \in Callers \cup {None}
    /\ pc \in [Callers -> Labels]
    /\ want \in [Callers -> States]
    /\ cur \in [Callers -> States]
    /\ acker \in [Clients -> {"idle", "stop", "revoke", "handler"}]
    /\ requests \in 0..MaxRequests
    /\ crashed \in BOOLEAN

-----------------------------------------------------------------------------
Init ==
    /\ power \in BootStates /\ lastEvent = power /\ latest = power
    /\ ctrl = 0
    /\ nextTid = 1
    /\ session = [t \in Tids |-> NoSession]
    /\ clients \in SUBSET Clients
    /\ selfLock = None
    /\ apiLock = None
    /\ callbackLock = "free"
    /\ delayJob = None
    /\ pc = [a \in Callers |-> "idle"]
    /\ want = [a \in Callers |-> "ON"]
    /\ cur = [a \in Callers |-> "ON"]
    /\ acker = [c \in Clients |-> "idle"]
    /\ requests = 0
    /\ crashed = FALSE

ApiLockFree == apiLock = None

(* A caller reaches the end of SetPowerState and releases selfLock.        *)
Return(a) ==
    /\ pc' = [pc EXCEPT ![a] = "idle"]
    /\ selfLock' = None

Goto(a, l) == pc' = [pc EXCEPT ![a] = l] /\ UNCHANGED selfLock

-----------------------------------------------------------------------------
(* The caller's thread.                                                    *)

Request(a, s) ==
    /\ ~crashed
    /\ pc[a] = "idle"
    /\ requests < MaxRequests
    /\ requests' = requests + 1
    /\ want' = [want EXCEPT ![a] = s]
    /\ Goto(a, "lock")
    /\ UNCHANGED <<device, control, session, clients, apiLock, cur, acker,
                   latest, crashed>>

TakeSelfLock(a) ==
    /\ ~crashed
    /\ pc[a] = "lock"
    /\ selfLock = None
    /\ selfLock' = a
    /\ pc' = [pc EXCEPT ![a] = "read"]
    /\ UNCHANGED <<device, control, session, clients, apiLock, input, cur,
                   acker, crashed>>

(* GetPowerState takes and releases _apiLock.  Nothing is done for the     *)
(* current state, or while deep sleep is in its first seconds; whether it  *)
(* is, is the subject of module DeepSleep and a free choice here.          *)
ReadState(a) ==
    /\ ~crashed
    /\ pc[a] = "read"
    /\ ApiLockFree
    /\ cur' = [cur EXCEPT ![a] = power]
    /\ \/ power = want[a] /\ Return(a) /\ latest' = want[a]
       \/ power = "DEEP" /\ power # want[a] /\ Return(a) /\ UNCHANGED latest
       \/ /\ power # want[a]
          /\ Goto(a, IF power = "DEEP" THEN "deactivate" ELSE "decide")
          /\ latest' = want[a]
    /\ UNCHANGED <<device, control, session, clients, apiLock, want, acker,
                   requests, crashed>>

(* Deactivate revokes the delay job.  A job that is being dispatched is    *)
(* waited for; it ends with a call of SetPowerState of its own, so it is   *)
(* one of the callers waiting for selfLock.  Whether a caller is such a    *)
(* job is the subject of module DeepSleep and a free choice here.          *)
RevokeDispatched(a) ==
    /\ ~crashed
    /\ pc[a] = "deactivate"
    /\ delayJob = None
    /\ delayJob' \in {b \in Callers : pc[b] = "lock"}
    /\ UNCHANGED <<power, lastEvent, callbackLock, control, session, clients,
                   locks, pc, input, cur, acker, crashed>>

Deactivate(a) ==
    /\ ~crashed
    /\ pc[a] = "deactivate"
    /\ delayJob # None => pc[delayJob] = "idle"
    /\ delayJob' = None
    /\ Goto(a, "decide")
    /\ UNCHANGED <<power, lastEvent, callbackLock, control, session, clients,
                   apiLock, input, cur, acker, crashed>>

(* Mutant of IgnoreRedundant: the early return keeps selfLock.             *)
IgnoreRedundantLocked(a) ==
    /\ ~crashed
    /\ pc[a] = "decide"
    /\ ApiLockFree
    /\ ctrl # 0
    /\ session[ctrl].target = want[a]
    /\ Goto(a, "idle")
    /\ UNCHANGED <<device, control, session, clients, apiLock, input, cur,
                   acker, crashed>>

(* A request for the state of the existing session is redundant.           *)
IgnoreRedundant(a) ==
    /\ ~crashed
    /\ pc[a] = "decide"
    /\ ApiLockFree
    /\ ctrl # 0
    /\ session[ctrl].target = want[a]
    /\ Return(a)
    /\ UNCHANGED <<device, control, session, clients, apiLock, input, cur,
                   acker, crashed>>

isSyncStateChange(currState, newState) ==
    currState = "DEEP" /\ newState = "LIGHT"

(* Mutant of Reset: the handler does not look at isAborted.                *)
ResetApplies(s) ==
    IF s.job \in {"locked", "stop", "handler"}
    THEN [s EXCEPT !.cancelled = TRUE]
    ELSE [s EXCEPT !.cancelled = TRUE,
                   !.running = FALSE,
                   !.stage = IF s.running THEN "set" ELSE "none",
                   !.job = IF s.job = "armed" THEN "done" ELSE @]

(* _modeChangeController.reset(): the destructor runs unless a dispatched  *)
(* timer job owns a reference.  A running session is aborted: its timer is *)
(* revoked and its handler only releases what it holds.                    *)
Reset(s) ==
    IF s.job \in {"locked", "stop", "handler"}
    THEN [s EXCEPT !.cancelled = TRUE]
    ELSE [s EXCEPT !.cancelled = TRUE,
                   !.aborted = s.running,
                   !.running = FALSE,
                   !.job = IF s.job = "armed" THEN "done" ELSE @]

NewSession(a) ==
    [NoSession EXCEPT !.target = want[a],
                      !.from = cur[a],
                      !.sync = isSyncStateChange(cur[a], want[a]),
                      !.pending = clients]

OpenSession(a) ==
    /\ ~crashed
    /\ pc[a] = "decide"
    /\ ApiLockFree
    /\ ctrl # 0 => session[ctrl].target # want[a]
    /\ session' = [t \in Tids |-> IF t = nextTid THEN NewSession(a)
                                  ELSE IF t = ctrl THEN Reset(session[t])
                                  ELSE session[t]]
    /\ ctrl' = nextTid
    /\ nextTid' = nextTid + 1
    /\ Goto(a, "submit")
    /\ UNCHANGED <<device, clients, apiLock, input, cur, acker, crashed>>

(* Clients learn of the transaction.                                       *)
submitPowerModePreChangeEvent(a) ==
    /\ ~crashed
    /\ pc[a] = "submit"
    /\ session' = [session EXCEPT ![ctrl].announced = TRUE]
    /\ Goto(a, "schedule")
    /\ UNCHANGED <<device, control, clients, apiLock, input, cur, acker,
                   crashed>>

(* Mutant of ScheduleTest: no handler when there is nobody to wait for.    *)
ScheduleTestSilent(a) ==
    /\ ~crashed
    /\ pc[a] = "schedule"
    /\ IF session[ctrl].pending = {} THEN Return(a) ELSE Goto(a, "run")
    /\ UNCHANGED <<device, control, session, clients, apiLock, input, cur,
                   acker, crashed>>

(* Schedule, which runs without _apiLock: the test for pending clients,    *)
(* then _running, then _handler, then the timer job.                       *)
ScheduleTest(a) ==
    /\ ~crashed
    /\ pc[a] = "schedule"
    /\ IF session[ctrl].pending = {} \/ session[ctrl].sync
       THEN /\ session' = [session EXCEPT ![ctrl].stage = "set",
                                          ![ctrl].by = "caller"]
            /\ Goto(a, "inline")
       ELSE /\ UNCHANGED session
            /\ Goto(a, "run")
    /\ UNCHANGED <<device, control, clients, apiLock, input, cur, acker,
                   crashed>>

ScheduleRunning(a) ==
    /\ ~crashed
    /\ pc[a] = "run"
    /\ session' = [session EXCEPT ![ctrl].running = TRUE]
    /\ Goto(a, "install")
    /\ UNCHANGED <<device, control, clients, apiLock, input, cur, acker,
                   crashed>>

ScheduleHandler(a) ==
    /\ ~crashed
    /\ pc[a] = "install"
    /\ session' = [session EXCEPT ![ctrl].handler = TRUE]
    /\ Goto(a, "arm")
    /\ UNCHANGED <<device, control, clients, apiLock, input, cur, acker,
                   crashed>>

(* Mutant of ScheduleTimer: the job is created but not submitted.          *)
ScheduleTimerNever(a) ==
    /\ ~crashed
    /\ pc[a] = "arm"
    /\ Return(a)
    /\ UNCHANGED <<device, control, session, clients, apiLock, input, cur,
                   acker, crashed>>

ScheduleTimer(a) ==
    /\ ~crashed
    /\ pc[a] = "arm"
    /\ session' = [session EXCEPT ![ctrl].job = "armed"]
    /\ Return(a)
    /\ UNCHANGED <<device, control, clients, apiLock, input, cur, acker,
                   crashed>>

-----------------------------------------------------------------------------
(* A client's thread: PowerModePreChangeComplete, and the registration     *)
(* calls.                                                                  *)

(* AckController::Ack up to its decision; _apiLock is kept when this was   *)
(* the last acknowledgement of a running session.                          *)
Acknowledge(c) ==
    /\ session' = [session EXCEPT ![ctrl].pending = @ \ {c}]
    /\ IF session[ctrl].pending = {c} /\ session[ctrl].running
       THEN /\ acker' = [acker EXCEPT ![c] = "stop"]
            /\ apiLock' = c
       ELSE UNCHANGED <<acker, apiLock>>

PowerModePreChangeComplete(c) ==
    /\ ~crashed
    /\ ClientsAnswer
    /\ acker[c] = "idle"
    /\ ApiLockFree
    /\ ctrl # 0
    /\ session[ctrl].announced
    /\ c \in session[ctrl].pending
    /\ Acknowledge(c)
    /\ UNCHANGED <<device, control, clients, selfLock, pc, input, cur,
                   crashed>>

AddPowerModePreChangeClient(c) ==
    /\ ~crashed
    /\ acker[c] = "idle"
    /\ ApiLockFree
    /\ c \notin clients
    /\ clients' = clients \cup {c}
    /\ UNCHANGED <<device, control, session, locks, pc, input, cur, acker,
                   crashed>>

(* A client that leaves acknowledges first.                                *)
RemovePowerModePreChangeClient(c) ==
    /\ ~crashed
    /\ acker[c] = "idle"
    /\ ApiLockFree
    /\ c \in clients
    /\ clients' = clients \ {c}
    /\ IF ctrl # 0 /\ c \in session[IF ctrl = 0 THEN 1 ELSE ctrl].pending
       THEN Acknowledge(c)
       ELSE UNCHANGED <<session, acker, apiLock>>
    /\ UNCHANGED <<device, control, selfLock, pc, input, cur, crashed>>

(* Mutant of AckStop: _running stays set.                                  *)
AckStopStillRunning(c) ==
    /\ ~crashed
    /\ acker[c] = "stop"
    /\ acker' = [acker EXCEPT ![c] = "revoke"]
    /\ UNCHANGED <<device, control, session, clients, locks, pc, input, cur,
                   crashed>>

AckStop(c) ==
    /\ ~crashed
    /\ acker[c] = "stop"
    /\ session' = [session EXCEPT ![ctrl].running = FALSE]
    /\ acker' = [acker EXCEPT ![c] = "revoke"]
    /\ UNCHANGED <<device, control, clients, locks, pc, input, cur, crashed>>

(* runHandler: Revoke waits for a dispatched job, then _handler is called. *)
AckRevoke(c) ==
    /\ ~crashed
    /\ acker[c] = "revoke"
    /\ session[ctrl].job \notin {"locked", "stop", "handler"}
    /\ IF session[ctrl].handler
       THEN /\ session' = [session EXCEPT
                ![ctrl].job = IF @ = "armed" THEN "done" ELSE @,
                ![ctrl].stage = "set",
                ![ctrl].by = "ack"]
            /\ acker' = [acker EXCEPT ![c] = "handler"]
            /\ UNCHANGED crashed
       ELSE crashed' = TRUE /\ UNCHANGED <<session, acker>>
    /\ UNCHANGED <<device, control, clients, locks, pc, input, cur>>

-----------------------------------------------------------------------------
(* The timer job of session t, on a worker thread, without _apiLock.       *)

TimerLock(t) ==
    /\ ~crashed
    /\ TimeoutsHappen
    /\ session[t].job = "armed"
    /\ session' = [session EXCEPT ![t].job = "locked"]
    /\ UNCHANGED <<device, control, clients, locks, pc, input, cur, acker,
                   crashed>>

TimerCheck(t) ==
    /\ ~crashed
    /\ session[t].job = "locked"
    /\ session' = [session EXCEPT
                     ![t].job = IF session[t].running THEN "stop" ELSE "done"]
    /\ UNCHANGED <<device, control, clients, locks, pc, input, cur, acker,
                   crashed>>

TimerStop(t) ==
    /\ ~crashed
    /\ session[t].job = "stop"
    /\ session' = [session EXCEPT ![t].job = "handler",
                                  ![t].running = FALSE,
                                  ![t].stage = "set",
                                  ![t].by = "timer"]
    /\ UNCHANGED <<device, control, clients, locks, pc, input, cur, acker,
                   crashed>>

-----------------------------------------------------------------------------
(* powerModePreChangeCompletionHandler, in whichever thread reached it.    *)

(* PowerController::SetPowerState sets the platform and its own state.     *)
HandlerSetPower(t) ==
    /\ ~crashed
    /\ session[t].stage = "set"
    /\ \/ /\ power' = session[t].target
          /\ session' = [session EXCEPT ![t].stage = "notify"]
       \/ /\ PlatformMayFail
          /\ session' = [session EXCEPT ![t].stage = "finish"]
          /\ UNCHANGED power
    /\ UNCHANGED <<lastEvent, callbackLock, delayJob, control, clients,
                   locks, pc, input, cur, acker, crashed>>

(* The clients are called back under _callbackLock.                        *)
dispatchPowerModeChangedEvent(t) ==
    /\ ~crashed
    /\ session[t].stage = "notify"
    /\ callbackLock = "free"
    /\ callbackLock' = "modeChanged"
    /\ lastEvent' = session[t].target
    /\ session' = [session EXCEPT ![t].stage = "callbacks"]
    /\ UNCHANGED <<power, delayJob, control, clients, locks, pc, input, cur,
                   acker, crashed>>

CallbacksReturn(t) ==
    /\ ~crashed
    /\ session[t].stage = "callbacks"
    /\ callbackLock' = "free"
    /\ session' = [session EXCEPT ![t].stage = "finish"]
    /\ UNCHANGED <<power, lastEvent, delayJob, control, clients, locks, pc,
                   input, cur, acker, crashed>>

(* The other events (deep sleep timeout, reboot, thermal mode, network     *)
(* standby) call their clients back under the same lock.                   *)
dispatchOtherEvent ==
    /\ ~crashed
    /\ callbackLock = "free"
    /\ callbackLock' = "other"
    /\ UNCHANGED <<power, lastEvent, delayJob, control, session, clients,
                   locks, pc, input, cur, acker, crashed>>

OtherCallbacksReturn ==
    /\ ~crashed
    /\ callbackLock = "other"
    /\ callbackLock' = "free"
    /\ UNCHANGED <<power, lastEvent, delayJob, control, session, clients,
                   locks, pc, input, cur, acker, crashed>>

(* The handler returns to the timer job, to Ack or to Schedule.            *)
HandlerReturn(t) ==
    /\ ~crashed
    /\ session[t].stage = "finish"
    /\ session' = [session EXCEPT
                     ![t].stage = "none",
                     ![t].runs = @ + 1,
                     ![t].job = IF session[t].by = "timer" THEN "done" ELSE @]
    /\ IF session[t].by = "caller"
       THEN Return(selfLock)
       ELSE UNCHANGED <<pc, selfLock>>
    /\ IF session[t].by = "ack"
       THEN /\ acker' = [acker EXCEPT ![apiLock] = "idle"]
            /\ apiLock' = None
       ELSE UNCHANGED <<acker, apiLock>>
    /\ UNCHANGED <<device, control, clients, input, cur, crashed>>

-----------------------------------------------------------------------------
CallerStep(a) ==
    \/ TakeSelfLock(a) \/ ReadState(a)
    \/ RevokeDispatched(a) \/ Deactivate(a) \/ IgnoreRedundant(a)
    \/ OpenSession(a) \/ submitPowerModePreChangeEvent(a)
    \/ ScheduleTest(a) \/ ScheduleRunning(a) \/ ScheduleHandler(a)
    \/ ScheduleTimer(a)

ClientStep(c) == AckStop(c) \/ AckRevoke(c)

TimerStep(t) == TimerLock(t) \/ TimerCheck(t) \/ TimerStop(t)

HandlerStep(t) ==
    \/ HandlerSetPower(t)
    \/ dispatchPowerModeChangedEvent(t)
    \/ CallbacksReturn(t)
    \/ HandlerReturn(t)

OtherEventStep == dispatchOtherEvent \/ OtherCallbacksReturn

Next ==
    \/ \E a \in Callers, s \in States : Request(a, s)
    \/ \E a \in Callers : CallerStep(a)
    \/ \E c \in Clients : \/ PowerModePreChangeComplete(c)
                          \/ AddPowerModePreChangeClient(c)
                          \/ RemovePowerModePreChangeClient(c)
                          \/ ClientStep(c)
    \/ \E t \in Tids : TimerStep(t) \/ HandlerStep(t)
    \/ OtherEventStep

Spec == Init /\ [][Next]_vars

(* Threads are scheduled, locks are granted (_callbackLock too, to a       *)
(* handler that asks for it again and again), due timers dispatched, and   *)
(* the clients' callbacks return: they do not call SetPowerState.  Nobody  *)
(* is obliged to make a request or to acknowledge.                         *)
FairSpec ==
    /\ Spec
    /\ \A a \in Callers : WF_vars(CallerStep(a))
    /\ \A c \in Clients : WF_vars(ClientStep(c))
    /\ \A t \in Tids : WF_vars(TimerStep(t))
                       /\ SF_vars(HandlerStep(t))
    /\ WF_vars(OtherCallbacksReturn)

-----------------------------------------------------------------------------
Opened(t) == t < nextTid

Finished(t) == session[t].runs > 0 \/ session[t].aborted

(* Nothing is under way: no caller in SetPowerState, no client in Ack, no  *)
(* session waiting, no timer job dispatched, no handler running.           *)
Quiet ==
    /\ \A a \in Callers : pc[a] = "idle"
    /\ \A c \in Clients : acker[c] = "idle"
    /\ \A t \in Tids : /\ session[t].stage = "none"
                       /\ ~session[t].running
                       /\ session[t].job \notin {"locked", "stop"}

Completions(s) ==
    s.runs + (IF s.stage = "none" THEN 0 ELSE 1)
           + (IF s.aborted THEN 1 ELSE 0)

(* The completion handler of a request runs at most once: acknowledgement, *)
(* timer and cancellation exclude each other through _running.             *)
CompletedAtMostOnce == \A t \in Tids : Completions(session[t]) <= 1

(* Two completion handlers never run at the same time, so that events and  *)
(* power states change in the same order.                                  *)
HandlersAreSerial ==
    Cardinality({t \in Tids : session[t].stage # "none"}) <= 1

(* A request that a newer one has cancelled no longer changes the state.   *)
CancelledNotApplied ==
    \A t \in Tids : session[t].cancelled => session[t].stage # "set"

(* When nothing is under way the device is in the state of the last        *)
(* session, and that is what clients were last told.                       *)
AgreesWhenQuiet ==
    Quiet /\ ctrl # 0 =>
        power = session[ctrl].target /\ lastEvent = power

(* An asynchronous request completes before its timeout only when nobody   *)
(* it asked is still preparing.                                            *)
EarlyOnlyWhenAcked ==
    \A t \in Tids : session[t].by \in {"caller", "ack"} /\ ~session[t].sync =>
                      session[t].pending = {}

(* Completion is orderly: once per request, one handler at a time, and not *)
(* before the timeout while somebody is still preparing.                   *)
CompletionIsOrderly ==
    TypeOK /\ CompletedAtMostOnce /\ HandlersAreSerial /\ EarlyOnlyWhenAcked

(* Every session completes or is cancelled, silent clients or not.         *)
SessionsComplete ==
    \A t \in Tids : Opened(t) ~> (Finished(t) \/ crashed)

(* Deactivate, under selfLock, waits for a delay job that itself waits for *)
(* selfLock.                                                               *)
Stuck == delayJob # None

(* Every call of SetPowerState returns and gives selfLock back, whatever   *)
(* the other callers, the clients, the timers and the other events do with *)
(* the locks.  It does not when an empty handler was called or when a      *)
(* wake-up met the delay job in its dispatch.                              *)
CallsReturn ==
    \A a \in Callers :
        (pc[a] = "lock" \/ selfLock = a)
            ~> ((pc[a] = "idle" /\ selfLock # a) \/ crashed \/ Stuck)

(* SetPowerState: nested requests are allowed, so that a user can turn the *)
(* device on while deep sleep is in transition.                            *)
LatestRequestWins == Quiet => power = latest
=============================================================================
