----------------------- MODULE PowerModeChangeProofs -----------------------
(***************************************************************************)
(* CompletionIsOrderly, CancelledNotApplied and AgreesWhenQuiet for any    *)
(* number of callers, clients and requests, as long as no timer is due: a  *)
(* timer job can run its handler beside another one (PowerTwice.cfg).      *)
(***************************************************************************)
EXTENDS PowerModeChange, FiniteSetTheorems, TLAPS

(* A lock is held by the thread that is between taking and releasing it.   *)
LocksAreHeld ==
    /\ \A a \in Callers : selfLock = a <=> pc[a] \notin {"idle", "lock"}
    /\ \A c \in Clients : apiLock = c <=> acker[c] # "idle"

(* Callers that have been counted and have not opened a session.           *)
Entering == {a \in Callers : pc[a] \in {"lock", "read", "deactivate", "decide"}}

(* There is a transaction id for each of them.                             *)
IdsSuffice ==
    /\ IsFiniteSet(Entering)
    /\ nextTid + Cardinality(Entering) <= requests + 1
    /\ ctrl = nextTid - 1

(* What the caller that holds selfLock is doing, if any, and the client    *)
(* that holds _apiLock.                                                    *)
CallerAt(S) == selfLock # None /\ pc[selfLock] \in S
ClientAt(S) == apiLock # None /\ acker[apiLock] \in S

(* The life of the current session s: made and not yet running; waiting    *)
(* for acknowledgements; stopped by the last one; its handler running, in  *)
(* the caller or in the client; completed.                                 *)
Fresh(s) ==
    /\ ~s.running /\ s.stage = "none" /\ s.runs = 0
    /\ apiLock = None /\ CallerAt({"submit", "schedule", "run"})

Waiting(s) ==
    /\ s.running /\ s.stage = "none" /\ s.runs = 0
    /\ apiLock # None => acker[apiLock] = "stop"

Stopped(s) ==
    /\ ~s.running /\ s.stage = "none" /\ s.runs = 0
    /\ ClientAt({"revoke"})

Handling(s) ==
    /\ ~s.running /\ s.stage # "none" /\ s.runs = 0
    /\ \/ s.by = "caller" /\ CallerAt({"inline"}) /\ apiLock = None
       \/ s.by = "ack" /\ ClientAt({"handler"})

Completed(s) ==
    ~s.running /\ s.stage = "none" /\ s.runs = 1 /\ apiLock = None

Current(s) ==
    /\ ~s.cancelled /\ ~s.aborted
    /\ Fresh(s) \/ Waiting(s) \/ Stopped(s) \/ Handling(s) \/ Completed(s)
    /\ CallerAt({"submit", "schedule", "run"}) => Fresh(s)
    /\ CallerAt({"inline"}) => s.stage # "none" /\ s.by = "caller"
    /\ apiLock # None => s.pending = {}

(* A session that was replaced is over, one not yet opened is empty.       *)
Replaced(s) == ~s.running /\ s.stage = "none"

SessionsAreOrdered ==
    \A t \in Tids : /\ t < ctrl => Replaced(session[t])
                    /\ t = ctrl => Current(session[t])
                    /\ t > ctrl => session[t] = NoSession

(* Without a session nobody is past the decision or acknowledging.         *)
NothingBefore ==
    ctrl = 0 => /\ selfLock # None => pc[selfLock] \in {"read", "deactivate", "decide"}
                /\ apiLock = None

NoTimerRuns == \A t \in Tids : session[t].job \in {"none", "armed", "done"}

Orderly ==
    /\ TypeOK /\ LocksAreHeld /\ IdsSuffice /\ SessionsAreOrdered /\ NothingBefore
    /\ NoTimerRuns /\ CompletedAtMostOnce /\ EarlyOnlyWhenAcked

(* What a handler has done so far, if the platform obeys.                  *)
Applied ==
    \A t \in Tids : t = ctrl =>
        /\ session[t].stage \in {"notify", "callbacks", "finish"} \/ session[t].runs > 0 =>
               power = session[t].target
        /\ session[t].stage \in {"callbacks", "finish"} \/ session[t].runs > 0 =>
               lastEvent = session[t].target

-----------------------------------------------------------------------------
(* What the session in ctrl must be after a step, for Orderly to hold.     *)
CurrentIsOrderly ==
    /\ Current(session[ctrl])
    /\ session[ctrl].job \in {"none", "armed", "done"}
    /\ Completions(session[ctrl]) <= 1
    /\ session[ctrl].by \in {"caller", "ack"} /\ ~session[ctrl].sync =>
           session[ctrl].pending = {}

(* In the terms of the code: a session is current from the first one on.   *)
LEMMA CurrentIsASession ==
    ASSUME Orderly, ctrl # 0
    PROVE  /\ ctrl \in Tids /\ session[ctrl] \in Sessions
           /\ CurrentIsOrderly
<1>1. ctrl \in Tids /\ session[ctrl] \in Sessions
  BY ThreadsAssumption DEF Orderly, TypeOK, Tids
<1>2. QED
  BY <1>1 DEF Orderly, CurrentIsOrderly, SessionsAreOrdered, NoTimerRuns,
              CompletedAtMostOnce, EarlyOnlyWhenAcked

(* A step that changes no session but the current one is judged by what it *)
(* makes of that one.                                                      *)
LEMMA CurrentMoves ==
    ASSUME Orderly, ctrl # 0, TypeOK', LocksAreHeld', CurrentIsOrderly',
           UNCHANGED <<ctrl, nextTid, requests>>, Entering' = Entering,
           \A t \in Tids : t # ctrl => session'[t] = session[t]
    PROVE  Orderly'
<1>1. IdsSuffice'
  BY DEF Orderly, IdsSuffice
<1>2. SessionsAreOrdered'
  <2>1. ASSUME NEW t \in Tids
        PROVE  /\ t < ctrl => Replaced(session'[t])
               /\ t > ctrl => session'[t] = NoSession
               /\ t = ctrl => Current(session[t])'
    <3>1. CASE t = ctrl
      BY <3>1, ThreadsAssumption DEF CurrentIsOrderly, Orderly, TypeOK
    <3>2. CASE t # ctrl
      BY <3>2 DEF Orderly, SessionsAreOrdered, Replaced
    <3>3. QED  BY <3>1, <3>2
  <2>2. QED  BY <2>1 DEF SessionsAreOrdered, Replaced
<1>3. NoTimerRuns' /\ CompletedAtMostOnce' /\ EarlyOnlyWhenAcked'
  BY DEF Orderly, NoTimerRuns, CompletedAtMostOnce, EarlyOnlyWhenAcked,
         CurrentIsOrderly, Completions
<1>4. NothingBefore'
  BY DEF NothingBefore
<1>5. QED  BY <1>1, <1>2, <1>3, <1>4 DEF Orderly

(* SetPowerState runs under selfLock, and has a session once it decided.   *)
LEMMA CallerHolds ==
    ASSUME Orderly, NEW a \in Callers, pc[a] \notin {"idle", "lock"}
    PROVE  /\ selfLock = a /\ a # None
           /\ pc[a] \notin {"read", "deactivate", "decide"} => ctrl # 0
BY ThreadsAssumption DEF Orderly, LocksAreHeld, NothingBefore

(* A caller that proceeds with its session stays the holder of selfLock.   *)
LEMMA CallerProceeds ==
    ASSUME Orderly, NEW a \in Callers, pc[a] \notin {"idle", "lock"},
           pc[a] \notin {"read", "deactivate", "decide"},
           NEW l \in {"schedule", "run", "install", "arm", "inline"},
           Goto(a, l), UNCHANGED <<apiLock, acker>>
    PROVE  /\ LocksAreHeld' /\ Entering' = Entering
           /\ selfLock' = a /\ pc'[a] = l
           /\ pc' \in [Callers -> Labels]
<1>1. selfLock = a /\ pc'[a] = l /\ selfLock' = a
  BY CallerHolds DEF Goto, Orderly, TypeOK
<1>2. \A b \in Callers : b # a => pc'[b] = pc[b]
  BY DEF Goto, Orderly, TypeOK
<1>3. LocksAreHeld'
  BY <1>1, <1>2 DEF Orderly, LocksAreHeld
<1>4. Entering' = Entering
  BY <1>1, <1>2 DEF Entering
<1>5. QED  BY <1>1, <1>3, <1>4 DEF Goto, Orderly, TypeOK, Labels

LEMMA submitKeepsOrder ==
    ASSUME Orderly, NEW a \in Callers, submitPowerModePreChangeEvent(a)
    PROVE  Orderly'
<1> USE DEF submitPowerModePreChangeEvent
<1>1. /\ ctrl # 0 /\ ctrl \in Tids /\ session[ctrl] \in Sessions
      /\ CurrentIsOrderly /\ selfLock = a /\ a # None
  BY CallerHolds, CurrentIsASession
<1>2. /\ LocksAreHeld' /\ Entering' = Entering /\ selfLock' = a
      /\ pc'[a] = "schedule"
      /\ pc' \in [Callers -> Labels]
  BY CallerProceeds
<1>3. session' \in [Tids -> Sessions]
  BY <1>1 DEF Orderly, TypeOK, Sessions
<1>4. TypeOK'
  BY <1>2, <1>3 DEF Orderly, TypeOK, device, control, input
<1>5. \A t \in Tids : t # ctrl => session'[t] = session[t]
  BY <1>1 DEF Orderly, TypeOK
<1>6. session'[ctrl] = [session[ctrl] EXCEPT !.announced = TRUE]
  BY <1>1 DEF Orderly, TypeOK
<1>7. CurrentIsOrderly'
  BY <1>1, <1>2, <1>6
     DEF CurrentIsOrderly, Current, Fresh, Waiting, Stopped,
         Handling, Completed, CallerAt, ClientAt, Completions, control, Sessions
<1>8. QED
  BY <1>1, <1>2, <1>4, <1>5, <1>7, CurrentMoves DEF control, input

LEMMA RunningKeepsOrder ==
    ASSUME Orderly, NEW a \in Callers, ScheduleRunning(a)
    PROVE  Orderly'
<1> USE DEF ScheduleRunning
<1>1. /\ ctrl # 0 /\ ctrl \in Tids /\ session[ctrl] \in Sessions
      /\ CurrentIsOrderly /\ selfLock = a /\ a # None
  BY CallerHolds, CurrentIsASession
<1>2. /\ LocksAreHeld' /\ Entering' = Entering /\ selfLock' = a
      /\ pc'[a] = "install"
      /\ pc' \in [Callers -> Labels]
  BY CallerProceeds
<1>3. session' \in [Tids -> Sessions]
  BY <1>1 DEF Orderly, TypeOK, Sessions
<1>4. TypeOK'
  BY <1>2, <1>3 DEF Orderly, TypeOK, device, control, input
<1>5. \A t \in Tids : t # ctrl => session'[t] = session[t]
  BY <1>1 DEF Orderly, TypeOK
<1>6. session'[ctrl] = [session[ctrl] EXCEPT !.running = TRUE]
  BY <1>1 DEF Orderly, TypeOK
<1>7. CurrentIsOrderly'
  BY <1>1, <1>2, <1>6
     DEF CurrentIsOrderly, Current, Fresh, Waiting, Stopped,
         Handling, Completed, CallerAt, ClientAt, Completions, control, Sessions
<1>8. QED
  BY <1>1, <1>2, <1>4, <1>5, <1>7, CurrentMoves DEF control, input

LEMMA HandlerKeepsOrder ==
    ASSUME Orderly, NEW a \in Callers, ScheduleHandler(a)
    PROVE  Orderly'
<1> USE DEF ScheduleHandler
<1>1. /\ ctrl # 0 /\ ctrl \in Tids /\ session[ctrl] \in Sessions
      /\ CurrentIsOrderly /\ selfLock = a /\ a # None
  BY CallerHolds, CurrentIsASession
<1>2. /\ LocksAreHeld' /\ Entering' = Entering /\ selfLock' = a
      /\ pc'[a] = "arm"
      /\ pc' \in [Callers -> Labels]
  BY CallerProceeds
<1>3. session' \in [Tids -> Sessions]
  BY <1>1 DEF Orderly, TypeOK, Sessions
<1>4. TypeOK'
  BY <1>2, <1>3 DEF Orderly, TypeOK, device, control, input
<1>5. \A t \in Tids : t # ctrl => session'[t] = session[t]
  BY <1>1 DEF Orderly, TypeOK
<1>6. session'[ctrl] = [session[ctrl] EXCEPT !.handler = TRUE]
  BY <1>1 DEF Orderly, TypeOK
<1>7. CurrentIsOrderly'
  BY <1>1, <1>2, <1>6
     DEF CurrentIsOrderly, Current, Fresh, Waiting, Stopped,
         Handling, Completed, CallerAt, ClientAt, Completions, control, Sessions
<1>8. QED
  BY <1>1, <1>2, <1>4, <1>5, <1>7, CurrentMoves DEF control, input

LEMMA TestKeepsOrder ==
    ASSUME Orderly, NEW a \in Callers, ScheduleTest(a)
    PROVE  Orderly'
<1> USE DEF ScheduleTest
<1>1. /\ ctrl # 0 /\ ctrl \in Tids /\ session[ctrl] \in Sessions
      /\ CurrentIsOrderly /\ selfLock = a /\ a # None
  BY CallerHolds, CurrentIsASession
<1>2. CASE session[ctrl].pending = {} \/ session[ctrl].sync
  <2>2. /\ LocksAreHeld' /\ Entering' = Entering /\ selfLock' = a
        /\ pc'[a] = "inline"
        /\ pc' \in [Callers -> Labels]
    BY <1>2, CallerProceeds
  <2>3. session' \in [Tids -> Sessions]
    BY <1>1, <1>2 DEF Orderly, TypeOK, Sessions
  <2>4. TypeOK'
    BY <2>2, <2>3 DEF Orderly, TypeOK, device, control, input
  <2>5. \A t \in Tids : t # ctrl => session'[t] = session[t]
    BY <1>1, <1>2 DEF Orderly, TypeOK
  <2>6. session'[ctrl] = [session[ctrl] EXCEPT !.stage = "set", !.by = "caller"]
    BY <1>1, <1>2 DEF Orderly, TypeOK
  <2>7. CurrentIsOrderly'
    BY <1>1, <1>2, <2>2, <2>6
     DEF CurrentIsOrderly, Current, Fresh, Waiting, Stopped,
         Handling, Completed, CallerAt, ClientAt, Completions, control, Sessions
  <2>8. QED
    BY <1>1, <2>2, <2>4, <2>5, <2>7, CurrentMoves DEF control, input
<1>3. CASE ~(session[ctrl].pending = {} \/ session[ctrl].sync)
  <2>2. /\ LocksAreHeld' /\ Entering' = Entering /\ selfLock' = a
        /\ pc'[a] = "run"
        /\ pc' \in [Callers -> Labels]
    BY <1>3, CallerProceeds
  <2>4. TypeOK'
    BY <1>3, <2>2 DEF Orderly, TypeOK, device, control, input
  <2>7. CurrentIsOrderly'
    BY <1>1, <1>3, <2>2
     DEF CurrentIsOrderly, Current, Fresh, Waiting, Stopped,
         Handling, Completed, CallerAt, ClientAt, Completions, control, Sessions
  <2>8. QED
    BY <1>1, <1>3, <2>2, <2>4, <2>7, CurrentMoves DEF control, input
<1>4. QED  BY <1>2, <1>3

(* A caller that returns gives selfLock back.                              *)
LEMMA CallerReturns ==
    ASSUME Orderly, NEW a \in Callers, selfLock = a, Return(a)
    PROVE  /\ \A b \in Callers : selfLock' = b <=> pc'[b] \notin {"idle", "lock"}
           /\ Entering' = Entering \ {a}
           /\ selfLock' = None /\ pc'[a] = "idle"
           /\ pc' \in [Callers -> Labels]
<1>1. pc'[a] = "idle" /\ selfLock' = None
  BY DEF Return, Orderly, TypeOK
<1>2. \A b \in Callers : b # a => pc'[b] = pc[b]
  BY DEF Return, Orderly, TypeOK
<1>3. \A b \in Callers : selfLock' = b <=> pc'[b] \notin {"idle", "lock"}
  BY <1>1, <1>2, ThreadsAssumption DEF Orderly, LocksAreHeld
<1>4. Entering' = Entering \ {a}
  BY <1>1, <1>2 DEF Entering
<1>5. QED  BY <1>1, <1>3, <1>4 DEF Return, Orderly, TypeOK, Labels

LEMMA TimerIsArmed ==
    ASSUME Orderly, NEW a \in Callers, ScheduleTimer(a)
    PROVE  Orderly'
<1> USE DEF ScheduleTimer
<1>1. /\ ctrl # 0 /\ ctrl \in Tids /\ session[ctrl] \in Sessions
      /\ CurrentIsOrderly /\ selfLock = a /\ a # None
  BY CallerHolds, CurrentIsASession
<1>2. /\ LocksAreHeld' /\ Entering' = Entering /\ selfLock' = None
      /\ pc' \in [Callers -> Labels]
  BY <1>1, CallerReturns DEF Orderly, LocksAreHeld, Entering
<1>3. session' \in [Tids -> Sessions]
  BY <1>1 DEF Orderly, TypeOK, Sessions
<1>4. TypeOK'
  BY <1>2, <1>3 DEF Orderly, TypeOK, device, control, input
<1>5. \A t \in Tids : t # ctrl => session'[t] = session[t]
  BY <1>1 DEF Orderly, TypeOK
<1>6. session'[ctrl] = [session[ctrl] EXCEPT !.job = "armed"]
  BY <1>1 DEF Orderly, TypeOK
<1>7. CurrentIsOrderly'
  BY <1>1, <1>2, <1>6
     DEF CurrentIsOrderly, Current, Fresh, Waiting, Stopped,
         Handling, Completed, CallerAt, ClientAt, Completions, control, Sessions
<1>8. QED
  BY <1>1, <1>2, <1>4, <1>5, <1>7, CurrentMoves DEF control, input

LEMMA AcknowledgeKeepsOrder ==
    ASSUME Orderly, NEW c \in Clients, acker[c] = "idle", ApiLockFree,
           ctrl # 0, c \in session[ctrl].pending, Acknowledge(c),
           clients' \in SUBSET Clients,
           UNCHANGED <<device, control, selfLock, pc, input, cur, crashed>>
    PROVE  Orderly'
<1> USE DEF Acknowledge, ApiLockFree
<1>1. /\ ctrl \in Tids /\ session[ctrl] \in Sessions /\ c # None
      /\ CurrentIsOrderly
  BY CurrentIsASession, ThreadsAssumption
<1>2. LocksAreHeld' /\ Entering' = Entering
  <2>1. CASE UNCHANGED <<acker, apiLock>>
    BY <2>1 DEF Orderly, LocksAreHeld, Entering
  <2>2. CASE acker' = [acker EXCEPT ![c] = "stop"] /\ apiLock' = c
    <3>1. \A d \in Clients : acker[d] = "idle"
      BY ThreadsAssumption DEF Orderly, LocksAreHeld
    <3>2. \A d \in Clients : apiLock' = d <=> acker'[d] # "idle"
      BY <2>2, <3>1 DEF Orderly, TypeOK
    <3>3. QED
      BY <3>2 DEF Orderly, LocksAreHeld, Entering
  <2>3. QED  BY <2>1, <2>2
<1>3. session' \in [Tids -> Sessions]
  BY <1>1 DEF Orderly, TypeOK, Sessions
<1>4. TypeOK'
  BY <1>3 DEF Orderly, TypeOK, device, control, input
<1>5. \A t \in Tids : t # ctrl => session'[t] = session[t]
  BY <1>1 DEF Orderly, TypeOK
<1>6. session'[ctrl] = [session[ctrl] EXCEPT !.pending = session[ctrl].pending \ {c}]
  BY <1>1 DEF Orderly, TypeOK
<1>7. CurrentIsOrderly'
  <2>1. CASE session[ctrl].pending = {c} /\ session[ctrl].running
    <3>1. acker'[c] = "stop" /\ apiLock' = c
      BY <2>1 DEF Orderly, TypeOK
    <3>2. session'[ctrl].pending = {}
      BY <1>1, <1>6, <2>1 DEF Sessions
    <3>3. QED
      BY <1>1, <1>6, <2>1, <3>1, <3>2
     DEF CurrentIsOrderly, Current, Fresh, Waiting, Stopped,
         Handling, Completed, CallerAt, ClientAt, Completions, control, Sessions
  <2>2. CASE ~(session[ctrl].pending = {c} /\ session[ctrl].running)
    BY <1>1, <1>6, <2>2
     DEF CurrentIsOrderly, Current, Fresh, Waiting, Stopped,
         Handling, Completed, CallerAt, ClientAt, Completions, control, Sessions
  <2>3. QED  BY <2>1, <2>2
<1>8. QED
  BY <1>1, <1>2, <1>4, <1>5, <1>7, CurrentMoves DEF control, input

(* A client inside Ack holds _apiLock, and the session is the current one. *)
LEMMA ClientHolds ==
    ASSUME Orderly, NEW c \in Clients, acker[c] # "idle"
    PROVE  apiLock = c /\ c # None /\ ctrl # 0
BY ThreadsAssumption DEF Orderly, LocksAreHeld, NothingBefore

LEMMA StopKeepsOrder ==
    ASSUME Orderly, NEW c \in Clients, AckStop(c)
    PROVE  Orderly'
<1> USE DEF AckStop
<1>1. /\ ctrl # 0 /\ ctrl \in Tids /\ session[ctrl] \in Sessions
      /\ CurrentIsOrderly /\ apiLock = c /\ c # None
  BY ClientHolds, CurrentIsASession
<1>2. LocksAreHeld' /\ Entering' = Entering /\ acker'[c] = "revoke"
  BY <1>1 DEF Orderly, LocksAreHeld, Entering, TypeOK, locks
<1>3. session' \in [Tids -> Sessions]
  BY <1>1 DEF Orderly, TypeOK, Sessions
<1>4. TypeOK'
  BY <1>3 DEF Orderly, TypeOK, device, control, input, locks
<1>5. \A t \in Tids : t # ctrl => session'[t] = session[t]
  BY <1>1 DEF Orderly, TypeOK
<1>6. session'[ctrl] = [session[ctrl] EXCEPT !.running = FALSE]
  BY <1>1 DEF Orderly, TypeOK
<1>7. CurrentIsOrderly'
  BY <1>1, <1>2, <1>6
     DEF CurrentIsOrderly, Current, Fresh, Waiting, Stopped,
         Handling, Completed, CallerAt, ClientAt, Completions, control, Sessions,
         locks
<1>8. QED
  BY <1>1, <1>2, <1>4, <1>5, <1>7, CurrentMoves DEF control, input

LEMMA RevokeKeepsOrder ==
    ASSUME Orderly, NEW c \in Clients, AckRevoke(c)
    PROVE  Orderly'
<1> USE DEF AckRevoke
<1>1. /\ ctrl # 0 /\ ctrl \in Tids /\ session[ctrl] \in Sessions
      /\ CurrentIsOrderly /\ apiLock = c /\ c # None
  BY ClientHolds, CurrentIsASession
<1>2. CASE session[ctrl].handler
  <2>1. LocksAreHeld' /\ Entering' = Entering /\ acker'[c] = "handler"
    BY <1>1, <1>2 DEF Orderly, LocksAreHeld, Entering, TypeOK, locks
  <2>2. PICK j \in {"none", "armed", "done"} :
            session' = [session EXCEPT ![ctrl] = [session[ctrl] EXCEPT
                           !.job = j, !.stage = "set", !.by = "ack"]]
    <3> DEFINE s == session[ctrl]
               j == IF s.job = "armed" THEN "done" ELSE s.job
    <3>1. j \in {"none", "armed", "done"}
      BY <1>1 DEF CurrentIsOrderly
    <3>2. session' = [session EXCEPT ![ctrl].job = j, ![ctrl].stage = "set",
                                     ![ctrl].by = "ack"]
      BY <1>2
    <3>3. session' = [session EXCEPT ![ctrl] = [s EXCEPT
                           !.job = j, !.stage = "set", !.by = "ack"]]
      BY <1>1, <3>2 DEF Orderly, TypeOK, Sessions
    <3>4. QED
      BY <3>1, <3>3
  <2>3. session' \in [Tids -> Sessions]
    BY <1>1, <2>2 DEF Orderly, TypeOK, Sessions
  <2>4. TypeOK'
    BY <1>2, <2>3 DEF Orderly, TypeOK, device, control, input, locks
  <2>5. \A t \in Tids : t # ctrl => session'[t] = session[t]
    BY <1>1, <2>2 DEF Orderly, TypeOK
  <2>6. session'[ctrl] = [session[ctrl] EXCEPT !.job = j, !.stage = "set",
                                               !.by = "ack"]
    BY <1>1, <2>2 DEF Orderly, TypeOK
  <2>7. CurrentIsOrderly'
    BY <1>1, <2>1, <2>6
     DEF CurrentIsOrderly, Current, Fresh, Waiting, Stopped,
         Handling, Completed, CallerAt, ClientAt, Completions, control, Sessions,
         locks
  <2>8. QED
    BY <1>1, <2>1, <2>4, <2>5, <2>7, CurrentMoves DEF control, input
<1>3. CASE ~session[ctrl].handler
  <2>1. LocksAreHeld' /\ Entering' = Entering
    BY <1>3 DEF Orderly, LocksAreHeld, Entering, locks
  <2>2. TypeOK'
    BY <1>3 DEF Orderly, TypeOK, device, control, input, locks
  <2>3. CurrentIsOrderly'
    BY <1>1, <1>3
     DEF CurrentIsOrderly, Current, Fresh, Waiting, Stopped,
         Handling, Completed, CallerAt, ClientAt, Completions, control, Sessions,
         locks
  <2>4. QED
    BY <1>1, <1>3, <2>1, <2>2, <2>3, CurrentMoves DEF control, input
<1>4. QED  BY <1>2, <1>3

-----------------------------------------------------------------------------
(* The steps that leave every session as it is, with or without one.       *)
LEMMA SessionsStand ==
    ASSUME Orderly, UNCHANGED <<session, ctrl>>, TypeOK', LocksAreHeld',
           IdsSuffice', NothingBefore',
           ctrl # 0 => Current(session[ctrl])'
    PROVE  Orderly'
<1>1. SessionsAreOrdered'
  <2>1. ASSUME NEW t \in Tids
        PROVE  /\ t < ctrl => Replaced(session'[t])
               /\ t > ctrl => session'[t] = NoSession
               /\ t = ctrl => Current(session[t])'
    BY DEF Orderly, SessionsAreOrdered, Replaced, Tids
  <2>2. QED  BY <2>1 DEF SessionsAreOrdered, Replaced
<1>2. NoTimerRuns' /\ CompletedAtMostOnce' /\ EarlyOnlyWhenAcked'
  BY DEF Orderly, NoTimerRuns, CompletedAtMostOnce, EarlyOnlyWhenAcked,
         Completions
<1>3. QED  BY <1>1, <1>2 DEF Orderly

LEMMA RequestKeepsOrder ==
    ASSUME Orderly, NEW a \in Callers, NEW s \in States, Request(a, s)
    PROVE  Orderly'
<1> USE DEF Request, Goto
<1>1. TypeOK'
  BY ThreadsAssumption DEF Orderly, TypeOK, Labels, device, control
<1>2. /\ pc'[a] = "lock" /\ selfLock # a
      /\ \A b \in Callers : b # a => pc'[b] = pc[b]
  BY DEF Orderly, TypeOK, LocksAreHeld
<1>3. LocksAreHeld'
  BY <1>2 DEF Orderly, LocksAreHeld
<1>4. IdsSuffice'
  <2>1. Entering' = Entering \cup {a} /\ a \notin Entering
    BY <1>2 DEF Entering
  <2>2. /\ IsFiniteSet(Entering') /\ Cardinality(Entering) \in Nat
        /\ Cardinality(Entering') = Cardinality(Entering) + 1
    BY <2>1, FS_AddElement, FS_CardinalityType DEF Orderly, IdsSuffice
  <2>3. QED
    BY <2>2 DEF Orderly, TypeOK, IdsSuffice, control
<1>5. selfLock # None => pc'[selfLock] = pc[selfLock]
  BY <1>2 DEF Orderly, TypeOK
<1>6. NothingBefore'
  BY <1>5 DEF Orderly, NothingBefore, control
<1>7. ctrl # 0 => Current(session[ctrl])'
  BY <1>5, CurrentIsASession
     DEF CurrentIsOrderly, Current, Fresh, Waiting, Stopped,
         Handling, Completed, CallerAt, ClientAt, control
<1>8. QED
  BY <1>1, <1>3, <1>4, <1>6, <1>7, SessionsStand DEF control

LEMMA LockKeepsOrder ==
    ASSUME Orderly, NEW a \in Callers, TakeSelfLock(a)
    PROVE  Orderly'
<1> USE DEF TakeSelfLock
<1>1. TypeOK'
  BY ThreadsAssumption DEF Orderly, TypeOK, Labels, device, control, input
<1>2. /\ pc'[a] = "read" /\ a # None
      /\ \A b \in Callers : b # a => pc'[b] = pc[b]
  BY ThreadsAssumption DEF Orderly, TypeOK
<1>3. LocksAreHeld'
  <2>1. \A b \in Callers : pc[b] \in {"idle", "lock"}
    BY ThreadsAssumption DEF Orderly, LocksAreHeld
  <2>2. QED  BY <1>2, <2>1 DEF Orderly, LocksAreHeld
<1>4. IdsSuffice'
  <2>1. Entering' = Entering
    BY <1>2 DEF Entering
  <2>2. QED
    BY <2>1 DEF Orderly, IdsSuffice, control, input
<1>6. NothingBefore'
  BY <1>2 DEF Orderly, NothingBefore, control
<1>7. ctrl # 0 => Current(session[ctrl])'
  BY <1>2, CurrentIsASession
     DEF CurrentIsOrderly, Current, Fresh, Waiting, Stopped,
         Handling, Completed, CallerAt, ClientAt, control
<1>8. QED
  BY <1>1, <1>3, <1>4, <1>6, <1>7, SessionsStand DEF control

LEMMA EnteringShrinks ==
    ASSUME Orderly, NEW a \in Entering
    PROVE  /\ IsFiniteSet(Entering \ {a}) /\ Cardinality(Entering) \in Nat
           /\ Cardinality(Entering \ {a}) = Cardinality(Entering) - 1
           /\ Cardinality(Entering) >= 1
<1>1. IsFiniteSet(Entering)
  BY DEF Orderly, IdsSuffice
<1>2. Cardinality(Entering) \in Nat
  BY <1>1, FS_CardinalityType
<1>3. /\ IsFiniteSet(Entering \ {a})
      /\ Cardinality(Entering \ {a}) = Cardinality(Entering) - 1
  BY <1>1, FS_RemoveElement
<1>4. Cardinality(Entering \ {a}) \in Nat
  BY <1>3, FS_CardinalityType
<1>5. QED  BY <1>2, <1>3, <1>4

(* A request that is ignored gives up its transaction id.                  *)
LEMMA IgnoredKeepsOrder ==
    ASSUME Orderly, NEW a \in Callers, pc[a] \in {"read", "decide"},
           ApiLockFree, Return(a), TypeOK',
           UNCHANGED <<session, control, apiLock, acker, requests>>
    PROVE  Orderly'
<1>1. selfLock = a /\ a # None
  BY CallerHolds
<1>2. /\ LocksAreHeld' /\ Entering' = Entering \ {a} /\ selfLock' = None
  BY <1>1, CallerReturns DEF Orderly, LocksAreHeld
<1>3. IdsSuffice'
  <2>1. /\ IsFiniteSet(Entering') /\ Cardinality(Entering) \in Nat
        /\ Cardinality(Entering') = Cardinality(Entering) - 1
    BY <1>2, EnteringShrinks DEF Entering
  <2>2. QED
    BY <2>1 DEF Orderly, TypeOK, IdsSuffice, control
<1>4. NothingBefore'
  BY <1>2 DEF Orderly, NothingBefore, control
<1>5. ctrl # 0 => Current(session[ctrl])'
  BY <1>1, <1>2, CurrentIsASession
     DEF CurrentIsOrderly, Current, Fresh, Waiting, Stopped,
         Handling, Completed, CallerAt, ClientAt, control, ApiLockFree
<1>6. QED
  BY <1>2, <1>3, <1>4, <1>5, SessionsStand DEF control

(* A caller on its way to the decision touches no session.                 *)
LEMMA ApproachKeepsOrder ==
    ASSUME Orderly, NEW a \in Callers, pc[a] \in {"read", "deactivate"},
           NEW l \in {"deactivate", "decide"}, Goto(a, l), TypeOK',
           UNCHANGED <<session, control, apiLock, acker, requests>>
    PROVE  Orderly'
<1>1. selfLock = a /\ a # None
  BY CallerHolds
<1>2. /\ pc'[a] = l /\ selfLock' = a
      /\ \A b \in Callers : b # a => pc'[b] = pc[b]
  BY <1>1 DEF Goto, Orderly, TypeOK
<1>3. LocksAreHeld'
  BY <1>1, <1>2 DEF Orderly, LocksAreHeld
<1>4. IdsSuffice'
  <2>1. Entering' = Entering
    BY <1>2 DEF Entering
  <2>2. QED
    BY <2>1 DEF Orderly, IdsSuffice, control
<1>5. NothingBefore'
  BY <1>2 DEF Orderly, NothingBefore, control
<1>6. ctrl # 0 => Current(session[ctrl])'
  BY <1>1, <1>2, CurrentIsASession
     DEF CurrentIsOrderly, Current, Fresh, Waiting, Stopped,
         Handling, Completed, CallerAt, ClientAt, control
<1>7. QED
  BY <1>3, <1>4, <1>5, <1>6, SessionsStand DEF control

LEMMA ReadKeepsOrder ==
    ASSUME Orderly, NEW a \in Callers, ReadState(a)
    PROVE  Orderly'
<1> USE DEF ReadState
<1>1. selfLock = a /\ a # None
  BY CallerHolds
<1>2. TypeOK'
  <2>1. pc' \in [Callers -> Labels] /\ selfLock' \in Callers \cup {None}
    BY <1>1 DEF Return, Goto, Orderly, TypeOK, Labels
  <2>2. latest' \in States /\ cur' \in [Callers -> States]
    BY DEF Orderly, TypeOK
  <2>3. QED
    BY <2>1, <2>2 DEF Orderly, TypeOK, device, control
<1>3. CASE Return(a)
  BY <1>2, <1>3, IgnoredKeepsOrder
<1>4. CASE Goto(a, IF power = "DEEP" THEN "deactivate" ELSE "decide")
  <2>1. (IF power = "DEEP" THEN "deactivate" ELSE "decide")
            \in {"deactivate", "decide"}
    OBVIOUS
  <2>2. QED
    BY <1>2, <1>4, <2>1, ApproachKeepsOrder
<1>5. QED  BY <1>3, <1>4

LEMMA DeactivateKeepsOrder ==
    ASSUME Orderly, NEW a \in Callers, Deactivate(a)
    PROVE  Orderly'
<1>1. TypeOK'
  BY DEF Deactivate, Goto, Orderly, TypeOK, Labels, control, input
<1>2. QED
  BY <1>1, ApproachKeepsOrder DEF Deactivate, input

LEMMA RedundantKeepsOrder ==
    ASSUME Orderly, NEW a \in Callers, IgnoreRedundant(a)
    PROVE  Orderly'
<1>1. TypeOK'
  BY DEF IgnoreRedundant, Return, Orderly, TypeOK, Labels, device, control, input
<1>2. QED
  BY <1>1, IgnoredKeepsOrder DEF IgnoreRedundant, input

(* A new session takes the next id; the one it replaces is cancelled, and  *)
(* its handler never runs: whoever could have run it would hold a lock.    *)
LEMMA OpenKeepsOrder ==
    ASSUME Orderly, NEW a \in Callers, OpenSession(a)
    PROVE  Orderly'
<1> USE DEF OpenSession, ApiLockFree
<1>1. selfLock = a /\ a # None
  BY CallerHolds
<1>2. nextTid \in Tids /\ nextTid \in Nat /\ ctrl = nextTid - 1 /\ ctrl \in Nat
  <2>1. Cardinality(Entering) \in Nat /\ Cardinality(Entering) >= 1
    BY EnteringShrinks DEF Entering
  <2>2. QED
    BY <2>1, ThreadsAssumption DEF Orderly, IdsSuffice, TypeOK, Tids
<1>3. NewSession(a) \in Sessions
  BY DEF NewSession, NoSession, Sessions, isSyncStateChange, Orderly, TypeOK
<1>4. ctrl # 0 => /\ ctrl \in Tids /\ session[ctrl] \in Sessions
                  /\ CurrentIsOrderly
                  /\ session[ctrl].stage = "none"
  BY <1>1, CurrentIsASession
     DEF CurrentIsOrderly, Current, Fresh, Waiting, Stopped,
         Handling, Completed, CallerAt, ClientAt
<1>5. ASSUME ctrl # 0
      PROVE  /\ Reset(session[ctrl]) \in Sessions
             /\ ~Reset(session[ctrl]).running
             /\ Reset(session[ctrl]).stage = "none"
             /\ Reset(session[ctrl]).job \in {"none", "armed", "done"}
             /\ Completions(Reset(session[ctrl])) <= 1
             /\ Reset(session[ctrl]).by \in {"caller", "ack"} /\ ~Reset(session[ctrl]).sync
                  => Reset(session[ctrl]).pending = {}
  <2> DEFINE s == session[ctrl]
             j == IF s.job = "armed" THEN "done" ELSE s.job
  <2>1. s \in Sessions /\ s.job \in {"none", "armed", "done"} /\ s.stage = "none"
    BY <1>4, <1>5 DEF CurrentIsOrderly
  <2>2. Reset(s) = [s EXCEPT !.cancelled = TRUE, !.aborted = s.running,
                             !.running = FALSE, !.job = j]
    BY <2>1 DEF Reset, Sessions
  <2>3. Reset(s) \in Sessions
    BY <2>1, <2>2 DEF Sessions
  <2>4. ~Reset(s).running /\ Reset(s).stage = "none"
        /\ Reset(s).job \in {"none", "armed", "done"}
        /\ Reset(s).aborted = s.running /\ Reset(s).runs = s.runs
        /\ Reset(s).by = s.by /\ Reset(s).sync = s.sync /\ Reset(s).pending = s.pending
    BY <2>1, <2>2 DEF Sessions
  <2>5. Completions(Reset(s)) <= 1
    BY <1>4, <1>5, <2>4
     DEF CurrentIsOrderly, Current, Fresh, Waiting, Stopped,
         Handling, Completed, CallerAt, ClientAt, Completions
  <2>6. QED
    BY <1>4, <1>5, <2>3, <2>4, <2>5 DEF CurrentIsOrderly
<1>6. \A t \in Tids : /\ t = nextTid => session'[t] = NewSession(a)
                      /\ t = ctrl => session'[t] = Reset(session[t])
                      /\ t # ctrl /\ t # nextTid => session'[t] = session[t]
  BY <1>2
<1>7. session' \in [Tids -> Sessions]
  BY <1>3, <1>5, <1>6 DEF Orderly, TypeOK, Tids
<1>8. /\ pc'[a] = "submit" /\ selfLock' = a
      /\ \A b \in Callers : b # a => pc'[b] = pc[b]
  BY <1>1 DEF Goto, Orderly, TypeOK
<1>9. TypeOK'
  BY <1>2, <1>7, ThreadsAssumption DEF Orderly, TypeOK, Labels, device, input, Goto, Tids
<1>10. LocksAreHeld'
  BY <1>1, <1>8 DEF Orderly, LocksAreHeld
<1>11. IdsSuffice'
  <2>1. Entering' = Entering \ {a}
    BY <1>8 DEF Entering
  <2>2. /\ IsFiniteSet(Entering') /\ Cardinality(Entering) \in Nat
        /\ Cardinality(Entering') = Cardinality(Entering) - 1
    BY <2>1, EnteringShrinks DEF Entering
  <2>3. QED
    BY <1>2, <2>2 DEF Orderly, TypeOK, IdsSuffice, input
<1>12. /\ ~NewSession(a).running /\ NewSession(a).stage = "none"
       /\ NewSession(a).runs = 0 /\ ~NewSession(a).cancelled
       /\ ~NewSession(a).aborted /\ NewSession(a).job = "none"
       /\ NewSession(a).by = "none"
  BY DEF NewSession, NoSession
<1>13. Current(session[ctrl])'
  <2>1. session'[ctrl'] = NewSession(a)
    BY <1>2, <1>6
  <2>2. QED
    BY <1>1, <1>8, <1>12, <2>1
     DEF CurrentIsOrderly, Current, Fresh, Waiting, Stopped,
         Handling, Completed, CallerAt, ClientAt
<1>14. SessionsAreOrdered'
  <2>1. ASSUME NEW t \in Tids
        PROVE  /\ t < ctrl' => Replaced(session'[t])
               /\ t > ctrl' => session'[t] = NoSession
               /\ t = ctrl' => Current(session[t])'
    <3>1. t \in Nat
      BY DEF Tids
    <3>2. CASE t = nextTid
      <4>1. Current(session[t])'
        BY <1>13, <3>2
      <4>2. QED  BY <1>2, <3>2, <4>1
    <3>3. CASE t = ctrl
      BY <1>2, <1>5, <1>6, <3>1, <3>3, ThreadsAssumption DEF Replaced, Tids
    <3>4. CASE t # nextTid /\ t # ctrl
      BY <1>2, <1>6, <3>1, <3>4 DEF Orderly, SessionsAreOrdered, Replaced
    <3>5. QED  BY <3>2, <3>3, <3>4
  <2>2. QED  BY <2>1 DEF SessionsAreOrdered, Replaced
<1>15. NoTimerRuns' /\ CompletedAtMostOnce' /\ EarlyOnlyWhenAcked'
  <2>1. ASSUME NEW t \in Tids
        PROVE  /\ session'[t].job \in {"none", "armed", "done"}
               /\ Completions(session'[t]) <= 1
               /\ session'[t].by \in {"caller", "ack"} /\ ~session'[t].sync
                     => session'[t].pending = {}
    <3>1. CASE t = nextTid
      BY <1>6, <1>12, <3>1 DEF Completions
    <3>2. CASE t = ctrl /\ t # nextTid
      BY <1>5, <1>6, <3>2 DEF Tids
    <3>3. CASE t # nextTid /\ t # ctrl
      BY <1>6, <3>3 DEF Orderly, NoTimerRuns, CompletedAtMostOnce,
                        EarlyOnlyWhenAcked
    <3>4. QED  BY <3>1, <3>2, <3>3
  <2>2. QED
    BY <2>1 DEF NoTimerRuns, CompletedAtMostOnce, EarlyOnlyWhenAcked, Completions
<1>16. NothingBefore'
  BY <1>2 DEF NothingBefore
<1>17. QED
  BY <1>9, <1>10, <1>11, <1>14, <1>15, <1>16 DEF Orderly

-----------------------------------------------------------------------------
(* A handler that runs is that of the current session.                     *)
LEMMA HandlerIsCurrent ==
    ASSUME Orderly, NEW t \in Tids, session[t].stage # "none"
    PROVE  /\ t = ctrl /\ ctrl # 0 /\ session[ctrl] \in Sessions
           /\ CurrentIsOrderly /\ Handling(session[ctrl])
<1>1. t \in Nat /\ ctrl \in Nat
  BY DEF Tids, Orderly, TypeOK
<1>2. t = ctrl
  BY <1>1 DEF Orderly, SessionsAreOrdered, Replaced, NoSession
<1>3. ctrl # 0
  BY <1>2 DEF Tids
<1>4. session[ctrl] \in Sessions /\ CurrentIsOrderly
  BY <1>3, CurrentIsASession
<1>5. QED
  BY <1>2, <1>3, <1>4
     DEF CurrentIsOrderly, Current, Fresh, Waiting, Stopped,
                          Completed

(* The steps of a handler before it returns only move its stage.           *)
LEMMA StageKeepsOrder ==
    ASSUME Orderly, NEW t \in Tids, session[t].stage # "none",
           NEW g \in {"notify", "callbacks", "finish"},
           session' = [session EXCEPT ![t].stage = g],
           power' \in States, lastEvent' \in States,
           callbackLock' \in {"free", "modeChanged", "other"},
           UNCHANGED <<delayJob, control, clients, locks, pc, input, cur,
                       acker, crashed>>
    PROVE  Orderly'
<1>1. /\ t = ctrl /\ ctrl # 0 /\ session[ctrl] \in Sessions
      /\ CurrentIsOrderly /\ Handling(session[ctrl])
  BY HandlerIsCurrent
<1>2. LocksAreHeld' /\ Entering' = Entering
  BY DEF Orderly, LocksAreHeld, Entering, locks
<1>3. session' \in [Tids -> Sessions]
  BY <1>1 DEF Orderly, TypeOK, Sessions
<1>4. TypeOK'
  BY <1>3 DEF Orderly, TypeOK, control, input, locks
<1>5. \A u \in Tids : u # ctrl => session'[u] = session[u]
  BY <1>1 DEF Orderly, TypeOK
<1>6. session'[ctrl] = [session[ctrl] EXCEPT !.stage = g]
  BY <1>1 DEF Orderly, TypeOK
<1>7. CurrentIsOrderly'
  BY <1>1, <1>6
     DEF CurrentIsOrderly, Current, Fresh, Waiting, Stopped,
         Handling, Completed, CallerAt, ClientAt, Completions, control, Sessions,
         locks
<1>8. QED
  BY <1>1, <1>2, <1>4, <1>5, <1>7, CurrentMoves DEF control, input

LEMMA ReturnKeepsOrder ==
    ASSUME Orderly, NEW t \in Tids, HandlerReturn(t)
    PROVE  Orderly'
<1>1. /\ t = ctrl /\ ctrl # 0 /\ session[ctrl] \in Sessions
      /\ CurrentIsOrderly /\ Handling(session[ctrl])
  BY HandlerIsCurrent DEF HandlerReturn
<1>2. session'[ctrl] = [session[ctrl] EXCEPT !.stage = "none", !.runs = 1]
  BY <1>1 DEF HandlerReturn, Orderly, TypeOK, Sessions, Handling
<1>3. session' \in [Tids -> Sessions]
  BY <1>1 DEF HandlerReturn, Orderly, TypeOK, Sessions
<1>4. \A u \in Tids : u # ctrl => session'[u] = session[u]
  BY <1>1 DEF HandlerReturn, Orderly, TypeOK
<1>5. /\ ctrl' = ctrl /\ ~session'[ctrl].running /\ session'[ctrl].stage = "none"
      /\ session'[ctrl].runs = 1 /\ ~session'[ctrl].cancelled
      /\ ~session'[ctrl].aborted
  <2>1. ctrl' = ctrl
    BY DEF HandlerReturn, control
  <2>2. /\ session[ctrl].runs = 0 /\ ~session[ctrl].running
        /\ ~session[ctrl].cancelled /\ ~session[ctrl].aborted
    BY <1>1 DEF Handling, CurrentIsOrderly, Current
  <2>3. QED  BY <1>1, <1>2, <2>1, <2>2 DEF Sessions
<1>6. /\ session'[ctrl].job \in {"none", "armed", "done"}
      /\ Completions(session'[ctrl]) <= 1
      /\ session'[ctrl].by \in {"caller", "ack"} /\ ~session'[ctrl].sync =>
             session'[ctrl].pending = {}
  BY <1>1, <1>2, <1>5 DEF Sessions, CurrentIsOrderly, Completions
<1>7. CASE session[t].by = "caller"
  <2>1. selfLock \in Callers /\ pc[selfLock] = "inline" /\ apiLock = None
    BY <1>1, <1>7 DEF Handling, CallerAt, Orderly, TypeOK
  <2>2. /\ LocksAreHeld' /\ Entering' = Entering /\ selfLock' = None
        /\ pc' \in [Callers -> Labels]
    BY <1>7, <2>1, CallerReturns DEF HandlerReturn, Orderly, LocksAreHeld, Entering
  <2>3. TypeOK'
    BY <1>3, <1>7, <2>2 DEF HandlerReturn, Orderly, TypeOK, device, control, input
  <2>4. CurrentIsOrderly'
    <3>1. Completed(session[ctrl])'
      BY <1>7, <1>5, <2>1 DEF HandlerReturn, Completed
    <3>2. QED
      BY <1>5, <1>6, <2>2, <3>1, <1>7, <2>1
         DEF HandlerReturn, CurrentIsOrderly, Current, CallerAt
  <2>5. QED
    BY <1>1, <1>4, <2>2, <2>3, <2>4, CurrentMoves DEF HandlerReturn, control, input
<1>8. CASE session[t].by = "ack"
  <2>1. apiLock \in Clients /\ acker[apiLock] = "handler" /\ apiLock # None
    BY <1>1, <1>8 DEF Handling, ClientAt, Orderly, TypeOK
  <2>2. /\ acker'[apiLock] = "idle" /\ apiLock' = None
        /\ \A c \in Clients : c # apiLock => acker'[c] = acker[c]
    BY <1>8, <2>1 DEF HandlerReturn, Orderly, TypeOK
  <2>3. \A c \in Clients : c # apiLock => acker[c] = "idle"
    BY DEF Orderly, LocksAreHeld
  <2>4. LocksAreHeld' /\ Entering' = Entering
    BY <1>8, <2>2, <2>3, ThreadsAssumption
       DEF HandlerReturn, Orderly, LocksAreHeld, Entering
  <2>5. TypeOK'
    BY <1>3, <1>8, <2>1, <2>2 DEF HandlerReturn, Orderly, TypeOK, device, control, input
  <2>6. CurrentIsOrderly'
    <3>1. Completed(session[ctrl])'
      BY <1>8, <1>5, <2>2 DEF Completed
    <3>2. ~CallerAt({"submit", "schedule", "run"}) /\ ~CallerAt({"inline"})
      BY <1>1, <1>8 DEF CurrentIsOrderly, Current, Fresh, Handling
    <3>3. QED
      BY <1>8, <1>5, <1>6, <2>2, <3>1, <3>2
         DEF HandlerReturn, CurrentIsOrderly, Current, CallerAt
  <2>7. QED
    BY <1>1, <1>4, <2>4, <2>5, <2>6, CurrentMoves DEF HandlerReturn, control, input
<1>9. QED  BY <1>1, <1>7, <1>8 DEF Handling

(* Who is registered, who is called back and which job is waited for is    *)
(* no matter of the sessions.                                              *)
LEMMA AddKeepsOrder ==
    ASSUME Orderly, clients' \in SUBSET Clients,
           callbackLock' \in {"free", "modeChanged", "other"},
           delayJob' \in Callers \cup {None},
           UNCHANGED <<power, lastEvent, control, session, locks, pc, input,
                       cur, acker, crashed>>
    PROVE  Orderly'
<1>1. TypeOK'
  BY DEF Orderly, TypeOK, control, input, locks
<1>2. LocksAreHeld' /\ IdsSuffice' /\ NothingBefore'
  BY DEF Orderly, LocksAreHeld, IdsSuffice, Entering, NothingBefore, control,
         input, locks
<1>3. ctrl # 0 => Current(session[ctrl])'
  BY CurrentIsASession
     DEF CurrentIsOrderly, Current, Fresh, Waiting, Stopped,
         Handling, Completed, CallerAt, ClientAt, Completions, control, Sessions,
         locks
<1>4. QED  BY <1>1, <1>2, <1>3, SessionsStand DEF control

LEMMA InitIsOrderly == Init => Orderly
<1> SUFFICES ASSUME Init PROVE Orderly
  OBVIOUS
<1> USE DEF Init
<1>1. NoSession \in Sessions
  BY DEF NoSession, Sessions, States
<1>2. TypeOK
  <2>1. session \in [Tids -> Sessions] /\ clients \in SUBSET Clients
    BY <1>1
  <2>2. /\ ctrl \in 0..MaxRequests /\ nextTid \in 1..(MaxRequests + 1)
        /\ requests \in 0..MaxRequests
    BY ThreadsAssumption
  <2>3. "ON" \in States /\ power \in States
    BY ThreadsAssumption DEF States
  <2>4. QED  BY <2>1, <2>2, <2>3 DEF TypeOK, Labels
<1>3. LocksAreHeld
  BY ThreadsAssumption DEF LocksAreHeld
<1>4. IdsSuffice
  <2>1. Entering = {}
    BY DEF Entering
  <2>2. QED  BY <2>1, FS_EmptySet DEF IdsSuffice
<1>5. SessionsAreOrdered /\ NothingBefore
  BY DEF SessionsAreOrdered, NothingBefore, Tids
<1>6. NoTimerRuns /\ CompletedAtMostOnce /\ EarlyOnlyWhenAcked
  BY DEF NoTimerRuns, CompletedAtMostOnce, EarlyOnlyWhenAcked, Completions,
         NoSession
<1>7. QED  BY <1>2, <1>3, <1>4, <1>5, <1>6 DEF Orderly

LEMMA NextIsOrderly ==
    ASSUME ~TimeoutsHappen, Orderly, [Next]_vars
    PROVE  Orderly'
<1>1. CASE \E a \in Callers, s \in States : Request(a, s)
  BY <1>1, RequestKeepsOrder
<1>2. CASE \E a \in Callers : CallerStep(a)
  <2>1. PICK a \in Callers : CallerStep(a)
    BY <1>2
  <2>2. QED
    <3>1. CASE RevokeDispatched(a)
      BY <3>1, AddKeepsOrder DEF RevokeDispatched, Orderly, TypeOK
    <3>2. CASE ~RevokeDispatched(a)
      BY <2>1, <3>2, LockKeepsOrder, ReadKeepsOrder, DeactivateKeepsOrder,
         RedundantKeepsOrder, OpenKeepsOrder, submitKeepsOrder,
         TestKeepsOrder, RunningKeepsOrder, HandlerKeepsOrder, TimerIsArmed
         DEF CallerStep
    <3>3. QED  BY <3>1, <3>2
<1>3. CASE \E c \in Clients : \/ PowerModePreChangeComplete(c)
                             \/ AddPowerModePreChangeClient(c)
                             \/ RemovePowerModePreChangeClient(c)
                             \/ ClientStep(c)
  <2>1. PICK c \in Clients : \/ PowerModePreChangeComplete(c)
                             \/ AddPowerModePreChangeClient(c)
                             \/ RemovePowerModePreChangeClient(c)
                             \/ ClientStep(c)
    BY <1>3
  <2>2. /\ clients \in SUBSET Clients
        /\ callbackLock \in {"free", "modeChanged", "other"}
        /\ delayJob \in Callers \cup {None}
    BY DEF Orderly, TypeOK
  <2>3. CASE PowerModePreChangeComplete(c)
    BY <2>2, <2>3, AcknowledgeKeepsOrder DEF PowerModePreChangeComplete
  <2>4. CASE AddPowerModePreChangeClient(c)
    BY <2>2, <2>4, AddKeepsOrder DEF AddPowerModePreChangeClient, device
  <2>5. CASE RemovePowerModePreChangeClient(c)
    <3>1. clients' \in SUBSET Clients
      BY <2>2, <2>5 DEF RemovePowerModePreChangeClient
    <3>2. CASE ctrl # 0 /\ c \in session[IF ctrl = 0 THEN 1 ELSE ctrl].pending
      <4>1. ctrl # 0 /\ c \in session[ctrl].pending /\ Acknowledge(c)
        BY <2>5, <3>2 DEF RemovePowerModePreChangeClient
      <4>2. QED
        BY <2>5, <3>1, <4>1, AcknowledgeKeepsOrder
           DEF RemovePowerModePreChangeClient
    <3>3. CASE ~(ctrl # 0 /\ c \in session[IF ctrl = 0 THEN 1 ELSE ctrl].pending)
      <4>1. UNCHANGED <<session, acker, apiLock>>
        BY <2>5, <3>3 DEF RemovePowerModePreChangeClient
      <4>2. QED
        BY <2>2, <2>5, <3>1, <4>1, AddKeepsOrder
           DEF RemovePowerModePreChangeClient, locks, device
    <3>4. QED  BY <3>2, <3>3
  <2>6. CASE ClientStep(c)
    BY <2>6, StopKeepsOrder, RevokeKeepsOrder DEF ClientStep
  <2>7. QED  BY <2>1, <2>3, <2>4, <2>5, <2>6
<1>4. CASE \E t \in Tids : TimerStep(t) \/ HandlerStep(t)
  <2>1. PICK t \in Tids : TimerStep(t) \/ HandlerStep(t)
    BY <1>4
  <2>2. ~TimerStep(t)
    BY DEF TimerStep, TimerLock, TimerCheck, TimerStop, Orderly, NoTimerRuns
  <2>3. /\ power \in States /\ lastEvent \in States
        /\ session[t].target \in States
        /\ callbackLock \in {"free", "modeChanged", "other"}
    BY DEF Orderly, TypeOK, Sessions
  <2>4. CASE HandlerSetPower(t)
    <3>1. session[t].stage # "none" /\ power' \in States /\ lastEvent' \in States
      BY <2>3, <2>4 DEF HandlerSetPower
    <3>2. QED
      BY <2>3, <2>4, <3>1, StageKeepsOrder DEF HandlerSetPower
  <2>5. CASE dispatchPowerModeChangedEvent(t)
    <3>1. session[t].stage # "none" /\ power' \in States /\ lastEvent' \in States
      BY <2>3, <2>5 DEF dispatchPowerModeChangedEvent
    <3>2. QED
      BY <2>5, <3>1, StageKeepsOrder DEF dispatchPowerModeChangedEvent
  <2>6. CASE CallbacksReturn(t)
    <3>1. session[t].stage # "none" /\ power' \in States /\ lastEvent' \in States
      BY <2>3, <2>6 DEF CallbacksReturn
    <3>2. QED
      BY <2>6, <3>1, StageKeepsOrder DEF CallbacksReturn
  <2>7. CASE HandlerReturn(t)
    BY <2>7, ReturnKeepsOrder
  <2>8. QED  BY <2>1, <2>2, <2>4, <2>5, <2>6, <2>7 DEF HandlerStep
<1>5. CASE OtherEventStep
  BY <1>5, AddKeepsOrder DEF OtherEventStep, dispatchOtherEvent,
                             OtherCallbacksReturn, Orderly, TypeOK
<1>6. CASE UNCHANGED vars
  BY <1>6, AddKeepsOrder DEF vars, control, locks, input, Orderly, TypeOK
<1>7. QED  BY <1>1, <1>2, <1>3, <1>4, <1>5, <1>6 DEF Next

LEMMA SpecIsOrderly ==
    ASSUME ~TimeoutsHappen
    PROVE  Spec => []Orderly
<1>1. Init => Orderly
  BY InitIsOrderly
<1>2. Orderly /\ [Next]_vars => Orderly'
  BY NextIsOrderly
<1>3. QED  BY <1>1, <1>2, PTL DEF Spec

-----------------------------------------------------------------------------
(* As long as no timer is due, each request completes at most once, its    *)
(* handler runs alone, and nobody it asked is still preparing: that is     *)
(* what _running, selfLock and _apiLock are for.                           *)
THEOREM CompletionsAreOrderly ==
    ASSUME ~TimeoutsHappen
    PROVE  Spec => []CompletionIsOrderly
<1>1. Orderly => CompletionIsOrderly
  <2> SUFFICES ASSUME Orderly PROVE CompletionIsOrderly
    OBVIOUS
  <2>1. {t \in Tids : session[t].stage # "none"} \subseteq {ctrl}
    BY HandlerIsCurrent
  <2>2. IsFiniteSet({ctrl}) /\ Cardinality({ctrl}) = 1
    BY FS_Singleton
  <2>3. /\ IsFiniteSet({t \in Tids : session[t].stage # "none"})
        /\ Cardinality({t \in Tids : session[t].stage # "none"}) <= 1
    BY <2>1, <2>2, FS_Subset
  <2>4. QED
    BY <2>3 DEF Orderly, CompletionIsOrderly, HandlersAreSerial
<1>2. QED  BY <1>1, SpecIsOrderly, PTL

(* As long as no timer is due, a request that a newer one replaced never   *)
(* reaches the platform.                                                   *)
THEOREM CancelledIsNotApplied ==
    ASSUME ~TimeoutsHappen
    PROVE  Spec => []CancelledNotApplied
<1>1. Orderly => CancelledNotApplied
  <2> SUFFICES ASSUME Orderly, NEW t \in Tids, session[t].cancelled,
                      session[t].stage = "set"
               PROVE  FALSE
    BY DEF CancelledNotApplied
  <2>1. t = ctrl /\ CurrentIsOrderly
    BY HandlerIsCurrent
  <2>2. QED  BY <2>1 DEF CurrentIsOrderly, Current
<1>2. QED  BY <1>1, SpecIsOrderly, PTL

-----------------------------------------------------------------------------
(* A session's handler as Applied sees it.                                 *)
NotBegun(s) == s.stage \in {"none", "set"} /\ s.runs = 0

(* Callers and clients start a handler but do not run its steps.           *)
LEMMA ThreadsKeepApplied ==
    ASSUME Orderly, Applied, UNCHANGED <<power, lastEvent>>,
           \/ ctrl' \in Tids /\ NotBegun(session'[ctrl'])
           \/ ctrl' = ctrl /\ UNCHANGED session
           \/ /\ ctrl' = ctrl /\ ctrl \in Tids
              /\ session'[ctrl].stage = session[ctrl].stage
              /\ session'[ctrl].runs = session[ctrl].runs
              /\ session'[ctrl].target = session[ctrl].target
    PROVE  Applied'
BY DEF Applied, NotBegun

LEMMA CallersKeepApplied ==
    ASSUME Orderly, Applied, NEW a \in Callers, CallerStep(a)
    PROVE  Applied'
<1> USE DEF device
<1>1. CASE \/ TakeSelfLock(a) \/ ReadState(a) \/ IgnoreRedundant(a)
           \/ RevokeDispatched(a) \/ Deactivate(a)
  BY <1>1, ThreadsKeepApplied
     DEF TakeSelfLock, ReadState, IgnoreRedundant, RevokeDispatched,
         Deactivate, control
<1>2. CASE OpenSession(a)
  <2>1. nextTid \in Tids
    <3>1. Cardinality(Entering) \in Nat /\ Cardinality(Entering) >= 1
      BY <1>2, EnteringShrinks DEF Entering, OpenSession
    <3>2. QED
      BY <3>1, ThreadsAssumption DEF Orderly, IdsSuffice, TypeOK, Tids
  <2>2. ctrl' = nextTid /\ session'[nextTid] = NewSession(a) /\ UNCHANGED device
    BY <1>2, <2>1 DEF OpenSession
  <2>3. NotBegun(NewSession(a))
    BY DEF NotBegun, NewSession, NoSession
  <2>4. QED  BY <2>1, <2>2, <2>3, ThreadsKeepApplied
<1>3. ASSUME pc[a] \notin {"idle", "lock", "read", "deactivate", "decide"}
      PROVE  ctrl \in Tids /\ session[ctrl] \in Sessions /\ CurrentIsOrderly
             /\ selfLock = a /\ a # None
  BY <1>3, CallerHolds, CurrentIsASession
<1>4. CASE submitPowerModePreChangeEvent(a)
  <2>1. /\ ctrl' = ctrl /\ UNCHANGED device
        /\ session'[ctrl] = [session[ctrl] EXCEPT !.announced = TRUE]
    BY <1>3, <1>4 DEF submitPowerModePreChangeEvent, control, Orderly, TypeOK
  <2>2. QED
    BY <1>3, <1>4, <2>1, ThreadsKeepApplied
       DEF submitPowerModePreChangeEvent, Sessions
<1>5. CASE ScheduleTest(a)
  <2>1. NotBegun(session[ctrl]) /\ ctrl \in Tids /\ session[ctrl] \in Sessions
    BY <1>3, <1>5
       DEF ScheduleTest, NotBegun, CurrentIsOrderly, Current, Fresh, CallerAt
  <2>2. \/ session'[ctrl] = session[ctrl]
        \/ session'[ctrl] = [session[ctrl] EXCEPT !.stage = "set", !.by = "caller"]
    BY <1>5, <2>1 DEF ScheduleTest, Orderly, TypeOK
  <2>3. NotBegun(session'[ctrl])
    BY <2>1, <2>2 DEF NotBegun, Sessions
  <2>4. QED
    BY <1>5, <2>1, <2>3, ThreadsKeepApplied DEF ScheduleTest, control
<1>6. CASE ScheduleRunning(a)
  <2>1. /\ ctrl' = ctrl /\ UNCHANGED device
        /\ session'[ctrl] = [session[ctrl] EXCEPT !.running = TRUE]
    BY <1>3, <1>6 DEF ScheduleRunning, control, Orderly, TypeOK
  <2>2. QED
    BY <1>3, <1>6, <2>1, ThreadsKeepApplied DEF ScheduleRunning, Sessions
<1>7. CASE ScheduleHandler(a)
  <2>1. /\ ctrl' = ctrl /\ UNCHANGED device
        /\ session'[ctrl] = [session[ctrl] EXCEPT !.handler = TRUE]
    BY <1>3, <1>7 DEF ScheduleHandler, control, Orderly, TypeOK
  <2>2. QED
    BY <1>3, <1>7, <2>1, ThreadsKeepApplied DEF ScheduleHandler, Sessions
<1>8. CASE ScheduleTimer(a)
  <2>1. /\ ctrl' = ctrl /\ UNCHANGED device
        /\ session'[ctrl] = [session[ctrl] EXCEPT !.job = "armed"]
    BY <1>3, <1>8 DEF ScheduleTimer, control, Orderly, TypeOK
  <2>2. QED
    BY <1>3, <1>8, <2>1, ThreadsKeepApplied DEF ScheduleTimer, Sessions
<1>9. QED
  BY <1>1, <1>2, <1>4, <1>5, <1>6, <1>7, <1>8 DEF CallerStep

LEMMA AcknowledgeKeepsApplied ==
    ASSUME Orderly, Applied, NEW c \in Clients, Acknowledge(c), ctrl # 0,
           UNCHANGED <<device, control>>
    PROVE  Applied'
<1> USE DEF device
<1>1. ctrl \in Tids /\ session[ctrl] \in Sessions
  BY CurrentIsASession
<1>2. session'[ctrl] = [session[ctrl] EXCEPT !.pending = session[ctrl].pending \ {c}]
  BY <1>1 DEF Acknowledge, Orderly, TypeOK
<1>3. QED
  BY <1>1, <1>2, ThreadsKeepApplied DEF control, Sessions

LEMMA ClientsKeepApplied ==
    ASSUME Orderly, Applied, NEW c \in Clients, ClientStep(c)
    PROVE  Applied'
<1> USE DEF device
<1>1. acker[c] # "idle"
  BY DEF ClientStep, AckStop, AckRevoke
<1>2. /\ ctrl \in Tids /\ session[ctrl] \in Sessions /\ CurrentIsOrderly
      /\ apiLock = c /\ c # None
  BY <1>1, ClientHolds, CurrentIsASession
<1>3. CASE AckStop(c)
  <2>1. session'[ctrl] = [session[ctrl] EXCEPT !.running = FALSE]
    BY <1>2, <1>3 DEF AckStop, Orderly, TypeOK
  <2>2. QED
    BY <1>2, <1>3, <2>1, ThreadsKeepApplied DEF AckStop, control, Sessions
<1>4. CASE AckRevoke(c)
  <2>1. NotBegun(session[ctrl])
    BY <1>2, <1>4 DEF AckRevoke, NotBegun, CurrentIsOrderly, Current, Fresh,
                      Waiting, Stopped, Handling, Completed, CallerAt, ClientAt
  <2>2. \/ UNCHANGED session
        \/ session'[ctrl].stage = "set" /\ session'[ctrl].runs = session[ctrl].runs
    BY <1>2, <1>4 DEF AckRevoke, Orderly, TypeOK, Sessions
  <2>3. NotBegun(session'[ctrl])
    BY <2>1, <2>2 DEF NotBegun
  <2>4. QED
    BY <1>2, <1>4, <2>3, ThreadsKeepApplied DEF AckRevoke, control
<1>5. QED  BY <1>3, <1>4 DEF ClientStep

LEMMA HandlersKeepApplied ==
    ASSUME ~PlatformMayFail, Orderly, Applied, NEW t \in Tids, HandlerStep(t)
    PROVE  Applied'
<1>1. session[t].stage # "none"
  BY DEF HandlerStep, HandlerSetPower, dispatchPowerModeChangedEvent,
         CallbacksReturn, HandlerReturn
<1>2. /\ t = ctrl /\ session[ctrl] \in Sessions /\ Handling(session[ctrl])
  BY <1>1, HandlerIsCurrent
<1>3. CASE HandlerSetPower(t)
  <2>1. /\ power' = session[ctrl].target /\ ctrl' = ctrl
        /\ session'[ctrl] = [session[ctrl] EXCEPT !.stage = "notify"]
    BY <1>2, <1>3 DEF HandlerSetPower, control, Orderly, TypeOK
  <2>2. QED
    BY <1>2, <2>1 DEF Applied, Sessions, Handling
<1>4. CASE dispatchPowerModeChangedEvent(t)
  <2>1. /\ power' = power /\ lastEvent' = session[ctrl].target /\ ctrl' = ctrl
        /\ session'[ctrl] = [session[ctrl] EXCEPT !.stage = "callbacks"]
        /\ session[ctrl].stage = "notify"
    BY <1>2, <1>4 DEF dispatchPowerModeChangedEvent, control, Orderly, TypeOK
  <2>2. QED
    BY <1>2, <2>1 DEF Applied, Sessions, Handling
<1>5. CASE HandlerReturn(t)
  <2>1. /\ UNCHANGED device /\ ctrl' = ctrl /\ session[ctrl].stage = "finish"
        /\ session'[ctrl].stage = "none" /\ session'[ctrl].target = session[ctrl].target
    BY <1>2, <1>5 DEF HandlerReturn, control, Orderly, TypeOK, Sessions
  <2>2. QED
    BY <1>2, <2>1 DEF Applied, device
<1>6. CASE CallbacksReturn(t)
  <2>1. /\ UNCHANGED <<power, lastEvent>> /\ ctrl' = ctrl
        /\ session'[ctrl] = [session[ctrl] EXCEPT !.stage = "finish"]
        /\ session[ctrl].stage = "callbacks"
    BY <1>2, <1>6 DEF CallbacksReturn, control, Orderly, TypeOK
  <2>2. QED
    BY <1>2, <2>1 DEF Applied, Sessions, Handling
<1>7. QED  BY <1>3, <1>4, <1>5, <1>6 DEF HandlerStep

(* As long as no timer is due and the platform obeys, the device is in the *)
(* state of the last session once nothing is under way, and clients have   *)
(* been told so.                                                           *)
THEOREM DeviceAgrees ==
    ASSUME ~TimeoutsHappen, ~PlatformMayFail
    PROVE  Spec => []AgreesWhenQuiet
<1>1. Init => Applied
  BY DEF Init, Applied, Tids
<1>2. Orderly /\ Applied /\ [Next]_vars => Applied'
  <2> SUFFICES ASSUME Orderly, Applied, [Next]_vars PROVE Applied'
    OBVIOUS
  <2>1. CASE \E a \in Callers, s \in States : Request(a, s)
    BY <2>1, ThreadsKeepApplied DEF Request, control, device
  <2>2. CASE \E a \in Callers : CallerStep(a)
    BY <2>2, CallersKeepApplied
  <2>3. ASSUME NEW c \in Clients,
               \/ PowerModePreChangeComplete(c)
               \/ AddPowerModePreChangeClient(c)
               \/ RemovePowerModePreChangeClient(c)
               \/ ClientStep(c)
        PROVE  Applied'
    <3>1. CASE PowerModePreChangeComplete(c)
      BY <3>1, AcknowledgeKeepsApplied DEF PowerModePreChangeComplete
    <3>2. CASE AddPowerModePreChangeClient(c)
      BY <3>2, ThreadsKeepApplied
         DEF AddPowerModePreChangeClient, control, device
    <3>3. CASE RemovePowerModePreChangeClient(c)
      <4>1. \/ Acknowledge(c) /\ ctrl # 0
            \/ UNCHANGED session
        BY <3>3 DEF RemovePowerModePreChangeClient
      <4>2. QED
        BY <3>3, <4>1, AcknowledgeKeepsApplied, ThreadsKeepApplied
           DEF RemovePowerModePreChangeClient, control, device
    <3>4. CASE ClientStep(c)
      BY <3>4, ClientsKeepApplied
    <3>5. QED  BY <2>3, <3>1, <3>2, <3>3, <3>4
  <2>4. ASSUME NEW t \in Tids, TimerStep(t) \/ HandlerStep(t)
        PROVE  Applied'
    <3>1. ~TimerStep(t)
      BY DEF TimerStep, TimerLock, TimerCheck, TimerStop, Orderly, NoTimerRuns
    <3>2. QED  BY <2>4, <3>1, HandlersKeepApplied
  <2>5. CASE OtherEventStep
    BY <2>5, ThreadsKeepApplied DEF OtherEventStep, dispatchOtherEvent,
                                    OtherCallbacksReturn, control
  <2>6. CASE UNCHANGED vars
    BY <2>6, ThreadsKeepApplied DEF vars
  <2>7. QED  BY <2>1, <2>2, <2>3, <2>4, <2>5, <2>6 DEF Next
<1>3. Orderly /\ Applied => AgreesWhenQuiet
  <2> SUFFICES ASSUME Orderly, Applied, Quiet, ctrl # 0
               PROVE  power = session[ctrl].target /\ lastEvent = power
    BY DEF AgreesWhenQuiet
  <2>1. ctrl \in Tids /\ CurrentIsOrderly
    BY CurrentIsASession
  <2>2. session[ctrl].stage = "none" /\ ~session[ctrl].running
    BY <2>1 DEF Quiet
  <2>3. session[ctrl].runs = 1
    BY <2>1, <2>2 DEF CurrentIsOrderly, Current, Fresh, Waiting,
       Stopped, Handling, Completed, CallerAt, ClientAt, Quiet, Orderly, TypeOK
  <2>4. QED  BY <2>1, <2>3 DEF Applied
<1>4. QED  BY <1>1, <1>2, <1>3, SpecIsOrderly, PTL DEF Spec
=============================================================================
