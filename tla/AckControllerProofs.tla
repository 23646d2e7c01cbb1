------------------------- MODULE AckControllerProofs -------------------------
(***************************************************************************)
(* The invariants of module AckController, and that it implements module   *)
(* Completion, for every set of clients, every set of timeouts and every   *)
(* bound of the clock.                                                     *)
(***************************************************************************)
EXTENDS AckController, TLAPS

(* The constructor establishes the inductive invariant.                    *)
LEMMA InitEstablishesSession == Init => Session
  <1>1. Init => FlagsOK
    BY DEF Init, FlagsOK
  <1> QED
    BY <1>1, ParametersAssumption
     DEF Init, Session, TypeOK, Phases, Outcomes, CallsMatchOutcome,
         TimerMatchesRunning, NotYetScheduled, WaitingForSomebody,
         StoppedMeansCompleted, Bookkeeping, AckedMeansAll,
         DelaysAreHonoured

(* No operation gives _running or _handler another type.                   *)
LEMMA NextPreservesFlags == FlagsOK /\ [Next]_vars => FlagsOK'
  BY DEF FlagsOK, Next, AckAwait, Publish, Ack, runHandler, Schedule,
         TimerJob, Reschedule, revoke, Tick, vars

(* Every operation, the timer job and the destructor preserve the types.   *)
LEMMA NextPreservesTypes == Session /\ [Next]_vars => TypeOK'
  <1> SUFFICES ASSUME Session, [Next]_vars
               PROVE  TypeOK'
    OBVIOUS
  <1> USE DEF TypeOK, Phases, Outcomes
  <1>0. TypeOK /\ FlagsOK'
    BY NextPreservesFlags DEF Session
  <1>1. ASSUME NEW c \in Clients, AckAwait(c)
        PROVE  TypeOK'
    BY <1>0, <1>1 DEF AckAwait, completion
  <1>2. CASE Publish
    BY <1>0, <1>2 DEF Publish, completion, history
  <1>3. ASSUME NEW c \in Clients, NEW t \in TransactionIds, Ack(c, t)
        PROVE  TypeOK'
    BY <1>0, <1>3 DEF Ack, runHandler, Invoke, completion
  <1>4. ASSUME NEW d \in Offsets, Schedule(d)
        PROVE  TypeOK'
    BY <1>0, <1>4, ParametersAssumption DEF Schedule, Invoke, Later, completion, history
  <1>5. CASE TimerJob
    BY <1>0, <1>5 DEF TimerJob, Invoke, completion, history
  <1>6. ASSUME NEW c \in Clients, NEW t \in TransactionIds,
               NEW d \in Offsets, Reschedule(c, t, d)
        PROVE  TypeOK'
    BY <1>0, <1>6, ParametersAssumption
    DEF Reschedule, CacheTimeout, MoveTimer, Later, completion
  <1>7. CASE revoke
    BY <1>0, <1>7 DEF revoke, Invoke, completion, history
  <1>8. CASE Tick
    BY <1>0, <1>8 DEF Tick, completion, history
  <1>9. CASE UNCHANGED vars
    BY <1>0, <1>9 DEF vars
  <1> QED
    BY <1>1, <1>2, <1>3, <1>4, <1>5, <1>6, <1>7, <1>8, <1>9 DEF Next

(* Every operation, the timer job and the destructor preserve the          *)
(* inductive invariant.                                                    *)
LEMMA NextPreservesSession == Session /\ [Next]_vars => Session'
  <1> SUFFICES ASSUME Session, [Next]_vars
               PROVE  Session'
    OBVIOUS
  <1>t. TypeOK'
    BY NextPreservesTypes
  <1> USE DEF Session, CallsMatchOutcome, TimerMatchesRunning,
              NotYetScheduled, WaitingForSomebody, StoppedMeansCompleted,
              Bookkeeping, AckedMeansAll, DelaysAreHonoured
  <1>1. ASSUME NEW c \in Clients, AckAwait(c)
        PROVE  Session'
    BY <1>t, <1>1 DEF AckAwait, completion, TypeOK
  <1>2. CASE Publish
    BY <1>t, <1>2 DEF Publish, completion, history, TypeOK
  <1>3. ASSUME NEW c \in Clients, NEW t \in TransactionIds, Ack(c, t)
        PROVE  Session'
    <2>1. Bookkeeping' /\ phase' = phase /\ handler' = handler
      BY <1>3 DEF Ack, TypeOK
    <2>2. CASE pending' = {} /\ running
      <3>1. AckedMeansAll'
        BY <2>1, <2>2
      <3>2. outcome = "none" /\ calls = 0
        BY <2>2
      <3>3. runHandler
        BY <1>3, <2>2 DEF Ack
      <3>4. ~running' /\ timerJob' = "done"
        BY <3>3 DEF runHandler
      <3>5. outcome' = "allAcked" /\ calls' = 1
        BY <3>2, <3>3 DEF runHandler, Invoke
      <3> QED
        BY <1>t, <2>1, <2>2, <3>1, <3>4, <3>5
    <2>3. CASE ~(pending' = {} /\ running)
      BY <1>t, <1>3, <2>1, <2>3 DEF Ack, completion, TypeOK
    <2> QED
      BY <2>2, <2>3
  <1>4. ASSUME NEW d \in Offsets, Schedule(d)
        PROVE  Session'
    <2>1. CASE pending = {} \/ d = 0
      BY <1>t, <1>4, <2>1 DEF Schedule, Invoke, history, TypeOK
    <2>2. CASE ~(pending = {} \/ d = 0)
      BY <1>t, <1>4, <2>2, ParametersAssumption
      DEF Schedule, Later, completion, history, TypeOK
    <2> QED
      BY <2>1, <2>2
  <1>5. CASE TimerJob
    BY <1>t, <1>5 DEF TimerJob, Invoke, completion, history, TypeOK
  <1>6. ASSUME NEW c \in Clients, NEW t \in TransactionIds,
               NEW d \in Offsets, Reschedule(c, t, d)
        PROVE  Session'
    BY <1>t, <1>6, ParametersAssumption
    DEF Reschedule, CacheTimeout, MoveTimer, Later,
                      completion, TypeOK
  <1>7. CASE revoke
    BY <1>t, <1>7 DEF revoke, Invoke, completion, history, TypeOK
  <1>8. CASE Tick
    BY <1>t, <1>8 DEF Tick, completion, history, TypeOK
  <1>9. CASE UNCHANGED vars
    BY <1>t, <1>9 DEF vars, TypeOK
  <1> QED
    BY <1>1, <1>2, <1>3, <1>4, <1>5, <1>6, <1>7, <1>8, <1>9 DEF Next

LEMMA SessionIsInvariant == Spec => []Session
  BY InitEstablishesSession, NextPreservesSession, PTL DEF Spec

(* Type correctness of a session.                                          *)
THEOREM TypeCorrect == Spec => []TypeOK
  <1>1. Session => TypeOK
    BY DEF Session
  <1> QED
    BY <1>1, SessionIsInvariant, PTL

(* Acknowledgement, timer and destructor never complete a session twice.   *)
THEOREM AtMostOnce == Spec => []CompletesAtMostOnce
  <1>1. Session => CompletesAtMostOnce
    BY DEF Session, CallsMatchOutcome, CompletesAtMostOnce
  <1> QED
    BY <1>1, SessionIsInvariant, PTL

(* A scheduled session is waiting with its timer armed, or has completed.  *)
THEOREM NotLeftHanging == Spec => []NeverLeftHanging
  <1>1. Session => NeverLeftHanging
    BY DEF Session, CallsMatchOutcome, TimerMatchesRunning,
           WaitingForSomebody, StoppedMeansCompleted, NeverLeftHanging
  <1> QED
    BY <1>1, SessionIsInvariant, PTL

(* The timer job finds the session running: the branch logged as FATAL is  *)
(* unreachable.                                                            *)
THEOREM TimerIsExpected == Spec => []TimerFindsItRunning
  <1>1. Session => TimerFindsItRunning
    BY DEF Session, TimerMatchesRunning, TimerFindsItRunning
  <1> QED
    BY <1>1, SessionIsInvariant, PTL

(* Completion by acknowledgement means that everybody acknowledged.        *)
THEOREM AllAcknowledged == Spec => []AckedMeansAll
  <1>1. Session => AckedMeansAll
    BY DEF Session
  <1> QED
    BY <1>1, SessionIsInvariant, PTL

(* No timeout is declared before a deadline granted to an awaited client.  *)
THEOREM DelaysHonoured == Spec => []DelaysAreHonoured
  <1>1. Session => DelaysAreHonoured
    BY DEF Session
  <1> QED
    BY <1>1, SessionIsInvariant, PTL

(* Deadlines only move outwards: neither Schedule nor a client's Reschedule *)
(* brings the timeout forward.                                             *)
THEOREM TimeoutGrows == Spec => TimeoutOnlyGrows
  <1>1. Session /\ [Next]_vars => [timeout' >= timeout]_vars
    <2> SUFFICES ASSUME Session, Next
                 PROVE  timeout' >= timeout
      BY DEF vars
    <2>1. timeout \in Nat /\ now \in Nat
      BY DEF Session, TypeOK
    <2>2. ASSUME NEW d \in Offsets, Schedule(d)
          PROVE  timeout' >= timeout
      BY <2>1, <2>2, ParametersAssumption DEF Schedule, Later
    <2>3. ASSUME NEW c \in Clients, NEW t \in TransactionIds,
                 NEW d \in Offsets, Reschedule(c, t, d)
          PROVE  timeout' >= timeout
      BY <2>1, <2>3, ParametersAssumption
      DEF Reschedule, CacheTimeout, MoveTimer, Later
    <2>4. CASE UNCHANGED timeout
      BY <2>1, <2>4
    <2> QED
      BY <2>2, <2>3, <2>4 DEF Next, AckAwait, Publish, Ack, TimerJob,
                              revoke, Tick
  <1> QED
    BY <1>1, SessionIsInvariant, PTL DEF Spec, TimeoutOnlyGrows

(* A session implements the abstract promise: every operation is a step of *)
(* module Completion or leaves its variables alone.                        *)
THEOREM Implementation == Spec => ImplementsCompletion
  <1>1. Init => Abs!AbsInit
    BY DEF Init, Abs!AbsInit
  <1>2. Session /\ [Next]_vars => [Abs!AbsNext]_(Abs!absVars)
    <2> SUFFICES ASSUME Session, [Next]_vars
                 PROVE  [Abs!AbsNext]_(Abs!absVars)
      OBVIOUS
    <2> USE DEF Abs!AbsNext, Abs!absVars
    <2>1. ASSUME NEW c \in Clients, AckAwait(c)
          PROVE  Abs!Expect(c)
      BY <2>1 DEF AckAwait, Abs!Expect, completion
    <2>2. ASSUME NEW c \in Clients, NEW t \in TransactionIds, Ack(c, t)
          PROVE  Abs!Confirm(c)
      BY <2>2 DEF Ack, Abs!Confirm, runHandler, Invoke, completion, Session,
                  WaitingForSomebody, StoppedMeansCompleted, NotYetScheduled
    <2>3. ASSUME NEW d \in Offsets, Schedule(d)
          PROVE  Abs!Arm
      BY <2>3 DEF Schedule, Abs!Arm, Invoke, completion, Session,
                  NotYetScheduled
    <2>4. CASE TimerJob
      BY <2>4 DEF TimerJob, Abs!GiveUp, Invoke, Session, TimerMatchesRunning,
                  WaitingForSomebody
    <2>5. CASE revoke
      BY <2>5 DEF revoke, Abs!Drop, Invoke, completion, Session,
                  WaitingForSomebody
    <2>6. CASE UNCHANGED <<phase, pending, completion>>
      BY <2>6 DEF completion
    <2> QED
      BY <2>1, <2>2, <2>3, <2>4, <2>5, <2>6
      DEF Next, Publish, Reschedule, Tick, history, vars, completion
  <1> QED
    BY <1>1, <1>2, SessionIsInvariant, PTL
    DEF Spec, ImplementsCompletion, Abs!AbsSpec
=============================================================================
