---------------------------- MODULE AckController ----------------------------
(***************************************************************************)
(* PowerManager/AckController.h: one pre-mode-change session.  The owner   *)
(* collects the clients it awaits, publishes the session, asks for the     *)
(* completion handler with a timeout, and drops the session when a newer   *)
(* request supersedes it.  Every operation is one step: the class is not   *)
(* thread-safe and relies on its owner for mutual exclusion.  What the     *)
(* owner really provides is the subject of module PowerModeChange.         *)
(***************************************************************************)
EXTENDS Integers

CONSTANTS Clients,        \* clients that may be awaited
          TransactionId,  \* _transactionId of this instance
          Offsets,        \* timeouts and delays the owner and clients pass
          MaxTime         \* bound of the clock, and of the deadlines set on it

ASSUME ParametersAssumption ==
    /\ TransactionId \in Int
    /\ Offsets \subseteq Nat
    /\ MaxTime \in Nat

VARIABLES phase,     \* life of the instance, see Phases
          pending,   \* _pending
          running,   \* _running
          handler,   \* _handler is set
          timeout,   \* _timeout, absolute
          timerJob,  \* state of _timerJob in the worker pool
          now,       \* Core::Time::Now()
          calls,     \* how often the completion handler was invoked
          outcome,   \* why it was invoked first
          completedAt, \* when it was invoked
          awaited,   \* history: every client passed to AckAwait
          acked,     \* history: every accepted acknowledgement
          promised   \* history: latest deadline granted to an awaited client

vars == <<phase, pending, running, handler, timeout, timerJob, now,
          calls, outcome, completedAt, awaited, acked, promised>>

history == <<awaited, acked, promised>>

completion == <<calls, outcome, completedAt>>

Phases == {"building", "open", "scheduled", "destroyed"}

Outcomes == {"none", "allAcked", "immediate", "timeout", "revoked"}

(* A client may quote the id of this session or of an earlier one.         *)
TransactionIds == {TransactionId - 1, TransactionId}

Later(a, b) == IF a >= b THEN a ELSE b

FlagsOK == running \in BOOLEAN /\ handler \in BOOLEAN

TypeOK ==
    /\ FlagsOK
    /\ phase \in Phases
    /\ pending \in SUBSET Clients
    /\ timeout \in Nat
    /\ timerJob \in {"none", "armed", "done"}
    /\ now \in Nat
    /\ calls \in Nat
    /\ outcome \in Outcomes
    /\ completedAt \in Nat
    /\ awaited \in SUBSET Clients
    /\ acked \in SUBSET Clients
    /\ promised \in Nat

-----------------------------------------------------------------------------
(* The constructor: _timeout is the time of construction.                  *)
Init ==
    /\ phase = "building"
    /\ pending = {}
    /\ running = FALSE
    /\ handler = FALSE
    /\ now \in 0..MaxTime
    /\ timeout = now
    /\ timerJob = "none"
    /\ calls = 0
    /\ outcome = "none"
    /\ completedAt = 0
    /\ awaited = {}
    /\ acked = {}
    /\ promised = 0

(* The handler is invoked with (isTimedOut, isRevoked) as `why` says.      *)
Invoke(why) ==
    /\ calls' = calls + 1
    /\ outcome' = IF outcome = "none" THEN why ELSE outcome
    /\ completedAt' = IF outcome = "none" THEN now ELSE completedAt

AckAwait(c) ==
    /\ phase = "building"
    /\ pending' = pending \cup {c}
    /\ awaited' = awaited \cup {c}
    /\ UNCHANGED <<phase, running, handler, timeout, timerJob, now,
                   completion, acked, promised>>

(* SetPowerState unlocks _apiLock: clients can reach the session.          *)
Publish ==
    /\ phase = "building"
    /\ phase' = "open"
    /\ UNCHANGED <<pending, running, handler, timeout, timerJob, now,
                   completion, history>>

(* Mutant of runHandler: the timer job survives, and so does _running.     *)
runHandlerStillRunning ==
    /\ UNCHANGED <<running, timerJob>>
    /\ Invoke("allAcked")

(* runHandler(false): the timer job is revoked, then the handler runs.     *)
runHandler ==
    /\ running' = FALSE
    /\ timerJob' = "done"
    /\ Invoke("allAcked")

(* Mutant of Ack: the transaction id is not compared.                      *)
AckAnyTransaction(c, t) ==
    /\ phase \in {"open", "scheduled"}
    /\ c \in pending
    /\ pending' = pending \ {c}
    /\ acked' = IF t = TransactionId THEN acked \cup {c} ELSE acked
    /\ IF pending' = {} /\ running
       THEN runHandler
       ELSE UNCHANGED <<running, timerJob, completion>>
    /\ UNCHANGED <<phase, handler, timeout, now, awaited, promised>>

(* Ack(clientId, transactionId); a wrong id or client changes nothing.     *)
Ack(c, t) ==
    /\ phase \in {"open", "scheduled"}
    /\ t = TransactionId
    /\ c \in pending
    /\ pending' = pending \ {c}
    /\ acked' = IF t = TransactionId THEN acked \cup {c} ELSE acked
    /\ IF pending' = {} /\ running
       THEN runHandler
       ELSE UNCHANGED <<running, timerJob, completion>>
    /\ UNCHANGED <<phase, handler, timeout, now, awaited, promised>>

(* Mutants of Schedule: sessions nobody acknowledges are armed too; the    *)
(* cached deadline is overwritten; the timer job is never submitted.       *)
ScheduleArmed(deadline, job) ==
    /\ phase = "open"
    /\ phase' = "scheduled"
    /\ running' = TRUE
    /\ handler' = TRUE
    /\ timeout' = deadline
    /\ timerJob' = job
    /\ UNCHANGED <<completion, pending, now, history>>

ScheduleWithoutImmediate(offset) ==
    /\ now + offset <= MaxTime
    /\ ScheduleArmed(Later(now + offset, timeout), "armed")

ScheduleForgetsCache(offset) ==
    /\ now + offset <= MaxTime
    /\ pending # {}
    /\ ScheduleArmed(now + offset, "armed")

ScheduleWithoutTimer(offset) ==
    /\ now + offset <= MaxTime
    /\ pending # {}
    /\ ScheduleArmed(Later(now + offset, timeout), timerJob)

Schedule(offset) ==
    /\ phase = "open"
    /\ now + offset <= MaxTime
    /\ phase' = "scheduled"
    /\ IF pending = {} \/ offset = 0
       THEN /\ Invoke("immediate")
            /\ UNCHANGED <<running, handler, timeout, timerJob>>
       ELSE /\ running' = TRUE
            /\ handler' = TRUE
            /\ timeout' = Later(now + offset, timeout)
            /\ timerJob' = "armed"
            /\ UNCHANGED completion
    /\ UNCHANGED <<pending, now, history>>

(* Mutant of the timer job: the flags of an acknowledged completion.       *)
TimerJobReportsAck ==
    /\ timerJob = "armed"
    /\ now >= timeout
    /\ timerJob' = "done"
    /\ IF running
       THEN running' = FALSE /\ Invoke("allAcked")
       ELSE UNCHANGED <<running, completion>>
    /\ UNCHANGED <<phase, pending, handler, timeout, now, history>>

(* The lambda given to the worker pool; it may be dispatched late, never   *)
(* early.                                                                  *)
TimerJob ==
    /\ timerJob = "armed"
    /\ now >= timeout
    /\ timerJob' = "done"
    /\ IF running
       THEN running' = FALSE /\ Invoke("timeout")
       ELSE UNCHANGED <<running, completion>>
    /\ UNCHANGED <<phase, pending, handler, timeout, now, history>>

(* Before Schedule, and after completion, Reschedule only caches the       *)
(* deadline and checks neither client nor transaction.                     *)
CacheTimeout(newTimeout) ==
    /\ ~running
    /\ timeout' = Later(timeout, newTimeout)

MoveTimer(c, t, newTimeout) ==
    /\ running
    /\ t = TransactionId
    /\ c \in pending
    /\ timeout' = IF newTimeout > timeout THEN newTimeout ELSE timeout

Reschedule(c, t, offset) ==
    /\ phase \in {"open", "scheduled"}
    /\ now + offset <= MaxTime
    /\ \/ CacheTimeout(now + offset)
       \/ MoveTimer(c, t, now + offset)
    /\ promised' = IF t = TransactionId /\ c \in pending /\ outcome = "none"
                   THEN Later(promised, now + offset) ELSE promised
    /\ UNCHANGED <<phase, pending, running, handler, timerJob, now,
                   completion, awaited, acked>>

(* The destructor; the owner only drops a session it has scheduled.        *)
revoke ==
    /\ phase = "scheduled"
    /\ phase' = "destroyed"
    /\ IF running
       THEN running' = FALSE /\ timerJob' = "done" /\ Invoke("revoked")
       ELSE UNCHANGED <<running, timerJob, completion>>
    /\ UNCHANGED <<pending, handler, timeout, now, history>>

Tick ==
    /\ now < MaxTime
    /\ now' = now + 1
    /\ UNCHANGED <<phase, pending, running, handler, timeout, timerJob,
                   completion, history>>

Next ==
    \/ \E c \in Clients : AckAwait(c)
    \/ Publish
    \/ \E c \in Clients, t \in TransactionIds : Ack(c, t)
    \/ \E d \in Offsets : Schedule(d)
    \/ TimerJob
    \/ \E c \in Clients, t \in TransactionIds, d \in Offsets :
           Reschedule(c, t, d)
    \/ revoke
    \/ Tick

Spec == Init /\ [][Next]_vars

(* The worker pool dispatches a due timer job, and time passes.            *)
FairSpec == Spec /\ WF_vars(TimerJob) /\ WF_vars(Tick)

-----------------------------------------------------------------------------
(* The completion handler is invoked at most once, whichever of the last   *)
(* acknowledgement, the timer and the destructor comes first.              *)
CompletesAtMostOnce == calls <= 1

(* A scheduled session is either still waiting for somebody, with its      *)
(* timer armed and its handler in place, or it has completed: neither a    *)
(* late acknowledgement nor an early one can leave it hanging.             *)
NeverLeftHanging ==
    phase = "scheduled" /\ calls = 0 =>
        running /\ handler /\ timerJob = "armed" /\ pending # {}

(* The timer job never finds the session stopped: the branch that logs     *)
(* "FATAL not expected to reach timeout, without timer running".           *)
TimerFindsItRunning == timerJob = "armed" => running

(* Completion "by acknowledgement" means that everybody awaited has        *)
(* acknowledged this very transaction.                                     *)
AckedMeansAll == outcome = "allAcked" => awaited \subseteq acked

(* A timeout is never declared before a deadline that an awaited client    *)
(* was granted, by Reschedule before or after Schedule.                    *)
DelaysAreHonoured == outcome = "timeout" => completedAt >= promised

(* Deadlines only move outwards.                                           *)
TimeoutOnlyGrows == [][timeout' >= timeout]_vars

(* Every scheduled session completes: the worker pool's timer covers       *)
(* clients that never acknowledge.                                         *)
EventuallyCompletes == (phase = "scheduled") ~> (calls > 0)

(* The session as module Completion sees it.                               *)
Abs == INSTANCE Completion WITH
           waiting <- pending,
           armed <- phase \in {"scheduled", "destroyed"},
           result <- outcome

(* What the comments of the destructor ("The completion handler will not   *)
(* be called.") and of revoke say: dropping a session runs no handler.  It *)
(* does not hold, revoke invokes it with isRevoked as Schedule's comment   *)
(* announces.                                                              *)
NotCalledOnceDestroyed ==
    phase = "destroyed" => outcome # "revoked"

(* Every behaviour of the class is one the comment of Schedule promises: a *)
(* single completion, for exactly one of the reasons it lists, of which    *)
(* "revoked" is one.                                                       *)
ImplementsCompletion == Abs!AbsSpec

(* How the parts of a session hang together; with TypeOK it is inductive.  *)
CallsMatchOutcome == calls = (IF outcome = "none" THEN 0 ELSE 1)

TimerMatchesRunning == timerJob = "armed" <=> running

NotYetScheduled ==
    phase \in {"building", "open"} =>
        ~running /\ outcome = "none" /\ ~handler

WaitingForSomebody ==
    running => phase = "scheduled" /\ handler /\ pending # {}
                 /\ outcome = "none"

StoppedMeansCompleted ==
    phase \in {"scheduled", "destroyed"} /\ ~running => outcome # "none"

Bookkeeping ==
    /\ phase = "building" => acked = {}
    /\ acked \subseteq awaited
    /\ pending = awaited \ acked
    /\ promised <= timeout

Session ==
    /\ TypeOK
    /\ CallsMatchOutcome
    /\ TimerMatchesRunning
    /\ NotYetScheduled
    /\ WaitingForSomebody
    /\ StoppedMeansCompleted
    /\ Bookkeeping
    /\ AckedMeansAll
    /\ DelaysAreHonoured
=============================================================================
