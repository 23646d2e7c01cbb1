-------------------------- MODULE DeepSleepProofs --------------------------
(***************************************************************************)
(* ActivationIsReal for every number of activations, requests and retries. *)
(***************************************************************************)
EXTENDS DeepSleep, TLAPS

USE BoundsAssumption

OnItsWay == {"attempt", "delayed", "dispatched"}

(* What ActivationIsReal needs beside itself: jobs not yet submitted are   *)
(* untouched, so that a new activation overwrites none that is on its way; *)
(* and an activation on its way has a try left, so that the count of tries *)
(* never passes zero.                                                      *)
FreshAreUnused == \A j \in Jobs : j > submitted => job[j].pc = "none"

TriesAreLeft == \A j \in Jobs : job[j].pc \in OnItsWay => job[j].tries > 0

Inv == ActivationIsReal /\ FreshAreUnused /\ TriesAreLeft

(* The parts of Inv that speak of the jobs, for a table js of jobs that a  *)
(* step hands to SetPowerState.                                            *)
JobsAreSound(js, d, n) ==
    /\ js \in [Jobs -> [pc : JobPcs, tries : 0..MaxRetries]]
    /\ d # 0 => js[d].pc \in {"delayed", "dispatched"}
    /\ \A j \in Jobs : j > n => js[j].pc = "none"
    /\ \A j \in Jobs : js[j].pc \in OnItsWay => js[j].tries > 0

(* SetPowerState, whoever calls it, keeps the invariant: it deactivates    *)
(* when it leaves deep sleep and submits one job when it enters it.        *)
LEMMA SetPowerStateKeepsInv ==
    ASSUME Inv, NEW p \in States, NEW js, JobsAreSound(js, delayJob, submitted),
           \A j \in Jobs : job[j].pc \in OnItsWay => js[j] = job[j],
           p = "DEEP" => submitted < MaxJobs,
           SetPowerState(p, js)
    PROVE  /\ power' \in States /\ asked' \in States \cup {"none"}
           /\ submitted' \in 0..MaxJobs
           /\ delayJob' \in 0..MaxJobs /\ stuck' \in BOOLEAN
           /\ dsState' \in {dsState, "NotStarted"}
           /\ dsState' = "InProgress" => \E j \in Jobs : job'[j].pc \in OnItsWay
           /\ JobsAreSound(job', delayJob', submitted')
<1> USE DEF Inv, ActivationIsReal, TypeOK, JobsAreSound, Jobs
<1>1. CASE /\ job' = js
           /\ UNCHANGED <<dsState, delayJob, submitted, stuck>>
           /\ power' \in {power, p} /\ asked' \in {asked, p}
  BY <1>1 DEF InProgressIsReal, IsDeepSleepInProgress, OnItsWay
<1>2. CASE /\ Deactivate(js) /\ UNCHANGED submitted
           /\ power' \in {power, p} /\ asked' \in {asked, p}
  <2>1. /\ dsState' = "NotStarted" /\ delayJob' = 0 /\ stuck' \in BOOLEAN
        /\ job' \in [Jobs -> [pc : JobPcs, tries : 0..MaxRetries]]
    <3>1. \A j \in Jobs : [js[j] EXCEPT !.pc = "done"] \in [pc : JobPcs, tries : 0..MaxRetries]
      BY DEF JobPcs
    <3>2. stuck' \in BOOLEAN
      BY <1>2, Zenon DEF Deactivate
    <3> QED
      BY <1>2, <3>1, <3>2 DEF Deactivate
  <2>2. ASSUME NEW j \in Jobs
        PROVE  job'[j] = js[j] \/ (js[j].pc = "delayed" /\ job'[j].pc = "done")
    BY <1>2 DEF Deactivate
  <2>3. \A j \in Jobs : j > submitted' => job'[j].pc = "none"
    BY <1>2, <2>2
  <2>4. \A j \in Jobs : job'[j].pc \in OnItsWay => job'[j].tries > 0
    BY <2>2 DEF OnItsWay
  <2> QED
    BY <1>2, <2>1, <2>3, <2>4
<1>3. CASE power' = p /\ asked' = p /\ p = "DEEP" /\ Activate(js)
  <2> DEFINE n == submitted + 1
  <2>1. n \in Jobs /\ js[n].pc = "none" /\ delayJob # n
    BY <1>3
  <2>2. job' = [js EXCEPT ![n] = [pc |-> "queued", tries |-> 0]]
        /\ submitted' = n /\ UNCHANGED <<dsState, delayJob, stuck>>
    BY <1>3 DEF Activate
  <2>3. job' \in [Jobs -> [pc : JobPcs, tries : 0..MaxRetries]]
    BY <2>1, <2>2 DEF JobPcs
  <2>4. \A j \in Jobs : j # n => job'[j] = js[j]
    BY <2>1, <2>2
  <2>5. job'[n].pc = "queued"
    BY <2>1, <2>2
  <2>6. dsState = "InProgress" => \E j \in Jobs : js[j].pc \in OnItsWay
    BY DEF InProgressIsReal, IsDeepSleepInProgress, OnItsWay
  <2> HIDE DEF n
  <2>7. dsState' = "InProgress" => \E j \in Jobs : job'[j].pc \in OnItsWay
    BY <2>1, <2>2, <2>4, <2>6 DEF OnItsWay
  <2>8. JobsAreSound(job', delayJob', submitted')
    BY <2>1, <2>2, <2>3, <2>4, <2>5 DEF OnItsWay, n
  <2> QED
    BY <1>3, <2>1, <2>2, <2>7, <2>8
<1> QED
  BY <1>1, <1>2, <1>3 DEF SetPowerState, Prepare

(* Nothing has been submitted when the plugin starts.                      *)
LEMMA InitInv == Init => Inv
<1> SUFFICES ASSUME Init PROVE Inv
  OBVIOUS
<1>1. {young, delaySet, stuck} \subseteq BOOLEAN
  BY DEF Init
<1>2. job \in [Jobs -> [pc : JobPcs, tries : 0..MaxRetries]]
  BY DEF Init, NoJob, JobPcs
<1>3. \A j \in Jobs : job[j].pc = "none"
  BY DEF Init, NoJob
<1> QED
  BY <1>1, <1>2, <1>3
     DEF Init, Inv, ActivationIsReal, TypeOK, InProgressIsReal, DelayJobIsPending,
         FreshAreUnused, TriesAreLeft, IsDeepSleepInProgress, States, OnItsWay

(* A step of job j alone keeps the invariant if it ends with a try left or *)
(* off its way, with "in progress" only if it was before or j is on its    *)
(* way, and with the delay job, if it is j, still to run.                  *)
LEMMA OneJobMoves ==
    ASSUME Inv, NEW j \in Jobs, job[j].pc # "none",
           job' \in [Jobs -> [pc : JobPcs, tries : 0..MaxRetries]],
           \A i \in Jobs \ {j} : job'[i] = job[i],
           job'[j].pc \in OnItsWay => job'[j].tries > 0,
           {young', delaySet', stuck'} \subseteq BOOLEAN,
           dsState' \in {"Failed", "NotStarted", "InProgress", "Completed"},
           dsState' = "InProgress" => \/ job'[j].pc \in OnItsWay
                                      \/ dsState = "InProgress" /\ job[j].pc \notin OnItsWay,
           \/ delayJob' = 0
           \/ delayJob' = delayJob /\ job[j].pc \notin {"delayed", "dispatched"}
           \/ delayJob' \in {j, delayJob} /\ job'[j].pc \in {"delayed", "dispatched"},
           UNCHANGED <<power, asked, submitted, requests>>
    PROVE  Inv'
<1> USE DEF Inv, ActivationIsReal, TypeOK
<1>1. TypeOK'
  BY DEF Jobs
<1>2. InProgressIsReal'
  BY DEF InProgressIsReal, IsDeepSleepInProgress, OnItsWay
<1>3. DelayJobIsPending'
  <2> SUFFICES ASSUME delayJob' # 0 PROVE job'[delayJob'].pc \in {"delayed", "dispatched"}
    BY DEF DelayJobIsPending
  <2>1. CASE delayJob' = delayJob /\ delayJob # j
    <3>1. delayJob \in Jobs \ {j}
      BY <2>1 DEF Jobs
    <3> QED
      BY <2>1, <3>1 DEF DelayJobIsPending
  <2>2. CASE delayJob' = j
    BY <2>2 DEF DelayJobIsPending
  <2> QED
    BY <2>1, <2>2
<1>4. FreshAreUnused' /\ TriesAreLeft'
  BY DEF FreshAreUnused, TriesAreLeft
<1> QED
  BY <1>1, <1>2, <1>3, <1>4

(* Every request and every step of a job preserves the invariant.          *)
LEMMA NextInv == Inv /\ [Next]_vars => Inv'
<1> SUFFICES ASSUME Inv, [Next]_vars PROVE Inv'
  OBVIOUS
<1>0. JobsAreSound(job, delayJob, submitted)
  BY DEF Inv, ActivationIsReal, TypeOK, DelayJobIsPending, FreshAreUnused,
         TriesAreLeft, JobsAreSound
<1> USE DEF Inv, ActivationIsReal, TypeOK, InProgressIsReal, DelayJobIsPending,
            FreshAreUnused, TriesAreLeft, IsDeepSleepInProgress
<1>1. ASSUME NEW p \in States, UserRequest(p) PROVE Inv'
  <2>1. SetPowerState(p, job) /\ (p = "DEEP" => submitted < MaxJobs)
    BY <1>1 DEF UserRequest
  <2>2. requests' \in 0..MaxRequests /\ UNCHANGED <<young, delaySet>>
    BY <1>1 DEF UserRequest
  <2> QED
    BY <1>0, <2>1, <2>2, SetPowerStateKeepsInv DEF JobsAreSound, OnItsWay
<1>2. CASE Settle
  BY <1>2 DEF Settle
<1>3. ASSUME NEW j \in Jobs, performActivate(j) PROVE Inv'
  <2>0. job[j].pc = "queued" /\ UNCHANGED <<power, asked, submitted, requests, stuck>>
    BY <1>3 DEF performActivate
  <2>1. CASE IsDeepSleepInProgress
    <3>1. job' = [job EXCEPT ![j].pc = "done"]
          /\ UNCHANGED <<dsState, young, delaySet, delayJob>>
      BY <1>3, <2>1 DEF performActivate
    <3> QED
      BY <2>0, <3>1, OneJobMoves DEF OnItsWay, JobPcs
  <2>2. CASE ~IsDeepSleepInProgress
    <3>1. \/ /\ job' = [job EXCEPT ![j].pc = "delayed", ![j].tries = 1]
             /\ delayJob' = j
          \/ /\ job' = [job EXCEPT ![j].pc = "attempt", ![j].tries = MaxRetries]
             /\ delayJob' = delayJob
      BY <1>3, <2>2 DEF performActivate
    <3>2. /\ job' \in [Jobs -> [pc : JobPcs, tries : 0..MaxRetries]]
          /\ \A i \in Jobs \ {j} : job'[i] = job[i]
          /\ job'[j].tries > 0 /\ job'[j].pc \in {"delayed", "attempt"}
      BY <3>1 DEF JobPcs
    <3>3. delayJob' = delayJob \/ (delayJob' = j /\ job'[j].pc = "delayed")
      BY <3>1
    <3>4. {young', delaySet', stuck'} \subseteq BOOLEAN /\ dsState' = "InProgress"
      BY <1>3, <2>2 DEF performActivate
    <3> QED
      BY <2>0, <3>2, <3>3, <3>4, OneJobMoves DEF OnItsWay
  <2> QED
    BY <2>1, <2>2
<1>4. ASSUME NEW j \in Jobs, DelayExpires(j) PROVE Inv'
  BY <1>4, OneJobMoves DEF DelayExpires, JobPcs, OnItsWay
<1>5. ASSUME NEW j \in Jobs, enterDeepSleepDelayed(j) PROVE Inv'
  BY <1>5, OneJobMoves DEF enterDeepSleepDelayed, JobPcs, OnItsWay
<1>6. ASSUME NEW j \in Jobs, SetDeepSleep(j) PROVE Inv'
  BY <1>6, OneJobMoves DEF SetDeepSleep, JobPcs, OnItsWay
<1>7. ASSUME NEW j \in Jobs, SetDeepSleepFails(j) PROVE Inv'
  <2>1. job[j].pc = "attempt" /\ job[j].tries > 0
    BY <1>7 DEF SetDeepSleepFails, OnItsWay
  <2> DEFINE left == job[j].tries - 1
             next == IF job[j].tries = 1 THEN "failed" ELSE "attempt"
  <2>2. job' = [job EXCEPT ![j] = [pc |-> next, tries |-> left]]
    BY <1>7 DEF SetDeepSleepFails
  <2>3. left \in 0..MaxRetries /\ (left > 0 \/ next = "failed")
    BY <2>1
  <2>4. next \in {"attempt", "failed"}
    OBVIOUS
  <2> HIDE DEF left, next
  <2>5. /\ job' \in [Jobs -> [pc : JobPcs, tries : 0..MaxRetries]]
        /\ job'[j].pc = next /\ job'[j].tries = left
        /\ \A i \in Jobs \ {j} : job'[i] = job[i]
    BY <2>2, <2>3, <2>4 DEF JobPcs
  <2> QED
    BY <1>7, <2>1, <2>3, <2>4, <2>5, OneJobMoves DEF SetDeepSleepFails, OnItsWay
<1>8. ASSUME NEW j \in Jobs, onDeepSleepEnds(j) PROVE Inv'
  <2> DEFINE js == [job EXCEPT ![j].pc = "done"]
  <2>1. /\ SetPowerState(WakeupState(job[j].pc), js)
        /\ job[j].pc \notin OnItsWay
        /\ UNCHANGED <<young, delaySet, requests>>
    BY <1>8 DEF onDeepSleepEnds, OnItsWay
  <2>2. WakeupState(job[j].pc) \in States \ {"DEEP"}
    BY DEF WakeupState, States
  <2>3. js \in [Jobs -> [pc : JobPcs, tries : 0..MaxRetries]]
    BY DEF JobPcs
  <2>4. js[j].pc = "done" /\ \A i \in Jobs : i # j => js[i] = job[i]
    BY <2>3
  <2> HIDE DEF js
  <2>5. JobsAreSound(js, delayJob, submitted)
    <3>1. job[j].pc \in {"userWakeup", "timerWakeup", "failed"}
      BY <1>8 DEF onDeepSleepEnds
    <3>2. delayJob # 0 => delayJob \in Jobs /\ delayJob # j
      BY <1>0, <3>1 DEF JobsAreSound, Jobs
    <3> QED
      BY <1>0, <2>3, <2>4, <3>1, <3>2 DEF JobsAreSound, OnItsWay
  <2>6. \A i \in Jobs : job[i].pc \in OnItsWay => js[i] = job[i]
    BY <2>1, <2>4
  <2> QED
    BY <2>1, <2>2, <2>5, <2>6, SetPowerStateKeepsInv DEF JobsAreSound, OnItsWay
<1>9. CASE UNCHANGED vars
  BY <1>9 DEF vars
<1> QED
  BY <1>1, <1>2, <1>3, <1>4, <1>5, <1>6, <1>7, <1>8, <1>9 DEF Next, JobStep

(* What the controller calls in progress is on its way and what it can     *)
(* revoke has not run (performActivate, Deactivate, enterDeepSleepDelayed),*)
(* for every number of activations, retries and requests.                  *)
THEOREM ActivationsAreReal == Spec => []ActivationIsReal
<1>1. Inv => ActivationIsReal
  BY DEF Inv
<1> QED
  BY InitInv, NextInv, <1>1, PTL DEF Spec
=============================================================================
