------------------------------ MODULE DeepSleep ------------------------------
(***************************************************************************)
(* DeepSleepController and its owner's side of it: SetPowerState submits   *)
(* an activation job when the device enters deep sleep and deactivates     *)
(* when it leaves; the job puts the SoC to sleep, now or after a delay,    *)
(* and calls SetPowerState when it comes back.  Jobs run on the worker     *)
(* pool, several at a time.  SetPowerState itself is one step here (no     *)
(* pre-change client is registered); module PowerModeChange splits it.     *)
(***************************************************************************)
EXTENDS Naturals

CONSTANTS MaxJobs,     \* bound on activations
          MaxRequests, \* bound on calls of SetPowerState by users
          MaxRetries   \* retryCount of enterDeepSleepNow

ASSUME BoundsAssumption ==
    MaxJobs \in Nat \ {0} /\ MaxRequests \in Nat /\ MaxRetries \in Nat \ {0}

Jobs == 1..MaxJobs

States == {"ON", "LIGHT", "DEEP"}

VARIABLES power,       \* the power state of PowerController
          asked,       \* state of _modeChangeController, "none" if unset
          dsState,     \* _deepSleepState
          young,       \* Elapsed() < kTransientDeepsleepThresholdSec
          delaySet,    \* _deepSleepDelaySec # 0
          delayJob,    \* _deepSleepDelayJob, 0 if not valid
          job,         \* the activations: jobs of the worker pool
          submitted,   \* activations submitted so far
          requests,    \* calls of SetPowerState by users so far
          stuck        \* a caller of Deactivate waits for a dispatched job

vars == <<power, asked, dsState, young, delaySet, delayJob, job,
          submitted, requests, stuck>>

(* pc of an activation: queued in the pool; in enterDeepSleepNow; delayed, *)
(* dispatched or revoked as delay job; back from sleep; given up.          *)
NoJob == [pc |-> "none", tries |-> 0]

JobPcs == {"none", "queued", "attempt", "delayed", "dispatched", "userWakeup",
           "timerWakeup", "failed", "done"}

TypeOK ==
    /\ power \in States
    /\ asked \in States \cup {"none"}
    /\ dsState \in {"Failed", "NotStarted", "InProgress", "Completed"}
    /\ {young, delaySet, stuck} \subseteq BOOLEAN
    /\ delayJob \in 0..MaxJobs
    /\ job \in [Jobs -> [pc : JobPcs, tries : 0..MaxRetries]]
    /\ submitted \in 0..MaxJobs
    /\ requests \in 0..MaxRequests

Init ==
    /\ power = "ON"
    /\ asked = "none"
    /\ dsState = "NotStarted"
    /\ young = TRUE
    /\ delaySet = FALSE
    /\ delayJob = 0
    /\ job = [j \in Jobs |-> NoJob]
    /\ submitted = 0
    /\ requests = 0
    /\ stuck = FALSE

-----------------------------------------------------------------------------
IsDeepSleepInProgress == dsState = "InProgress"

(* Deactivate: the delay job is revoked, jobs already queued or running    *)
(* are not.  Revoke waits for a job that is being dispatched, which in     *)
(* turn will wait for the caller's selfLock.                               *)
Deactivate(js) ==
    /\ dsState' = "NotStarted"
    /\ delayJob' = 0
    /\ stuck' = (delayJob # 0 /\ js[delayJob].pc = "dispatched")
    /\ job' = [j \in Jobs |-> IF j = delayJob /\ js[j].pc = "delayed"
                              THEN [js[j] EXCEPT !.pc = "done"] ELSE js[j]]

(* ActivateDeepSleep queues a job.                                         *)
Activate(js) ==
    /\ submitted' = submitted + 1
    /\ job' = [js EXCEPT ![submitted + 1] =
                    [pc |-> "queued", tries |-> 0]]
    /\ UNCHANGED <<dsState, delayJob, stuck>>

(* The requests SetPowerState returns from without doing anything.         *)
Ignored(p) ==
    power = p \/ (power = "DEEP" /\ IsDeepSleepInProgress /\ young)

(* What a request does to the jobs before it opens a session: leaving deep *)
(* sleep deactivates, whatever comes of the session.                       *)
Prepare(js) ==
    IF power = "DEEP"
    THEN Deactivate(js)
    ELSE job' = js /\ UNCHANGED <<dsState, delayJob, stuck>>

(* A session for p, which is not opened when the last one was for p too.   *)
(* Its handler sets the platform, which may refuse: the session then stays *)
(* in place.                                                               *)
SetPowerState(p, js) ==
    \/ /\ Ignored(p)
       /\ job' = js
       /\ UNCHANGED <<power, asked, dsState, delayJob, submitted, stuck>>
    \/ /\ ~Ignored(p)
       /\ asked = p
       /\ Prepare(js)
       /\ UNCHANGED <<power, asked, submitted>>
    \/ /\ ~Ignored(p)
       /\ asked # p
       /\ asked' = p
       /\ \/ /\ p # "DEEP"
             /\ power' = p
             /\ Prepare(js)
             /\ UNCHANGED submitted
          \/ /\ p = "DEEP"
             /\ power' = p
             /\ Activate(js)
          \/ /\ Prepare(js)
             /\ UNCHANGED <<power, submitted>>

UserRequest(p) ==
    /\ ~stuck
    /\ requests < MaxRequests
    /\ p = "DEEP" => submitted < MaxJobs
    /\ requests' = requests + 1
    /\ SetPowerState(p, job)
    /\ UNCHANGED <<young, delaySet>>

(* The first seconds after the latch are over.                             *)
Settle ==
    /\ young
    /\ IsDeepSleepInProgress
    /\ young' = FALSE
    /\ UNCHANGED <<power, asked, dsState, delaySet, delayJob, job,
                   submitted, requests, stuck>>

-----------------------------------------------------------------------------
(* performActivate; /tmp/deepSleepTimer may ask for a delay, which sticks. *)
performActivate(j) ==
    /\ job[j].pc = "queued"
    /\ IF IsDeepSleepInProgress
       THEN /\ job' = [job EXCEPT ![j].pc = "done"]
            /\ UNCHANGED <<dsState, young, delaySet, delayJob>>
       ELSE /\ dsState' = "InProgress"
            /\ young' = TRUE
            /\ delaySet' \in {delaySet, TRUE}
            /\ IF delaySet'
               THEN /\ job' = [job EXCEPT ![j].pc = "delayed",
                                          ![j].tries = 1]
                    /\ delayJob' = j
               ELSE /\ job' = [job EXCEPT ![j].pc = "attempt",
                                          ![j].tries = MaxRetries]
                    /\ UNCHANGED delayJob
    /\ UNCHANGED <<power, asked, submitted, requests, stuck>>

DelayExpires(j) ==
    /\ job[j].pc = "delayed"
    /\ job' = [job EXCEPT ![j].pc = "dispatched"]
    /\ UNCHANGED <<power, asked, dsState, young, delaySet, delayJob,
                   submitted, requests, stuck>>

(* enterDeepSleepDelayed drops the controller's reference, whichever job   *)
(* it refers to, and tries once.                                           *)
enterDeepSleepDelayed(j) ==
    /\ job[j].pc = "dispatched"
    /\ job' = [job EXCEPT ![j].pc = "attempt"]
    /\ delayJob' = 0
    /\ UNCHANGED <<power, asked, dsState, young, delaySet, submitted,
                   requests, stuck>>

(* platform().SetDeepSleep returns when the SoC wakes up, ...              *)
SetDeepSleep(j) ==
    /\ job[j].pc = "attempt"
    /\ dsState' = "Completed"
    /\ \E wakeup \in {"userWakeup", "timerWakeup"} :
           job' = [job EXCEPT ![j].pc = wakeup]
    /\ UNCHANGED <<power, asked, young, delaySet, delayJob, submitted,
                   requests, stuck>>

(* Mutant of SetDeepSleepFails: the state is left as it is.                *)
SetDeepSleepFailsSilently(j) ==
    /\ job[j].pc = "attempt"
    /\ job' = [job EXCEPT ![j].tries = @ - 1,
                          ![j].pc = IF job[j].tries = 1 THEN "failed" ELSE @]
    /\ UNCHANGED <<power, asked, dsState, young, delaySet, delayJob,
                   submitted, requests, stuck>>

(* ... or at once with an error; the next try follows five seconds later.  *)
SetDeepSleepFails(j) ==
    /\ job[j].pc = "attempt"
    /\ dsState' = "Failed"
    /\ job' = [job EXCEPT ![j] =
                    [pc |-> IF @.tries = 1 THEN "failed" ELSE "attempt",
                     tries |-> @.tries - 1]]
    /\ UNCHANGED <<power, asked, young, delaySet, delayJob, submitted,
                   requests, stuck>>

(* onDeepSleepUserWakeup, onDeepSleepTimerWakeup, onDeepSleepFailed.       *)
WakeupState(pc) == IF pc = "timerWakeup" THEN "LIGHT" ELSE "ON"

(* Mutant of onDeepSleepEnds: nothing happens when the last try failed.    *)
onDeepSleepEndsIfSlept(j) ==
    /\ ~stuck
    /\ job[j].pc \in {"userWakeup", "timerWakeup"}
    /\ SetPowerState(WakeupState(job[j].pc), [job EXCEPT ![j].pc = "done"])
    /\ UNCHANGED <<young, delaySet, requests>>

onDeepSleepEnds(j) ==
    /\ ~stuck
    /\ job[j].pc \in {"userWakeup", "timerWakeup", "failed"}
    /\ SetPowerState(WakeupState(job[j].pc), [job EXCEPT ![j].pc = "done"])
    /\ UNCHANGED <<young, delaySet, requests>>

JobStep(j) ==
    \/ performActivate(j) \/ DelayExpires(j) \/ enterDeepSleepDelayed(j)
    \/ SetDeepSleep(j) \/ SetDeepSleepFails(j) \/ onDeepSleepEnds(j)

Next ==
    \/ \E p \in States : UserRequest(p)
    \/ Settle
    \/ \E j \in Jobs : JobStep(j)

Spec == Init /\ [][Next]_vars

(* The worker pool runs its jobs, and time passes.                         *)
FairSpec == Spec /\ WF_vars(Settle) /\ \A j \in Jobs : WF_vars(JobStep(j))

-----------------------------------------------------------------------------
(* A request is only ignored while an activation is really on its way: no  *)
(* interleaving of activations leaves "in progress" behind.                *)
InProgressIsReal ==
    IsDeepSleepInProgress =>
        \E j \in Jobs : job[j].pc \in {"attempt", "delayed", "dispatched"}

(* The delay job the controller can revoke is one that has not yet run.    *)
DelayJobIsPending ==
    delayJob # 0 => job[delayJob].pc \in {"delayed", "dispatched"}

(* The controller's idea of an activation is true: what it calls in        *)
(* progress is on its way, and what it can revoke has not run.             *)
ActivationIsReal == TypeOK /\ InProgressIsReal /\ DelayJobIsPending

(* The platform refused the state that the last session was opened for.    *)
Refused == asked # "none" /\ asked # power

(* A device in deep sleep does not stay there for ever: every activation,  *)
(* also one that fails, is dropped or is overtaken, ends with a request to *)
(* leave deep sleep that is not ignored.  Two things can keep it there:    *)
(* Deactivate stuck behind the delay job, and a wake-up that the platform  *)
(* refused, which nobody tries again.                                      *)
LeavesDeepSleep == power = "DEEP" ~> (power # "DEEP" \/ stuck \/ Refused)

(* SetPowerState and Deactivate: once the device has been woken up by a    *)
(* request the SoC is not put to sleep.                                    *)
SleepsOnlyInDeepSleep ==
    [][\A j \in Jobs : SetDeepSleep(j) => power = "DEEP"]_vars
=============================================================================
