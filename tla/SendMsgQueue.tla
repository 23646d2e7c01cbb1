--------------------------- MODULE SendMsgQueue ---------------------------
(***************************************************************************)
(* DisplaySettings: the thread that sends the queued requests to           *)
(* HdmiCecSink, from Initialize to Deinitialize.  The handlers that queue  *)
(* a request (module ArcRouting) are the callers of sendMsgToQueue here.   *)
(* The thread tests the queue and clears m_sendMsgThreadRun without the    *)
(* mutex that a push takes, so the two are steps of their own.  Its pop    *)
(* takes no mutex either: a push that meets it is a data race on one       *)
(* std::queue, after which either may have been lost, or the process ends. *)
(***************************************************************************)
EXTENDS Naturals, Sequences

CONSTANTS Messages,  \* msg_t
          MaxSleeps, \* how often Deinitialize sleeps for the audio ports (20)
          MaxCalls

VARIABLES
  queue,      \* m_sendMsgQueue
  run,        \* m_sendMsgThreadRun
  exit,       \* m_sendMsgThreadExit
  thread,     \* none, top, waiting, woken, reset (found it empty), sending, sent,
              \* popping, ended
  stage,      \* new, up, ports (Deinitialize waits for the worker), join, stop, down,
              \* crashed
  slept,      \* count of Deinitialize
  worker,     \* initAudioPortsWorker: none, created, active
  handlers,   \* _registeredEventHandlers, _registeredDsEventHandlers
  powerState, \* m_powerState
  client,     \* m_client # nullptr
  result,     \* of the last request
  raced,      \* history: the last push came between the empty test and the reset
  torn,       \* history: a push has met a pop
  calls

vars == <<queue, run, exit, thread, stage, slept, worker, handlers, powerState, client, result, raced, torn, calls>>

(* The constructor; it leaves m_sendMsgThreadRun as it finds it. *)
Init == /\ queue = <<>> /\ run \in BOOLEAN /\ exit = FALSE
        /\ thread = "none" /\ stage = "new" /\ slept = 0 /\ worker = "none"
        /\ handlers = {} /\ powerState = "UNKNOWN" /\ client = FALSE
        /\ result = TRUE /\ raced = FALSE /\ torn = FALSE /\ calls = 0

Queue == <<queue, run, exit, thread, raced, torn>>
Plugin == <<stage, slept, worker, handlers, powerState>>
Call == stage = "up" /\ calls < MaxCalls /\ calls' = calls + 1

-----------------------------------------------------------------------------
(* Requests to HdmiCecSink.  Another plugin's state, and what it answers,  *)
(* are external: with the plugin down there is no call and no client.      *)
getServiceState == {"ACTIVATED", "other"}
getHdmiCecSinkPlugin == client' = TRUE

InvokeCec == \/ "ACTIVATED" \in getServiceState /\ getHdmiCecSinkPlugin /\ result' \in BOOLEAN
             \/ "other" \in getServiceState /\ UNCHANGED client /\ result' = FALSE

setUpHdmiCecSinkArcRouting == InvokeCec
sendHdmiCecSinkAudioDevicePowerOn == InvokeCec
requestShortAudioDescriptor == InvokeCec
requestAudioDevicePowerStatus == InvokeCec
requestDeviceAudioStatus == InvokeCec
sendUserControlPressCommand == InvokeCec

(* The switch of sendMsgThread; a message it does not know keeps the last  *)
(* result.                                                                 *)
Send(msg) ==
  CASE msg = "POWERON" -> sendHdmiCecSinkAudioDevicePowerOn
    [] msg = "SAD" -> requestShortAudioDescriptor
    [] msg = "POWER_STATUS" -> requestAudioDevicePowerStatus
    [] msg = "MUTE_KEY" -> sendUserControlPressCommand
    [] msg = "AUDIO_STATUS" -> requestDeviceAudioStatus
    [] msg \in {"ARC_INITIATION", "ARC_TERMINATION"} -> setUpHdmiCecSinkArcRouting
    [] OTHER -> UNCHANGED <<client, result>>

(* Two questions that handlers ask themselves. *)
getHdmiCecSinkCecEnableStatus == Call /\ InvokeCec /\ UNCHANGED <<Queue, Plugin>>
getHdmiCecSinkAudioDeviceConnectedStatus == Call /\ InvokeCec /\ UNCHANGED <<Queue, Plugin>>

sendMsgToQueue(msg) ==
  /\ Call /\ run' = TRUE /\ raced' = (thread = "reset")
  /\ torn' = (torn \/ thread = "popping")
  /\ queue' \in {Append(queue, msg)} \cup (IF torn' THEN {queue} ELSE {})
  /\ UNCHANGED <<exit, thread, Plugin, client, result>>

(* The other outcome of the data race: the process ends. *)
QueueBreaks ==
  /\ Call /\ thread = "popping" /\ torn' = TRUE
  /\ stage' = "crashed" /\ thread' = "none" /\ worker' = "none"
  /\ UNCHANGED <<queue, run, exit, raced, slept, handlers, powerState, client, result>>

-----------------------------------------------------------------------------
(* sendMsgThread *)
TestExit == /\ thread = "top"
            /\ thread' = IF exit THEN "ended" ELSE "waiting"
            /\ UNCHANGED <<queue, run, exit, raced, torn, Plugin, client, result, calls>>

Wake == /\ thread = "waiting" /\ run /\ thread' = "woken"
        /\ UNCHANGED <<queue, run, exit, raced, torn, Plugin, client, result, calls>>

Look == /\ thread = "woken"
        /\ thread' = IF exit THEN "ended" ELSE IF queue = <<>> THEN "reset" ELSE "sending"
        /\ run' = IF exit THEN FALSE ELSE run
        /\ UNCHANGED <<queue, exit, raced, torn, Plugin, client, result, calls>>

Reset == /\ thread = "reset" /\ thread' = "top" /\ run' = FALSE
         /\ UNCHANGED <<queue, exit, raced, torn, Plugin, client, result, calls>>

SendFront == /\ thread = "sending" /\ thread' = "sent" /\ Send(Head(queue))
             /\ UNCHANGED <<queue, run, exit, raced, torn, Plugin, calls>>

PopFront == /\ thread = "sent" /\ thread' = "popping"
            /\ UNCHANGED <<queue, run, exit, raced, torn, Plugin, client, result, calls>>

(* The queue after a pop that a push may have met. *)
Rest == {Tail(queue)} \cup (IF torn THEN {queue} ELSE {})

(* as Popped, but the thread goes to sleep after each message *)
PopAndSleep == /\ thread = "popping" /\ thread' = "top" /\ queue' \in Rest /\ run' = FALSE
               /\ UNCHANGED <<exit, raced, torn, Plugin, client, result, calls>>

Popped == /\ thread = "popping" /\ thread' = "top" /\ queue' \in Rest
          /\ UNCHANGED <<run, exit, raced, torn, Plugin, client, result, calls>>

Thread == TestExit \/ Wake \/ Look \/ Reset \/ SendFront \/ PopFront \/ Popped

-----------------------------------------------------------------------------
(* Life of the plugin *)
registerEventHandlers(reachable) == IF reachable THEN {"power"} ELSE {}
registerDsEventHandlers(manager) == IF manager THEN {"ds"} ELSE {}

(* GetPowerState of the PowerManager plugin, which may not answer. *)
getSystemPowerState == powerState' \in {"ON", "STANDBY", powerState}

InitializePowerManager(reachable) ==
  IF reachable THEN getSystemPowerState ELSE UNCHANGED powerState

(* Initialize goes on without the thread when it cannot be made. *)
Initialize ==
  /\ stage = "new" /\ stage' = "up" /\ thread' \in {"top", "none"}
  /\ \E reachable, manager \in BOOLEAN :
       /\ InitializePowerManager(reachable)
       /\ handlers' = registerEventHandlers(reachable) \cup registerDsEventHandlers(manager)
  /\ UNCHANGED <<queue, run, exit, raced, torn, slept, worker, client, result, calls>>

(* Power-on starts the detached worker; its flag is set by the worker.     *)
onPowerModeChanged(new) ==
  /\ Call /\ "power" \in handlers /\ worker = "none" /\ powerState' = new
  /\ worker' = IF new = "ON" THEN "created" ELSE worker
  /\ UNCHANGED <<Queue, stage, slept, handlers, client, result>>

WorkerStarts == worker = "created" /\ stage # "down" /\ worker' = "active"
                /\ UNCHANGED <<Queue, stage, slept, handlers, powerState, client, result, calls>>
WorkerEnds == worker = "active" /\ worker' = "none"
              /\ UNCHANGED <<Queue, stage, slept, handlers, powerState, client, result, calls>>

(* as Deinitialize, but the thread is not woken *)
DeinitializeQuietly ==
  /\ stage = "up" /\ stage' = "ports" /\ exit' = TRUE /\ handlers' = handlers \ {"power"}
  /\ UNCHANGED <<queue, run, thread, raced, torn, slept, worker, powerState, client, result, calls>>

Deinitialize ==
  /\ stage = "up" /\ stage' = "ports" /\ exit' = TRUE /\ run' = TRUE
  /\ handlers' = handlers \ {"power"}
  /\ UNCHANGED <<queue, thread, raced, torn, slept, worker, powerState, client, result, calls>>

SleepForPorts ==
  /\ stage = "ports"
  /\ IF worker = "active" /\ slept < MaxSleeps
     THEN slept' = slept + 1 /\ UNCHANGED stage
     ELSE stage' = "join" /\ UNCHANGED slept
  /\ UNCHANGED <<Queue, worker, handlers, powerState, client, result, calls>>

JoinThread == /\ stage = "join" /\ thread \in {"ended", "none"} /\ stage' = "stop"
              /\ UNCHANGED <<Queue, slept, worker, handlers, powerState, client, result, calls>>

stopCecTimeAndUnsubscribeEvent ==
  /\ stage = "stop" /\ stage' = "down" /\ client' = FALSE /\ handlers' = {}
  /\ UNCHANGED <<Queue, slept, worker, powerState, result, calls>>

Leaving == SleepForPorts \/ JoinThread \/ stopCecTimeAndUnsubscribeEvent

Next == \/ Thread \/ Leaving \/ WorkerStarts \/ WorkerEnds \/ Initialize \/ Deinitialize
        \/ \E msg \in Messages : sendMsgToQueue(msg)
        \/ QueueBreaks
        \/ \E s \in {"ON", "STANDBY"} : onPowerModeChanged(s)
        \/ getHdmiCecSinkCecEnableStatus \/ getHdmiCecSinkAudioDeviceConnectedStatus

(* A call to HdmiCecSink ends after two seconds at the latest. *)
Spec == Init /\ [][Next]_vars /\ WF_vars(Thread) /\ WF_vars(Leaving)

-----------------------------------------------------------------------------
(* What is queued is sent: the thread empties the queue, unless the plugin *)
(* is taken down, the last push came between its empty test and its reset  *)
(* of m_sendMsgThreadRun (sendMsgThread 4480-4483), which leaves the       *)
(* message to the next push, a push has met the unlocked pop (4551), or    *)
(* there is no thread (Initialize 526-530).                                *)
MessagesAreSent == queue # <<>> ~> (queue = <<>> \/ raced \/ torn \/ exit \/ thread = "none")

(* Deinitialize gets to its end: the thread it joins (631) sees the exit   *)
(* flag wherever it is, though its own reset may undo the wake-up.         *)
DeinitializeEnds == stage = "ports" ~> stage = "down"
=============================================================================
