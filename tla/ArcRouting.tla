----------------------------- MODULE ArcRouting -----------------------------
(***************************************************************************)
(* DisplaySettings: routing of the television's audio to an audio device   *)
(* on the HDMI ARC port.  The plugin learns about the device from events   *)
(* of HdmiCecSink, from the hot-plug line and from the PowerManager, and   *)
(* drives five periodic timers of its own; the user interface asks for the *)
(* port and for a sound mode.  Events and answers of the device may come   *)
(* at any time, late, repeated or not at all, so sendMsgToQueue, which     *)
(* only hands a CEC request to the message thread, leaves no trace here.   *)
(* A handler is one step, except where the code tests or takes down the    *)
(* route in parts: the power test of setEnableAudioPort and the two lock   *)
(* sections of onPowerModeChanged are steps of their own.  Calls of the    *)
(* device library may throw.  Left out, because no handler's control       *)
(* depends on it: what the user interface has been told, volume and mute   *)
(* status, the descriptors themselves.                                     *)
(***************************************************************************)
EXTENDS Naturals

CONSTANT MaxEvents  \* bound on events from outside: CEC, hot plug, power, API

ASSUME EventsAssumption == MaxEvents \in Nat

MaxArcRetries == 3    \* retryArcCount
MaxPowerRetries == 5  \* retryPowerRequestCount

VARIABLES arc,         \* the audio device and the route to it
          avr,         \* what is known of the device through CEC
          timers,      \* the timers that are active
          retries,     \* retryArcCount, retryPowerRequestCount
          user,        \* HDMI_ARC of the configuration, its persisted value
          mode,        \* sound mode of the port
          power,       \* m_powerState
          worker,      \* an initAudioPortsWorker has not run yet
          subscribed,  \* m_subscribed
          enabling,    \* the power state setEnableAudioPort(true) has seen
          teardown,    \* the section onPowerModeChanged is about to enter
          torn,        \* history: the last teardown was not clean
          cut,         \* history: a wait for the SAD was cut off
          events       \* events so far

vars == <<arc, avr, timers, retries, user, mode, power, worker, subscribed,
          enabling, teardown, torn, cut, events>>

(* What the handlers of the device and the timers leave alone.             *)
steps == <<enabling, teardown, torn, cut>>

Timers == {"subscribe", "detect", "power", "arc", "sad"}

(* Modes: "AUTO" stands for auto and passthrough, which need the device's  *)
(* short audio descriptors (SAD), "PCM" for the others.                    *)
Devices ==
    [connected : BOOLEAN, type : {"NONE", "ARC", "eARC"}, enabled : BOOLEAN,
     state : {"REQUEST_INITIATION", "INITIATED", "TERMINATED"},
     sad : {"UNKNOWN", "REQUESTED", "RECEIVED", "UPDATED", "CLEARED"},
     retrigger : BOOLEAN]

TypeOK ==
    /\ arc \in Devices
    /\ avr \in [detected : BOOLEAN, on : BOOLEAN, answered : BOOLEAN,
                cec : BOOLEAN]
    /\ timers \subseteq Timers
    /\ retries \in [arc : 0..(MaxArcRetries - 1), power : 0..(MaxPowerRetries - 1)]
    /\ user \in [asked : BOOLEAN, persist : BOOLEAN]
    /\ mode \in {"PCM", "AUTO"}
    /\ power \in {"ON", "STANDBY", "DEEP"}
    /\ {worker, subscribed, torn, cut} \subseteq BOOLEAN
    /\ enabling \in {"none", "ON", "STANDBY", "DEEP"}
    /\ teardown \in {"none", "route", "timers"}
    /\ events \in 0..MaxEvents

NoDevice ==
    [connected |-> FALSE, type |-> "NONE", enabled |-> FALSE,
     state |-> "TERMINATED", sad |-> "UNKNOWN", retrigger |-> FALSE]

NothingKnown ==
    [detected |-> FALSE, on |-> FALSE, answered |-> TRUE, cec |-> FALSE]

(* Initialize runs InitAudioPorts when the device is on.                   *)
Init ==
    /\ arc = NoDevice
    /\ avr = NothingKnown
    /\ timers = {}
    /\ retries = [arc |-> 0, power |-> 0]
    /\ user \in [asked : {FALSE}, persist : BOOLEAN]
    /\ mode \in {"PCM", "AUTO"}
    /\ power \in {"ON", "STANDBY"}
    /\ worker = (power = "ON")
    /\ subscribed = FALSE
    /\ enabling = "none" /\ teardown = "none" /\ torn = FALSE /\ cut = FALSE
    /\ events = 0

-----------------------------------------------------------------------------
(* Bringing the port up, at start and when the device is turned on.        *)

(* If HdmiCecSink is active the plugin subscribes and asks the device to   *)
(* power on; if not, the subscription is left to a timer.  The port may    *)
(* throw before any of it.                                                 *)
InitAudioPorts ==
    \/ /\ \E detected \in BOOLEAN :
             avr' = [avr EXCEPT !.detected = detected, !.answered = TRUE]
       /\ UNCHANGED <<subscribed, user, timers>>
    \/ \E active, ok, detected, cec \in BOOLEAN :
        /\ detected \/ cec => active
        /\ subscribed' = (subscribed \/ (active /\ ok))
        /\ avr' = [avr EXCEPT !.detected = detected, !.cec = cec,
                              !.answered = ~(active /\ subscribed' /\ detected)]
        /\ user' = [user EXCEPT !.asked = user.persist /\ detected]
        /\ timers' = (timers \ {"subscribe"})
                     \cup (IF active THEN {} ELSE {"subscribe"})
                     \cup (IF active /\ subscribed'
                           THEN {IF detected THEN "power" ELSE "detect"} ELSE {})

initAudioPortsWorker ==
    /\ worker
    /\ worker' = FALSE
    /\ InitAudioPorts
    /\ UNCHANGED <<arc, retries, mode, power, steps, events>>

(* Retries the subscription.                                               *)
onTimer ==
    /\ "subscribe" \in timers
    /\ \E active, ok, cec \in BOOLEAN :
        /\ cec => active
        /\ subscribed' = (subscribed \/ (active /\ ok))
        /\ timers' = IF subscribed' THEN timers \ {"subscribe"} ELSE timers
        /\ avr' = [avr EXCEPT !.cec = @ \/ cec, !.on = @ /\ ~subscribed']
    /\ UNCHANGED <<arc, retries, user, mode, power, worker, steps, events>>

(* A device was found after all: ask it to power on and wait.              *)
checkAudioDeviceDetectionTimer ==
    /\ "detect" \in timers
    /\ LET found == subscribed /\ avr.detected
       IN /\ avr' = [avr EXCEPT !.answered = @ /\ ~found]
          /\ timers' = (timers \ {"detect"})
                       \cup (IF found THEN {"power"} ELSE {})
    /\ UNCHANGED <<arc, retries, user, mode, power, worker, subscribed, steps,
                   events>>

PowerTriesOver(n) == n >= MaxPowerRetries

(* Asks for the power status until the device answers, five times at most. *)
checkAudioDevicePowerStatusTimer ==
    /\ "power" \in timers
    /\ LET ask == subscribed /\ avr.detected /\ ~avr.on
           n == IF ask THEN retries.power + 1 ELSE retries.power
       IN IF PowerTriesOver(n)
          THEN /\ avr' = [avr EXCEPT !.answered = TRUE]
               /\ retries' = [retries EXCEPT !.power = 0]
               /\ timers' = timers \ {"power"}
          ELSE /\ retries' = [retries EXCEPT !.power = n]
               /\ UNCHANGED <<avr, timers>>
    /\ UNCHANGED <<arc, user, mode, power, worker, subscribed, steps, events>>

-----------------------------------------------------------------------------
Event == events < MaxEvents /\ events' = events + 1

(* The ports are there again: InitAudioPorts, whatever the power state.    *)
OnAudioPortStateChanged ==
    /\ Event
    /\ InitAudioPorts
    /\ UNCHANGED <<arc, retries, mode, power, worker, steps>>

(* Events of HdmiCecSink, once subscribed.                                 *)

CecEvent == subscribed /\ Event

(* The device is gone: the route is down, except for what the port still   *)
(* plays; the device's power state is no longer known.                     *)
Disconnected(a) == [a EXCEPT !.connected = FALSE]

RouteDown(a) == [a EXCEPT !.state = "TERMINATED", !.retrigger = FALSE]

PowerUnknown == [avr EXCEPT !.on = FALSE]

NoSad(a) == a.sad \in {"CLEARED", "UNKNOWN"}

ClearSad(a) == [a EXCEPT !.sad = "CLEARED"]

RequestSad(a) == IF NoSad(a) THEN [a EXCEPT !.sad = "REQUESTED"] ELSE a

(* Mutant of ArcType: the type is left to the eARC search.                 *)
ArcTypeKept(type) == type

ArcType(type) == IF type = "NONE" THEN "ARC" ELSE type

(* Heeded only when not initiated and the device has answered.             *)
onARCInitiationEventHandler ==
    /\ CecEvent
    /\ arc.state # "INITIATED" /\ avr.answered
    /\ \/ LET asked == IF mode = "AUTO" THEN RequestSad(arc) ELSE arc
          IN arc' = [asked EXCEPT !.state = "INITIATED", !.connected = TRUE,
                                  !.type = ArcType(@)]
       \/ arc' = [arc EXCEPT !.state = "TERMINATED"]
    /\ UNCHANGED <<avr, timers, retries, user, mode, power, worker, subscribed,
                   steps>>

(* A termination that failed takes the route down and leaves the device    *)
(* connected.                                                              *)
onARCTerminationEventHandler ==
    /\ CecEvent
    /\ \E success \in BOOLEAN :
        LET cleared == [ClearSad(arc) EXCEPT !.retrigger =
                            @ /\ arc.sad = "CLEARED"]
            down == RouteDown(cleared)
        IN arc' = CASE arc.state = "TERMINATED" -> cleared
                    [] arc.state # "TERMINATED" /\ success -> Disconnected(down)
                    [] OTHER -> down
    /\ UNCHANGED <<avr, timers, retries, user, mode, power, worker, subscribed,
                   steps>>

(* The descriptors that were asked for, possibly none.  If somebody waits  *)
(* for them, they are set and the audio is routed.  The device library may *)
(* throw when the port is looked up, and again when it is set up, with the *)
(* timer stopped.                                                          *)
onShortAudioDescriptorEventHandler ==
    /\ CecEvent
    /\ arc.sad = "REQUESTED"
    /\ \E use, throws \in BOOLEAN :
        LET route == use /\ ("sad" \in timers \/ arc.enabled)
        IN /\ use => arc.state = "INITIATED"
           /\ arc' = [arc EXCEPT !.retrigger = FALSE,
                                 !.sad = IF route THEN "UPDATED" ELSE "RECEIVED",
                                 !.enabled = @ \/ (route /\ ~throws)]
           /\ timers' = IF use THEN timers \ {"sad"} ELSE timers
           /\ cut' = (cut \/ (route /\ throws))
    /\ UNCHANGED <<avr, retries, user, mode, power, worker, subscribed,
                   enabling, teardown, torn>>

onSystemAudioModeEventHandler ==
    /\ CecEvent
    /\ \E on \in BOOLEAN :
        /\ avr' = [PowerUnknown EXCEPT !.answered = @ \/ on]
        /\ arc' = IF on \/ ~arc.connected THEN arc
                  ELSE RouteDown(Disconnected(arc))
    /\ UNCHANGED <<timers, retries, user, mode, power, worker, subscribed,
                   steps>>

(* The type of a device that is still routed is kept, for the call that    *)
(* takes the audio away.                                                   *)
ResetType(a) == IF a.enabled THEN a ELSE [a EXCEPT !.type = "NONE"]

onAudioDeviceConnectedStatusEventHandler ==
    /\ CecEvent
    /\ \E detected \in BOOLEAN :
        IF detected
        THEN avr' = [avr EXCEPT !.detected = TRUE, !.on = FALSE] /\ arc' = arc
        ELSE /\ avr' = [avr EXCEPT !.detected = FALSE,
                                   !.on = @ /\ ~arc.connected]
             /\ LET gone == IF arc.connected THEN RouteDown(Disconnected(arc))
                            ELSE arc
                    clear == IF NoSad(gone) THEN gone
                             ELSE [ClearSad(gone) EXCEPT !.retrigger = FALSE]
                IN arc' = ResetType(clear)
    /\ UNCHANGED <<timers, retries, user, mode, power, worker, subscribed,
                   steps>>

(* An eARC device is found by asking the port; otherwise a timer goes on   *)
(* looking for one before the device is taken for an ARC device.           *)
onAudioDevicePowerStatusEventHandler ==
    /\ CecEvent
    /\ \/ /\ avr' = PowerUnknown  \* standby, or in transition
          /\ UNCHANGED <<arc, timers, retries>>
       \/ \E earc \in BOOLEAN :
            /\ avr' = [avr EXCEPT !.on = TRUE, !.answered = TRUE]
            /\ retries' = IF "power" \in timers
                          THEN [retries EXCEPT !.power = 0] ELSE retries
            /\ arc' = IF earc /\ ~arc.connected
                      THEN [arc EXCEPT !.connected = TRUE, !.type = "eARC"]
                      ELSE arc
            /\ timers' = (timers \ {"power"})
                         \cup (IF earc \/ arc.connected THEN {} ELSE {"arc"})
    /\ UNCHANGED <<user, mode, power, worker, subscribed, steps>>

onCecEnabledEventHandler ==
    /\ CecEvent
    /\ \E enable \in BOOLEAN :
        /\ avr' = [avr EXCEPT !.cec = enable,
                              !.on = @ /\ (enable \/ ~arc.connected)]
        /\ arc' = IF enable THEN arc ELSE Disconnected(ResetType(arc))
    /\ UNCHANGED <<timers, retries, user, mode, power, worker, subscribed,
                   steps>>

-----------------------------------------------------------------------------
(* The timers that look for the device's type and wait for its SAD.        *)


ArcTries(more) == IF more THEN retries.arc + 1 ELSE retries.arc

checkArcDeviceConnected ==
    /\ "arc" \in timers
    /\ \E earc \in BOOLEAN :
        LET looking == arc.state # "INITIATED" /\ ~arc.connected
            n == ArcTries(looking /\ ~earc)
            request == arc.state = "TERMINATED" /\ avr.cec
        IN /\ arc' = CASE looking /\ earc ->
                              [arc EXCEPT !.connected = TRUE, !.type = "eARC"]
                       [] looking /\ ~earc /\ n >= MaxArcRetries ->
                              [arc EXCEPT !.type = "ARC",
                                          !.state = IF request
                                                    THEN "REQUEST_INITIATION"
                                                    ELSE @]
                       [] OTHER -> arc
           /\ IF n >= MaxArcRetries \/ arc'.state = "INITIATED"
                                    \/ arc'.type # "NONE"
              THEN /\ retries' = [retries EXCEPT !.arc = 0]
                   /\ timers' = timers \ {"arc"}
              ELSE /\ retries' = [retries EXCEPT !.arc = n]
                   /\ timers' = timers
    /\ UNCHANGED <<avr, user, mode, power, worker, subscribed, steps, events>>

(* Mutant of SadTimeout: the first timeout routes.                         *)
SadTimeoutHasty(a) ==
    [a EXCEPT !.sad = IF @ = "RECEIVED" THEN "UPDATED" ELSE @, !.enabled = TRUE]

(* The SAD did not come in time: ask once more, then route without it.     *)
SadTimeout(a) ==
    CASE a.sad = "RECEIVED" ->
             [a EXCEPT !.sad = "UPDATED", !.enabled = ~a.retrigger]
      [] a.sad # "RECEIVED" /\ ~a.retrigger ->
             [a EXCEPT !.sad = "REQUESTED", !.retrigger = TRUE]
      [] OTHER ->
             [a EXCEPT !.retrigger = FALSE, !.enabled = TRUE]

(* Mutant of AfterSadTimeout: the retry starts no timer.                   *)
AfterSadTimeoutOnce == timers \ {"sad"}

AfterSadTimeout ==
    IF arc.connected /\ ~arc.enabled /\ arc.sad # "RECEIVED" /\ ~arc.retrigger
    THEN timers ELSE timers \ {"sad"}

checkSADUpdate ==
    /\ "sad" \in timers
    /\ arc' = IF arc.connected /\ ~arc.enabled THEN SadTimeout(arc) ELSE arc
    /\ timers' = AfterSadTimeout
    /\ UNCHANGED <<avr, retries, user, mode, power, worker, subscribed, steps,
                   events>>

(* Nothing catches what the device library throws in the timer's thread:   *)
(* the process ends, and the plugin is started anew.                       *)
checkSADUpdateThrows ==
    /\ "sad" \in timers
    /\ arc' = NoDevice
    /\ avr' = NothingKnown
    /\ timers' = {}
    /\ retries' = [arc |-> 0, power |-> 0]
    /\ user' = [user EXCEPT !.asked = FALSE]
    /\ worker' = (power = "ON")
    /\ subscribed' = FALSE
    /\ enabling' = "none" /\ teardown' = "none"
    /\ torn' = FALSE /\ cut' = FALSE
    /\ UNCHANGED <<mode, power, events>>

-----------------------------------------------------------------------------
(* The hot-plug line and the power state of the television.                *)

OnHdmiInEventHotPlug ==
    /\ Event
    /\ arc' = RouteDown(ClearSad(Disconnected(arc)))
    /\ avr' = IF arc.connected THEN PowerUnknown ELSE avr
    /\ UNCHANGED <<timers, retries, user, mode, power, worker, subscribed,
                   steps>>

(* Mutant of TimersStopped: one timer is forgotten.                        *)
TimersStoppedButSad == timers \cap {"sad"}

TimersStopped == {}

(* The PowerManager tells one change after the other.  The thread that is  *)
(* to bring the port up may fail to start.                                 *)
onPowerModeChanged ==
    /\ Event
    /\ teardown = "none"
    /\ torn' = FALSE
    /\ \E new \in {"ON", "STANDBY", "DEEP"} \ {power} :
        /\ power' = new
        /\ IF new = "ON" THEN worker' \in {worker, TRUE} /\ UNCHANGED teardown
           ELSE teardown' = "route" /\ UNCHANGED worker
    /\ UNCHANGED <<arc, avr, timers, retries, user, mode, subscribed, enabling,
                   cut>>

(* Under m_AudioDeviceStatesUpdateMutex.  The device library may throw     *)
(* before the section, or when the route is to be disabled: the rest is    *)
(* skipped then, and the timers run on.                                    *)
TeardownRoute ==
    /\ teardown = "route"
    /\ \/ /\ arc' = [RouteDown(Disconnected(arc)) EXCEPT !.enabled = FALSE,
                                                         !.type = "NONE"]
          /\ avr' = IF arc.connected THEN PowerUnknown ELSE avr
          /\ teardown' = "timers" /\ UNCHANGED torn
       \/ /\ arc.enabled
          /\ arc' = RouteDown(Disconnected(arc))
          /\ avr' = IF arc.connected THEN PowerUnknown ELSE avr
          /\ teardown' = "none" /\ torn' = TRUE
       \/ UNCHANGED <<arc, avr>> /\ teardown' = "none" /\ torn' = TRUE
    /\ UNCHANGED <<timers, retries, user, mode, power, worker, subscribed,
                   enabling, cut, events>>

(* Under m_callMutex.  A device that came back between the two sections    *)
(* may be routed by now, or left waiting for its SAD without a timer.      *)
TeardownTimers ==
    /\ teardown = "timers"
    /\ timers' = TimersStopped
    /\ teardown' = "none"
    /\ torn' = arc.enabled
    /\ cut' = (cut \/ (arc.connected /\ ~arc.enabled /\ "sad" \in timers))
    /\ UNCHANGED <<arc, avr, retries, user, mode, power, worker, subscribed,
                   enabling, events>>

-----------------------------------------------------------------------------
(* Calls of the user interface.                                            *)

(* Routes the audio, or starts to wait for the SAD an ARC device needs.    *)
EnableArc(a) ==
    IF a.type = "ARC" /\ mode = "AUTO" /\ a.sad # "UPDATED" /\ ~a.enabled
    THEN IF a.sad = "RECEIVED"
         THEN [a EXCEPT !.sad = "UPDATED", !.enabled = TRUE] ELSE a
    ELSE [a EXCEPT !.enabled = TRUE]

DisableArc(a) ==
    IF a.enabled /\ a.type # "NONE"
    THEN [a EXCEPT !.enabled = FALSE,
                   !.type = IF a.connected THEN @ ELSE "NONE"]
    ELSE a

(* The API calls exclude each other, and nothing else.                     *)
ApiLockFree == enabling = "none"

(* setEnableAudioPort(true): the power state is tested first.              *)
setEnableAudioPort ==
    /\ Event
    /\ ApiLockFree
    /\ power # "STANDBY"
    /\ enabling' = power
    /\ UNCHANGED <<arc, avr, timers, retries, user, mode, power, worker,
                   subscribed, teardown, torn, cut>>

(* The rest of the call, in the power state there is by now.  The device   *)
(* library may throw, with the SAD already marked as set.                  *)
EnableAudioPort ==
    /\ enabling # "none"
    /\ enabling' = "none"
    /\ LET route == arc.connected /\ arc.type # "NONE"
           wait == route /\ arc.type = "ARC" /\ mode = "AUTO"
                         /\ ~arc.enabled /\ arc.sad = "REQUESTED"
           routed == IF route THEN EnableArc(arc) ELSE arc
       IN \/ /\ user' = [asked |-> TRUE, persist |-> TRUE]
             /\ arc' = routed
             /\ timers' = IF wait THEN timers \cup {"sad"} ELSE timers
             /\ cut' = FALSE
          \/ /\ \E p \in {user.persist, TRUE} : user' = [user EXCEPT !.persist = p]
             /\ arc' \in {arc, [routed EXCEPT !.enabled = arc.enabled]}
             /\ UNCHANGED <<timers, cut>>
    /\ torn' = (torn \/ (power = "STANDBY" /\ enabling # power))
    /\ UNCHANGED <<avr, retries, mode, power, worker, subscribed, teardown,
                   events>>

(* setEnableAudioPort(false), in any power state.                          *)
DisableAudioPort ==
    /\ Event
    /\ ApiLockFree
    /\ \/ /\ user' = [asked |-> FALSE, persist |-> FALSE]
          /\ arc' = DisableArc(arc)
       \/ /\ \E p \in {user.persist, FALSE} : user' = [user EXCEPT !.persist = p]
          /\ UNCHANGED arc
    /\ UNCHANGED <<avr, timers, retries, mode, power, worker, subscribed,
                   steps>>

(* Stereo clears the SAD, surround does not, auto and passthrough ask for  *)
(* it.                                                                     *)
setSoundMode ==
    /\ Event
    /\ ApiLockFree
    /\ LET arcDevice == arc.type = "ARC" /\ arc.connected
       IN \/ /\ mode' = "AUTO"
             /\ arc' = IF arcDevice THEN RequestSad(arc) ELSE arc
          \/ /\ mode' = "PCM"
             /\ arc' = IF arcDevice /\ arc.sad # "CLEARED"
                       THEN [ClearSad(arc) EXCEPT !.retrigger = FALSE] ELSE arc
          \/ /\ mode' = "PCM"
             /\ arc' = arc
    /\ UNCHANGED <<avr, timers, retries, user, power, worker, subscribed,
                   steps>>

(* A query with an effect: a device that is not on the hot-plug line is    *)
(* dropped, and asked to power on again.                                   *)
getConnectedAudioPorts ==
    /\ Event
    /\ ApiLockFree
    /\ arc.connected /\ ~arc.enabled
    /\ arc' = [RouteDown(Disconnected(arc)) EXCEPT !.type = "NONE",
                                                   !.sad = "UNKNOWN"]
    /\ avr' = PowerUnknown
    /\ UNCHANGED <<timers, retries, user, mode, power, worker, subscribed,
                   steps>>

-----------------------------------------------------------------------------
Next ==
    \/ initAudioPortsWorker
    \/ onTimer
    \/ checkAudioDeviceDetectionTimer
    \/ checkAudioDevicePowerStatusTimer
    \/ checkArcDeviceConnected
    \/ checkSADUpdate
    \/ checkSADUpdateThrows
    \/ onARCInitiationEventHandler
    \/ onARCTerminationEventHandler
    \/ onShortAudioDescriptorEventHandler
    \/ onSystemAudioModeEventHandler
    \/ onAudioDeviceConnectedStatusEventHandler
    \/ onAudioDevicePowerStatusEventHandler
    \/ onCecEnabledEventHandler
    \/ OnHdmiInEventHotPlug
    \/ onPowerModeChanged
    \/ TeardownRoute
    \/ TeardownTimers
    \/ OnAudioPortStateChanged
    \/ setEnableAudioPort
    \/ EnableAudioPort
    \/ DisableAudioPort
    \/ setSoundMode
    \/ getConnectedAudioPorts

Spec == Init /\ [][Next]_vars

(* A timer that is active fires again and again, and a thread that was     *)
(* started runs; nothing is assumed of the outside.                        *)
FairSpec ==
    /\ Spec
    /\ WF_vars(initAudioPortsWorker)
    /\ WF_vars(TeardownRoute) /\ WF_vars(TeardownTimers)
    /\ WF_vars(EnableAudioPort)
    /\ WF_vars(checkAudioDeviceDetectionTimer)
    /\ WF_vars(checkAudioDevicePowerStatusTimer)
    /\ WF_vars(checkArcDeviceConnected)
    /\ WF_vars(checkSADUpdate)

-----------------------------------------------------------------------------
(* A connected device has a type, whichever of the handlers connected it   *)
(* and whichever ran since: setEnableAudioPort routes by type, and the     *)
(* detection timer stops when the type is known.                           *)
ConnectedHasType == arc.connected => arc.type # "NONE"

(* In standby nothing is routed to the device, although its events go on   *)
(* being handled: onPowerModeChanged takes the route down and stops the    *)
(* timers, setEnableAudioPort refuses, and nothing else starts the timer   *)
(* that could route.  Excepted is a teardown that was not clean: the       *)
(* device library threw in it, the device was routed again between its two *)
(* lock sections, or a setEnableAudioPort that had tested the power state  *)
(* before went on after it.                                                *)
SilentInStandby ==
    power = "STANDBY" /\ teardown = "none" /\ ~torn => ~arc.enabled

(* An ARC device gets audio in a mode that needs its SAD only once that is *)
(* set, or after it was asked for twice in vain, whether the audio is      *)
(* routed by setEnableAudioPort, by the SAD event or by the timer.         *)
SadBeforeAudio ==
    [][~arc.enabled /\ arc'.enabled /\ arc.type = "ARC" /\ mode = "AUTO"
           => arc'.sad = "UPDATED" \/ arc.retrigger]_vars

(* A device whose audio waits for the SAD timer gets it or goes away,      *)
(* whatever happens to the request and its answer.  Excepted is a wait     *)
(* that was cut off: the device library threw after the SAD event had      *)
(* stopped the timer, or the device came back between the two lock         *)
(* sections of a teardown, the second of which stopped it.                 *)
WaitForSadEnds ==
    "sad" \in timers /\ arc.connected /\ ~arc.enabled
        ~> arc.enabled \/ ~arc.connected \/ cut


(* ARC initiation is refused while the device has not answered the power-on *)
(* request; checkAudioDevicePowerStatusTimer is to give up waiting.        *)
WaitForPowerEnds ==
    ~avr.answered /\ avr.detected /\ power = "ON"
        ~> avr.answered \/ ~avr.detected \/ power # "ON"

=============================================================================
