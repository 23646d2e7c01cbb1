-------------------------- MODULE ArcRoutingProofs --------------------------
(***************************************************************************)
(* ConnectedHasType and SilentInStandby for any number of events.          *)
(***************************************************************************)
EXTENDS ArcRouting, TLAPS

(* In standby, after a clean teardown, nothing is routed, and the timer    *)
(* that could route is off.                                                *)
Quiet ==
    power = "STANDBY" /\ teardown = "none" /\ ~torn
        => ~arc.enabled /\ "sad" \notin timers

(* No call to route the audio saw the device in standby.                   *)
EnablingIsAllowed == enabling # "STANDBY"

Inv == arc \in Devices /\ ConnectedHasType /\ Quiet /\ EnablingIsAllowed

(* The initial state of the plugin, in which no device is known.           *)
LEMMA InitInv == Init => Inv
  BY DEF Init, NoDevice, Inv, Devices, ConnectedHasType, Quiet, EnablingIsAllowed

(* ResetType changes the type and nothing else.                            *)
LEMMA ResetTypeKeeps ==
    ASSUME NEW a \in Devices
    PROVE  /\ ResetType(a) \in Devices
           /\ ResetType(a).enabled = a.enabled
           /\ ResetType(a).connected = a.connected
<1>1. CASE a.enabled
  BY <1>1 DEF ResetType
<1>2. CASE ~a.enabled
  BY <1>2 DEF ResetType, Devices
<1> QED
  BY <1>1, <1>2

(* Every handler and timer preserves the invariant.                        *)
LEMMA NextInv == Inv /\ [Next]_vars => Inv'
<1> SUFFICES ASSUME Inv, [Next]_vars PROVE Inv'
  OBVIOUS
<1> USE DEF Inv, Devices, ConnectedHasType, Quiet, EnablingIsAllowed, steps
<1>1. CASE initAudioPortsWorker
  <2>1. UNCHANGED <<arc, power, steps>> /\ ("sad" \in timers' => "sad" \in timers)
    BY <1>1 DEF initAudioPortsWorker, InitAudioPorts
  <2> QED
    BY <2>1
<1>2. CASE onTimer
  BY <1>2 DEF onTimer
<1>3. CASE checkAudioDeviceDetectionTimer
  BY <1>3 DEF checkAudioDeviceDetectionTimer
<1>4. CASE checkAudioDevicePowerStatusTimer
  BY <1>4 DEF checkAudioDevicePowerStatusTimer
<1>5. CASE checkArcDeviceConnected
  <2>1. /\ timers' \subseteq timers /\ UNCHANGED <<power, steps>>
        /\ \/ UNCHANGED arc
           \/ arc' = [arc EXCEPT !.connected = TRUE, !.type = "eARC"]
           \/ arc' = [arc EXCEPT !.type = "ARC"]
           \/ arc' = [arc EXCEPT !.type = "ARC", !.state = "REQUEST_INITIATION"]
    BY <1>5 DEF checkArcDeviceConnected
  <2>2. arc' \in Devices /\ arc'.enabled = arc.enabled
    BY <2>1
  <2>3. ConnectedHasType'
    BY <2>1
  <2> QED
    BY <2>1, <2>2, <2>3
<1>6. CASE checkSADUpdate
  <2>1. UNCHANGED <<power, steps>> /\ timers' \subseteq timers /\ "sad" \in timers
    BY <1>6 DEF checkSADUpdate, AfterSadTimeout
  <2>2. CASE arc' = arc
    BY <2>1, <2>2
  <2>3. CASE arc.connected /\ ~arc.enabled /\ arc' = SadTimeout(arc)
    <3>1. arc' \in Devices
      BY <2>3 DEF SadTimeout
    <3>2. arc'.type = arc.type /\ arc'.connected = arc.connected
      BY <2>3 DEF SadTimeout
    <3> QED
      BY <2>1, <3>1, <3>2
  <2> QED
    BY <1>6, <2>2, <2>3 DEF checkSADUpdate
<1>7. CASE onARCInitiationEventHandler
  BY <1>7 DEF onARCInitiationEventHandler, RequestSad, NoSad, ArcType
<1>8. CASE onARCTerminationEventHandler
  <2> DEFINE cleared == [ClearSad(arc) EXCEPT !.retrigger =
                            @ /\ arc.sad = "CLEARED"]
  <2>1. /\ cleared \in Devices
        /\ cleared.type = arc.type
        /\ cleared.enabled = arc.enabled
        /\ cleared.connected = arc.connected
    BY DEF ClearSad
  <2>2. arc' \in {cleared, RouteDown(cleared), Disconnected(RouteDown(cleared))}
    BY <1>8 DEF onARCTerminationEventHandler
  <2>3. UNCHANGED <<power, timers, steps>>
    BY <1>8 DEF onARCTerminationEventHandler
  <2> HIDE DEF cleared
  <2> QED
    BY <2>1, <2>2, <2>3 DEF RouteDown, Disconnected
<1>9. CASE onShortAudioDescriptorEventHandler
  <2>1. /\ UNCHANGED <<power, enabling, teardown, torn>> /\ timers' \subseteq timers
        /\ arc' \in Devices
        /\ arc'.type = arc.type /\ arc'.connected = arc.connected
        /\ arc'.enabled => arc.enabled \/ "sad" \in timers
    BY <1>9 DEF onShortAudioDescriptorEventHandler
  <2> QED
    BY <2>1
<1>10. CASE onSystemAudioModeEventHandler
  BY <1>10 DEF onSystemAudioModeEventHandler, RouteDown, Disconnected
<1>11. CASE onAudioDeviceConnectedStatusEventHandler
  <2> DEFINE gone == IF arc.connected THEN RouteDown(Disconnected(arc)) ELSE arc
             clear == IF NoSad(gone) THEN gone
                      ELSE [ClearSad(gone) EXCEPT !.retrigger = FALSE]
  <2>1. /\ gone \in Devices
        /\ gone.enabled = arc.enabled
        /\ ~gone.connected
    BY DEF RouteDown, Disconnected
  <2>2. arc' \in {arc, ResetType(clear)} /\ UNCHANGED <<power, timers, steps>>
    BY <1>11 DEF onAudioDeviceConnectedStatusEventHandler
  <2> HIDE DEF gone
  <2>3. /\ clear \in Devices
        /\ clear.enabled = arc.enabled
        /\ ~clear.connected
    <3>1. CASE NoSad(gone)
      BY <2>1, <3>1
    <3>2. CASE ~NoSad(gone)
      BY <2>1, <3>2 DEF ClearSad
    <3> QED
      BY <3>1, <3>2
  <2> HIDE DEF clear
  <2> QED
    BY <2>2, <2>3, ResetTypeKeeps
<1>12. CASE onAudioDevicePowerStatusEventHandler
  BY <1>12 DEF onAudioDevicePowerStatusEventHandler
<1>13. CASE onCecEnabledEventHandler
  <2>1. arc' \in {arc, Disconnected(ResetType(arc))}
    BY <1>13 DEF onCecEnabledEventHandler
  <2>2. UNCHANGED <<power, timers, steps>>
    BY <1>13 DEF onCecEnabledEventHandler
  <2>3. CASE arc' = arc
    BY <2>2, <2>3
  <2>4. CASE arc' = Disconnected(ResetType(arc))
    <3> DEFINE reset == ResetType(arc)
    <3>1. reset \in Devices /\ reset.enabled = arc.enabled
      BY ResetTypeKeeps
    <3> HIDE DEF reset
    <3>2. arc' \in Devices /\ arc'.enabled = arc.enabled /\ ~arc'.connected
      BY <2>4, <3>1 DEF Disconnected, reset
    <3> QED
      BY <2>2, <3>2
  <2> QED
    BY <2>1, <2>3, <2>4
<1>14. CASE OnHdmiInEventHotPlug
  BY <1>14 DEF OnHdmiInEventHotPlug, RouteDown, ClearSad, Disconnected
<1>15. CASE onPowerModeChanged
  <2>1. power' = "ON" \/ teardown' = "route"
    BY <1>15 DEF onPowerModeChanged
  <2> QED
    BY <1>15, <2>1 DEF onPowerModeChanged
<1>16. CASE TeardownRoute
  <2>1. teardown' # "none" \/ torn'
    BY <1>16 DEF TeardownRoute
  <2>2. arc' \in Devices /\ (arc' = arc \/ ~arc'.connected)
    BY <1>16 DEF TeardownRoute, RouteDown, Disconnected
  <2> QED
    BY <1>16, <2>1, <2>2 DEF TeardownRoute
<1>17. CASE TeardownTimers
  BY <1>17 DEF TeardownTimers, TimersStopped
<1>18. CASE checkSADUpdateThrows
  BY <1>18 DEF checkSADUpdateThrows, NoDevice
<1>19. CASE OnAudioPortStateChanged
  <2>1. UNCHANGED <<arc, power, steps>> /\ ("sad" \in timers' => "sad" \in timers)
    BY <1>19 DEF OnAudioPortStateChanged, InitAudioPorts
  <2> QED
    BY <2>1
<1>20. CASE EnableAudioPort
  <2>1. power = "STANDBY" => torn'
    BY <1>20 DEF EnableAudioPort
  <2>2. arc' \in Devices /\ arc'.type = arc.type /\ arc'.connected = arc.connected
    BY <1>20 DEF EnableAudioPort, EnableArc
  <2> QED
    BY <1>20, <2>1, <2>2 DEF EnableAudioPort
<1>21. CASE DisableAudioPort
  BY <1>21 DEF DisableAudioPort, DisableArc
<1>22. CASE setEnableAudioPort
  BY <1>22 DEF setEnableAudioPort
<1>23. CASE setSoundMode
  BY <1>23 DEF setSoundMode, RequestSad, NoSad, ClearSad
<1>24. CASE getConnectedAudioPorts
  BY <1>24 DEF getConnectedAudioPorts, RouteDown, Disconnected
<1>25. CASE UNCHANGED vars
  BY <1>25 DEF vars
<1> QED
  BY <1>1, <1>2, <1>3, <1>4, <1>5, <1>6, <1>7, <1>8, <1>9, <1>10, <1>11,
     <1>12, <1>13, <1>14, <1>15, <1>16, <1>17, <1>18, <1>19, <1>20, <1>21,
     <1>22, <1>23, <1>24, <1>25 DEF Next

(* A device that is connected always has a type, for any number of events. *)
THEOREM DeviceHasType == Spec => []ConnectedHasType
<1> QED
  BY InitInv, NextInv, PTL DEF Spec, Inv

(* Nothing is routed to the device in standby once onPowerModeChanged has  *)
(* taken everything down cleanly, for any number of events.                *)
THEOREM StandbyIsSilent == Spec => []SilentInStandby
<1>1. Inv => SilentInStandby
  BY DEF Inv, Quiet, SilentInStandby
<1> QED
  BY InitInv, NextInv, <1>1, PTL DEF Spec

(* Only three steps route audio: setEnableAudioPort and the SAD event,     *)
(* which have the SAD set, and the timer, which may have asked in vain.    *)
LEMMA RoutingStep ==
    ASSUME arc \in Devices, Next, ~arc.enabled, arc'.enabled,
           arc.type = "ARC", mode = "AUTO"
    PROVE  arc'.sad = "UPDATED" \/ arc.retrigger
<1> USE DEF Devices
<1>1. CASE initAudioPortsWorker \/ onTimer \/ checkAudioDeviceDetectionTimer
           \/ checkAudioDevicePowerStatusTimer
  BY <1>1 DEF initAudioPortsWorker, onTimer, checkAudioDeviceDetectionTimer,
              checkAudioDevicePowerStatusTimer
<1>2. CASE checkArcDeviceConnected
  BY <1>2 DEF checkArcDeviceConnected
<1>3. CASE checkSADUpdate
  BY <1>3 DEF checkSADUpdate, SadTimeout
<1>4. CASE onARCInitiationEventHandler
  BY <1>4 DEF onARCInitiationEventHandler, RequestSad
<1>5. CASE onARCTerminationEventHandler
  BY <1>5 DEF onARCTerminationEventHandler, ClearSad, RouteDown, Disconnected
<1>6. CASE onShortAudioDescriptorEventHandler
  BY <1>6 DEF onShortAudioDescriptorEventHandler
<1>7. CASE onSystemAudioModeEventHandler
  BY <1>7 DEF onSystemAudioModeEventHandler, RouteDown, Disconnected
<1>8. CASE onAudioDeviceConnectedStatusEventHandler
  BY <1>8 DEF onAudioDeviceConnectedStatusEventHandler, RouteDown,
              Disconnected, ClearSad, ResetType
<1>9. CASE onAudioDevicePowerStatusEventHandler
  BY <1>9 DEF onAudioDevicePowerStatusEventHandler
<1>10. CASE onCecEnabledEventHandler
  BY <1>10 DEF onCecEnabledEventHandler, Disconnected, ResetType
<1>11. CASE OnHdmiInEventHotPlug
  BY <1>11 DEF OnHdmiInEventHotPlug, RouteDown, ClearSad, Disconnected
<1>12. CASE onPowerModeChanged
  BY <1>12 DEF onPowerModeChanged
<1>13. CASE TeardownRoute \/ TeardownTimers
  BY <1>13 DEF TeardownRoute, TeardownTimers, RouteDown, Disconnected
<1>14. CASE checkSADUpdateThrows \/ OnAudioPortStateChanged
  BY <1>14 DEF checkSADUpdateThrows, OnAudioPortStateChanged, NoDevice
<1>15. CASE EnableAudioPort
  BY <1>15 DEF EnableAudioPort, EnableArc
<1>16. CASE setEnableAudioPort \/ DisableAudioPort
  BY <1>16 DEF setEnableAudioPort, DisableAudioPort, DisableArc
<1>17. CASE setSoundMode
  BY <1>17 DEF setSoundMode, RequestSad, ClearSad
<1>18. CASE getConnectedAudioPorts
  BY <1>18 DEF getConnectedAudioPorts, RouteDown, Disconnected
<1> QED
  BY <1>1, <1>2, <1>3, <1>4, <1>5, <1>6, <1>7, <1>8, <1>9, <1>10, <1>11,
     <1>12, <1>13, <1>14, <1>15, <1>16, <1>17, <1>18 DEF Next

(* An ARC device gets audio in a mode that needs its SAD only once that is *)
(* set or was asked for twice in vain, for any number of events.           *)
THEOREM AudioNeedsSad == Spec => SadBeforeAudio
<1>1. Inv /\ [Next]_vars =>
        [~arc.enabled /\ arc'.enabled /\ arc.type = "ARC" /\ mode = "AUTO"
            => arc'.sad = "UPDATED" \/ arc.retrigger]_vars
  BY RoutingStep DEF Inv
<1> QED
  BY InitInv, NextInv, <1>1, PTL DEF Spec, SadBeforeAudio

=============================================================================
