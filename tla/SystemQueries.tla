--------------------------- MODULE SystemQueries ---------------------------
(***************************************************************************)
(* Requests that SystemServices passes to PowerManager, to the RFC store,  *)
(* to the manufacturer library or to a script, and what it keeps of the    *)
(* answers: the network standby mode, which PowerManager also announces    *)
(* with events from its thread pool, the power state before the reboot and *)
(* the manufacturer data.  Several requests run at once; no lock is taken. *)
(***************************************************************************)
EXTENDS Integers

CONSTANTS Callers, MaxCalls

None == "none"
Cached == {"mfgSerialNumber", "modelName", "hardwareID"}
TenDays == 2                      \* stands for 864000 seconds
Levels == {"NORMAL", "HIGH", "CRITICAL"}

VARIABLES
  pmNetwork,   \* the mode PowerManager has
  coming,      \* events of the network standby mode on their way
  network,     \* m_networkStandbyMode, m_networkStandbyModeValid
  pc,          \* where each caller of the network standby mode is
  pmPower,     \* the power state PowerManager was last asked for
  kept,        \* the other cached answers
  answer,      \* the last reply or event
  raced,       \* history: a change met another one, or a read, under way
  calls

vars == <<pmNetwork, coming, network, pc, pmPower, kept, answer, raced, calls>>

Idle == [at |-> "idle"]

Init == /\ pmNetwork = FALSE /\ coming = {}
        /\ network = [value |-> FALSE, valid |-> FALSE]
        /\ pc = [c \in Callers |-> Idle]
        /\ pmPower = None
        /\ kept = [q \in Cached \cup {"stateBeforeReboot"} |-> None]
        /\ answer = [of |-> None] /\ raced = FALSE /\ calls = 0

Call == calls < MaxCalls /\ calls' = calls + 1

Reply(of, v) == answer' = [of |-> of, value |-> v]

-----------------------------------------------------------------------------
(* The network standby mode.  A change reaches PowerManager, which queues  *)
(* its event; only then is the cached value dropped.                       *)
UnderWay == coming # {} \/ \E c \in Callers : pc[c].at # "idle"

setNetworkStandbyMode(c, v) ==
  /\ pc[c] = Idle /\ Call
  /\ \/ /\ pmNetwork' = v
        /\ coming' = coming \cup {[n |-> calls, value |-> v, other |-> FALSE]}
        /\ pc' = [pc EXCEPT ![c] = [at |-> "set"]]
        /\ raced' = (raced \/ UnderWay)
        /\ UNCHANGED answer
     \/ /\ Reply("setNetwork", "failed")
        /\ UNCHANGED <<pmNetwork, coming, pc, raced>>
  /\ UNCHANGED <<network, pmPower, kept>>

(* as DropCached below, but the cached value stays valid *)
DropNothing(c) == /\ pc[c].at = "set"
                  /\ pc' = [pc EXCEPT ![c] = Idle]
                  /\ Reply("setNetwork", "done")
                  /\ UNCHANGED <<network, pmNetwork, coming, pmPower, kept, raced, calls>>

DropCached(c) == /\ pc[c].at = "set"
                 /\ network' = [network EXCEPT !.valid = FALSE]
                 /\ pc' = [pc EXCEPT ![c] = Idle]
                 /\ Reply("setNetwork", "done")
                 /\ UNCHANGED <<pmNetwork, coming, pmPower, kept, raced, calls>>

getNetworkStandbyMode(c) ==
  /\ pc[c] = Idle /\ Call
  /\ IF network.valid
     THEN Reply("network", network.value) /\ UNCHANGED pc
     ELSE \/ pc' = [pc EXCEPT ![c] = [at |-> "got", value |-> pmNetwork]] /\ UNCHANGED answer
          \/ Reply("networkFailed", None) /\ UNCHANGED pc
  /\ UNCHANGED <<pmNetwork, coming, network, pmPower, kept, raced>>

KeepRead(c) == /\ pc[c].at = "got"
               /\ network' = [value |-> pc[c].value, valid |-> TRUE]
               /\ Reply("network", pc[c].value)
               /\ pc' = [pc EXCEPT ![c] = Idle]
               /\ UNCHANGED <<pmNetwork, coming, pmPower, kept, raced, calls>>

(* Another client of PowerManager changes the mode. *)
OtherClient(v) == /\ Call
                  /\ pmNetwork' = v
                  /\ coming' = coming \cup {[n |-> calls, value |-> v, other |-> TRUE]}
                  /\ raced' = (raced \/ UnderWay)
                  /\ UNCHANGED <<network, pc, pmPower, kept, answer>>

onNetworkModeChanged(e) == /\ network' = [value |-> e.value, valid |-> TRUE]
                           /\ Reply("onNetworkStandbyModeChanged", e.value)

onNetworkStandbyModeChanged(e) == /\ e \in coming
                                  /\ coming' = coming \ {e}
                                  /\ onNetworkModeChanged(e)
                                  /\ UNCHANGED <<pmNetwork, pc, pmPower, kept, raced, calls>>

-----------------------------------------------------------------------------
(* Answers that are kept once they have been had. *)
Rest == UNCHANGED <<pmNetwork, coming, network, pc, raced>>

KeptQuery(q, values) ==
  /\ Call /\ Rest /\ UNCHANGED pmPower
  /\ IF kept[q] # None
     THEN Reply(q, kept[q]) /\ UNCHANGED kept
     ELSE \/ \E v \in values : kept' = [kept EXCEPT ![q] = v] /\ Reply(q, v)
          \/ Reply(q, "failed") /\ UNCHANGED kept

getMfgSerialNumber == KeptQuery("mfgSerialNumber", {"mfr"})
getManufacturerData(q) == KeptQuery(q, {"mfr"})

powerModeEnumToString(s) == IF s = "STANDBY" THEN "LIGHT_SLEEP" ELSE s
getPowerStateBeforeReboot ==
  KeptQuery("stateBeforeReboot", {powerModeEnumToString(s) : s \in {"ON", "STANDBY", "DEEP_SLEEP"}})

-----------------------------------------------------------------------------
(* Power state.  Only ERROR_GENERAL counts as a failure; the preferred     *)
(* sleep mode of the host may turn LIGHT_SLEEP into DEEP_SLEEP.            *)
setPowerState(s) ==
  \/ /\ s \in {"STANDBY", "ON", "DEEP_SLEEP", "LIGHT_SLEEP"}
     /\ pmPower' = IF s = "LIGHT_SLEEP" THEN "STANDBY" ELSE s
     /\ Reply("setPower", TRUE)
  \/ Reply("setPower", FALSE) /\ UNCHANGED pmPower

setDevicePowerState(s) ==
  /\ Call /\ Rest /\ UNCHANGED kept
  /\ \E preferred \in {"DEEP_SLEEP", "LIGHT_SLEEP"} :
       setPowerState(IF s \in {"LIGHT_SLEEP", "DEEP_SLEEP"} /\ preferred = "DEEP_SLEEP" THEN preferred ELSE s)

Query == Call /\ Rest /\ UNCHANGED <<pmPower, kept>>

getDevicePowerState ==
  Query /\ Reply("power", CASE pmPower = "ON" -> "ON"
                            [] pmPower \in {"STANDBY", "DEEP_SLEEP"} -> "STANDBY"
                            [] OTHER -> "UNKNOWN")

setDeepSleepTimer(seconds) ==
  Query /\ Reply("deepSleepTimer", IF seconds \in 0..TenDays THEN seconds ELSE 0)

(* Unknown sources are left out; nothing left is refused. *)
conv(source) == IF source = "bad" THEN "WAKEUP_SRC_UNKNOWN" ELSE source
setWakeupSrcConfiguration(sources) ==
  LET configs == {s \in sources : conv(s) # "WAKEUP_SRC_UNKNOWN"} IN
  Query /\ \E ok \in BOOLEAN : Reply("wakeupSources", ok /\ configs # {})

getWakeupReasonString == {"WAKEUP_REASON_IR", ""}
getWakeupReason == Query /\ \E r \in getWakeupReasonString \cup {"WAKEUP_REASON_UNKNOWN"} : Reply("wakeupReason", r)
getLastWakeupKeyCode == Query /\ \E k \in {0, 1} : Reply("keyCode", k)

requestSystemReboot == Query /\ \E status \in {"done", "failed"} : Reply("reboot", status)

(* The events PowerManager sends besides. *)
onPwrMgrReboot == Query /\ Reply("onRebootRequest", "reason")

handleThermalLevelChange(from, to) ==
  /\ Query /\ from # to
  /\ Reply("onTemperatureThresholdChanged",
           [type |-> IF to = "CRITICAL" \/ (to = "HIGH" /\ from = "CRITICAL") THEN "MAX" ELSE "WARN",
            exceeded |-> to = "CRITICAL" \/ (to = "HIGH" /\ from = "NORMAL")])

onTimeStatusChanged == Query /\ Reply("onTimeStatusChanged", "quality")

-----------------------------------------------------------------------------
(* Files, scripts and other stores. *)
GetValueFromPropertiesFile == {"found", "missing"}
GetFileRegex == {"found", "missing"}

getModelName == \E mfr \in {"found", "missing"}, f \in GetFileRegex :
                  Reply("model", IF mfr = "found" THEN "mfr" ELSE f)

(* Some keys are looked up in a file first, all fall back on the script. *)
getDeviceInfo ==
  /\ Query
  /\ \/ Reply("deviceInfo", "unallowed")
     \/ \E v \in GetValueFromPropertiesFile : Reply("make", v)
     \/ \E v \in GetValueFromPropertiesFile, script \in {"found", "missing"} :
          Reply("deviceInfo", IF v = "found" THEN "file" ELSE script)
     \/ getModelName

getSerialNumberTR069 == \E r \in {"rfc", "failed"} : Reply("serial", r)
getSerialNumberSnmp == \E r \in {"mfr", "failed"} : Reply("serial", r)
getSerialNumber == Query /\ (getSerialNumberTR069 \/ getSerialNumberSnmp)

(* One parameter that answers makes the whole request succeed. *)
getRFCConfig(list) ==
  Query /\ \E answered \in SUBSET {p \in list : p # "badCharset"} : Reply("rfc", answered # {})

getSystemTimeStatus == Query /\ \E ok \in BOOLEAN : Reply("timeStatus", ok)
requestSystemUptime == Query /\ \E ok \in BOOLEAN : Reply("uptime", ok)

getStbBranchString == {"1.2.3.4.5", "other", "unknown"}
getClientVersionString == {"client", "unknown"}
getStbTimestampString == {"date", "unknown"}
getSystemVersions ==
  Query /\ \E b \in getStbBranchString, v \in getClientVersionString, t \in getStbTimestampString :
             Reply("versions", <<IF b = "1.2.3.4.5" THEN b ELSE v, t>>)

Network == \/ \E c \in Callers : \/ \E v \in BOOLEAN : setNetworkStandbyMode(c, v)
                                 \/ DropCached(c) \/ getNetworkStandbyMode(c) \/ KeepRead(c)
           \/ \E v \in BOOLEAN : OtherClient(v)
           \/ \E e \in coming : onNetworkStandbyModeChanged(e)

Power == \/ \E s \in {"STANDBY", "ON", "DEEP_SLEEP", "LIGHT_SLEEP", "bad"} : setDevicePowerState(s)
         \/ getDevicePowerState
         \/ \E n \in -1..(TenDays + 1) : setDeepSleepTimer(n)
         \/ \E sources \in SUBSET {"VOICE", "bad"} : setWakeupSrcConfiguration(sources)
         \/ getWakeupReason \/ getLastWakeupKeyCode \/ requestSystemReboot
         \/ onPwrMgrReboot \/ onTimeStatusChanged
         \/ \E from \in Levels, to \in Levels : handleThermalLevelChange(from, to)

Info == \/ getMfgSerialNumber \/ \E q \in {"modelName", "hardwareID"} : getManufacturerData(q)
        \/ getPowerStateBeforeReboot \/ getDeviceInfo \/ getSerialNumber
        \/ \E list \in SUBSET {"A", "badCharset"} : getRFCConfig(list)
        \/ getSystemTimeStatus \/ requestSystemUptime \/ getSystemVersions

Next == Network \/ Power \/ Info

Spec == Init /\ [][Next]_vars

-----------------------------------------------------------------------------
(* A cached network standby mode that is valid is the mode PowerManager    *)
(* has, at every moment at which no request is between its change and its  *)
(* return and no event of another client's change is on its way, as long   *)
(* as no change met another one or a read under way                        *)
(* (setNetworkStandbyMode 2294, getNetworkStandbyMode 2333).               *)
CachedModeIsReal ==
  /\ network.valid /\ ~raced
  /\ \A c \in Callers : pc[c].at # "set"
  /\ \A e \in coming : ~e.other
  => network.value = pmNetwork
=============================================================================
