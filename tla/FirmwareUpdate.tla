--------------------------- MODULE FirmwareUpdate ---------------------------
(***************************************************************************)
(* Firmware and MAC address requests of SystemServices: two requests are   *)
(* answered by a worker thread and an event; the handle of the last worker *)
(* is joined before the next one is started, without a lock between two    *)
(* callers.  The state of the update comes from the bus; the version       *)
(* string is read once and kept.                                           *)
(***************************************************************************)
EXTENDS Integers

CONSTANTS Callers, MaxCalls

Kinds == {"info", "mac"}
Idle == [kind |-> "none", at |-> "idle"]
Image == "V1"                     \* imagename in the version file
UpdateStates == 0..7              \* IARM_BUS_SYSMGR_FIRMWARE_UPDATE_STATE
CriticalReboot == 7
Downloading == 2

VARIABLES
  worker,      \* the thread of each handle; "none": the handle is not joinable
  pc,          \* where each caller is
  owed,        \* accepted requests whose event has not been sent
  stbVersion,  \* m_stbVersionString ("" until it is first asked for)
  latest,      \* m_FwUpdateState_LatestEvent
  active,      \* _instance is set
  lost,        \* the kinds whose last worker ended without its event
  event,       \* the last event sent
  overlapped,  \* history: two callers were between join and start of one kind
  calls

vars == <<worker, pc, owed, lost, stbVersion, latest, active, event, overlapped, calls>>

NoEvent == [name |-> "none"]

Init == /\ worker = [k \in Kinds |-> "none"]
        /\ pc = [c \in Callers |-> Idle]
        /\ owed = [k \in Kinds |-> 0] /\ lost = {}
        /\ stbVersion = "" /\ latest = 0 /\ active = TRUE
        /\ event = NoEvent /\ overlapped = FALSE /\ calls = 0

Call == /\ active /\ calls < MaxCalls
        /\ calls' = calls + 1

-----------------------------------------------------------------------------
(* The version: a line of the version file, or "unknown" for good. *)
getStbVersionString ==
  IF stbVersion # "" THEN stbVersion' = stbVersion ELSE stbVersion' \in {Image, "unknown"}

(* What a check answers: STATUS_CODE_NO_SWUPDATE_CONF, 404 or a response   *)
(* with or without a version.                                              *)
reportFirmwareUpdateInfoReceived(http, success, offered, current) ==
  [name |-> "onFirmwareUpdateInfoReceived",
   available |-> http = "asked" /\ offered # "" /\ offered # current,
   enum |-> IF http = "emptyConf" THEN "EMPTY_SW_UPDATE_CONF"
            ELSE IF http = "404" THEN "FW_MATCH_CURRENT_VER"
            ELSE IF offered = "" THEN "NO_FW_VERSION"
            ELSE IF offered = current THEN "FW_MATCH_CURRENT_VER"
            ELSE "FW_UPDATE_AVAILABLE",
   success |-> success \/ http # "asked"]

(* Only an image other than PROD looks at the override file. *)
getXconfOverrideUrl == {"none", "emptyConf", "url"}

(* Once _instance is gone the worker ends without its event. *)
firmwareUpdateInfoReceived ==
  /\ worker["info"] = "running"
  /\ IF active THEN getStbVersionString ELSE UNCHANGED stbVersion
  /\ worker' = [worker EXCEPT !["info"] = "finished"]
  /\ IF active
     THEN /\ owed' = [owed EXCEPT !["info"] = 0] /\ UNCHANGED lost
          /\ \E override \in getXconfOverrideUrl, http \in {"asked", "404"}, offered \in {"", "V1", "V2"}, parsed \in BOOLEAN :
               /\ offered # "" => parsed
               /\ event' = IF override = "emptyConf"
                           THEN reportFirmwareUpdateInfoReceived("emptyConf", TRUE, "", "")
                           ELSE reportFirmwareUpdateInfoReceived(http, parsed, offered, stbVersion')
     ELSE lost' = lost \cup {"info"} /\ UNCHANGED <<owed, event>>
  /\ UNCHANGED <<pc, latest, active, overlapped, calls>>

getMacAddressesAsync ==
  /\ worker["mac"] = "running"
  /\ worker' = [worker EXCEPT !["mac"] = "finished"]
  /\ owed' = [owed EXCEPT !["mac"] = 0]
  /\ event' = [name |-> "onMacAddressesRetreived"]
  /\ UNCHANGED <<pc, lost, stbVersion, latest, active, overlapped, calls>>

-----------------------------------------------------------------------------
(* The two requests.  MAC addresses need the script that reads them. *)
Ask(c, k) == /\ pc[c] = Idle /\ Call
             /\ pc' = [pc EXCEPT ![c] = [kind |-> k, at |-> IF worker[k] # "none" THEN "join" ELSE "start"]]
             /\ UNCHANGED <<worker, owed, lost, stbVersion, latest, active, event, overlapped>>

getFirmwareUpdateInfo(c) == Ask(c, "info")

getMacAddresses(c) == \/ Ask(c, "mac")
                      \/ pc[c] = Idle /\ Call /\ UNCHANGED <<worker, pc, owed, lost, stbVersion, latest, active, event, overlapped>>

Others(c) == \E d \in Callers \ {c} : pc[d].kind = pc[c].kind

(* as Join below, but the request does not wait for the last worker *)
JoinNothing(c) ==
  /\ pc[c].at = "join"
  /\ pc' = [pc EXCEPT ![c].at = "start"]
  /\ overlapped' = (overlapped \/ Others(c))
  /\ UNCHANGED <<worker, owed, lost, stbVersion, latest, active, event, calls>>

(* join waits for the worker; if another caller has joined it meanwhile it *)
(* throws system_error, which is answered with success false.              *)
Join(c) ==
  LET k == pc[c].kind IN
  /\ pc[c].at = "join"
  /\ \/ /\ worker[k] = "finished"
        /\ worker' = [worker EXCEPT ![k] = "none"]
        /\ pc' = [pc EXCEPT ![c].at = "start"]
     \/ /\ worker[k] = "none"
        /\ pc' = [pc EXCEPT ![c] = Idle]
        /\ UNCHANGED worker
  /\ overlapped' = (overlapped \/ Others(c))
  /\ UNCHANGED <<owed, lost, stbVersion, latest, active, event, calls>>

(* Moving a thread into a handle that is joinable is std::terminate; a     *)
(* thread that cannot be made is answered with success false.              *)
Start(c) ==
  LET k == pc[c].kind IN
  /\ pc[c].at = "start"
  /\ overlapped' = (overlapped \/ Others(c))
  /\ \/ /\ worker[k] = "none"
        /\ worker' = [worker EXCEPT ![k] = "running"]
        /\ owed' = [owed EXCEPT ![k] = IF k \in lost THEN 1 ELSE @ + 1]
        /\ lost' = lost \ {k}
        /\ pc' = [pc EXCEPT ![c] = Idle]
        /\ UNCHANGED <<stbVersion, latest, active>>
     \/ /\ pc' = [pc EXCEPT ![c] = Idle]
        /\ UNCHANGED <<worker, owed, lost, stbVersion, latest, active>>
     \/ /\ worker[k] # "none"
        /\ worker' = [j \in Kinds |-> "none"]
        /\ pc' = [d \in Callers |-> Idle]
        /\ stbVersion' = "" /\ latest' = 0 /\ active' = TRUE
        /\ UNCHANGED <<owed, lost>>
  /\ UNCHANGED <<event, calls>>

-----------------------------------------------------------------------------
(* _systemStateChanged: the update state, with CRITICAL_REBOOT apart; the  *)
(* clock.  The end of a log upload is in LogUpload.                        *)
onFirmwareUpdateStateChange(s) ==
  IF s # latest THEN latest' = s /\ event' = [name |-> "onFirmwareUpdateStateChange", state |-> s]
                ELSE UNCHANGED <<latest, event>>

onFirmwarePendingReboot == event' = [name |-> "onFirmwarePendingReboot", seconds |-> 600] /\ UNCHANGED latest

_systemStateChanged ==
  /\ Call
  /\ \/ \E s \in UpdateStates :
          IF s = CriticalReboot THEN onFirmwarePendingReboot ELSE onFirmwareUpdateStateChange(s)
     \/ event' = [name |-> "onSystemClockSet"] /\ UNCHANGED latest
  /\ UNCHANGED <<worker, pc, owed, lost, stbVersion, active, overlapped>>

onDeviceMgtUpdateReceived ==
  /\ Call
  /\ event' = [name |-> "onDeviceMgtUpdateReceived"]
  /\ UNCHANGED <<worker, pc, owed, lost, stbVersion, latest, active, overlapped>>

(* The last event and the reply to the last query share a variable. *)
Answer(r) == /\ Call /\ event' = r
             /\ UNCHANGED <<worker, pc, owed, lost, latest, active, overlapped>>

getDownloadedFirmwareInfo ==
  /\ getStbVersionString
  /\ \/ Answer([name |-> "downloaded", success |-> stbVersion' # "unknown", version |-> "", deferred |-> FALSE])
     \/ \E deferred \in BOOLEAN, v \in {"", "V2"} :
          Answer([name |-> "downloaded", success |-> TRUE,
                  version |-> IF latest >= Downloading THEN v ELSE "", deferred |-> deferred])
     \/ Answer([name |-> "downloaded", success |-> FALSE]) /\ stbVersion' = stbVersion

getFirmwareUpdateState == Answer([name |-> "state", state |-> latest]) /\ UNCHANGED stbVersion

getFirmwareDownloadPercent ==
  /\ \E known \in {"noFile", "read", "bad"} :
       Answer([name |-> "percent", success |-> known # "bad", known |-> known = "read"])
  /\ UNCHANGED stbVersion

(* An unreadable file or a reason not in the table is "none". *)
getLastFirmwareFailureReason ==
  \E r \in {"none", "listed"} : Answer([name |-> "failure", reason |-> r]) /\ UNCHANGED stbVersion

updateFirmware == Answer([name |-> "updateFirmware", success |-> TRUE]) /\ UNCHANGED stbVersion

setFirmwareAutoReboot ==
  \E ok \in BOOLEAN : Answer([name |-> "autoReboot", success |-> ok]) /\ UNCHANGED stbVersion

Queries == \/ getDownloadedFirmwareInfo \/ getFirmwareUpdateState \/ getFirmwareDownloadPercent
           \/ getLastFirmwareFailureReason \/ updateFirmware \/ setFirmwareAutoReboot

-----------------------------------------------------------------------------
Deinitialize == /\ Call
                /\ \A c \in Callers : pc[c] = Idle
                /\ active' = FALSE
                /\ UNCHANGED <<worker, pc, owed, lost, stbVersion, latest, event, overlapped>>

Initialize == /\ ~active /\ active' = TRUE
              /\ UNCHANGED <<worker, pc, owed, lost, stbVersion, latest, event, overlapped, calls>>

Work == firmwareUpdateInfoReceived \/ getMacAddressesAsync
Go(c) == Join(c) \/ Start(c)

Next == \/ Work
        \/ \E c \in Callers : Go(c) \/ getFirmwareUpdateInfo(c) \/ getMacAddresses(c)
        \/ _systemStateChanged \/ onDeviceMgtUpdateReceived
        \/ Queries
        \/ Initialize \/ Deinitialize

Fairness == WF_vars(Work) /\ \A c \in Callers : WF_vars(Go(c))

Spec == Init /\ [][Next]_vars /\ Fairness

-----------------------------------------------------------------------------
(* A request that was accepted is answered by its event, unless two callers*)
(* of the same kind overlapped between the test of the handle and the new  *)
(* thread, which can end the process (getFirmwareUpdateInfo 2214-2217,     *)
(* getMacAddresses 2924-2927), or the plugin was stopped before its worker *)
(* came to the event (firmwareUpdateInfoReceived 2194-2199).               *)
AsyncAnswered == \A k \in Kinds : owed[k] > 0 ~> (owed[k] = 0 \/ overlapped \/ k \in lost)
=============================================================================
