----------------------------- MODULE MCServices -----------------------------
(***************************************************************************)
(* The parts of SystemServices, and the threads of DeviceDiagnostics and   *)
(* of DisplaySettings, for TLC.  They share no variable, so a behaviour of *)
(* them all is an interleaving of behaviours of the parts; each behaviour  *)
(* here is one of the part that `part' names, the others standing still.   *)
(***************************************************************************)
EXTENDS Integers

CONSTANTS Callers, MaxCalls,           \* firmware and queries
          MaxDuration, MaxThreads, MaxModeCalls, MaxDeaths,
          MaxScripts, MaxUploadCalls, MaxFirmwareCalls, MaxStoreCalls,
          Clients, MaxDiagCalls,       \* DeviceDiagnostics
          Messages, MaxSleeps, MaxMsgCalls

VARIABLES
  part,
  mode, remaining, clear, handle, modePc, arg, modeActive, saved, marker, timed, collided,
  modeCalls, deaths,
  pid, script, bus, waiting, uploadPc, uploadRaced, uploadCalls,
  worker, firmwarePc, owed, lost, stbVersion, latest, active, event, overlapped, firmwareCalls,
  territoryFile, territory, pairs, tzFile, accuracyFile, tz, friendlyName, friendlyRfc, naming, flag,
  migrationFile, told, reply, spoilt, up, storeCalls,
  pmNetwork, coming, network, queryPc, pmPower, kept, answer, queryRaced, queryCalls,
  status, pollThread, lastStatus, seen, pollRun, dtor, diagClients, diagPool, diagTold,
  diagAnswer, diagCalls,
  queue, run, exit, thread, stage, slept, portsWorker, handlers, powerState, client, result,
  msgRaced, torn, msgCalls

Mode == INSTANCE OperatingMode
          WITH pc <- modePc, active <- modeActive, calls <- modeCalls, MaxCalls <- MaxModeCalls
Upload == INSTANCE LogUpload
          WITH pc <- uploadPc, raced <- uploadRaced, calls <- uploadCalls, MaxCalls <- MaxUploadCalls
Firmware == INSTANCE FirmwareUpdate
          WITH pc <- firmwarePc, calls <- firmwareCalls, MaxCalls <- MaxFirmwareCalls
Store == INSTANCE SystemStore WITH calls <- storeCalls, MaxCalls <- MaxStoreCalls
Queries == INSTANCE SystemQueries WITH pc <- queryPc, raced <- queryRaced, calls <- queryCalls
Diag == INSTANCE DeviceDiagnostics
          WITH thread <- pollThread, run <- pollRun, clients <- diagClients, pool <- diagPool,
               told <- diagTold, answer <- diagAnswer, calls <- diagCalls, MaxCalls <- MaxDiagCalls
Msg == INSTANCE SendMsgQueue
          WITH worker <- portsWorker, raced <- msgRaced, calls <- msgCalls, MaxCalls <- MaxMsgCalls

modeVars == <<mode, remaining, clear, handle, modePc, arg, modeActive, saved, marker, timed,
              collided, modeCalls, deaths>>
uploadVars == <<pid, script, bus, waiting, uploadPc, uploadRaced, uploadCalls>>
firmwareVars == <<worker, firmwarePc, owed, lost, stbVersion, latest, active, event, overlapped,
                  firmwareCalls>>
storeVars == <<territoryFile, territory, pairs, tzFile, accuracyFile, tz, friendlyName, friendlyRfc,
               naming, flag, migrationFile, told, reply, spoilt, up, storeCalls>>
queryVars == <<pmNetwork, coming, network, queryPc, pmPower, kept, answer, queryRaced, queryCalls>>
diagVars == <<status, pollThread, lastStatus, seen, pollRun, dtor, diagClients, diagPool, diagTold,
              diagAnswer, diagCalls>>
msgVars == <<queue, run, exit, thread, stage, slept, portsWorker, handlers, powerState, client,
             result, msgRaced, torn, msgCalls>>
vars == <<part, modeVars, uploadVars, firmwareVars, storeVars, queryVars, diagVars, msgVars>>

Init == /\ part \in {"mode", "upload", "firmware", "store", "queries", "diag", "msg"}
        /\ Mode!Init /\ Upload!Init /\ Firmware!Init /\ Store!Init /\ Queries!Init
        /\ Diag!Init /\ Msg!Init
        /\ part # "diag" => pollThread = "none"
        /\ part # "msg" => ~run

Next ==
  /\ UNCHANGED part
  /\ \/ /\ part = "mode" /\ Mode!Next
        /\ UNCHANGED <<uploadVars, firmwareVars, storeVars, queryVars, diagVars, msgVars>>
     \/ /\ part = "upload" /\ Upload!Next
        /\ UNCHANGED <<modeVars, firmwareVars, storeVars, queryVars, diagVars, msgVars>>
     \/ /\ part = "firmware" /\ Firmware!Next
        /\ UNCHANGED <<modeVars, uploadVars, storeVars, queryVars, diagVars, msgVars>>
     \/ /\ part = "store" /\ Store!Next
        /\ UNCHANGED <<modeVars, uploadVars, firmwareVars, queryVars, diagVars, msgVars>>
     \/ /\ part = "queries" /\ Queries!Next
        /\ UNCHANGED <<modeVars, uploadVars, firmwareVars, storeVars, diagVars, msgVars>>
     \/ /\ part = "diag" /\ Diag!Next
        /\ UNCHANGED <<modeVars, uploadVars, firmwareVars, storeVars, queryVars, msgVars>>
     \/ /\ part = "msg" /\ Msg!Next
        /\ UNCHANGED <<modeVars, uploadVars, firmwareVars, storeVars, queryVars, diagVars>>

(* The fairness of OperatingMode, LogUpload, FirmwareUpdate,               *)
(* DeviceDiagnostics and SendMsgQueue.                                     *)
Fairness ==
  /\ WF_modeVars(part = "mode" /\ Mode!Progress)
  /\ \A t \in Mode!Threads : WF_modeVars(part = "mode" /\ Mode!Step(t))
  /\ WF_uploadVars(part = "upload" /\ Upload!Progress)
  /\ \A c \in Upload!Uploaders :
       WF_uploadVars(part = "upload" /\ (Upload!abortLogUpload(c) \/ Upload!Start(c)))
  /\ WF_firmwareVars(part = "firmware" /\ Firmware!Work)
  /\ \A c \in Callers : WF_firmwareVars(part = "firmware" /\ Firmware!Go(c))
  /\ WF_diagVars(part = "diag" /\ Diag!Thread)
  /\ WF_diagVars(part = "diag" /\ Diag!Timeout)
  /\ WF_diagVars(part = "diag" /\ Diag!Dispatch)
  /\ WF_diagVars(part = "diag" /\ (Diag!Notify \/ Diag!JoinPoll))
  /\ WF_msgVars(part = "msg" /\ Msg!Thread)
  /\ WF_msgVars(part = "msg" /\ Msg!Leaving)

Spec == Init /\ [][Next]_vars /\ Fairness

-----------------------------------------------------------------------------
(* setMode: the marker of the warehouse mode and the file that a restart   *)
(* reads agree with m_currentMode whenever no call is under way.           *)
FilesFollowMode == Mode!FilesFollowMode

(* updateDuration: a mode set for a time ends, also over a restart.        *)
TimedModeEnds == Mode!TimedModeEnds

(* uploadLogsAsync, abortLogUpload: a script that runs is the recorded one.*)
ScriptIsRecorded == Upload!ScriptIsRecorded

(* onLogUpload: the script that ended is collected and its mutex released. *)
UploadEnds == Upload!UploadEnds

(* getFirmwareUpdateInfo, getMacAddresses: what was accepted is answered.  *)
AsyncAnswered == Firmware!AsyncAnswered

(* getTerritory: a region is answered with the territory it was set with.  *)
RegionFitsTerritory == Store!RegionFitsTerritory

(* setTimeZoneDST, setTerritory, setFriendlyName: listeners were told what *)
(* the next start finds.                                                   *)
ChangesAreTold == Store!ChangesAreTold

(* getNetworkStandbyMode: a cached mode is the one PowerManager has, or    *)
(* the event that says otherwise is on its way.                            *)
CachedModeIsReal == Queries!CachedModeIsReal

(* DeviceDiagnostics: the destructor joins its polling thread and returns. *)
DestructorEnds == Diag!DestructorEnds

(* DisplaySettings, sendMsgThread: what is queued is sent, unless a push   *)
(* met the thread at one of two places, or there is no thread.             *)
MessagesAreSent == Msg!MessagesAreSent

(* DisplaySettings, Deinitialize: it gets to its end.                      *)
DeinitializeEnds == Msg!DeinitializeEnds
=============================================================================
