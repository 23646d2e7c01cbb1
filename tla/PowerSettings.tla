---------------------------- MODULE PowerSettings ----------------------------
(***************************************************************************)
(* PowerController and Settings: the power state and the network standby   *)
(* mode in memory, in /opt and in /tmp, on the platform, and what becomes  *)
(* of them when the plugin restarts, the device reboots or either happens  *)
(* in the middle of an operation.  With them the wake-up sources, which    *)
(* PowerManagerImplementation keeps in line with the network standby mode  *)
(* in several _apiLock sections.                                           *)
(***************************************************************************)
EXTENDS Naturals

CONSTANTS Callers,      \* threads that call the wake-up source API
          States,       \* power states in use
          Default,      \* the power state of new settings
          MaxOps,       \* bound on API calls
          MaxRestarts   \* bound on plugin restarts and device reboots

ASSUME SettingsAssumption ==
    Default \in States /\ MaxOps \in Nat /\ MaxRestarts \in Nat

Sources == {"WIFI", "LAN"}

VARIABLES stage,      \* construction of PowerController, "up" when complete
          power,      \* _settings._powerState
          lastKnown,  \* _lastKnownPowerState
          before,     \* _settings._powerStateBeforeReboot
          nw,         \* _settings._nwStandbyMode
          opt,        \* /opt/uimgr_settings.bin
          ram,        \* /tmp/uimgr_settings.bin
          hw,         \* power state of the platform
          supported,  \* wake-up sources the platform knows
          src,        \* wake-up sources the platform has enabled
          pc, seen,   \* of a caller in setWakeupSourceConfig
          powerSave,  \* record a power change is about to write, or Absent
          curState,   \* curState of that power change
          modeSave,   \* the same of a mode change, which holds _apiLock
          ops, restarts,
          atReboot,   \* history: what /opt held when the device came up
          ramLost,    \* history: the copy in /tmp could not be written
          unsynced,   \* history: the platform did not tell its state
          srcFailed,  \* history: the platform refused a wake-up source
          stale,      \* history: the last save to /opt failed
          raced       \* history: when the last record was drawn up another
                      \* one was still to be written

settings == <<power, lastKnown, before, nw>>
files == <<opt, ram>>
calls == <<pc, seen>>
saves == <<powerSave, curState, modeSave, raced>>
history == <<atReboot, ramLost, unsynced, srcFailed, stale>>

vars == <<stage, settings, files, hw, supported, src, calls, saves, ops,
          restarts, history>>

(* What a settings file can hold: nothing, being absent, no data, or the   *)
(* record SettingsV1 writes.                                               *)
Record(p, b) == [kind |-> "data", power |-> p, nw |-> b]
Absent == [kind |-> "absent", power |-> Default, nw |-> FALSE]
Empty == [kind |-> "empty", power |-> Default, nw |-> FALSE]
Data == [kind : {"data"}, power : States, nw : BOOLEAN]
Contents == Data \cup {Absent, Empty}

(* Settings::Load: what is read, or the defaults when there is no data.    *)
LoadV1(f) == Record(f.power, f.nw)

(* Settings::Save to /opt; the file is created when it is not there.       *)
Save(p, b) ==
    \/ opt' = Record(p, b) /\ stale' = FALSE
    \/ /\ opt' = IF opt.kind = "absent" THEN Empty ELSE opt
       /\ stale' = TRUE

TypeOK ==
    /\ stage \in {"load", "ram", "wakeup", "sync", "up"}
    /\ {power, lastKnown, before, hw, atReboot, curState} \subseteq States
    /\ opt \in Contents /\ ram \in Contents
    /\ supported \in SUBSET Sources
    /\ src \in [Sources -> BOOLEAN]
    /\ pc \in [Callers -> {"idle", "get", "mode", "apply"}]
    /\ seen \in [Callers -> BOOLEAN]
    /\ {nw, ramLost, unsynced, srcFailed, stale, raced} \subseteq BOOLEAN
    /\ powerSave \in Data \cup {Absent} /\ modeSave \in Data \cup {Absent}
    /\ ops \in 0..MaxOps /\ restarts \in 0..MaxRestarts

EnabledAmong(s) == [x \in Sources |-> x \in s]

Init ==
    /\ stage = "load"
    /\ power = Default /\ lastKnown = Default /\ before = Default
    /\ nw = FALSE
    /\ opt \in {Absent} \cup {f \in Data : ~f.nw}
    /\ ram = Absent
    /\ hw \in States
    /\ supported \in SUBSET Sources
    /\ src = EnabledAmong({})
    /\ pc = [c \in Callers |-> "idle"]
    /\ seen = [c \in Callers |-> FALSE]
    /\ ops = 0 /\ restarts = 0
    /\ atReboot = LoadV1(opt).power
    /\ ramLost = FALSE /\ unsynced = FALSE /\ srcFailed = FALSE
    /\ stale = FALSE
    /\ powerSave = Absent /\ modeSave = Absent /\ raced = FALSE
    /\ curState = Default

-----------------------------------------------------------------------------
(* The constructor of PowerController, in the order of its steps.          *)

Load ==
    /\ stage = "load"
    /\ power' = LoadV1(opt).power
    /\ nw' = LoadV1(opt).nw
    /\ before' = LoadV1(opt).power
    /\ IF opt.kind = "data" THEN stale' = FALSE /\ UNCHANGED opt
       ELSE Save(Default, FALSE)
    /\ stage' = "ram"
    /\ UNCHANGED <<lastKnown, ram, hw, supported, src, calls, saves, ops,
                   restarts, atReboot, ramLost, unsynced, srcFailed>>

(* The copy in /tmp is made once per boot of the device, and read when the *)
(* plugin starts again.                                                    *)
RamSettings ==
    /\ stage = "ram"
    /\ stage' = "wakeup"
    /\ IF ram.kind = "absent"
       THEN /\ \/ ram' = Record(power, nw) /\ UNCHANGED ramLost
               \/ ram' \in {Absent, Empty} /\ ramLost' = TRUE
            /\ UNCHANGED before
       ELSE /\ before' = LoadV1(ram).power
            /\ ram' \in {ram, LoadV1(ram)}
            /\ ram.kind = "data" => ram' = ram
            /\ UNCHANGED ramLost
    /\ UNCHANGED <<power, lastKnown, nw, opt, hw, supported, src, calls,
                   saves, ops, restarts, atReboot, unsynced, srcFailed, stale>>

(* PowerController::SetWakeupSourceConfig: every source is tried, also     *)
(* after one was refused.  A refusal counts as a failure only when it does *)
(* not look like "not supported" (PowerImpl::SetWakeupSrc): failed is the  *)
(* result.                                                                 *)
SetSources(wanted, failed) ==
    LET known == supported \cap DOMAIN wanted
    IN  \E refused \in SUBSET known :
            /\ src' = [x \in Sources |-> IF x \in known \ refused
                                         THEN wanted[x] ELSE src[x]]
            /\ srcFailed' = (srcFailed \/ refused # {})
            /\ failed => refused # {}

Both(b) == [x \in Sources |-> b]

InitWakeupSources ==
    /\ stage = "wakeup"
    /\ stage' = "sync"
    /\ \E failed \in BOOLEAN : SetSources(Both(nw), failed)
    /\ UNCHANGED <<settings, files, hw, supported, calls, saves, ops,
                   restarts, atReboot, ramLost, unsynced, stale>>

(* A mutant: the state of a platform that refuses is not saved.            *)
SyncPowerStateUnsaved ==
    /\ stage = "sync"
    /\ stage' = "up"
    /\ lastKnown' = power
    /\ power' = hw
    /\ UNCHANGED <<before, nw, files, hw, supported, src, calls, saves, ops,
                   restarts, history>>

(* init(): the platform is brought in line with the settings or, when it   *)
(* refuses, the settings with the platform.                                *)
SyncPowerState ==
    /\ stage = "sync"
    /\ stage' = "up"
    /\ lastKnown' = power
    /\ \/ unsynced' = TRUE /\ UNCHANGED <<power, hw, opt, stale>>
       \/ power = hw /\ UNCHANGED <<power, hw, opt, stale, unsynced>>
       \/ /\ power # hw
          /\ hw' = power
          /\ Save(power, nw)
          /\ UNCHANGED <<power, unsynced>>
       \/ /\ power # hw
          /\ power' = hw
          /\ Save(hw, nw)
          /\ UNCHANGED <<hw, unsynced>>
    /\ UNCHANGED <<before, nw, ram, supported, src, calls, saves, ops,
                   restarts, atReboot, ramLost, srcFailed>>

-----------------------------------------------------------------------------
(* API calls.                                                              *)

Call == stage = "up" /\ ops < MaxOps /\ ops' = ops + 1

(* A mode change keeps _apiLock until its record is written.               *)
ApiLockFree == modeSave = Absent

(* PowerController::SetPowerState: platform first, then settings, then the *)
(* record is drawn up from them and written; nothing happens when the      *)
(* platform refuses.  The completion handler runs it without _apiLock, in  *)
(* the caller's thread or in the timer's: all else may come in between.    *)
SetPowerState(p) ==
    /\ Call
    /\ powerSave = Absent
    /\ \/ /\ hw' = p
          /\ power' = p
          /\ powerSave' = Record(p, nw)
          /\ curState' = power
          /\ raced' = (modeSave # Absent)
          /\ unsynced' = FALSE
       \/ UNCHANGED <<hw, power, powerSave, curState, raced, unsynced>>
    /\ UNCHANGED <<stage, lastKnown, before, nw, files, supported, src, calls,
                   modeSave, restarts, atReboot, ramLost, srcFailed, stale>>

SavePowerState ==
    /\ powerSave # Absent
    /\ Save(powerSave.power, powerSave.nw)
    /\ lastKnown' = curState
    /\ powerSave' = Absent
    /\ UNCHANGED <<stage, power, before, nw, ram, hw, supported, src, calls,
                   curState, modeSave, raced, ops, restarts, atReboot,
                   ramLost, unsynced, srcFailed>>

(* A mutant: the mode is changed and the sources are left as they are.     *)
SetModeOnly(b) ==
    /\ nw' = b
    /\ modeSave' = Record(power, b)
    /\ raced' = (powerSave # Absent)
    /\ UNCHANGED <<src, srcFailed>>

(* PowerController::SetNetworkStandbyMode, up to the record to be written. *)
SetMode(b) ==
    \/ b = nw /\ UNCHANGED <<nw, modeSave, raced, src, srcFailed>>
    \/ b # nw /\ SetSources(Both(b), TRUE) /\ UNCHANGED <<nw, modeSave, raced>>
    \/ /\ b # nw
       /\ SetSources(Both(b), FALSE)
       /\ nw' = b
       /\ modeSave' = Record(power, b)
       /\ raced' = (powerSave # Absent)

SetNetworkStandbyMode(b) ==
    /\ ApiLockFree
    /\ Call
    /\ SetMode(b)
    /\ UNCHANGED <<stage, power, lastKnown, before, files, hw, supported,
                   calls, powerSave, curState, restarts, atReboot, ramLost,
                   unsynced, stale>>

(* A failed save is reported, and the new mode stays in force.             *)
SaveMode ==
    /\ modeSave # Absent
    /\ Save(modeSave.power, modeSave.nw)
    /\ modeSave' = Absent
    /\ UNCHANGED <<stage, settings, ram, hw, supported, src, calls, powerSave,
                   curState, raced, ops, restarts, atReboot, ramLost,
                   unsynced, srcFailed>>

(* setWakeupSourceConfig: the sources are set, read back, compared with    *)
(* the network standby mode, and the mode is changed if they agree on      *)
(* another one; _apiLock is released between these steps.                  *)
SetWakeupSourceConfig(c, wanted) ==
    /\ pc[c] = "idle"
    /\ ApiLockFree
    /\ Call
    /\ \/ SetSources(wanted, TRUE) /\ UNCHANGED pc
       \/ SetSources(wanted, FALSE) /\ pc' = [pc EXCEPT ![c] = "get"]
    /\ UNCHANGED <<stage, settings, files, hw, supported, seen, saves,
                   restarts, atReboot, ramLost, unsynced, stale>>

(* A source the platform does not support is not in the list: disabled.    *)
isWakeupSrcEnabled(x) == x \in supported /\ src[x]

ReadSources(c) ==
    /\ pc[c] = "get"
    /\ ApiLockFree
    /\ LET wifi == isWakeupSrcEnabled("WIFI")
       IN  \/ /\ wifi = isWakeupSrcEnabled("LAN")
              /\ seen' = [seen EXCEPT ![c] = wifi]
              /\ pc' = [pc EXCEPT ![c] = "mode"]
           \/ /\ wifi # isWakeupSrcEnabled("LAN")
              /\ pc' = [pc EXCEPT ![c] = "idle"]
              /\ UNCHANGED seen
    /\ UNCHANGED <<stage, settings, files, hw, supported, src, saves, ops,
                   restarts, history>>

(* The platform cannot read its sources: the call fails here.              *)
ReadSourcesFails(c) ==
    /\ pc[c] = "get"
    /\ ApiLockFree
    /\ pc' = [pc EXCEPT ![c] = "idle"]
    /\ srcFailed' = TRUE
    /\ UNCHANGED <<stage, settings, files, hw, supported, src, seen, saves,
                   ops, restarts, atReboot, ramLost, unsynced, stale>>

ReadMode(c) ==
    /\ pc[c] = "mode"
    /\ ApiLockFree
    /\ \/ /\ seen[c] = nw
          /\ pc' = [pc EXCEPT ![c] = "idle"]
          /\ seen' = [seen EXCEPT ![c] = FALSE]
       \/ /\ seen[c] # nw
          /\ pc' = [pc EXCEPT ![c] = "apply"]
          /\ UNCHANGED seen
    /\ UNCHANGED <<stage, settings, files, hw, supported, src, saves, ops,
                   restarts, history>>

ApplyMode(c) ==
    /\ pc[c] = "apply"
    /\ ApiLockFree
    /\ pc' = [pc EXCEPT ![c] = "idle"]
    /\ seen' = [seen EXCEPT ![c] = FALSE]
    /\ SetMode(seen[c])
    /\ UNCHANGED <<stage, power, lastKnown, before, files, hw, supported,
                   powerSave, curState, ops, restarts, atReboot, ramLost,
                   unsynced, stale>>

-----------------------------------------------------------------------------
(* Restarts.  A file that is being created may be left without data; an    *)
(* existing one is overwritten in place by a single write.                 *)

Restart ==
    /\ restarts < MaxRestarts
    /\ restarts' = restarts + 1
    /\ stage' = "load"
    /\ power' = Default /\ lastKnown' = Default /\ before' = Default
    /\ nw' = FALSE
    /\ pc' = [c \in Callers |-> "idle"]
    /\ seen' = [c \in Callers |-> FALSE]
    /\ powerSave' = Absent /\ modeSave' = Absent /\ raced' = FALSE
    /\ curState' = Default
    /\ UNCHANGED <<ops, supported>>

PluginRestart ==
    /\ Restart
    /\ unsynced' = FALSE /\ srcFailed' = FALSE
    /\ \/ UNCHANGED <<files, hw, ramLost>>
       \/ /\ stage = "load" /\ opt.kind = "absent"
          /\ opt' = Empty
          /\ UNCHANGED <<ram, hw, ramLost>>
       \/ /\ stage = "ram" /\ ram.kind = "absent"
          /\ ram' = Empty /\ ramLost' = TRUE
          /\ UNCHANGED <<opt, hw>>
       \/ /\ stage = "up"
          /\ hw' \in States
          /\ UNCHANGED <<files, ramLost>>
    /\ UNCHANGED <<src, atReboot, stale>>

(* /tmp is gone, and the platform is in a state of its own choice.         *)
DeviceReboot ==
    /\ Restart
    /\ ram' = Absent
    /\ hw' \in States
    /\ src' = EnabledAmong({})
    /\ atReboot' = LoadV1(opt).power
    /\ ramLost' = FALSE /\ unsynced' = FALSE /\ srcFailed' = FALSE
    /\ UNCHANGED <<opt, stale>>

Next ==
    \/ Load \/ RamSettings \/ InitWakeupSources \/ SyncPowerState
    \/ \E p \in States : SetPowerState(p)
    \/ SavePowerState \/ SaveMode
    \/ \E b \in BOOLEAN : SetNetworkStandbyMode(b)
    \/ \E c \in Callers, s \in (SUBSET Sources) \ {{}} :
           \E wanted \in [s -> BOOLEAN] : SetWakeupSourceConfig(c, wanted)
    \/ \E c \in Callers : ReadSources(c) \/ ReadSourcesFails(c)
                           \/ ReadMode(c) \/ ApplyMode(c)
    \/ PluginRestart
    \/ DeviceReboot

Spec == Init /\ [][Next]_vars

-----------------------------------------------------------------------------
Up == stage = "up"

NothingToWrite == powerSave = Absent /\ modeSave = Absent

(* Once the plugin is up and nothing is left to write, settings, file and  *)
(* platform agree on the power state and the network standby mode, after   *)
(* any sequence of refused requests, restarts and reboots.  Three things   *)
(* are excepted: the last write to /opt failed, which the code reports and *)
(* forgets; a power change and a mode change drew up their records beside  *)
(* each other, so that the older one may have been written last; and the   *)
(* platform would not tell its state to init() and no request has          *)
(* succeeded since.                                                        *)
PowerStateAgrees ==
    Up => /\ NothingToWrite => stale \/ raced \/ opt = Record(power, nw)
          /\ unsynced \/ hw = power

(* powerStateBeforeReboot is the state the device was in when it last went *)
(* down, however often the plugin has restarted since.                     *)
BeforeRebootSurvives ==
    Up /\ ~ramLost => before = atReboot

(* What was decided survives: the state now in force in file and platform, *)
(* and the one before the reboot in the plugin, through any restart.       *)
SettingsSurvive == TypeOK /\ PowerStateAgrees /\ BeforeRebootSurvives

(* When no call is under way and both network sources agree, the network   *)
(* standby mode is what they say: no interleaving of wake-up source and    *)
(* standby mode calls leaves them apart.                                   *)
StandbyFollowsSources ==
    /\ Up /\ ~srcFailed
    /\ \A c \in Callers : pc[c] = "idle"
    /\ supported = Sources
    /\ src["WIFI"] = src["LAN"]
    => nw = src["WIFI"]
=============================================================================
