------------------------ MODULE PowerSettingsProofs ------------------------
(***************************************************************************)
(* SettingsSurvive and StandbyFollowsSources for every number of callers,  *)
(* calls, restarts and reboots.                                            *)
(***************************************************************************)
EXTENDS PowerSettings, TLAPS

USE SettingsAssumption

(* PowerStateAgrees starts earlier for the file than for the platform: it  *)
(* holds from the moment the settings are loaded.  Unless two records were *)
(* drawn up beside each other, the file or the one record that is still to *)
(* be written holds what is in memory.                                     *)
FileAgrees ==
    stage # "load" /\ ~raced =>
        \/ NothingToWrite /\ (stale \/ opt = Record(power, nw))
        \/ powerSave = Record(power, nw) /\ modeSave = Absent
        \/ modeSave = Record(power, nw) /\ powerSave = Absent

PlatformAgrees == Up => unsynced \/ hw = power

(* Why the state before reboot survives: until the copy in /tmp is made    *)
(* the file in /opt still holds that state, from then on the copy does.    *)
CopyNotMade ==
    /\ ram = Absent /\ stage \in {"load", "ram"}
    /\ opt.power = atReboot
    /\ stage = "ram" => power = atReboot /\ before = atReboot

CopyMade ==
    /\ ram \in Data /\ ram.power = atReboot
    /\ stage \in {"wakeup", "sync", "up"} => before = atReboot

CopyIsOfReboot == ramLost \/ CopyNotMade \/ CopyMade

(* Why the mode follows the sources: when they agree on another mode, some *)
(* caller is about to read them or has read them and will set it.          *)
Pursues(c) == \/ pc[c] = "get"
              \/ pc[c] \in {"mode", "apply"} /\ seen[c] = src["WIFI"]

ModeIsPursued ==
    /\ stage \in {"sync", "up"} /\ ~srcFailed
    /\ supported = Sources
    /\ src["WIFI"] = src["LAN"]
    /\ nw # src["WIFI"]
    => \E c \in Callers : Pursues(c)

(* Calls are under way only in a plugin that is up.                        *)
CallsNeedUp ==
    /\ \A c \in Callers : pc[c] # "idle" => Up
    /\ ~NothingToWrite => Up

Inv == /\ TypeOK /\ FileAgrees /\ PlatformAgrees /\ CopyIsOfReboot
       /\ CallsNeedUp /\ ModeIsPursued

-----------------------------------------------------------------------------
(* What a settings file can hold has a power state and a mode.             *)
LEMMA ContentsAreRecords ==
    ASSUME NEW f \in Contents
    PROVE  /\ f.power \in States /\ f.nw \in BOOLEAN
           /\ f.kind = "data" => f \in Data /\ f = Record(f.power, f.nw)
           /\ f.kind = "absent" => f = Absent
           /\ f.kind # "data" => f.power = Default /\ f.nw = FALSE
           /\ LoadV1(f) \in Data /\ LoadV1(f).power = f.power /\ LoadV1(f).nw = f.nw
<1>1. CASE f \in Data
  <2>1. f.kind = "data" /\ f.power \in States /\ f.nw \in BOOLEAN
    BY <1>1 DEF Data
  <2>2. f = [kind |-> "data", power |-> f.power, nw |-> f.nw]
    BY <1>1 DEF Data
  <2> QED
    BY <1>1, <2>1, <2>2 DEF Record, LoadV1
<1>2. CASE f \in {Absent, Empty}
  <2>1. f.kind # "data" /\ f.power = Default /\ f.nw = FALSE
    BY <1>2 DEF Absent, Empty
  <2>2. f.kind = "absent" => f = Absent
    BY <1>2 DEF Absent, Empty
  <2>3. LoadV1(f) \in Data /\ LoadV1(f).power = f.power /\ LoadV1(f).nw = f.nw
    BY <2>1 DEF LoadV1, Record, Data
  <2> QED
    BY <2>1, <2>2, <2>3
<1> QED
  BY <1>1, <1>2 DEF Contents

(* Save leaves in /opt the record, or what a failed save leaves there.     *)
LEMMA SaveWrites ==
    ASSUME opt \in Contents, NEW p \in States, NEW b \in BOOLEAN, Save(p, b)
    PROVE  /\ opt' \in Contents /\ stale' \in BOOLEAN
           /\ stale' \/ opt' = Record(p, b)
           /\ stale' => opt'.power = opt.power
<1>1. CASE opt' = Record(p, b) /\ stale' = FALSE
  BY <1>1 DEF Contents, Data, Record
<1>2. CASE /\ opt' = IF opt.kind = "absent" THEN Empty ELSE opt
           /\ stale' = TRUE
  <2>1. Empty \in Contents /\ Empty.power = Default
    BY DEF Contents, Empty
  <2>2. opt.kind = "absent" => opt.power = Default
    BY ContentsAreRecords
  <2> QED
    BY <1>2, <2>1, <2>2
<1> QED
  BY <1>1, <1>2, Zenon DEF Save

(* SetSources keeps the type of the sources; without a refusal all that    *)
(* are known get what is wanted.                                           *)
LEMMA SourcesAreSet ==
    ASSUME src \in [Sources -> BOOLEAN], srcFailed \in BOOLEAN,
           NEW wanted, DOMAIN wanted \subseteq Sources,
           \A x \in DOMAIN wanted : wanted[x] \in BOOLEAN,
           NEW failed \in BOOLEAN, SetSources(wanted, failed)
    PROVE  /\ src' \in [Sources -> BOOLEAN] /\ srcFailed' \in BOOLEAN
           /\ srcFailed => srcFailed'
           /\ failed => srcFailed'
           /\ ~srcFailed' => \A x \in supported \cap DOMAIN wanted : src'[x] = wanted[x]
<1>1. PICK refused \in SUBSET (supported \cap DOMAIN wanted) :
         /\ src' = [x \in Sources |-> IF x \in (supported \cap DOMAIN wanted) \ refused
                                      THEN wanted[x] ELSE src[x]]
         /\ srcFailed' = (srcFailed \/ refused # {})
         /\ failed => refused # {}
  BY Zenon DEF SetSources
<1>2. src' \in [Sources -> BOOLEAN]
  BY <1>1
<1>3. srcFailed' \in BOOLEAN /\ (srcFailed => srcFailed') /\ (failed => srcFailed')
  BY <1>1
<1>4. ASSUME ~srcFailed', NEW x \in supported \cap DOMAIN wanted PROVE src'[x] = wanted[x]
  <2>1. refused = {}
    BY <1>1, <1>4
  <2> QED
    BY <1>1, <2>1
<1> QED
  BY <1>2, <1>3, <1>4

(* SetMode draws up a record of what is in memory, and leaves the sources  *)
(* with the mode it was asked for unless one was refused.                  *)
LEMMA ModeIsSet ==
    ASSUME TypeOK, NEW b \in BOOLEAN, SetMode(b)
    PROVE  /\ nw' \in BOOLEAN /\ modeSave' \in Data \cup {Absent}
           /\ raced' \in BOOLEAN
           /\ src' \in [Sources -> BOOLEAN] /\ srcFailed' \in BOOLEAN
           /\ \/ UNCHANGED <<nw, modeSave, raced>>
              \/ /\ modeSave' = Record(power, nw')
                 /\ raced' \/ powerSave = Absent
           /\ \/ srcFailed'
              \/ b = nw /\ UNCHANGED <<nw, src, srcFailed>>
              \/ nw' = b /\ (supported = Sources => src'["WIFI"] = b)
<1> USE DEF TypeOK
<1>0. /\ DOMAIN Both(b) = Sources /\ \A x \in Sources : Both(b)[x] = b
  BY DEF Both
<1>1. CASE b = nw /\ UNCHANGED <<nw, modeSave, raced, src, srcFailed>>
  BY <1>1
<1>2. CASE SetSources(Both(b), TRUE) /\ UNCHANGED <<nw, modeSave, raced>>
  BY <1>0, <1>2, SourcesAreSet
<1>3. CASE /\ SetSources(Both(b), FALSE) /\ nw' = b
           /\ modeSave' = Record(power, b) /\ raced' = (powerSave # Absent)
  <2>1. Record(power, b) \in Data /\ raced' \in BOOLEAN
    BY <1>3 DEF Record, Data
  <2>2. /\ src' \in [Sources -> BOOLEAN] /\ srcFailed' \in BOOLEAN
        /\ ~srcFailed' => \A x \in supported \cap Sources : src'[x] = Both(b)[x]
    BY <1>0, <1>3, SourcesAreSet
  <2>3. srcFailed' \/ (supported = Sources => src'["WIFI"] = b)
    BY <1>0, <2>2 DEF Sources
  <2> QED
    BY <1>3, <2>1, <2>2, <2>3
<1> QED
  BY <1>1, <1>2, <1>3, Zenon DEF SetMode

-----------------------------------------------------------------------------
(* A start of the device for the first time.                               *)
LEMMA InitInv == Init => Inv
<1> SUFFICES ASSUME Init PROVE Inv
  OBVIOUS
<1>1. opt \in Contents /\ ram \in Contents /\ ram = Absent
  BY DEF Init, Contents
<1>2. atReboot = opt.power /\ atReboot \in States
  BY <1>1, ContentsAreRecords DEF Init
<1>3. {nw, ramLost, unsynced, srcFailed, stale, raced} \subseteq BOOLEAN
  BY DEF Init
<1>4. src \in [Sources -> BOOLEAN] /\ seen \in [Callers -> BOOLEAN]
  BY DEF Init, EnabledAmong
<1>5. TypeOK
  BY <1>1, <1>2, <1>3, <1>4 DEF Init, TypeOK
<1>6. CopyIsOfReboot
  BY <1>1, <1>2 DEF Init, CopyIsOfReboot, CopyNotMade
<1> QED
  BY <1>5, <1>6 DEF Init, Inv, FileAgrees, PlatformAgrees, Up, CallsNeedUp,
                    NothingToWrite, ModeIsPursued

(* The construction of PowerController.                                    *)
LEMMA ConstructionKeepsInv ==
    ASSUME Inv, Load \/ RamSettings \/ InitWakeupSources \/ SyncPowerState
    PROVE  Inv'
<1> USE DEF Inv
<1>1. CASE Load
  <2>1. power' = opt.power /\ nw' = opt.nw /\ before' = opt.power
        /\ power' \in States /\ nw' \in BOOLEAN
    BY <1>1, ContentsAreRecords DEF Load, TypeOK
  <2>2. /\ opt' \in Contents /\ stale' \in BOOLEAN /\ opt'.power = opt.power
        /\ stale' \/ opt' = Record(power', nw')
    <3>1. CASE opt.kind = "data"
      BY <1>1, <2>1, <3>1, ContentsAreRecords DEF Load, TypeOK
    <3>2. CASE opt.kind # "data"
      <4>1. Save(Default, FALSE) /\ opt.power = Default /\ opt.nw = FALSE
        BY <1>1, <3>2, ContentsAreRecords DEF Load, TypeOK
      <4>2. Record(Default, FALSE).power = Default
        BY DEF Record
      <4> QED
        BY <2>1, <4>1, <4>2, SaveWrites DEF TypeOK
    <3> QED
      BY <3>1, <3>2
  <2>3. TypeOK'
    BY <1>1, <2>1, <2>2 DEF Load, TypeOK, calls, saves
  <2>4. CopyIsOfReboot'
    BY <1>1, <2>1, <2>2 DEF Load, CopyIsOfReboot, CopyNotMade, CopyMade
  <2> QED
    BY <1>1, <2>2, <2>3, <2>4
       DEF Load, FileAgrees, PlatformAgrees, Up, CallsNeedUp, ModeIsPursued,
           NothingToWrite, calls, saves
<1>2. CASE RamSettings
  <2>1. /\ stage = "ram" /\ stage' = "wakeup"
        /\ UNCHANGED <<power, lastKnown, nw, opt, hw, supported, src, calls, saves,
                        ops, restarts, atReboot, unsynced, srcFailed, stale>>
    BY <1>2 DEF RamSettings
  <2>2. CASE ram.kind = "absent"
    <3>1. /\ before' = before
          /\ \/ ram' = Record(power, nw) /\ ramLost' = ramLost
             \/ ram' \in {Absent, Empty} /\ ramLost' = TRUE
      BY <1>2, <2>2, Zenon DEF RamSettings
    <3>2. Record(power, nw) \in Data /\ Record(power, nw).power = power
      BY DEF TypeOK, Record, Data
    <3>3. ram' \in Contents /\ ramLost' \in BOOLEAN
      BY <3>1, <3>2, Zenon DEF TypeOK, Contents
    <3>4. ram = Absent /\ ram \notin Data
      BY <2>2, ContentsAreRecords DEF TypeOK, Data
    <3>5. CopyIsOfReboot'
      BY <2>1, <3>1, <3>2, <3>4 DEF CopyIsOfReboot, CopyNotMade, CopyMade
    <3>6. TypeOK'
      BY <2>1, <3>1, <3>3 DEF TypeOK, calls, saves
    <3> QED
      BY <2>1, <3>5, <3>6 DEF FileAgrees, PlatformAgrees, Up, CallsNeedUp, ModeIsPursued,
           NothingToWrite, calls, saves
  <2>3. CASE ram.kind # "absent"
    <3>1. /\ before' = LoadV1(ram).power /\ ram' \in {ram, LoadV1(ram)}
          /\ ram.kind = "data" => ram' = ram
          /\ ramLost' = ramLost
      BY <1>2, <2>3 DEF RamSettings
    <3>2. ram' \in Contents /\ before' = ram.power /\ before' \in States
      BY <3>1, ContentsAreRecords DEF TypeOK, Contents
    <3>3. ram # Absent /\ (ram \in Data => ram.kind = "data")
      BY <2>3 DEF Absent, Data
    <3>4. CopyIsOfReboot'
      BY <2>1, <3>1, <3>2, <3>3 DEF CopyIsOfReboot, CopyNotMade, CopyMade
    <3>5. TypeOK'
      BY <2>1, <3>1, <3>2 DEF TypeOK, calls, saves
    <3> QED
      BY <2>1, <3>4, <3>5 DEF FileAgrees, PlatformAgrees, Up, CallsNeedUp, ModeIsPursued,
           NothingToWrite, calls, saves
  <2> QED
    BY <2>2, <2>3
<1>3. CASE InitWakeupSources
  <2>1. PICK failed \in BOOLEAN : SetSources(Both(nw), failed)
    BY <1>3 DEF InitWakeupSources
  <2>2. DOMAIN Both(nw) = Sources /\ \A x \in Sources : Both(nw)[x] = nw
    BY DEF Both
  <2>3. /\ src' \in [Sources -> BOOLEAN] /\ srcFailed' \in BOOLEAN
        /\ ~srcFailed' => \A x \in supported \cap Sources : src'[x] = nw
    BY <2>1, <2>2, SourcesAreSet DEF TypeOK
  <2>4. TypeOK'
    BY <1>3, <2>3 DEF InitWakeupSources, TypeOK, settings, files, calls, saves
  <2>5. ModeIsPursued'
    BY <1>3, <2>3 DEF InitWakeupSources, ModeIsPursued, Sources, settings
  <2> QED
    BY <1>3, <2>4, <2>5 DEF InitWakeupSources, FileAgrees, PlatformAgrees, Up,
       CallsNeedUp, CopyIsOfReboot, CopyNotMade, CopyMade, NothingToWrite,
       settings, files, calls, saves
<1>4. CASE SyncPowerState
  <2>1. /\ stage = "sync" /\ stage' = "up" /\ lastKnown' = power
        /\ UNCHANGED <<before, nw, ram, supported, src, calls, saves, ops,
                        restarts, atReboot, ramLost, srcFailed>>
        /\ NothingToWrite
    BY <1>4 DEF SyncPowerState, CallsNeedUp, Up
  <2>2. /\ {power', hw'} \subseteq States
        /\ opt' \in Contents /\ {unsynced', stale'} \subseteq BOOLEAN
        /\ raced \/ stale' \/ opt' = Record(power', nw)
        /\ unsynced' \/ hw' = power'
    <3>0. raced \/ stale \/ opt = Record(power, nw)
      BY <2>1 DEF FileAgrees, NothingToWrite, Record, Absent
    <3>1. CASE unsynced' = TRUE /\ UNCHANGED <<power, hw, opt, stale>>
      BY <3>0, <3>1 DEF TypeOK
    <3>2. CASE power = hw /\ UNCHANGED <<power, hw, opt, stale, unsynced>>
      BY <3>0, <3>2 DEF TypeOK
    <3>3. CASE hw' = power /\ Save(power, nw) /\ UNCHANGED <<power, unsynced>>
      BY <3>3, SaveWrites DEF TypeOK
    <3>4. CASE power' = hw /\ Save(hw, nw) /\ UNCHANGED <<hw, unsynced>>
      BY <3>4, SaveWrites DEF TypeOK
    <3> QED
      BY <1>4, <3>1, <3>2, <3>3, <3>4, Zenon DEF SyncPowerState
  <2>3. TypeOK'
    BY <2>1, <2>2 DEF TypeOK, calls, saves
  <2>4. ModeIsPursued'
    BY <2>1 DEF ModeIsPursued, Pursues, calls
  <2> QED
    BY <2>1, <2>2, <2>3, <2>4 DEF FileAgrees, PlatformAgrees, Up, CallsNeedUp, CopyIsOfReboot,
       CopyNotMade, CopyMade, NothingToWrite, calls, files, saves
<1> QED
  BY <1>1, <1>2, <1>3, <1>4

(* The calls that are one step, and the first step of                      *)
(* setWakeupSourceConfig.                                                  *)
LEMMA CallsKeepInv ==
    ASSUME Inv,
           \/ \E p \in States : SetPowerState(p)
           \/ \E b \in BOOLEAN : SetNetworkStandbyMode(b)
           \/ \E c \in Callers, s \in (SUBSET Sources) \ {{}} :
                  \E wanted \in [s -> BOOLEAN] : SetWakeupSourceConfig(c, wanted)
    PROVE  Inv'
<1> USE DEF Inv
<1>1. ASSUME NEW p \in States, SetPowerState(p) PROVE Inv'
  <2>1. /\ stage = "up" /\ ops' \in 0..MaxOps
        /\ UNCHANGED <<stage, lastKnown, before, nw, files, supported, src,
                        calls, modeSave, restarts, atReboot, ramLost,
                        srcFailed, stale>>
    BY <1>1 DEF SetPowerState, Call, TypeOK
  <2>2. /\ {power', hw', curState'} \subseteq States
        /\ powerSave' \in Data \cup {Absent}
        /\ {unsynced', raced'} \subseteq BOOLEAN
        /\ unsynced' \/ hw' = power'
        /\ \/ UNCHANGED <<power, powerSave, raced>>
           \/ /\ powerSave' = Record(power', nw)
              /\ raced' \/ modeSave = Absent
    <3>1. CASE /\ hw' = p /\ power' = p /\ powerSave' = Record(p, nw)
               /\ curState' = power /\ raced' = (modeSave # Absent)
               /\ unsynced' = FALSE
      <4>1. Record(p, nw) \in Data
        BY DEF Record, Data, TypeOK
      <4> QED
        BY <3>1, <4>1 DEF TypeOK
    <3>2. CASE UNCHANGED <<hw, power, powerSave, curState, raced, unsynced>>
      BY <2>1, <3>2 DEF TypeOK, PlatformAgrees, Up
    <3> QED
      BY <1>1, <3>1, <3>2, Zenon DEF SetPowerState
  <2>3. TypeOK'
    BY <2>1, <2>2 DEF TypeOK, calls, files
  <2>4. ModeIsPursued'
    BY <2>1 DEF ModeIsPursued, Pursues, calls
  <2>5. FileAgrees'
    BY <2>1, <2>2 DEF FileAgrees, NothingToWrite, files
  <2> QED
    BY <2>1, <2>2, <2>3, <2>4, <2>5 DEF PlatformAgrees, Up, CallsNeedUp,
       CopyIsOfReboot, CopyNotMade, CopyMade, calls, files
<1>2. ASSUME NEW b \in BOOLEAN, SetNetworkStandbyMode(b) PROVE Inv'
  <2>1. /\ stage = "up" /\ ops' \in 0..MaxOps /\ SetMode(b)
        /\ UNCHANGED <<stage, power, lastKnown, before, files, hw, supported,
                        calls, powerSave, curState, restarts, atReboot, ramLost,
                        unsynced, stale>>
    BY <1>2 DEF SetNetworkStandbyMode, Call, TypeOK
  <2>2. TypeOK'
    BY <2>1, ModeIsSet DEF TypeOK, calls, files
  <2>3. FileAgrees'
    BY <2>1, ModeIsSet DEF FileAgrees, NothingToWrite, files
  <2>4. ModeIsPursued'
    BY <2>1, ModeIsSet DEF ModeIsPursued, Pursues, calls
  <2> QED
    BY <2>1, <2>2, <2>3, <2>4 DEF PlatformAgrees, Up, CallsNeedUp, CopyIsOfReboot,
       CopyNotMade, CopyMade, NothingToWrite, calls, files, saves
<1>3. ASSUME NEW c \in Callers, NEW s \in (SUBSET Sources) \ {{}},
             NEW wanted \in [s -> BOOLEAN], SetWakeupSourceConfig(c, wanted)
      PROVE  Inv'
  <2>1. /\ stage = "up" /\ ops' \in 0..MaxOps
        /\ UNCHANGED <<stage, settings, files, hw, supported, seen, saves,
                        restarts, atReboot, ramLost, unsynced, stale>>
    BY <1>3 DEF SetWakeupSourceConfig, Call, TypeOK
  <2>2. \/ SetSources(wanted, TRUE) /\ pc' = pc
        \/ SetSources(wanted, FALSE) /\ pc' = [pc EXCEPT ![c] = "get"]
    BY <1>3 DEF SetWakeupSourceConfig
  <2>3. DOMAIN wanted \subseteq Sources /\ \A x \in DOMAIN wanted : wanted[x] \in BOOLEAN
    OBVIOUS
  <2>4. /\ src' \in [Sources -> BOOLEAN] /\ srcFailed' \in BOOLEAN
        /\ pc' \in [Callers -> {"idle", "get", "mode", "apply"}]
        /\ srcFailed' \/ pc'[c] = "get"
    BY <2>2, <2>3, SourcesAreSet DEF TypeOK
  <2>5. TypeOK'
    BY <2>1, <2>4 DEF TypeOK, settings, files, saves
  <2>6. ModeIsPursued'
    BY <2>4 DEF ModeIsPursued, Pursues
  <2> QED
    BY <2>1, <2>5, <2>6 DEF FileAgrees, PlatformAgrees, Up, CallsNeedUp, CopyIsOfReboot,
       CopyNotMade, CopyMade, NothingToWrite, settings, files, saves
<1> QED
  BY <1>1, <1>2, <1>3

(* The record that was drawn up is written.                                *)
LEMMA SavesKeepInv ==
    ASSUME Inv, SavePowerState \/ SaveMode
    PROVE  Inv'
<1> USE DEF Inv
<1>1. stage = "up"
  BY DEF SavePowerState, SaveMode, CallsNeedUp, NothingToWrite, Up
<1>2. ASSUME NEW f \in Data
      PROVE  f.power \in States /\ f.nw \in BOOLEAN /\ f = Record(f.power, f.nw)
  BY <1>2 DEF Data, Record
<1>3. CASE SavePowerState
  <2>1. /\ powerSave \in Data /\ Save(powerSave.power, powerSave.nw)
        /\ lastKnown' = curState /\ powerSave' = Absent
        /\ UNCHANGED <<stage, power, before, nw, ram, hw, supported, src, calls,
                        curState, modeSave, raced, ops, restarts, atReboot,
                        ramLost, unsynced, srcFailed>>
    BY <1>3 DEF SavePowerState, TypeOK
  <2>2. /\ opt' \in Contents /\ stale' \in BOOLEAN
        /\ stale' \/ opt' = powerSave
    BY <1>2, <2>1, SaveWrites DEF TypeOK
  <2>3. TypeOK'
    BY <2>1, <2>2 DEF TypeOK, calls
  <2>4. FileAgrees'
    BY <1>3, <2>1, <2>2 DEF FileAgrees, NothingToWrite, SavePowerState
  <2>5. ModeIsPursued'
    BY <2>1 DEF ModeIsPursued, Pursues, calls
  <2> QED
    BY <1>1, <2>1, <2>3, <2>4, <2>5 DEF PlatformAgrees, Up, CallsNeedUp,
       CopyIsOfReboot, CopyNotMade, CopyMade, calls
<1>4. CASE SaveMode
  <2>1. /\ modeSave \in Data /\ Save(modeSave.power, modeSave.nw)
        /\ modeSave' = Absent
        /\ UNCHANGED <<stage, settings, ram, hw, supported, src, calls, powerSave,
                        curState, raced, ops, restarts, atReboot, ramLost,
                        unsynced, srcFailed>>
    BY <1>4 DEF SaveMode, TypeOK
  <2>2. /\ opt' \in Contents /\ stale' \in BOOLEAN
        /\ stale' \/ opt' = modeSave
    BY <1>2, <2>1, SaveWrites DEF TypeOK
  <2>3. TypeOK'
    BY <2>1, <2>2 DEF TypeOK, calls, settings
  <2>4. FileAgrees'
    BY <1>4, <2>1, <2>2 DEF FileAgrees, NothingToWrite, SaveMode, settings
  <2>5. ModeIsPursued'
    BY <2>1 DEF ModeIsPursued, Pursues, calls, settings
  <2> QED
    BY <1>1, <2>1, <2>3, <2>4, <2>5 DEF PlatformAgrees, Up, CallsNeedUp,
       CopyIsOfReboot, CopyNotMade, CopyMade, calls, settings
<1> QED
  BY <1>3, <1>4

(* The other steps of setWakeupSourceConfig.                               *)
LEMMA SourceStepsKeepInv ==
    ASSUME Inv, NEW c \in Callers,
           ReadSources(c) \/ ReadSourcesFails(c) \/ ReadMode(c) \/ ApplyMode(c)
    PROVE  Inv'
<1> USE DEF Inv
<1>1. CASE ReadSources(c)
  <2>1. /\ pc[c] = "get"
        /\ UNCHANGED <<stage, settings, files, hw, supported, src, saves, ops,
                        restarts, history>>
    BY <1>1 DEF ReadSources
  <2>2. \/ /\ pc' = [pc EXCEPT ![c] = "mode"]
           /\ seen' = [seen EXCEPT ![c] = isWakeupSrcEnabled("WIFI")]
        \/ /\ isWakeupSrcEnabled("WIFI") # isWakeupSrcEnabled("LAN")
           /\ pc' = [pc EXCEPT ![c] = "idle"] /\ seen' = seen
    BY <1>1, Zenon DEF ReadSources
  <2>3. isWakeupSrcEnabled("WIFI") \in BOOLEAN
    BY DEF isWakeupSrcEnabled
  <2>4. /\ pc' \in [Callers -> {"idle", "get", "mode", "apply"}]
        /\ seen' \in [Callers -> BOOLEAN]
    BY <2>2, <2>3 DEF TypeOK
  <2>5. TypeOK'
    BY <2>1, <2>4 DEF TypeOK, settings, files, history, saves
  <2>6. ModeIsPursued'
    <3> SUFFICES ASSUME stage \in {"sync", "up"}, ~srcFailed, supported = Sources,
                        src["WIFI"] = src["LAN"], nw # src["WIFI"]
                 PROVE  \E d \in Callers : Pursues(d)'
      BY <2>1 DEF ModeIsPursued, settings, history
    <3>1. isWakeupSrcEnabled("WIFI") = src["WIFI"] /\ isWakeupSrcEnabled("LAN") = src["LAN"]
      BY DEF isWakeupSrcEnabled, Sources, TypeOK
    <3>2. pc'[c] = "mode" /\ seen'[c] = src["WIFI"]
      BY <2>2, <3>1 DEF TypeOK
    <3> QED
      BY <2>1, <3>2 DEF Pursues
  <2> QED
    BY <2>1, <2>5, <2>6 DEF FileAgrees, PlatformAgrees, Up, CallsNeedUp, CopyIsOfReboot,
       CopyNotMade, CopyMade, NothingToWrite, settings, files, history, saves
<1>2. CASE ReadSourcesFails(c)
  <2>1. TypeOK'
    BY <1>2 DEF ReadSourcesFails, TypeOK, settings, files, saves
  <2>2. ModeIsPursued'
    BY <1>2 DEF ReadSourcesFails, ModeIsPursued
  <2> QED
    BY <1>2, <2>1, <2>2 DEF ReadSourcesFails, FileAgrees, PlatformAgrees, Up,
       CallsNeedUp, CopyIsOfReboot, CopyNotMade, CopyMade, NothingToWrite,
       settings, files, saves
<1>3. CASE ReadMode(c)
  <2>1. /\ pc[c] = "mode"
        /\ UNCHANGED <<stage, settings, files, hw, supported, src, saves, ops,
                        restarts, history>>
    BY <1>3 DEF ReadMode
  <2>2. \/ /\ seen[c] = nw /\ pc' = [pc EXCEPT ![c] = "idle"]
           /\ seen' = [seen EXCEPT ![c] = FALSE]
        \/ pc' = [pc EXCEPT ![c] = "apply"] /\ seen' = seen
    BY <1>3 DEF ReadMode
  <2>3. TypeOK'
    BY <2>1, <2>2 DEF TypeOK, settings, files, history, saves
  <2>4. ASSUME NEW d \in Callers, Pursues(d), nw # src["WIFI"] PROVE Pursues(d)'
    BY <2>1, <2>2, <2>4 DEF Pursues, TypeOK
  <2>5. ModeIsPursued'
    BY <2>1, <2>4 DEF ModeIsPursued, settings, history
  <2> QED
    BY <2>1, <2>3, <2>5 DEF FileAgrees, PlatformAgrees, Up, CallsNeedUp, CopyIsOfReboot,
       CopyNotMade, CopyMade, NothingToWrite, settings, files, history, saves
<1>4. CASE ApplyMode(c)
  <2>1. /\ pc[c] = "apply" /\ stage = "up"
        /\ SetMode(seen[c]) /\ seen[c] \in BOOLEAN
        /\ pc' = [pc EXCEPT ![c] = "idle"]
        /\ seen' = [seen EXCEPT ![c] = FALSE]
        /\ UNCHANGED <<stage, power, lastKnown, before, files, hw, supported,
                        powerSave, curState, ops, restarts, atReboot, ramLost,
                        unsynced, stale>>
    BY <1>4 DEF ApplyMode, TypeOK, CallsNeedUp, Up
  <2>2. TypeOK'
    BY <2>1, ModeIsSet DEF TypeOK, files
  <2>3. FileAgrees'
    BY <2>1, ModeIsSet DEF FileAgrees, NothingToWrite, files
  <2>4. ModeIsPursued'
    <3>1. CASE srcFailed' \/ (nw' = seen[c] /\ (supported = Sources => src'["WIFI"] = seen[c]))
      BY <2>1, <3>1 DEF ModeIsPursued
    <3>2. CASE seen[c] = nw /\ UNCHANGED <<nw, src, srcFailed>>
      <4>1. ASSUME NEW d \in Callers, Pursues(d), nw # src["WIFI"] PROVE Pursues(d)'
        BY <2>1, <3>2, <4>1 DEF Pursues, TypeOK
      <4> QED
        BY <2>1, <3>2, <4>1 DEF ModeIsPursued
    <3> QED
      BY <2>1, <3>1, <3>2, ModeIsSet
  <2> QED
    BY <2>1, <2>2, <2>3, <2>4 DEF PlatformAgrees, Up, CallsNeedUp, CopyIsOfReboot,
       CopyNotMade, CopyMade, NothingToWrite, calls, files, saves
<1> QED
  BY <1>1, <1>2, <1>3, <1>4

(* A restart of the plugin, also in the middle of its construction, and a  *)
(* reboot of the device.                                                   *)
LEMMA RestartsKeepInv ==
    ASSUME Inv, PluginRestart \/ DeviceReboot
    PROVE  Inv'
<1> USE DEF Inv
<1>1. /\ restarts' \in 0..MaxRestarts /\ stage' = "load"
      /\ {power', lastKnown', before'} \subseteq States
      /\ nw' = FALSE
      /\ pc' = [c \in Callers |-> "idle"] /\ seen' = [c \in Callers |-> FALSE]
      /\ powerSave' = Absent /\ modeSave' = Absent /\ raced' = FALSE
      /\ curState' \in States
      /\ UNCHANGED <<ops, supported, stale>>
  BY DEF PluginRestart, DeviceReboot, Restart, TypeOK
<1>2. FileAgrees' /\ PlatformAgrees' /\ CallsNeedUp' /\ ModeIsPursued'
  BY <1>1 DEF FileAgrees, PlatformAgrees, Up, CallsNeedUp, ModeIsPursued,
           NothingToWrite, calls, saves
<1>3. Empty \in Contents /\ Absent \in Contents /\ Empty.power = Default
  BY DEF Contents, Empty
<1>4. opt.kind = "absent" => opt.power = Default
  BY ContentsAreRecords DEF TypeOK
<1>5. CASE PluginRestart
  <2>1. /\ unsynced' = FALSE /\ srcFailed' = FALSE
        /\ UNCHANGED <<src, atReboot>>
    BY <1>5 DEF PluginRestart
  <2>2. \/ UNCHANGED <<opt, ram, ramLost>> /\ hw' \in States
        \/ /\ opt.kind = "absent" /\ opt' = Empty
           /\ UNCHANGED <<ram, hw, ramLost>>
        \/ ram' = Empty /\ ramLost' = TRUE /\ UNCHANGED <<opt, hw>>
    <3>1. hw \in States
      BY DEF TypeOK
    <3> QED
      BY <1>5, <3>1, Zenon DEF PluginRestart, files
  <2>3. TypeOK'
    BY <1>1, <1>3, <2>1, <2>2 DEF TypeOK
  <2>4. CopyIsOfReboot'
    BY <1>1, <1>3, <1>4, <2>1, <2>2 DEF CopyIsOfReboot, CopyNotMade, CopyMade
  <2> QED
    BY <1>2, <2>3, <2>4
<1>6. CASE DeviceReboot
  <2>1. /\ ram' = Absent /\ hw' \in States
        /\ src' = EnabledAmong({}) /\ opt' = opt
        /\ ramLost' = FALSE /\ unsynced' = FALSE /\ srcFailed' = FALSE
    BY <1>6 DEF DeviceReboot
  <2>2. atReboot' = opt.power /\ atReboot' \in States
    BY <1>6, ContentsAreRecords DEF DeviceReboot, TypeOK
  <2>3. src' \in [Sources -> BOOLEAN]
    BY <2>1 DEF EnabledAmong
  <2>4. TypeOK'
    BY <1>1, <1>3, <2>1, <2>2, <2>3 DEF TypeOK
  <2>5. CopyIsOfReboot'
    BY <1>1, <2>1, <2>2 DEF CopyIsOfReboot, CopyNotMade
  <2> QED
    BY <1>2, <2>4, <2>5
<1> QED
  BY <1>5, <1>6

LEMMA NextInv == Inv /\ [Next]_vars => Inv'
<1> SUFFICES ASSUME Inv, [Next]_vars PROVE Inv'
  OBVIOUS
<1>1. CASE UNCHANGED vars
  BY <1>1 DEF vars, settings, files, calls, saves, NothingToWrite, history, Inv, TypeOK, FileAgrees,
     PlatformAgrees, Up, CallsNeedUp, CopyIsOfReboot, CopyNotMade, CopyMade, ModeIsPursued, Pursues
<1>2. CASE Next
  BY <1>2, ConstructionKeepsInv, CallsKeepInv, SavesKeepInv,
     SourceStepsKeepInv, RestartsKeepInv, Zenon DEF Next
<1> QED
  BY <1>1, <1>2

-----------------------------------------------------------------------------
(* Memory, file and platform agree once the plugin is up, and the state    *)
(* before the reboot survives (PowerController's constructor, init and     *)
(* SetPowerState), for every sequence of calls, refusals, failed writes,   *)
(* restarts at any step and reboots.                                       *)
THEOREM SettingsAreKept == Spec => []SettingsSurvive
<1>1. Inv => SettingsSurvive
  BY DEF Inv, SettingsSurvive, FileAgrees, NothingToWrite, Record, Absent, PlatformAgrees, PowerStateAgrees, Up,
     BeforeRebootSurvives, CopyIsOfReboot, CopyNotMade, CopyMade
<1> QED
  BY InitInv, NextInv, <1>1, PTL DEF Spec

(* With no call under way the network standby mode is the one both sources *)
(* agree on (setWakeupSourceConfig, SetNetworkStandbyMode), for every      *)
(* number of callers and every interleaving of their steps.                *)
THEOREM StandbyIsFollowed == Spec => []StandbyFollowsSources
<1>1. Inv => StandbyFollowsSources
  BY DEF Inv, StandbyFollowsSources, Up, ModeIsPursued, Pursues
<1> QED
  BY InitInv, NextInv, <1>1, PTL DEF Spec
=============================================================================
