---------------------------- MODULE PluginsProofs ----------------------------
(***************************************************************************)
(* The invariants of the run plugins, one plugin after the other, for any  *)
(* number of clients, callers, calls and heartbeats.  The plugins share no *)
(* variable: a step of the specification is one of the plugin or leaves    *)
(* its variables alone.                                                    *)
(***************************************************************************)
EXTENDS MCPlugins, SequenceTheorems, TLAPS

-----------------------------------------------------------------------------
(* FrameRate.  A collection and its timer are apart while the callback     *)
(* runs; what keeps them together is that the callback finds the           *)
(* collection still on, as long as nobody started or stopped one.          *)
FpsType == /\ collecting \in BOOLEAN /\ isActive \in BOOLEAN
           /\ timer \in {"none", "pending", "called", "after", "start"}

FpsInv == ~fpsRaced => /\ collecting <=> isActive
                       /\ Fps!InCallback => collecting
                       /\ ~Fps!InCallback => (collecting <=> timer = "pending")

LEMMA FpsStep ==
  ASSUME FpsType, FpsInv, Fps!Next
  PROVE  FpsType' /\ FpsInv'
<1> USE DEF FpsInv, FpsType, Fps!InCallback
<1>1. CASE Fps!StartFpsCollection
  BY <1>1 DEF Fps!StartFpsCollection
<1>2. CASE Fps!StopFpsCollection
  BY <1>2 DEF Fps!StopFpsCollection, Fps!stop
<1>3. CASE \E v \in Samples : Fps!UpdateFps(v)
  BY <1>3 DEF Fps!UpdateFps
<1>4. CASE Fps!Expires
  BY <1>4 DEF Fps!Expires
<1>5. CASE Fps!onReportFpsTimer
  BY <1>5 DEF Fps!onReportFpsTimer
<1>6. CASE Fps!Timed
  BY <1>6 DEF Fps!Timed
<1>7. CASE Fps!Video
  <2>1. Fps!Device
    BY <1>7 DEF Fps!Video, Fps!GetDisplayFrameRate, Fps!GetFrmMode,
       Fps!SetDisplayFrameRate, Fps!SetFrmMode, Fps!SetCollectionFrequency,
       Fps!DispatchDSMGRDisplayFramerateChangeEvent
  <2>2. QED  BY <2>1 DEF Fps!Device
<1>8. QED
  BY <1>1, <1>2, <1>3, <1>4, <1>5, <1>6, <1>7 DEF Fps!Next

(* A collection of frame rates in progress has its timer and no timer      *)
(* outlives one (StartFpsCollection, StopFpsCollection, Timed), however    *)
(* often it is started and stopped, unless that met a callback.            *)
THEOREM CollectionsHaveTimers == Spec => []CollectionHasTimer
<1>1. Init => FpsType /\ FpsInv
  BY DEF Init, Fps!Init, FpsType, FpsInv, Fps!InCallback
<1>2. FpsType /\ FpsInv /\ [Next]_vars => FpsType' /\ FpsInv'
  <2> SUFFICES ASSUME FpsType, FpsInv, [Next]_vars PROVE FpsType' /\ FpsInv'
    OBVIOUS
  <2>1. Fps!Next \/ UNCHANGED fpsVars
    BY DEF Next, vars
  <2>2. CASE UNCHANGED fpsVars
    BY <2>2 DEF fpsVars, FpsType, FpsInv, Fps!InCallback
  <2>3. QED  BY <2>1, <2>2, FpsStep
<1>3. FpsInv => CollectionHasTimer
  BY DEF FpsInv, CollectionHasTimer, Fps!CollectionHasTimer
<1>4. QED  BY <1>1, <1>2, <1>3, PTL DEF Spec

-----------------------------------------------------------------------------
(* RebootController.  A threshold is the default one or the positive one   *)
(* that its parameter had at the first heartbeat; before that heartbeat it *)
(* is the default one.                                                     *)
Counters == /\ uptime \in Int /\ standby \in Int /\ forced \in Int
            /\ params \in [standby : Values, forced : Values]
            /\ first \in [standby : Int, forced : Int]
            /\ rfcUpdated \in BOOLEAN

Thresholds ==
  /\ ~rfcUpdated => standby = Reboot!DefaultStandby /\ forced = Reboot!DefaultForced
  /\ standby = Reboot!DefaultStandby \/ (first.standby > 0 /\ standby = first.standby)
  /\ forced = Reboot!DefaultForced \/ (first.forced > 0 /\ forced = first.forced)

RebootInv == Counters /\ Thresholds /\ Reboot!RebootIsEarned

(* Whatever the store answers, only a positive parameter is taken.         *)
LEMMA ThresholdCounts ==
  ASSUME NEW old \in Int, NEW v \in Int, NEW r \in Reboot!fetchRFCValueInt(v)
  PROVE  /\ Reboot!SetThreshold(old, r) \in Int
         /\ \/ Reboot!SetThreshold(old, r) = old
            \/ v > 0 /\ Reboot!SetThreshold(old, r) = v
  BY DEF Reboot!SetThreshold, Reboot!fetchRFCValueInt

LEMMA HeartbeatKeeps ==
  ASSUME Values \subseteq Int, RebootInv, Reboot!heartbeatMsg
  PROVE  RebootInv'
<1>1. uptime' = uptime + 1 /\ params' = params /\ rfcUpdated' = TRUE
  BY DEF Reboot!heartbeatMsg
<1>2. /\ standby' \in Int /\ forced' \in Int
      /\ first' \in [standby : Int, forced : Int] /\ Thresholds'
  <2>1. CASE rfcUpdated
    <3>1. UNCHANGED <<standby, forced, first>>
      BY <2>1 DEF Reboot!heartbeatMsg
    <3>2. QED  BY <1>1, <3>1 DEF RebootInv, Counters, Thresholds
  <2>2. CASE ~rfcUpdated
    <3>1. PICK t \in Reboot!fetchRFCValueInt(params.standby),
               f \in Reboot!fetchRFCValueInt(params.forced) :
              /\ standby' = Reboot!SetThreshold(standby, t)
              /\ forced' = Reboot!SetThreshold(forced, f)
      BY <2>2 DEF Reboot!heartbeatMsg
    <3>2. first' = params /\ params.standby \in Int /\ params.forced \in Int
      BY <2>2 DEF Reboot!heartbeatMsg, RebootInv, Counters
    <3>3. /\ standby = Reboot!DefaultStandby /\ forced = Reboot!DefaultForced
          /\ standby \in Int /\ forced \in Int
      BY <2>2 DEF RebootInv, Thresholds, Counters
    <3>4. /\ standby' \in Int
          /\ standby' = standby \/ (params.standby > 0 /\ standby' = params.standby)
      BY <3>1, <3>2, <3>3, ThresholdCounts
    <3>5. /\ forced' \in Int
          /\ forced' = forced \/ (params.forced > 0 /\ forced' = params.forced)
      BY <3>1, <3>2, <3>3, ThresholdCounts
    <3>6. first' \in [standby : Int, forced : Int]
      BY <3>2 DEF RebootInv, Counters
    <3>7. Thresholds'
      BY <1>1, <3>2, <3>3, <3>4, <3>5 DEF Thresholds, Reboot!DefaultStandby, Reboot!DefaultForced
    <3>8. QED  BY <3>4, <3>5, <3>6, <3>7
  <2>3. QED  BY <2>1, <2>2
<1>3. Counters'
  BY <1>1, <1>2 DEF RebootInv, Counters
<1>4. reboots' = {} \/ reboots' = Reboot!Due(standby', forced')
  BY DEF Reboot!heartbeatMsg
<1>5. /\ reboots' # {} => uptime' >= standby'
      /\ "forced" \in reboots' => uptime' >= forced'
  BY <1>4, Zenon DEF Reboot!Due, Reboot!IsThresholdExceeded
<1>6. Reboot!RebootIsEarned'
  BY <1>2, <1>5 DEF Thresholds, Reboot!RebootIsEarned, Reboot!DefaultStandby, Reboot!DefaultForced
<1>7. QED  BY <1>2, <1>3, <1>6 DEF RebootInv

LEMMA RebootStep ==
  ASSUME Values \subseteq Int, RebootInv, Reboot!Next
  PROVE  RebootInv'
<1>1. CASE Reboot!ParametersChange
  BY <1>1 DEF Reboot!ParametersChange, RebootInv, Counters, Thresholds, Reboot!RebootIsEarned,
              Reboot!DefaultStandby, Reboot!DefaultForced
<1>2. CASE Reboot!Reboot
  <2>1. /\ uptime' = 0 /\ params' = params /\ rfcUpdated' = FALSE /\ reboots' = {}
        /\ standby' = Reboot!DefaultStandby /\ forced' = Reboot!DefaultForced
        /\ first' = [standby |-> 0, forced |-> 0]
    BY <1>2 DEF Reboot!Reboot
  <2>2. first' \in [standby : Int, forced : Int]
    BY <2>1
  <2>3. standby' \in Int /\ forced' \in Int
    BY <2>1 DEF Reboot!DefaultStandby, Reboot!DefaultForced
  <2>4. Counters'
    BY <2>1, <2>2, <2>3 DEF RebootInv, Counters
  <2>5. Thresholds' /\ Reboot!RebootIsEarned'
    BY <2>1 DEF Thresholds, Reboot!RebootIsEarned, Reboot!DefaultStandby, Reboot!DefaultForced
  <2>6. QED  BY <2>4, <2>5 DEF RebootInv
<1>3. QED  BY <1>1, <1>2, HeartbeatKeeps DEF Reboot!Next

(* No device is rebooted before it has been up for the default threshold   *)
(* or for a positive one that its parameter had at the first heartbeat     *)
(* (heartbeatMsg 79-108, SetThreshold), whatever integers the store holds  *)
(* and whenever they are written or cannot be read.                        *)
THEOREM RebootsAreEarned ==
  ASSUME Values \subseteq Int
  PROVE  Spec => []RebootIsEarned
<1>1. Init => RebootInv
  <2> SUFFICES ASSUME Reboot!Init PROVE RebootInv
    BY DEF Init
  <2>1. first = [standby |-> 0, forced |-> 0]
    BY DEF Reboot!Init
  <2>2. first \in [standby : Int, forced : Int]
    BY <2>1
  <2>3. /\ standby = Reboot!DefaultStandby /\ forced = Reboot!DefaultForced /\ reboots = {}
        /\ uptime = 0 /\ rfcUpdated = FALSE /\ params \in [standby : Values, forced : Values]
    BY DEF Reboot!Init
  <2>4. Counters
    <3>1. standby \in Int /\ forced \in Int
      BY <2>3 DEF Reboot!DefaultStandby, Reboot!DefaultForced
    <3>2. uptime \in Int
      BY <2>3
    <3>3. rfcUpdated \in BOOLEAN
      BY <2>3
    <3>4. QED  BY <2>2, <2>3, <3>1, <3>2, <3>3, Zenon DEF Counters
  <2>5. Thresholds
    BY <2>3 DEF Thresholds
  <2>6. Reboot!RebootIsEarned
    BY <2>3 DEF Reboot!RebootIsEarned
  <2>7. QED  BY <2>4, <2>5, <2>6 DEF RebootInv
<1>2. RebootInv /\ [Next]_vars => RebootInv'
  <2> SUFFICES ASSUME RebootInv, [Next]_vars
               PROVE  RebootInv'
    OBVIOUS
  <2>1. Reboot!Next \/ UNCHANGED rebootVars
    BY DEF Next, vars
  <2>2. CASE UNCHANGED rebootVars
    BY <2>2 DEF rebootVars, RebootInv, Counters, Thresholds, Reboot!RebootIsEarned,
                Reboot!DefaultStandby, Reboot!DefaultForced
  <2>3. QED  BY <2>1, <2>2, RebootStep
<1>3. RebootInv => RebootIsEarned
  BY DEF RebootInv, RebootIsEarned
<1>4. QED  BY <1>1, <1>2, <1>3, PTL DEF Spec

-----------------------------------------------------------------------------
(* DisplaySettings, audio.  MuteIsTold is not inductive: whether a call is *)
(* told depends on the cache, which has to agree with what was told.       *)
MuteInv == ~apart => toldMuted = lastMuted /\ cacheMuted = toldMuted

muteVars == <<cacheMuted, toldMuted, lastMuted, apart>>

(* Reading a setting leaves the mute and what was told of it alone. *)
LEMMA ReadsKeepMute == ASSUME Audio!Reads PROVE UNCHANGED muteVars
<1>1. ASSUME NEW v, Audio!Read(v) PROVE UNCHANGED muteVars
  BY <1>1 DEF Audio!Read, Audio!Volume, muteVars
<1>2. ASSUME Audio!Capabilities PROVE UNCHANGED muteVars
  BY <1>2 DEF Audio!Capabilities, Audio!Volume, muteVars
<1>3. ASSUME NEW s, NEW p, Audio!Get(s, p) PROVE UNCHANGED muteVars
  BY <1>3, <1>1, Zenon DEF Audio!Get
<1>4. ASSUME NEW s, NEW p, Audio!IfAttached(s, p) PROVE UNCHANGED muteVars
  BY <1>4, <1>1, Zenon DEF Audio!IfAttached
<1>5. ASSUME NEW p, Audio!getAudioDelay(p) PROVE UNCHANGED muteVars
  BY <1>5, <1>3, Zenon DEF Audio!getAudioDelay
<1>6. ASSUME NEW p, NEW r, Audio!getSinkAtmosCapability(p, r) PROVE UNCHANGED muteVars
  BY <1>6, <1>1, Zenon DEF Audio!getSinkAtmosCapability
<1>7. ASSUME Audio!getAudioFormat PROVE UNCHANGED muteVars
  BY <1>7, <1>1, Zenon DEF Audio!getAudioFormat
<1> QED
  BY <1>1, <1>2, <1>3, <1>4, <1>5, <1>6, <1>7, Zenon
     DEF Audio!Reads, Audio!getVolumeLeveller, Audio!getVolumeLeveller2, Audio!getBassEnhancer, Audio!isSurroundDecoderEnabled,
         Audio!getDRCMode, Audio!getSurroundVirtualizer, Audio!getSurroundVirtualizer2, Audio!getMISteering, Audio!getGain,
         Audio!getMS12AudioCompression, Audio!getDolbyVolumeMode, Audio!getDialogEnhancement,
         Audio!getIntelligentEqualizerMode, Audio!getGraphicEqualizerMode, Audio!getMS12AudioProfile,
         Audio!getAssociatedAudioMixing, Audio!getFaderControl, Audio!getPrimaryLanguage, Audio!getSecondaryLanguage,
         Audio!getEnableAudioPort, Audio!getSupportedAudioPorts, Audio!getSupportedAudioModes,
         Audio!getSettopAudioCapabilities, Audio!getSettopMS12Capabilities, Audio!getSupportedMS12AudioProfiles,
         Audio!getSupportedMS12Config

(* So do the events of the library. *)
LEMMA EventsKeepMute ==
  ASSUME Audio!Events
  PROVE  UNCHANGED muteVars \/ \E v \in {0, 1}, b \in BOOLEAN : Audio!onArcAudioStatusEventHandler(v, b)
<1>1. ASSUME NEW e, Audio!Notify(e) PROVE UNCHANGED muteVars
  BY <1>1 DEF Audio!Notify, Audio!Volume, muteVars
<1>2. ASSUME NEW p, Audio!OnAudioOutHotPlug(p) PROVE UNCHANGED muteVars
  BY <1>2 DEF Audio!OnAudioOutHotPlug, Audio!Volume, muteVars
<1> QED
  BY <1>1, <1>2, Zenon
     DEF Audio!Events, Audio!OnAudioFormatUpdate, Audio!OnDolbyAtmosCapabilitiesChanged,
         Audio!OnAssociatedAudioMixingChanged, Audio!OnAudioFaderControlChanged, Audio!OnAudioPrimaryLanguageChanged,
         Audio!OnAudioSecondaryLanguageChanged, Audio!notifyAudioFormatChange, Audio!notifyAtmosCapabilityChange,
         Audio!notifyAssociatedAudioMixingChange, Audio!notifyFaderControlChange, Audio!notifyPrimaryLanguageChange,
         Audio!notifySecondaryLanguageChange

(* Of the calls on volume, mute and sound mode only setMuted matters. *)
LEMMA SoundsKeepMute ==
  ASSUME Audio!Sounds
  PROVE  UNCHANGED muteVars \/ \E p \in Audio!Ports, b \in BOOLEAN : Audio!setMuted(p, b)
<1>1. ASSUME NEW v, Audio!Read(v) PROVE UNCHANGED muteVars
  BY <1>1 DEF Audio!Read, Audio!Volume, muteVars
<1>2. ASSUME NEW p, NEW v, Audio!setVolumeLevel(p, v) PROVE UNCHANGED muteVars
  BY <1>2 DEF Audio!setVolumeLevel, muteVars
<1>3. ASSUME NEW p, NEW m, NEW s, Audio!setSoundMode(p, m, s) PROVE UNCHANGED muteVars
  BY <1>3, Zenon DEF Audio!setSoundMode, muteVars
<1>4. ASSUME NEW p, Audio!getSoundMode(p) PROVE UNCHANGED muteVars
  BY <1>4, <1>1, Zenon DEF Audio!getSoundMode
<1>5. ASSUME NEW p, Audio!getVolumeLevel(p) \/ Audio!getMuted(p) PROVE UNCHANGED muteVars
  BY <1>5, <1>1, Zenon DEF Audio!getVolumeLevel, Audio!getMuted
<1> QED
  BY <1>2, <1>3, <1>4, <1>5, Zenon DEF Audio!Sounds

LEMMA AudioStep ==
  ASSUME MuteInv, Audio!Next
  PROVE  MuteInv'
<1>1. CASE UNCHANGED muteVars
  BY <1>1, Zenon DEF muteVars, MuteInv
<1>2. ASSUME NEW p \in Audio!Ports, NEW b \in BOOLEAN, Audio!setMuted(p, b) PROVE MuteInv'
  <2>1. CASE UNCHANGED <<muted, cacheMuted, lastMuted, toldMuted, apart>>
    BY <2>1, Zenon DEF MuteInv
  <2>2. CASE /\ cacheMuted' = b /\ lastMuted' = b
             /\ toldMuted' = IF cacheMuted # b THEN b ELSE toldMuted
             /\ apart' = (apart /\ b = cacheMuted)
    <3>1. CASE cacheMuted = b
      BY <2>2, <3>1, Zenon DEF MuteInv
    <3>2. CASE cacheMuted # b
      BY <2>2, <3>2, Zenon DEF MuteInv
    <3> QED
      BY <3>1, <3>2
  <2> QED
    BY <1>2, <2>1, <2>2, Zenon DEF Audio!setMuted
<1>3. ASSUME NEW v \in {0, 1}, NEW b \in BOOLEAN, Audio!onArcAudioStatusEventHandler(v, b) PROVE MuteInv'
  <2>1. CASE arc.muted = b
    BY <1>3, <2>1, Zenon DEF Audio!onArcAudioStatusEventHandler, MuteInv
  <2>2. CASE arc.muted # b
    BY <1>3, <2>2, Zenon DEF Audio!onArcAudioStatusEventHandler, MuteInv
  <2> QED
    BY <2>1, <2>2
<1>4. CASE Audio!Write
  <2>1. UNCHANGED muteVars
    BY <1>4 DEF Audio!Write, Audio!Writes, Audio!Volume, muteVars
  <2> QED
    BY <2>1, <1>1
<1>5. CASE Audio!Reads
  BY <1>5, <1>1, ReadsKeepMute, Zenon
<1>6. CASE Audio!Sounds
  BY <1>6, <1>1, <1>2, SoundsKeepMute, Zenon
<1>7. CASE Audio!Events
  BY <1>7, <1>1, <1>3, EventsKeepMute, Zenon
<1> QED
  BY <1>4, <1>5, <1>6, <1>7, Zenon DEF Audio!Next

(* A listener knows the mute that was set last: setMuted and               *)
(* onArcAudioStatusEventHandler keep cache, listeners and mute together    *)
(* until the ARC device reports another mute than the cache.               *)
THEOREM MuteTold == Spec => []MuteIsTold
<1>1. Init => MuteInv
  BY DEF Init, Audio!Init, MuteInv
<1>2. MuteInv /\ [Next]_vars => MuteInv'
  <2> SUFFICES ASSUME MuteInv, [Next]_vars PROVE MuteInv'
    OBVIOUS
  <2>1. Audio!Next \/ UNCHANGED audioVars
    BY DEF Next, vars
  <2>2. CASE UNCHANGED audioVars
    BY <2>2, Zenon DEF audioVars, MuteInv
  <2>3. QED  BY <2>1, <2>2, AudioStep
<1>3. MuteInv => MuteIsTold
  BY DEF MuteInv, MuteIsTold, Audio!MuteIsTold
<1>4. QED  BY <1>1, <1>2, <1>3, PTL DEF Spec

-----------------------------------------------------------------------------
(* Warehouse.  A reset carries the arguments of ResetDevice from the       *)
(* caller to its thread, and these decide whether it is announced.         *)
Asked == [type : Reset!ResetTypes, suppress : BOOLEAN, at : {"join", "start"}]
Replacing == [type : {"handle"}, thread : Nat, at : {"replace"}]
Resets == [type : Reset!ResetTypes \cup {"none"}, suppress : BOOLEAN,
           at : {"begin", "wait", "ended"}, script : {"none", "runs", "ok", "failed"}]

ResetType == /\ resetPc \in [Callers -> {Reset!None} \cup Asked \cup Replacing]
             /\ running \in Seq(Resets) /\ resetPool \in Seq(BOOLEAN)
             /\ \A t \in DOMAIN running : running[t].at # "ended" => running[t].type # "none"
             /\ resetTold \in Nat /\ succeeded \in Nat /\ refused \in Nat /\ lost \in Nat

(* What is left of a reset is one again, over or with its script running.  *)
LEMMA LeftIsReset ==
  ASSUME NEW r \in Resets
  PROVE  Reset!Left(r) \in Resets /\ Reset!Left(r).at = "ended"
  BY DEF Resets, Reset!Left, Reset!Over

LEMMA ScriptOverIsReset ==
  ASSUME NEW r \in Resets, NEW res \in {"ok", "failed"}
  PROVE  /\ Reset!ScriptOver(r, res) \in Resets
         /\ Reset!ScriptOver(r, res).at = r.at
         /\ r.at # "ended" => Reset!ScriptOver(r, res).type = r.type
  BY DEF Resets, Reset!ScriptOver, Reset!Over

(* One reset of the sequence is exchanged for another. *)
LEMMA ResetExchanged ==
  ASSUME ResetType, NEW t \in DOMAIN running, NEW r \in Resets,
         r.at # "ended" => r.type # "none",
         running' = [running EXCEPT ![t] = r]
  PROVE  /\ running' \in Seq(Resets)
         /\ \A u \in DOMAIN running' : running'[u].at # "ended" => running'[u].type # "none"
<1>1. running' \in Seq(Resets) /\ DOMAIN running' = DOMAIN running
  BY DEF ResetType
<1>2. ASSUME NEW u \in DOMAIN running
      PROVE  running'[u].at # "ended" => running'[u].type # "none"
  BY DEF ResetType
<1>3. QED  BY <1>1, <1>2

(* The thread announces exactly what leaves the device running.            *)
LEMMA AnnouncedIffRunning ==
  ASSUME NEW r \in Resets, r.type # "none"
  PROVE  Reset!Announces(r, Reset!Result(r)) <=> Reset!Succeeds(r)
<1>1. CASE r.type \in {"COLD", "FACTORY", "USERFACTORY"}
  BY <1>1 DEF Reset!Announces, Reset!Succeeds, Reset!Process, Reset!processColdFactoryReset,
     Reset!processFactoryReset, Reset!processUserFactoryReset
<1>2. CASE r.type = "WAREHOUSE_CLEAR"
  BY <1>2 DEF Resets, Reset!Announces, Reset!Succeeds, Reset!Process, Reset!processWHClear,
     Reset!processWHClearNoReboot
<1>3. CASE r.type = "WAREHOUSE"
  BY <1>3 DEF Resets, Reset!Announces, Reset!Succeeds, Reset!Process, Reset!processWHReset,
     Reset!processWHResetNoReboot
<1>4. QED  BY <1>1, <1>2, <1>3 DEF Resets, Reset!ResetTypes

(* A call that threw is announced and counted. *)
LEMMA ThrowsIsTold ==
  ASSUME ResetType, Reset!AnnouncedOnce, NEW c \in Callers, Reset!Throws(c),
         UNCHANGED <<running, resetTold, succeeded, lost>>
  PROVE  ResetType' /\ Reset!AnnouncedOnce'
<1>1. resetPool' \in Seq(BOOLEAN) /\ Len(resetPool') = Len(resetPool) + 1 /\ Len(resetPool) \in Nat
  BY DEF Reset!Throws, Reset!ResetDone, ResetType
<1>2. refused' = refused + 1 /\ resetPc' = [resetPc EXCEPT ![c] = Reset!None]
  BY DEF Reset!Throws
<1>3. Reset!AnnouncedOnce'
  BY <1>1, <1>2 DEF ResetType, Reset!AnnouncedOnce
<1>4. resetPc' \in [Callers -> {Reset!None} \cup Asked \cup Replacing]
  BY <1>2 DEF ResetType
<1>5. QED  BY <1>1, <1>2, <1>3, <1>4 DEF ResetType

LEMMA ResetCallersStep ==
  ASSUME ResetType, Reset!AnnouncedOnce, NEW c \in Callers,
         Reset!Join(c) \/ Reset!Start(c) \/ Reset!Replace(c) \/ Reset!Terminate(c)
  PROVE  ResetType' /\ Reset!AnnouncedOnce'
<1>1. CASE Reset!Join(c)
  <2>1. UNCHANGED <<running, resetTold, succeeded, lost>>
    BY <1>1 DEF Reset!Join
  <2>2. CASE /\ resetPc' = [resetPc EXCEPT ![c].at = "start"]
             /\ UNCHANGED <<resetPool, refused>>
    <3>1. resetPc[c] \in Asked
      BY <1>1 DEF Reset!Join, Reset!At, ResetType, Replacing
    <3>2. [resetPc[c] EXCEPT !.at = "start"] \in Asked
      BY <3>1 DEF Asked
    <3>3. resetPc' \in [Callers -> {Reset!None} \cup Asked \cup Replacing]
      BY <2>2, <3>2 DEF ResetType
    <3>4. QED
      BY <2>1, <2>2, <3>3 DEF ResetType, Reset!AnnouncedOnce
  <2>3. CASE Reset!Throws(c)
    BY <2>1, <2>3, ThrowsIsTold
  <2>4. QED  BY <1>1, <2>2, <2>3 DEF Reset!Join
<1>2. CASE Reset!Start(c)
  <2>1. UNCHANGED <<resetTold, succeeded, lost>>
    BY <1>2 DEF Reset!Start
  <2> DEFINE new == [type |-> resetPc[c].type, suppress |-> resetPc[c].suppress,
                     at |-> "begin", script |-> "none"]
  <2>2. CASE /\ running' = Append(running, new)
             /\ resetPc' = [resetPc EXCEPT ![c] = [type |-> "handle", thread |-> Len(running) + 1,
                                                   at |-> "replace"]]
             /\ UNCHANGED <<resetPool, refused>>
    <3>1. resetPc[c] \in Asked
      BY <1>2 DEF Reset!Start, Reset!At, ResetType, Replacing
    <3>2. new \in Resets /\ new.type # "none"
      BY <3>1 DEF Asked, Resets, Reset!ResetTypes
    <3>3. [type |-> "handle", thread |-> Len(running) + 1, at |-> "replace"] \in Replacing
      BY DEF Replacing, ResetType
    <3>4. resetPc' \in [Callers -> {Reset!None} \cup Asked \cup Replacing]
      BY <2>2, <3>3 DEF ResetType
    <3> HIDE DEF new
    <3>5. running' \in Seq(Resets)
          /\ \A u \in DOMAIN running' : running'[u].at # "ended" => running'[u].type # "none"
      BY <2>2, <3>2 DEF ResetType
    <3>6. QED
      BY <2>1, <2>2, <3>4, <3>5 DEF ResetType, Reset!AnnouncedOnce
  <2>3. CASE Reset!Throws(c) /\ UNCHANGED running
    BY <2>1, <2>3, ThrowsIsTold
  <2>4. QED  BY <1>2, <2>2, <2>3 DEF Reset!Start
<1>3. CASE Reset!Replace(c)
  BY <1>3 DEF Reset!Replace, ResetType, Reset!AnnouncedOnce
<1>4. CASE Reset!Terminate(c)
  <2>1. /\ resetPc' = [d \in Callers |-> Reset!None]
        /\ resetPool' = <<>> /\ lost' = lost + Len(resetPool)
        /\ running' = [t \in DOMAIN running |-> Reset!Left(running[t])]
        /\ UNCHANGED <<resetTold, succeeded, refused>>
    BY <1>4 DEF Reset!Terminate
  <2>2. /\ running' \in Seq(Resets)
        /\ \A u \in DOMAIN running' : running'[u].at # "ended" => running'[u].type # "none"
    <3>1. running \in Seq(Resets) /\ Len(running) \in Nat /\ DOMAIN running = 1..Len(running)
      BY DEF ResetType
    <3>2. \A t \in 1..Len(running) : Reset!Left(running[t]) \in Resets
                                     /\ Reset!Left(running[t]).at = "ended"
      BY <3>1, LeftIsReset
    <3>3. running' \in Seq(Resets) /\ DOMAIN running' = DOMAIN running
      BY <2>1, <3>1, <3>2
    <3>4. QED  BY <2>1, <3>1, <3>2, <3>3
  <2>3. Len(resetPool) \in Nat /\ Len(<<>>) = 0
    BY DEF ResetType
  <2>4. Reset!AnnouncedOnce' /\ lost' \in Nat
    BY <2>1, <2>3 DEF ResetType, Reset!AnnouncedOnce
  <2>5. QED
    BY <2>1, <2>2, <2>4 DEF ResetType
<1>5. QED  BY <1>1, <1>2, <1>3, <1>4

LEMMA ResetThreadsStep ==
  ASSUME ResetType, Reset!AnnouncedOnce, NEW t \in DOMAIN running,
         Reset!Begin(t) \/ Reset!Script(t) \/ Reset!WareHouseResetIARM(t)
  PROVE  ResetType' /\ Reset!AnnouncedOnce'
<1>0. running[t] \in Resets /\ (running[t].at # "ended" => running[t].type # "none")
  BY DEF ResetType
<1>1. CASE Reset!Begin(t)
  <2>1. PICK launch \in {"runs", "none"} :
          running' = [running EXCEPT ![t] = [running[t] EXCEPT !.at = "wait", !.script = launch]]
    BY <1>1 DEF Reset!Begin
  <2>2. /\ [running[t] EXCEPT !.at = "wait", !.script = launch] \in Resets
        /\ [running[t] EXCEPT !.at = "wait", !.script = launch].type # "none"
    BY <1>0, <1>1 DEF Reset!Begin, Resets
  <2>3. UNCHANGED <<resetPc, resetPool, resetTold, succeeded, refused, lost>>
    BY <1>1 DEF Reset!Begin
  <2>4. QED
    BY <2>1, <2>2, <2>3, ResetExchanged DEF ResetType, Reset!AnnouncedOnce
<1>2. CASE Reset!Script(t)
  <2>1. PICK res \in {"ok", "failed"} :
          running' = [running EXCEPT ![t] = Reset!ScriptOver(running[t], res)]
    BY <1>2 DEF Reset!Script
  <2>2. /\ Reset!ScriptOver(running[t], res) \in Resets
        /\ Reset!ScriptOver(running[t], res).at # "ended"
             => Reset!ScriptOver(running[t], res).type # "none"
    BY <1>0, ScriptOverIsReset
  <2>3. UNCHANGED <<resetPc, resetPool, resetTold, succeeded, refused, lost>>
    BY <1>2 DEF Reset!Script
  <2>4. QED
    BY <2>1, <2>2, <2>3, ResetExchanged DEF ResetType, Reset!AnnouncedOnce
<1>3. CASE Reset!WareHouseResetIARM(t)
  <2>1. running' = [running EXCEPT ![t] = Reset!Left(running[t])]
    BY <1>3 DEF Reset!WareHouseResetIARM
  <2>2. /\ running' \in Seq(Resets)
        /\ \A u \in DOMAIN running' : running'[u].at # "ended" => running'[u].type # "none"
    BY <1>0, <2>1, LeftIsReset, ResetExchanged
  <2>3. UNCHANGED <<resetPc, refused, resetTold, lost>>
    BY <1>3 DEF Reset!WareHouseResetIARM
  <2>4. Reset!Announces(running[t], Reset!Result(running[t])) <=> Reset!Succeeds(running[t])
    BY <1>0, <1>3, AnnouncedIffRunning DEF Reset!WareHouseResetIARM
  <2>5. CASE Reset!Succeeds(running[t])
    <3>1. Reset!ResetDone(TRUE) /\ succeeded' = succeeded + 1
      BY <1>3, <2>4, <2>5 DEF Reset!WareHouseResetIARM
    <3>2. /\ resetPool' \in Seq(BOOLEAN) /\ Len(resetPool') = Len(resetPool) + 1
          /\ Len(resetPool) \in Nat
      BY <3>1 DEF Reset!ResetDone, ResetType
    <3>3. Reset!AnnouncedOnce'
      BY <2>3, <3>1, <3>2 DEF ResetType, Reset!AnnouncedOnce
    <3>4. QED
      BY <2>2, <2>3, <3>1, <3>2, <3>3 DEF ResetType
  <2>6. CASE ~Reset!Succeeds(running[t])
    <3>1. UNCHANGED <<resetPool, succeeded>>
      BY <1>3, <2>4, <2>6 DEF Reset!WareHouseResetIARM
    <3>2. QED
      BY <2>2, <2>3, <3>1 DEF ResetType, Reset!AnnouncedOnce
  <2>7. QED  BY <2>5, <2>6
<1>4. QED  BY <1>1, <1>2, <1>3

LEMMA ResetStep ==
  ASSUME ResetType, Reset!AnnouncedOnce, Reset!Next
  PROVE  ResetType' /\ Reset!AnnouncedOnce'
<1>1. ASSUME Reset!Threads PROVE ResetType' /\ Reset!AnnouncedOnce'
  BY <1>1 DEF Reset!Threads, ResetType, Reset!AnnouncedOnce
<1>2. CASE Reset!Dispatch
  <2>1. resetPool' \in Seq(BOOLEAN) /\ Len(resetPool') = Len(resetPool) - 1 /\ Len(resetPool) \in Nat
    <3>1. resetPool # <<>> /\ resetPool' = Tail(resetPool) /\ resetPool \in Seq(BOOLEAN)
      BY <1>2 DEF Reset!Dispatch, ResetType
    <3>2. QED  BY <3>1, HeadTailProperties
  <2>2. resetTold' = resetTold + 1 /\ UNCHANGED <<running, resetPc, succeeded, refused, lost>>
    BY <1>2 DEF Reset!Dispatch
  <2>3. Reset!AnnouncedOnce'
    <3>1. /\ resetTold \in Nat /\ succeeded \in Nat /\ refused \in Nat /\ lost \in Nat
          /\ resetTold + Len(resetPool) + lost = succeeded + refused
      BY DEF ResetType, Reset!AnnouncedOnce
    <3>2. resetTold' + Len(resetPool') + lost' = succeeded' + refused'
      BY <2>1, <2>2, <3>1
    <3>3. QED  BY <3>2 DEF Reset!AnnouncedOnce
  <2>4. QED
    BY <2>1, <2>2, <2>3 DEF ResetType
<1>3. ASSUME NEW c \in Callers, NEW type \in Reset!ResetTypes,
             NEW suppress \in BOOLEAN, Reset!ResetDevice(c, type, suppress)
      PROVE  ResetType' /\ Reset!AnnouncedOnce'
  <2> DEFINE at == IF resetThread = 0 THEN "start" ELSE "join"
  <2>1. [type |-> type, suppress |-> suppress, at |-> at] \in Asked
    BY DEF Asked
  <2>2. resetPc' = [resetPc EXCEPT ![c] = [type |-> type, suppress |-> suppress, at |-> at]]
    BY <1>3 DEF Reset!ResetDevice
  <2> HIDE DEF at
  <2>3. resetPc' \in [Callers -> {Reset!None} \cup Asked \cup Replacing]
    BY <2>1, <2>2 DEF ResetType
  <2>4. UNCHANGED <<running, resetPool, resetTold, succeeded, refused, lost>>
    BY <1>3 DEF Reset!ResetDevice
  <2>5. QED
    BY <2>3, <2>4 DEF ResetType, Reset!AnnouncedOnce
<1>4. Reset!Threads \/ Reset!Step
      \/ \E c \in Callers, type \in Reset!ResetTypes, suppress \in BOOLEAN :
            Reset!ResetDevice(c, type, suppress)
  BY Zenon DEF Reset!Next, Reset!Register, Reset!Unregister, Reset!ExecuteHardwareTest,
     Reset!GetHardwareTestResults, Reset!InternalReset, Reset!IsClean, Reset!LightReset
<1>5. QED
  BY <1>1, <1>2, <1>3, <1>4, ResetCallersStep, ResetThreadsStep, Zenon DEF Reset!Step

(* The resets that leave the device running and that succeeded as far as   *)
(* their threads can know, and the calls that threw, are announced, once   *)
(* each (ResetDevice, WareHouseResetIARM), however many callers meet at    *)
(* the join; what is lost was pending when the process ended.              *)
THEOREM ResetsAreAnnounced == Spec => []AnnouncedOnce
<1>1. Init => ResetType /\ AnnouncedOnce
  BY DEF Init, Reset!Init, ResetType, AnnouncedOnce, Reset!AnnouncedOnce
<1>2. ResetType /\ AnnouncedOnce /\ [Next]_vars => ResetType' /\ AnnouncedOnce'
  <2> SUFFICES ASSUME ResetType, AnnouncedOnce, [Next]_vars
               PROVE  ResetType' /\ AnnouncedOnce'
    OBVIOUS
  <2>1. Reset!Next \/ UNCHANGED resetVars
    BY DEF Next, vars
  <2>2. CASE UNCHANGED resetVars
    BY <2>2 DEF resetVars, ResetType, AnnouncedOnce, Reset!AnnouncedOnce
  <2>3. QED  BY <2>1, <2>2, ResetStep DEF AnnouncedOnce
<1>3. QED  BY <1>1, <1>2, PTL DEF Spec

-----------------------------------------------------------------------------
(* DisplaySettings, video.  What keeps the caches real is that every read  *)
(* not yet stored is real too or marked as overtaken, and that between the *)
(* first event of a change and the change no cache counts as real.         *)
Reads(V) == [port : Video!VideoPorts, value : V, walk : BOOLEAN, overtaken : BOOLEAN]
Cache(V) == [value : V, updated : BOOLEAN, late : BOOLEAN]

VideoType ==
  /\ resolution \in [Video!VideoPorts -> Video!Resolutions]
  /\ connected \in [Video!VideoPorts -> BOOLEAN]
  /\ change \in {"none", "asked", "pre", "early", "done"}
  /\ plugged \in BOOLEAN
  /\ resCache \in Cache(Video!Resolutions) /\ conCache \in Cache(BOOLEAN)
  /\ reading \in {Video!No} \cup Reads(Video!Resolutions)
  /\ look \in [Video!Lanes -> {Video!No} \cup Reads(BOOLEAN)]

ResolutionIsReal ==
  /\ reading.port = Video!Default /\ ~reading.overtaken =>
       reading.value = resolution[Video!Default]
  /\ resCache.updated /\ ~resCache.late /\ change # "early" =>
       change # "pre" /\ resCache.value = resolution[Video!Default]

LooksAreReal ==
  \A l \in Video!Lanes : look[l].port = Video!Default /\ ~look[l].overtaken =>
                           look[l].value = connected[Video!Default]

ConnectionIsReal ==
  conCache.updated /\ ~conCache.late /\ ~plugged =>
    conCache.value = connected[Video!Default]

VideoInv == VideoType /\ ResolutionIsReal /\ LooksAreReal /\ ConnectionIsReal

(* A step that looks at a port, or at none. *)
Looks == \/ look' = look
         \/ \E l \in Video!Lanes, p \in Video!VideoPorts, w \in BOOLEAN :
              look' = [look EXCEPT ![l] = Video!Read(p, connected[p], w)]

LEMMA ConnectedLooks ==
  ASSUME NEW l \in Video!Lanes, NEW p \in Video!VideoPorts, Video!isDisplayConnected(l, p)
  PROVE  Looks
  BY Zenon DEF Video!isDisplayConnected, Looks

LEMMA HelperLooks ==
  ASSUME NEW l \in Video!Lanes, NEW found, Video!getConnectedVideoDisplaysHelper(l, found)
  PROVE  Looks
<1>1. Video!Default \in Video!VideoPorts /\ Video!Other \in Video!VideoPorts
  BY DEF Video!VideoPorts, Video!Other
<1>2. CASE look' = [look EXCEPT ![l] = Video!Read(Video!Default, connected[Video!Default], TRUE)]
  BY <1>1, <1>2 DEF Looks
<1>3. CASE Video!isDisplayConnected(l, Video!Other)
  BY <1>1, <1>3, ConnectedLooks
<1>4. CASE look' = look
  BY <1>4 DEF Looks
<1>5. QED  BY <1>2, <1>3, <1>4, Zenon DEF Video!getConnectedVideoDisplaysHelper

(* What is read of a port is real when it is read. *)
LEMMA ReadIsReal ==
  ASSUME VideoInv, NEW p \in Video!VideoPorts, NEW w \in BOOLEAN
  PROVE  /\ Video!Read(p, connected[p], w) \in Reads(BOOLEAN)
         /\ Video!Read(p, connected[p], w).port = p
         /\ Video!Read(p, connected[p], w).value = connected[p]
  BY DEF VideoInv, VideoType, Video!Read, Reads

(* A call or an event that looks at the ports and changes nothing else     *)
(* here, or ends a change.                                                 *)
LEMMA LookKeepsVideo ==
  ASSUME VideoInv, Looks,
         UNCHANGED <<resolution, connected, plugged, resCache, conCache, reading>>,
         change' = change \/ (change = "done" /\ change' = "none")
  PROVE  VideoInv'
<1>1. look' \in [Video!Lanes -> {Video!No} \cup Reads(BOOLEAN)] /\ LooksAreReal'
  <2>1. CASE look' = look
    BY <2>1 DEF VideoInv, VideoType, LooksAreReal
  <2>2. CASE \E l \in Video!Lanes, p \in Video!VideoPorts, w \in BOOLEAN :
                 look' = [look EXCEPT ![l] = Video!Read(p, connected[p], w)]
    <3>1. PICK l \in Video!Lanes, p \in Video!VideoPorts, w \in BOOLEAN :
                 look' = [look EXCEPT ![l] = Video!Read(p, connected[p], w)]
      BY <2>2
    <3>2. look' \in [Video!Lanes -> {Video!No} \cup Reads(BOOLEAN)]
      BY <3>1, ReadIsReal DEF VideoInv, VideoType
    <3>3. ASSUME NEW m \in Video!Lanes
          PROVE  look'[m].port = Video!Default /\ ~look'[m].overtaken =>
                   look'[m].value = connected'[Video!Default]
      <4>1. CASE m = l
        <5>1. look'[m] = Video!Read(p, connected[p], w)
          BY <3>1, <4>1 DEF VideoInv, VideoType
        <5>2. QED  BY <5>1, ReadIsReal
      <4>2. CASE m # l
        <5>1. look'[m] = look[m]
          BY <3>1, <4>2 DEF VideoInv, VideoType
        <5>2. QED  BY <5>1 DEF VideoInv, LooksAreReal
      <4>3. QED  BY <4>1, <4>2
    <3>4. QED  BY <3>2, <3>3 DEF LooksAreReal
  <2>3. QED  BY <2>1, <2>2 DEF Looks
<1>2. VideoType'
  BY <1>1 DEF VideoInv, VideoType
<1>3. ResolutionIsReal' /\ ConnectionIsReal'
  BY DEF VideoInv, ResolutionIsReal, ConnectionIsReal
<1>4. QED  BY <1>1, <1>2, <1>3 DEF VideoInv

(* A call or an event that changes nothing here.                           *)
LEMMA StillKeepsVideo ==
  ASSUME VideoInv, UNCHANGED <<resolution, connected, change, plugged,
                               resCache, conCache, reading, look>>
  PROVE  VideoInv'
BY LookKeepsVideo DEF Looks

LEMMA QueriesKeepVideo ==
  ASSUME VideoInv, Video!Queries
  PROVE  VideoInv'
<1>0. "call" \in Video!Lanes /\ Video!Default \in Video!VideoPorts
  BY DEF Video!Lanes, Video!VideoPorts
<1>1. ASSUME NEW A, Video!Query(A) PROVE VideoInv'
  BY <1>1, StillKeepsVideo DEF Video!Query, Video!Ports, Video!Caches
<1>2. ASSUME NEW p \in Video!VideoPorts, NEW Y, NEW N, Video!IfConnected(p, Y, N)
      PROVE  VideoInv'
  <2>1. Looks
    BY <1>0, <1>2, ConnectedLooks DEF Video!IfConnected, Looks
  <2>2. QED  BY <1>2, <2>1, LookKeepsVideo DEF Video!IfConnected, Video!Ports
<1>3. CASE Video!getConnectedVideoDisplays
  <2>1. Looks
    BY <1>0, <1>3, HelperLooks DEF Video!getConnectedVideoDisplays
  <2>2. QED  BY <1>3, <2>1, LookKeepsVideo DEF Video!getConnectedVideoDisplays, Video!Ports
<1>4. CASE Video!getSettopHDRSupport
  BY <1>4, StillKeepsVideo DEF Video!getSettopHDRSupport, Video!Ports
<1>5. ASSUME NEW p \in Video!VideoPorts, Video!getCurrentResolution(p)
      PROVE  VideoInv'
  <2>0. UNCHANGED <<resolution, connected, change, plugged, resCache, conCache, look>>
    BY <1>5 DEF Video!getCurrentResolution, Video!Ports, Video!Caches
  <2>1. CASE UNCHANGED reading
    BY <2>0, <2>1, StillKeepsVideo
  <2>2. CASE reading' = Video!Read(p, resolution[p], FALSE)
    <3>1. reading' \in Reads(Video!Resolutions)
      BY <2>2 DEF VideoInv, VideoType, Video!Read, Reads
    <3>2. reading'.port = p /\ reading'.value = resolution[p]
      BY <2>2 DEF Video!Read
    <3>3. VideoType'
      BY <2>0, <3>1 DEF VideoInv, VideoType
    <3>4. QED
      BY <2>0, <3>2, <3>3 DEF VideoInv, ResolutionIsReal, LooksAreReal, ConnectionIsReal
  <2>3. QED  BY <1>5, <2>1, <2>2, Zenon DEF Video!getCurrentResolution
<1>7. QED
  BY <1>0, <1>1, <1>2, <1>3, <1>4, <1>5, Zenon
     DEF Video!Queries, Video!readEDID, Video!getTvHDRSupport,
         Video!getTVHDRCapabilities, Video!getCurrentOutputSettings,
         Video!isConnectedDeviceRepeater, Video!getDefaultResolution,
         Video!readHostEDID, Video!getSupportedResolutions,
         Video!getSupportedVideoDisplays, Video!getSupportedTvResolutions,
         Video!getSupportedSettopResolutions, Video!getColorDepthCapabilities,
         Video!getVideoFormat, Video!getPreferredColorDepth,
         Video!getZoomSetting, Video!getActiveInput

(* Asking for another resolution leaves it as it is for now.               *)
LEMMA AskKeepsVideo ==
  ASSUME VideoInv, change' = change \/ (change = "none" /\ change' = "asked"),
         UNCHANGED <<resolution, connected, plugged, resCache, conCache, reading, look>>
  PROVE  VideoInv'
BY DEF VideoInv, VideoType, ResolutionIsReal, LooksAreReal, ConnectionIsReal

LEMMA SetsKeepVideo ==
  ASSUME VideoInv, Video!Sets
  PROVE  VideoInv'
<1>1. ASSUME NEW r \in Video!Resolutions, Video!setCurrentResolution(r)
      PROVE  VideoInv'
  BY <1>1, AskKeepsVideo DEF Video!setCurrentResolution, Video!Caches
<1>2. ASSUME NEW s, Video!setForceHDRMode(s) PROVE VideoInv'
  <2>1. "call" \in Video!Lanes /\ Video!Default \in Video!VideoPorts
    BY DEF Video!Lanes, Video!VideoPorts
  <2>2. Looks
    BY <1>2, <2>1, ConnectedLooks DEF Video!setForceHDRMode, Looks
  <2>3. QED  BY <1>2, <2>2, LookKeepsVideo DEF Video!setForceHDRMode, Video!Ports
<1>3. ASSUME NEW d, Video!setPreferredColorDepth(d) PROVE VideoInv'
  BY <1>3, StillKeepsVideo
     DEF Video!setPreferredColorDepth, Video!Ports, Video!Caches
<1>4. ASSUME NEW z, Video!setZoomSetting(z) PROVE VideoInv'
  BY <1>4, StillKeepsVideo DEF Video!setZoomSetting, Video!Ports, Video!Caches
<1>5. CASE Video!setScartParameter
  BY <1>5, StillKeepsVideo
     DEF Video!setScartParameter, Video!Query, Video!Ports, Video!Caches
<1>6. QED
  BY <1>1, <1>2, <1>3, <1>4, <1>5, Zenon DEF Video!Sets

(* A cache that is made cold claims nothing.                               *)
LEMMA ColdClaimsNothing ==
  ASSUME NEW V, NEW cache \in Cache(V)
  PROVE  Video!Cold(cache) \in Cache(V) /\ ~Video!Cold(cache).updated
BY DEF Cache, Video!Cold

LEMMA ChangeKeepsVideo ==
  ASSUME VideoInv, Video!OnResolutionPreChange \/ \E r \in Video!Resolutions : Video!ResolutionChanges(r)
  PROVE  VideoInv'
<1>1. CASE Video!OnResolutionPreChange
  <2>1. /\ change' \in {"pre", "done"} /\ resCache' = Video!Cold(resCache)
        /\ UNCHANGED <<resolution, connected, plugged, conCache, reading, look>>
    BY <1>1 DEF Video!OnResolutionPreChange, Video!FirstEvent
  <2>2. resCache' \in Cache(Video!Resolutions) /\ ~resCache'.updated
    BY <2>1, ColdClaimsNothing DEF VideoInv, VideoType
  <2>3. QED
    BY <2>1, <2>2 DEF VideoInv, VideoType, ResolutionIsReal, LooksAreReal, ConnectionIsReal
<1>2. ASSUME NEW r \in Video!Resolutions, Video!ResolutionChanges(r)
      PROVE  VideoInv'
  <2>1. /\ (change = "asked" /\ change' = "early") \/ (change = "pre" /\ change' = "done")
        /\ resolution' = [resolution EXCEPT ![Video!Default] = r]
        /\ reading' = Video!Overtake(reading)
        /\ UNCHANGED <<connected, plugged, resCache, conCache, look>>
    BY <1>2 DEF Video!ResolutionChanges
  <2>2. /\ reading' \in {Video!No} \cup Reads(Video!Resolutions)
        /\ reading'.port = Video!Default => reading'.overtaken
    <3>1. CASE reading = Video!No
      BY <2>1, <3>1 DEF Video!Overtake, Video!No, Video!Default
    <3>2. CASE reading \in Reads(Video!Resolutions)
      BY <2>1, <3>2 DEF Video!Overtake, Reads
    <3>3. QED  BY <3>1, <3>2 DEF VideoInv, VideoType
  <2>3. VideoType'
    BY <2>1, <2>2 DEF VideoInv, VideoType
  <2>4. ResolutionIsReal'
    BY <2>1, <2>2 DEF VideoInv, ResolutionIsReal
  <2>5. QED
    BY <2>1, <2>3, <2>4 DEF VideoInv, LooksAreReal, ConnectionIsReal
<1>3. QED  BY <1>1, <1>2

LEMMA PlugKeepsVideo ==
  ASSUME VideoInv, Video!Plug
  PROVE  VideoInv'
<1>1. /\ connected' = [connected EXCEPT ![Video!Default] = ~@] /\ plugged' = TRUE
      /\ look' = [l \in Video!Lanes |-> Video!Overtake(look[l])]
      /\ UNCHANGED <<resolution, change, resCache, conCache, reading>>
  BY DEF Video!Plug
<1>2. ASSUME NEW l \in Video!Lanes
      PROVE  /\ look'[l] \in {Video!No} \cup Reads(BOOLEAN)
             /\ look'[l].port = Video!Default => look'[l].overtaken
  <2>1. look'[l] = Video!Overtake(look[l])
    BY <1>1
  <2>2. CASE look[l] = Video!No
    BY <2>1, <2>2 DEF Video!Overtake, Video!No, Video!Default
  <2>3. CASE look[l] \in Reads(BOOLEAN)
    BY <2>1, <2>3 DEF Video!Overtake, Reads
  <2>4. QED  BY <2>2, <2>3 DEF VideoInv, VideoType
<1>3. connected' \in [Video!VideoPorts -> BOOLEAN]
  BY <1>1 DEF VideoInv, VideoType
<1>4. look' \in [Video!Lanes -> {Video!No} \cup Reads(BOOLEAN)]
  BY <1>1, <1>2
<1>5. VideoType'
  BY <1>1, <1>3, <1>4 DEF VideoInv, VideoType
<1>6. QED
  BY <1>1, <1>2, <1>5 DEF VideoInv, ResolutionIsReal, LooksAreReal, ConnectionIsReal

(* The caches are made cold together. *)
LEMMA ColdKeepsVideo ==
  ASSUME VideoInv, Looks, plugged' \in BOOLEAN,
         resCache' = Video!Cold(resCache), conCache' = Video!Cold(conCache),
         UNCHANGED <<resolution, connected, change, reading>>
  PROVE  VideoInv'
<1>1. /\ resCache' \in Cache(Video!Resolutions) /\ ~resCache'.updated
      /\ conCache' \in Cache(BOOLEAN) /\ ~conCache'.updated
  BY ColdClaimsNothing DEF VideoInv, VideoType
<1>2. look' \in [Video!Lanes -> {Video!No} \cup Reads(BOOLEAN)] /\ LooksAreReal'
  <2>1. CASE look' = look
    BY <2>1 DEF VideoInv, VideoType, LooksAreReal
  <2>2. ASSUME NEW l \in Video!Lanes, NEW p \in Video!VideoPorts, NEW w \in BOOLEAN,
               look' = [look EXCEPT ![l] = Video!Read(p, connected[p], w)]
        PROVE  look' \in [Video!Lanes -> {Video!No} \cup Reads(BOOLEAN)] /\ LooksAreReal'
    <3>1. look' \in [Video!Lanes -> {Video!No} \cup Reads(BOOLEAN)]
      BY <2>2, ReadIsReal DEF VideoInv, VideoType
    <3>2. \A m \in Video!Lanes : look'[m] = IF m = l THEN Video!Read(p, connected[p], w) ELSE look[m]
      BY <2>2 DEF VideoInv, VideoType
    <3>3. QED  BY <3>1, <3>2, ReadIsReal DEF VideoInv, LooksAreReal
  <2>3. QED  BY <2>1, <2>2 DEF Looks
<1>3. VideoType'
  BY <1>1, <1>2 DEF VideoInv, VideoType
<1>4. QED
  BY <1>1, <1>2, <1>3 DEF VideoInv, ResolutionIsReal, ConnectionIsReal

LEMMA EventsKeepVideo ==
  ASSUME VideoInv, Video!Events
  PROVE  VideoInv'
<1>0. /\ "event" \in Video!Lanes /\ "mode" \in Video!Lanes
      /\ Video!Default \in Video!VideoPorts
  BY DEF Video!Lanes, Video!VideoPorts
<1>1. ASSUME Video!Event PROVE VideoInv'
  BY <1>1, StillKeepsVideo DEF Video!Event, Video!Ports, Video!Caches
<1>3. CASE Video!OnResolutionPostChange
  <2>1. Looks
    BY <1>0, <1>3, HelperLooks DEF Video!OnResolutionPostChange, Video!resolutionChanged
  <2>2. QED  BY <1>3, <2>1, LookKeepsVideo DEF Video!OnResolutionPostChange
<1>5. ASSUME NEW s, Video!Request(s) PROVE VideoInv'
  <2>1. Looks
    BY <1>0, <1>5, HelperLooks DEF Video!Request
  <2>2. QED  BY <1>5, <2>1, LookKeepsVideo DEF Video!Request, Video!Ports
<1>6. ASSUME NEW s, Video!OnDisplayHDMIHotPlug(s) PROVE VideoInv'
  <2>1. Looks
    BY <1>0, <1>6 DEF Video!OnDisplayHDMIHotPlug, Video!connectedVideoDisplaysUpdated, Looks
  <2>2. QED  BY <1>6, <2>1, ColdKeepsVideo DEF Video!OnDisplayHDMIHotPlug
<1>7. ASSUME NEW s, Video!onPowerModeChanged(s) PROVE VideoInv'
  <2>1. /\ UNCHANGED <<resolution, connected, change, plugged, reading, look>>
        /\ plugged \in BOOLEAN
    BY <1>7 DEF Video!onPowerModeChanged, Video!Ports, VideoInv, VideoType
  <2>2. \/ UNCHANGED <<resCache, conCache>>
        \/ /\ resCache' = Video!Cold(resCache)
           /\ conCache' = Video!Cold(conCache)
    BY <1>7 DEF Video!onPowerModeChanged
  <2>3. QED
    BY <2>1, <2>2, StillKeepsVideo, ColdKeepsVideo DEF Looks
<1>8. CASE Video!OthersAsk
  BY <1>8, AskKeepsVideo DEF Video!OthersAsk, Video!Caches
<1>9. QED
  BY <1>1, <1>3, <1>5, <1>6, <1>7, <1>8, ChangeKeepsVideo, PlugKeepsVideo, Zenon
     DEF Video!Events, Video!OnZoomSettingsChanged, Video!OnDisplayRxSense,
         Video!OnVideoFormatUpdate

LEMMA StoresKeepVideo ==
  ASSUME VideoInv, Video!Stores
  PROVE  VideoInv'
<1>1. CASE Video!StoreResolution
  <2>1. /\ reading # Video!No /\ reading' = Video!No
        /\ resCache' = Video!Warm(reading.value, Video!Late(reading) \/ change = "pre")
        /\ UNCHANGED <<resolution, connected, change, plugged, conCache, look>>
    BY <1>1 DEF Video!StoreResolution
  <2>2. reading \in Reads(Video!Resolutions)
    BY <2>1 DEF VideoInv, VideoType
  <2>3. resCache' \in Cache(Video!Resolutions)
    BY <2>1, <2>2 DEF Reads, Cache, Video!Warm, Video!Late
  <2>4. /\ resCache'.value = reading.value
        /\ ~resCache'.late => change # "pre" /\ reading.port = Video!Default /\ ~reading.overtaken
    BY <2>1, <2>2 DEF Reads, Video!Warm, Video!Late
  <2>5. reading'.port # Video!Default
    BY <2>1 DEF Video!No, Video!Default
  <2>6. VideoType'
    BY <2>1, <2>3 DEF VideoInv, VideoType
  <2>7. QED
    BY <2>1, <2>4, <2>5, <2>6 DEF VideoInv, ResolutionIsReal, LooksAreReal, ConnectionIsReal
<1>2. ASSUME NEW l \in Video!Lanes, Video!StoreConnection(l)
      PROVE  VideoInv'
  <2> DEFINE next == IF look[l].walk /\ ~look[l].value
                     THEN Video!Read(Video!Other, connected[Video!Other], FALSE) ELSE Video!No
  <2>1. /\ look[l] # Video!No
        /\ conCache' = Video!Warm(look[l].value, Video!Late(look[l]))
        /\ look' = [look EXCEPT ![l] = next]
        /\ UNCHANGED <<resolution, connected, change, plugged, resCache, reading>>
    BY <1>2 DEF Video!StoreConnection
  <2>2. look[l] \in Reads(BOOLEAN)
    BY <2>1 DEF VideoInv, VideoType
  <2>3. conCache' \in Cache(BOOLEAN)
    BY <2>1, <2>2 DEF Reads, Cache, Video!Warm, Video!Late
  <2>4. /\ conCache'.value = look[l].value
        /\ ~conCache'.late => look[l].port = Video!Default /\ ~look[l].overtaken
    BY <2>1, <2>2 DEF Reads, Video!Warm, Video!Late
  <2>5. next \in {Video!No} \cup Reads(BOOLEAN) /\ next.port # Video!Default
    <3>1. /\ Video!Other \in Video!VideoPorts /\ Video!Other # Video!Default
          /\ Video!No.port # Video!Default
      BY DEF Video!Other, Video!VideoPorts, Video!Default, Video!No
    <3>2. QED  BY <3>1, ReadIsReal
  <2> HIDE DEF next
  <2>6. look' \in [Video!Lanes -> {Video!No} \cup Reads(BOOLEAN)]
    BY <2>1, <2>5 DEF VideoInv, VideoType
  <2>7. \A m \in Video!Lanes : look'[m] = IF m = l THEN next ELSE look[m]
    BY <2>1 DEF VideoInv, VideoType
  <2>8. LooksAreReal'
    BY <2>1, <2>5, <2>7 DEF VideoInv, LooksAreReal
  <2>9. VideoType'
    BY <2>1, <2>3, <2>6 DEF VideoInv, VideoType
  <2>10. ConnectionIsReal'
    BY <2>1, <2>4 DEF VideoInv, LooksAreReal, ConnectionIsReal
  <2>11. QED
    BY <2>1, <2>8, <2>9, <2>10 DEF VideoInv, ResolutionIsReal
<1>3. QED  BY <1>1, <1>2 DEF Video!Stores

(* The caches hold what the port has, except from a change until its event *)
(* has come (getCurrentResolution, isDisplayConnected and the events that  *)
(* invalidate), for any number of calls and events in any order, unless    *)
(* the cache was filled with an overtaken value or from another port.      *)
THEOREM VideoCachesAreReal == Spec => []CachesAreReal
<1>1. Init => VideoInv
  <2> SUFFICES ASSUME Video!Init PROVE VideoInv
    BY DEF Init
  <2>1. /\ resCache = [value |-> "720p", updated |-> FALSE, late |-> FALSE]
        /\ conCache = [value |-> FALSE, updated |-> FALSE, late |-> FALSE]
    BY DEF Video!Init, Video!Empty
  <2>2. resCache \in Cache(Video!Resolutions) /\ conCache \in Cache(BOOLEAN)
    BY <2>1 DEF Video!Resolutions, Cache
  <2>3. VideoType
    BY <2>2 DEF Video!Init, VideoType, Video!Resolutions
  <2>4. /\ ~resCache.updated /\ ~conCache.updated /\ Video!No.port # Video!Default
        /\ reading = Video!No /\ look = [l \in Video!Lanes |-> Video!No]
    <3>1. ~resCache.updated /\ ~conCache.updated
      BY <2>1
    <3>2. reading = Video!No /\ look = [l \in Video!Lanes |-> Video!No]
      BY DEF Video!Init
    <3>3. Video!No.port # Video!Default
      BY DEF Video!No, Video!Default
    <3>4. QED  BY <3>1, <3>2, <3>3
  <2>5. ResolutionIsReal /\ LooksAreReal /\ ConnectionIsReal
    BY <2>4 DEF ResolutionIsReal, LooksAreReal, ConnectionIsReal
  <2>6. QED  BY <2>3, <2>5 DEF VideoInv
<1>2. VideoInv /\ [Next]_vars => VideoInv'
  <2> SUFFICES ASSUME VideoInv, [Next]_vars PROVE VideoInv'
    OBVIOUS
  <2>1. Video!Next \/ UNCHANGED videoVars
    BY DEF Next, vars
  <2>2. CASE Video!Next
    BY <2>2, QueriesKeepVideo, SetsKeepVideo, EventsKeepVideo,
       StoresKeepVideo DEF Video!Next
  <2>3. CASE UNCHANGED videoVars
    BY <2>3, StillKeepsVideo DEF videoVars
  <2>4. QED  BY <2>1, <2>2, <2>3
<1>3. VideoInv => CachesAreReal
  BY DEF VideoInv, ResolutionIsReal, ConnectionIsReal, CachesAreReal,
         Video!CachesAreReal
<1>4. QED  BY <1>1, <1>2, <1>3, PTL DEF Spec

-----------------------------------------------------------------------------
(* SystemMode.  Between the calls the file, the map and the clients agree; *)
(* a call under way has read the file as it is and has clients left to     *)
(* tell.                                                                   *)
Contents == [state : Mode!States, callsigns : SUBSET Clients]
Walks == [at : {"walk"}, state : Mode!States, left : SUBSET Clients]
StateWrites == [at : {"write"}, state : Mode!States, content : Contents]
ClientWrites ==
  [at : {"write"}, client : Clients, action : {"add", "delete"}, content : Contents]

Boots == [at : {"activate"}, left : SUBSET Clients]

ModeType ==
  /\ file \in Contents
  /\ registered \in [Clients -> Nat] /\ life \in [Clients -> Nat]
  /\ born \in [Clients -> Nat]
  /\ told \in [Clients -> Mode!States \cup {Mode!Nothing}]
  /\ req \in {Mode!Idle} \cup Walks \cup StateWrites
  /\ reg \in {Mode!Idle} \cup ClientWrites
  /\ boot \in {Mode!Idle} \cup Boots
  /\ spoilt \in BOOLEAN /\ up \in BOOLEAN /\ requested \in BOOLEAN

Live == {c \in Clients : life[c] # 0}

(* One call at a time; without the plugin, none. *)
OneCall == /\ req = Mode!Idle \/ reg = Mode!Idle
           /\ ~up => req = Mode!Idle /\ reg = Mode!Idle /\ ~requested
           /\ boot # Mode!Idle => ~up

(* The map and the file name the running clients, the file once it has     *)
(* been written, and in the constructor those that it has activated.       *)
NamesAreLive ==
  /\ up => registered = life
  /\ ~up /\ boot = Mode!Idle => \A c \in Clients : registered[c] = 0
  /\ boot # Mode!Idle =>
       /\ file.callsigns = Live \ boot.left
       /\ \A c \in Clients : registered[c] = IF c \in boot.left THEN 0 ELSE life[c]
  /\ reg = Mode!Idle /\ boot = Mode!Idle => file.callsigns = Live
  /\ reg # Mode!Idle =>
       /\ reg.content = file
       /\ reg.action = "add" => file.callsigns \cup {reg.client} = Live
       /\ reg.action = "delete" => file.callsigns \ {reg.client} = Live
  /\ req \in StateWrites => req.content = file

(* Who has been told what, before, during and after a request.             *)
ClientsAreTold ==
  /\ req = Mode!Idle /\ requested =>
       \A c \in Live : \/ told[c] = file.state
                       \/ reg # Mode!Idle /\ reg.action = "add" /\ reg.client = c
  /\ req \in Walks => \A c \in Live : told[c] = req.state \/ c \in req.left
  /\ req \in StateWrites => \A c \in Live : told[c] = req.state

ModeInv == ModeType /\ (~spoilt => OneCall /\ NamesAreLive /\ ClientsAreTold)

LEMMA CallsDiffer ==
  /\ \A r \in Walks : r.at = "walk" /\ r # Mode!Idle /\ r \notin StateWrites
  /\ \A r \in StateWrites : r.at = "write" /\ r # Mode!Idle /\ r \notin Walks
  /\ \A r \in ClientWrites : r.at = "write" /\ r # Mode!Idle
  /\ \A r \in Boots : r # Mode!Idle
  /\ Mode!Idle.at = "idle" /\ Mode!Idle \notin Walks /\ Mode!Idle \notin StateWrites
BY DEF Walks, StateWrites, ClientWrites, Boots, Mode!Idle

LEMMA RequestStateKeeps ==
  ASSUME ModeInv, NEW s \in Mode!States, Mode!RequestState(s)
  PROVE  ModeInv'
<1> USE DEF Mode!RequestState
<1>1. req' \in Walks /\ req'.state = s /\ req'.left = {c \in Clients : registered[c] # 0}
  BY DEF Walks
<1>2. ModeType'
  BY <1>1 DEF ModeInv, ModeType
<1>3. ASSUME ~spoilt'
      PROVE  OneCall' /\ NamesAreLive' /\ ClientsAreTold'
  <2>1. ~spoilt /\ reg = Mode!Idle
    BY <1>3 DEF ModeInv, ModeType
  <2>2. OneCall /\ NamesAreLive /\ Live' = Live
    BY <2>1 DEF ModeInv, Live
  <2>3. OneCall'
    BY <2>1, <2>2 DEF OneCall
  <2>4. NamesAreLive'
    BY <1>1, <2>1, <2>2, CallsDiffer DEF NamesAreLive
  <2>5. req'.left = Live
    BY <1>1, <2>2 DEF NamesAreLive, Live
  <2>6. ClientsAreTold'
    BY <1>1, <2>2, <2>5, CallsDiffer DEF ClientsAreTold
  <2>7. QED  BY <2>3, <2>4, <2>6
<1>4. QED  BY <1>2, <1>3 DEF ModeInv

LEMMA TellNextKeeps ==
  ASSUME ModeInv, Mode!TellNext
  PROVE  ModeInv'
<1> USE DEF Mode!TellNext
<1>1. req \in Walks
  BY CallsDiffer DEF ModeInv, ModeType
<1>2. PICK c \in req.left : /\ told' = Mode!Request(c, req.state)
                            /\ req' = [req EXCEPT !.left = req.left \ {c}]
  BY <1>1 DEF Walks
<1>3. /\ req' \in Walks /\ req'.state = req.state /\ req'.left = req.left \ {c}
      /\ c \in Clients /\ req.state \in Mode!States
  BY <1>1, <1>2 DEF Walks
<1>4. told' \in [Clients -> Mode!States \cup {Mode!Nothing}]
  BY <1>2, <1>3 DEF Mode!Request, ModeInv, ModeType
<1>5. ModeType'
  BY <1>3, <1>4 DEF ModeInv, ModeType
<1>6. ASSUME ~spoilt'
      PROVE  OneCall' /\ NamesAreLive' /\ ClientsAreTold'
  <2>1. OneCall /\ NamesAreLive /\ ClientsAreTold /\ Live' = Live /\ ~spoilt
    BY <1>6 DEF ModeInv, Live
  <2>2. OneCall'
    BY <1>1, <2>1, CallsDiffer DEF OneCall
  <2>3. NamesAreLive'
    BY <1>3, <2>1, CallsDiffer DEF NamesAreLive
  <2>4. up /\ registered = life
    BY <1>1, <2>1, CallsDiffer DEF OneCall, NamesAreLive, ModeInv, ModeType
  <2>5. \A d \in Live : told'[d] = req'.state \/ d \in req'.left
    <3>1. ASSUME NEW d \in Live PROVE told'[d] = req'.state \/ d \in req'.left
      <4>1. d \in Clients /\ registered[d] # 0 /\ registered[d] = life[d]
        BY <2>4 DEF Live
      <4>2. CASE d = c
        BY <1>2, <1>3, <4>1, <4>2 DEF Mode!Request, ModeInv, ModeType
      <4>3. CASE d # c
        <5>1. told'[d] = told[d]
          BY <1>2, <4>1, <4>3 DEF Mode!Request, ModeInv, ModeType
        <5>2. QED
          BY <1>1, <1>3, <2>1, <4>3, <5>1 DEF ClientsAreTold
      <4>4. QED  BY <4>2, <4>3
    <3>2. QED  BY <3>1
  <2>6. ClientsAreTold'
    BY <1>3, <2>1, <2>5, CallsDiffer DEF ClientsAreTold
  <2>7. QED  BY <2>2, <2>3, <2>6
<1>7. QED  BY <1>5, <1>6 DEF ModeInv

LEMMA ReadForStateKeeps ==
  ASSUME ModeInv, Mode!ReadForState
  PROVE  ModeInv'
<1> USE DEF Mode!ReadForState
<1>1. req \in Walks /\ req.left = {} /\ req.state \in Mode!States
  BY CallsDiffer DEF ModeInv, ModeType, Walks
<1>2. req' \in StateWrites /\ req'.state = req.state /\ req'.content = file
  BY <1>1 DEF StateWrites, ModeInv, ModeType
<1>3. ModeType'
  BY <1>2 DEF ModeInv, ModeType
<1>4. ASSUME ~spoilt'
      PROVE  OneCall' /\ NamesAreLive' /\ ClientsAreTold'
  <2>1. OneCall /\ NamesAreLive /\ ClientsAreTold /\ Live' = Live /\ ~spoilt
    BY <1>4 DEF ModeInv, Live
  <2>2. OneCall'
    BY <1>1, <2>1, CallsDiffer DEF OneCall
  <2>3. NamesAreLive'
    BY <1>2, <2>1 DEF NamesAreLive
  <2>4. ClientsAreTold'
    BY <1>1, <1>2, <2>1, CallsDiffer DEF ClientsAreTold
  <2>5. QED  BY <2>2, <2>3, <2>4
<1>5. QED  BY <1>3, <1>4 DEF ModeInv

LEMMA WriteStateKeeps ==
  ASSUME ModeInv, Mode!WriteState
  PROVE  ModeInv'
<1> USE DEF Mode!WriteState
<1>1. req \in StateWrites /\ req.state \in Mode!States /\ req.content \in Contents
  BY CallsDiffer DEF ModeInv, ModeType, StateWrites
<1>2. file' = [req.content EXCEPT !.state = req.state]
  BY DEF Mode!updateSystemModeFile
<1>3. file' \in Contents /\ file'.state = req.state /\ file'.callsigns = req.content.callsigns
  BY <1>1, <1>2 DEF Contents
<1>4. ModeType'
  BY <1>3 DEF ModeInv, ModeType
<1>5. ASSUME ~spoilt'
      PROVE  OneCall' /\ NamesAreLive' /\ ClientsAreTold'
  <2>1. OneCall /\ NamesAreLive /\ ClientsAreTold /\ Live' = Live /\ ~spoilt
    BY <1>5 DEF ModeInv, Live
  <2>2. reg = Mode!Idle /\ up
    BY <1>1, <2>1, CallsDiffer DEF OneCall, ModeInv, ModeType
  <2>3. OneCall'
    BY <2>1, <2>2 DEF OneCall
  <2>4. NamesAreLive'
    BY <1>1, <1>3, <2>1, <2>2, CallsDiffer DEF OneCall, NamesAreLive
  <2>5. ClientsAreTold'
    BY <1>1, <1>3, <2>1, CallsDiffer DEF ClientsAreTold
  <2>6. QED  BY <2>3, <2>4, <2>5
<1>6. QED  BY <1>4, <1>5 DEF ModeInv

LEMMA EndRegisterKeeps ==
  ASSUME ModeInv, Mode!EndRegister
  PROVE  ModeInv'
<1> USE DEF Mode!EndRegister
<1>1. /\ reg \in ClientWrites /\ reg.client \in Clients /\ reg.content \in Contents
      /\ reg.action \in {"add", "delete"}
  BY CallsDiffer DEF ModeInv, ModeType, ClientWrites
<1>2. /\ reg.action = "add" =>
           file' = [reg.content EXCEPT !.callsigns = reg.content.callsigns \cup {reg.client}]
      /\ reg.action = "delete" =>
           file' = [reg.content EXCEPT !.callsigns = reg.content.callsigns \ {reg.client}]
  BY DEF Mode!updateSystemModeFile
<1>3. /\ file' \in Contents /\ file'.state = reg.content.state
      /\ reg.action = "add" => file'.callsigns = reg.content.callsigns \cup {reg.client}
      /\ reg.action = "delete" => file'.callsigns = reg.content.callsigns \ {reg.client}
  BY <1>1, <1>2 DEF Contents
<1>4. told' \in [Clients -> Mode!States \cup {Mode!Nothing}]
  BY <1>1, <1>3 DEF ModeInv, ModeType, Contents
<1>5. ModeType'
  BY <1>3, <1>4 DEF ModeInv, ModeType
<1>6. ASSUME ~spoilt'
      PROVE  OneCall' /\ NamesAreLive' /\ ClientsAreTold'
  <2>1. OneCall /\ NamesAreLive /\ ClientsAreTold /\ Live' = Live /\ ~spoilt
    BY <1>6 DEF ModeInv, Live
  <2>2. /\ req = Mode!Idle /\ reg # Mode!Idle /\ reg.content = file
        /\ up /\ boot = Mode!Idle
    BY <1>1, <2>1, CallsDiffer DEF OneCall, NamesAreLive, ModeInv, ModeType
  <2>3. OneCall'
    BY <2>1, <2>2 DEF OneCall
  <2>4. NamesAreLive'
    BY <1>1, <1>3, <2>1, <2>2, CallsDiffer DEF NamesAreLive
  <2>5. ASSUME requested, NEW c \in Live PROVE told'[c] = file'.state
    <3>1. c \in Clients /\ file'.state = file.state
      BY <1>3, <2>2 DEF Live
    <3>2. CASE reg.action = "add" /\ reg.client = c
      BY <2>5, <3>1, <3>2 DEF ModeInv, ModeType
    <3>3. CASE ~(reg.action = "add" /\ reg.client = c)
      <4>1. told[c] = file.state
        BY <2>1, <2>2, <2>5, <3>3 DEF ClientsAreTold
      <4>2. told'[c] = told[c]
        BY <3>1, <3>3 DEF ModeInv, ModeType
      <4>3. QED  BY <3>1, <4>1, <4>2
    <3>4. QED  BY <3>2, <3>3
  <2>6. ClientsAreTold'
    BY <2>1, <2>2, <2>5, CallsDiffer DEF ClientsAreTold
  <2>7. QED  BY <2>3, <2>4, <2>6
<1>7. QED  BY <1>5, <1>6 DEF ModeInv

LEMMA ActivatedKeeps ==
  ASSUME ModeInv, NEW c \in Clients, Mode!ClientActivated(c)
  PROVE  ModeInv'
<1> USE DEF Mode!ClientActivated
<1>1. /\ born' \in [Clients -> Nat] /\ born'[c] \in Nat /\ born'[c] # 0
      /\ life' = [life EXCEPT ![c] = born'[c]]
  BY DEF ModeInv, ModeType
<1>2. life' \in [Clients -> Nat]
  BY <1>1 DEF ModeInv, ModeType
<1>3. told' \in [Clients -> Mode!States \cup {Mode!Nothing}]
  BY DEF ModeInv, ModeType
<1>4. CASE /\ registered' = [registered EXCEPT
                               ![c] = IF registered[c] = 0 THEN born'[c] ELSE registered[c]]
           /\ Mode!Register(c, "add")
  <2>1. /\ reg' \in ClientWrites /\ reg'.client = c /\ reg'.action = "add"
        /\ reg'.content = file
    BY <1>4 DEF Mode!Register, ClientWrites, ModeInv, ModeType
  <2>2. registered' \in [Clients -> Nat]
    BY <1>1, <1>4 DEF ModeInv, ModeType
  <2>3. ModeType'
    BY <1>1, <1>2, <1>3, <1>4, <2>1, <2>2 DEF ModeInv, ModeType, Mode!Register
  <2>4. ASSUME ~spoilt'
        PROVE  OneCall' /\ NamesAreLive' /\ ClientsAreTold'
    <3>1. ~spoilt /\ req = Mode!Idle
      BY <1>4, <2>4 DEF Mode!Register, ModeInv, ModeType
    <3>2. /\ OneCall /\ NamesAreLive /\ ClientsAreTold /\ registered = life
          /\ up /\ boot = Mode!Idle
      BY <3>1 DEF ModeInv, NamesAreLive, OneCall
    <3>3. OneCall'
      BY <3>1, <3>2 DEF OneCall
    <3>4. registered' = life'
      BY <1>1, <1>4, <3>2 DEF ModeInv, ModeType
    <3>5. Live' = Live \cup {c}
      BY <1>1 DEF Live, ModeInv, ModeType
    <3>6. file.callsigns = Live
      BY <3>2 DEF NamesAreLive
    <3>7. NamesAreLive'
      BY <2>1, <3>1, <3>2, <3>4, <3>5, <3>6, CallsDiffer DEF NamesAreLive
    <3>8. \A d \in Live' : d # c => d \in Live /\ told'[d] = told[d]
      BY <3>5 DEF ModeInv, ModeType, Live
    <3>9. ClientsAreTold'
      BY <2>1, <3>1, <3>2, <3>8, CallsDiffer DEF ClientsAreTold
    <3>10. QED  BY <3>3, <3>7, <3>9
  <2>5. QED  BY <2>3, <2>4 DEF ModeInv
<1>5. CASE UNCHANGED <<registered, reg>> /\ spoilt' = TRUE
  BY <1>1, <1>2, <1>3, <1>5 DEF ModeInv, ModeType
<1>6. QED  BY <1>4, <1>5

LEMMA DeactivatedKeeps ==
  ASSUME ModeInv, NEW c \in Clients, Mode!ClientDeactivated(c)
  PROVE  ModeInv'
<1> USE DEF Mode!ClientDeactivated
<1>1. life' \in [Clients -> Nat] /\ told' \in [Clients -> Mode!States \cup {Mode!Nothing}]
  BY DEF ModeInv, ModeType
<1>2. Live' = Live \ {c}
  BY DEF Live, ModeInv, ModeType
<1>3. CASE registered[c] # 0
  <2>1. /\ reg' \in ClientWrites /\ reg'.client = c /\ reg'.action = "delete"
        /\ reg'.content = file
    BY <1>3 DEF Mode!Register, ClientWrites, ModeInv, ModeType
  <2>2. registered' \in [Clients -> Nat]
    BY <1>3 DEF ModeInv, ModeType
  <2>3. ModeType'
    BY <1>1, <1>3, <2>1, <2>2 DEF ModeInv, ModeType, Mode!Register
  <2>4. ASSUME ~spoilt'
        PROVE  OneCall' /\ NamesAreLive' /\ ClientsAreTold'
    <3>1. ~spoilt /\ req = Mode!Idle
      BY <1>3, <2>4 DEF Mode!Register, ModeInv, ModeType
    <3>2. /\ OneCall /\ NamesAreLive /\ ClientsAreTold /\ registered = life
          /\ up /\ boot = Mode!Idle
      BY <3>1 DEF ModeInv, NamesAreLive, OneCall
    <3>3. OneCall'
      BY <3>1, <3>2 DEF OneCall
    <3>4. registered' = life'
      BY <1>3, <3>2 DEF ModeInv, ModeType
    <3>5. file.callsigns = Live
      BY <3>2 DEF NamesAreLive
    <3>6. NamesAreLive'
      BY <1>2, <2>1, <3>1, <3>2, <3>4, <3>5, CallsDiffer DEF NamesAreLive
    <3>7. \A d \in Live' : d \in Live /\ told'[d] = told[d]
      BY <1>2 DEF ModeInv, ModeType, Live
    <3>8. ClientsAreTold'
      BY <3>1, <3>2, <3>7, CallsDiffer DEF ClientsAreTold
    <3>9. QED  BY <3>3, <3>6, <3>8
  <2>5. QED  BY <2>3, <2>4 DEF ModeInv
<1>4. CASE registered[c] = 0
  <2>1. ModeType'
    BY <1>1, <1>4 DEF ModeInv, ModeType
  <2>2. spoilt /\ spoilt'
    BY <1>4 DEF ModeInv, NamesAreLive
  <2>3. QED  BY <2>1, <2>2 DEF ModeInv
<1>5. QED  BY <1>3, <1>4

LEMMA CrashKeeps ==
  ASSUME ModeInv, Mode!Crash
  PROVE  ModeInv'
<1> USE DEF Mode!Crash
<1>1. ModeType'
  BY DEF ModeInv, ModeType
<1>2. ASSUME ~spoilt'
      PROVE  OneCall' /\ NamesAreLive' /\ ClientsAreTold'
  <2>1. /\ ~spoilt /\ req = Mode!Idle /\ reg = Mode!Idle
        /\ boot # Mode!Idle => boot.left = {}
    BY <1>2 DEF ModeInv, ModeType
  <2>2. NamesAreLive /\ Live' = Live
    BY <2>1 DEF ModeInv, Live
  <2>3. file.callsigns = Live
    BY <2>1, <2>2 DEF NamesAreLive
  <2>4. QED
    BY <2>1, <2>2, <2>3, CallsDiffer DEF OneCall, NamesAreLive, ClientsAreTold
<1>3. QED  BY <1>1, <1>2 DEF ModeInv

(* The constructor: what it has still to activate is missing in the file   *)
(* and in the map.                                                         *)
LEMMA ConstructorKeeps ==
  ASSUME ModeInv, Mode!SystemModeImplementation
  PROVE  ModeInv'
<1> USE DEF Mode!SystemModeImplementation
<1>1. file' \in Contents /\ file'.callsigns = {} /\ file'.state = file.state
  BY DEF ModeInv, ModeType, Contents, Mode!updateSystemModeFile
<1>2. boot' \in Boots /\ boot'.left = file.callsigns
  BY DEF Boots, ModeInv, ModeType, Contents
<1>3. ModeType'
  BY <1>1, <1>2 DEF ModeInv, ModeType
<1>4. ASSUME ~spoilt'
      PROVE  OneCall' /\ NamesAreLive' /\ ClientsAreTold'
  <2>1. OneCall /\ NamesAreLive /\ Live' = Live
    BY <1>4 DEF ModeInv, Live
  <2>2. req = Mode!Idle /\ reg = Mode!Idle /\ ~requested
    BY <2>1 DEF OneCall
  <2>3. file.callsigns = Live /\ \A c \in Clients : registered[c] = 0
    BY <2>1, <2>2 DEF NamesAreLive
  <2>4. NamesAreLive'
    BY <1>1, <1>2, <2>1, <2>2, <2>3, CallsDiffer DEF NamesAreLive, Live
  <2>5. QED
    BY <2>1, <2>2, <2>4, CallsDiffer DEF OneCall, ClientsAreTold
<1>5. QED  BY <1>3, <1>4 DEF ModeInv

LEMMA ReactivateKeeps ==
  ASSUME ModeInv, Mode!Reactivate
  PROVE  ModeInv'
<1> USE DEF Mode!Reactivate
<1>1. boot \in Boots /\ boot.left \subseteq Clients
  BY DEF ModeInv, ModeType, Boots
<1>2. PICK c \in boot.left :
        /\ boot' = [boot EXCEPT !.left = boot.left \ {c}]
        /\ \/ /\ life[c] # 0
              /\ registered' = [registered EXCEPT ![c] = life[c]]
              /\ file' = [file EXCEPT !.callsigns = file.callsigns \cup {c}]
              /\ UNCHANGED spoilt
           \/ spoilt' = (spoilt \/ life[c] # 0) /\ UNCHANGED <<registered, file>>
  BY <1>1 DEF Mode!updateSystemModeFile, Boots
<1>3. boot' \in Boots /\ boot'.left = boot.left \ {c} /\ c \in Clients
  BY <1>1, <1>2 DEF Boots
<1>4. /\ file' \in Contents /\ registered' \in [Clients -> Nat]
      /\ spoilt' \in BOOLEAN /\ (spoilt => spoilt')
  <2>1. /\ file \in Contents /\ registered \in [Clients -> Nat]
        /\ spoilt \in BOOLEAN /\ life \in [Clients -> Nat]
    BY DEF ModeInv, ModeType
  <2>2. registered' \in [Clients -> Nat]
    BY <1>2, <1>3, <2>1
  <2>3. file' \in Contents
    BY <1>2, <1>3, <2>1 DEF Contents
  <2>4. spoilt' \in BOOLEAN /\ (spoilt => spoilt')
    BY <1>2, <2>1
  <2>5. QED  BY <2>2, <2>3, <2>4
<1>5. ModeType'
  BY <1>3, <1>4 DEF ModeInv, ModeType
<1>6. ASSUME ~spoilt'
      PROVE  OneCall' /\ NamesAreLive' /\ ClientsAreTold'
  <2>1. OneCall /\ NamesAreLive /\ Live' = Live /\ ~spoilt
    BY <1>4, <1>6 DEF ModeInv, Live
  <2>2. req = Mode!Idle /\ reg = Mode!Idle /\ ~requested /\ ~up
    BY <2>1 DEF OneCall
  <2>3. \/ /\ life[c] # 0 /\ file'.callsigns = file.callsigns \cup {c}
           /\ registered' = [registered EXCEPT ![c] = life[c]]
        \/ life[c] = 0 /\ UNCHANGED <<registered, file>>
    BY <1>2, <1>6 DEF ModeInv, ModeType, Contents
  <2>4. /\ file.callsigns = Live \ boot.left
        /\ \A d \in Clients : registered[d] = IF d \in boot.left THEN 0 ELSE life[d]
    BY <2>1 DEF NamesAreLive
  <2>5. /\ file'.callsigns = Live \ boot'.left
        /\ \A d \in Clients : registered'[d] = IF d \in boot'.left THEN 0 ELSE life[d]
    BY <1>2, <1>3, <2>3, <2>4 DEF Live, ModeInv, ModeType
  <2>6. NamesAreLive'
    BY <1>3, <2>1, <2>2, <2>5, CallsDiffer DEF NamesAreLive
  <2>7. QED
    BY <1>3, <2>1, <2>2, <2>6, CallsDiffer DEF OneCall, ClientsAreTold
<1>7. QED  BY <1>5, <1>6 DEF ModeInv

LEMMA ConstructedKeeps ==
  ASSUME ModeInv, Mode!Constructed
  PROVE  ModeInv'
<1> USE DEF Mode!Constructed
<1>1. ModeType'
  BY DEF ModeInv, ModeType
<1>2. ASSUME ~spoilt'
      PROVE  OneCall' /\ NamesAreLive' /\ ClientsAreTold'
  <2>1. OneCall /\ NamesAreLive /\ Live' = Live
    BY <1>2 DEF ModeInv, Live
  <2>2. req = Mode!Idle /\ reg = Mode!Idle /\ ~requested
    BY <2>1 DEF OneCall
  <2>3. file.callsigns = Live /\ registered = life
    BY <2>1 DEF NamesAreLive, ModeInv, ModeType
  <2>4. QED
    BY <2>1, <2>2, <2>3, CallsDiffer DEF OneCall, NamesAreLive, ClientsAreTold
<1>3. QED  BY <1>1, <1>2 DEF ModeInv

(* A client that comes or goes without the plugin. *)
LEMMA AloneKeeps ==
  ASSUME ModeInv, NEW c \in Clients,
         Mode!ActivatedAlone(c) \/ Mode!DeactivatedAlone(c) \/ Mode!ClientCrash(c)
  PROVE  ModeInv'
<1>1. CASE Mode!ClientCrash(c)
  BY <1>1 DEF Mode!ClientCrash, ModeInv, ModeType
<1>2. CASE Mode!ActivatedAlone(c) \/ Mode!DeactivatedAlone(c)
  <2> USE DEF Mode!ActivatedAlone, Mode!DeactivatedAlone
  <2>1. /\ ~up /\ spoilt' = (spoilt \/ boot # Mode!Idle)
        /\ told' = [told EXCEPT ![c] = Mode!Nothing]
        /\ UNCHANGED <<registered, requested, req, reg, boot, up>>
    BY <1>2
  <2>2. \/ /\ life'[c] # 0
           /\ file' = [file EXCEPT !.callsigns = file.callsigns \cup {c}]
        \/ /\ life'[c] = 0
           /\ file' = [file EXCEPT !.callsigns = file.callsigns \ {c}]
    BY <1>2 DEF Mode!updateSystemModeFile, ModeInv, ModeType
  <2>3. /\ life' \in [Clients -> Nat] /\ born' \in [Clients -> Nat]
        /\ \A d \in Clients : d # c => life'[d] = life[d]
    BY <1>2 DEF ModeInv, ModeType
  <2>4. file' \in Contents /\ told' \in [Clients -> Mode!States \cup {Mode!Nothing}]
    BY <2>1, <2>2 DEF ModeInv, ModeType, Contents
  <2>5. ModeType'
    BY <2>1, <2>3, <2>4 DEF ModeInv, ModeType
  <2>6. ASSUME ~spoilt'
        PROVE  OneCall' /\ NamesAreLive' /\ ClientsAreTold'
    <3>1. OneCall /\ NamesAreLive /\ boot = Mode!Idle
      BY <2>1, <2>6 DEF ModeInv
    <3>2. req = Mode!Idle /\ reg = Mode!Idle /\ ~requested
      BY <2>1, <3>1 DEF OneCall
    <3>3. file.callsigns = Live
      BY <3>1, <3>2 DEF NamesAreLive
    <3>4. file'.callsigns = Live'
      BY <2>2, <2>3, <3>3 DEF Live, ModeInv, ModeType, Contents
    <3>5. QED
      BY <2>1, <3>1, <3>2, <3>4, CallsDiffer DEF OneCall, NamesAreLive, ClientsAreTold
  <2>7. QED  BY <2>5, <2>6 DEF ModeInv
<1>3. QED  BY <1>1, <1>2

(* Once a state was requested every running client was last asked for it,  *)
(* and map and file name exactly the running clients, whenever no call is  *)
(* under way (RequestState, ClientActivated, ClientDeactivated, the        *)
(* constructor step by step): for any set of clients, restarts of the      *)
(* plugin and clients that come and go meanwhile included, unless calls    *)
(* overlapped, a client died or met the constructor, or the constructor    *)
(* was cut off or failed to open a running client.                         *)
THEOREM ClientsFollow == Spec => []ClientsFollowState
<1>1. Init => ModeInv
  <2> SUFFICES ASSUME Mode!Init PROVE ModeInv
    BY DEF Init
  <2>1. file \in Contents /\ file.callsigns = {} /\ Live = {}
    BY DEF Mode!Init, Mode!Default, Contents, Mode!States, Live
  <2>2. ModeType
    BY <2>1 DEF Mode!Init, ModeType
  <2>3. OneCall /\ NamesAreLive /\ ClientsAreTold
    BY <2>1, CallsDiffer DEF Mode!Init, OneCall, NamesAreLive, ClientsAreTold
  <2>4. QED  BY <2>2, <2>3 DEF ModeInv
<1>2. ModeInv /\ [Next]_vars => ModeInv'
  <2> SUFFICES ASSUME ModeInv, [Next]_vars PROVE ModeInv'
    OBVIOUS
  <2>1. Mode!Next \/ UNCHANGED modeVars
    BY DEF Next, vars
  <2>2. CASE Mode!Next
    BY <2>2, RequestStateKeeps, TellNextKeeps, ReadForStateKeeps,
       WriteStateKeeps, EndRegisterKeeps, ActivatedKeeps, DeactivatedKeeps,
       CrashKeeps, ConstructorKeeps, ReactivateKeeps, ConstructedKeeps, AloneKeeps,
       Zenon DEF Mode!Next
  <2>3. CASE UNCHANGED modeVars
    BY <2>3 DEF modeVars, ModeInv, ModeType, OneCall, NamesAreLive,
                ClientsAreTold, Live
  <2>4. QED  BY <2>1, <2>2, <2>3
<1>3. ModeInv => ClientsFollowState
  <2> SUFFICES ASSUME ModeInv, Mode!Quiet, ~spoilt
               PROVE  /\ requested => \A c \in Clients :
                                        life[c] # 0 => told[c] = Mode!GetState
                      /\ registered = life
                      /\ file.callsigns = {c \in Clients : life[c] # 0}
    BY DEF ClientsFollowState, Mode!ClientsFollowState
  <2>1. QED
    BY DEF Mode!Quiet, Mode!GetState, ModeInv, NamesAreLive, ClientsAreTold,
           Live
<1>4. QED  BY <1>1, <1>2, <1>3, PTL DEF Spec

-----------------------------------------------------------------------------
(* UserPreferences.  A write of the file is skipped where the language     *)
(* equals the last one written, and the migration writes without taking    *)
(* note: the file may differ from the last language, as long as an event   *)
(* on its way will write it again.                                         *)
Languages == Language!Presentation \cup {Language!Bad}
Prefs(p) == Language!ConvertToUserPrefsFormat(p)

LangType ==
  /\ settings \in Languages /\ needed \in BOOLEAN
  /\ langFile \in Language!UI \cup {Language!Bad, Language!Missing}
  /\ lastLanguage \in Language!UI \cup {""}
  /\ migrated \in BOOLEAN /\ langSpoilt \in BOOLEAN
  /\ phase \in {"down", "migrating", "up"} /\ listening \in BOOLEAN
  /\ events \in Seq(Languages)
  /\ got \in Language!UI \cup {Language!Bad, Language!Missing}

(* Outside its life the plugin has no memory and gets no events, and what  *)
(* nobody has set is still to be migrated.                                 *)
LivesAreApart ==
  /\ listening <=> phase = "up"
  /\ phase # "up" => lastLanguage = "" /\ got = Language!Missing /\ events = <<>>
  /\ phase = "down" => ~migrated
  /\ got # Language!Missing => migrated
  /\ needed => events = <<>> /\ (~migrated => lastLanguage = "")

(* The last event on its way is the language that is set.                  *)
EventsEndInSettings == events # <<>> => events[Len(events)] = settings

(* Without events, what was written last is the language that is set.      *)
LastIsSettings ==
  events = <<>> /\ lastLanguage # "" /\ settings # Language!Bad =>
    lastLanguage = Prefs(settings)

(* The file is what was written last, or will be written again.            *)
FileIsLast ==
  \/ lastLanguage \in {"", langFile}
  \/ \E i \in 1..Len(events) : Prefs(events[i]) \notin {Language!Bad, lastLanguage}

FileIsSettings ==
  migrated /\ events = <<>> /\ settings # Language!Bad =>
    langFile \in {Prefs(settings), Language!Bad}

LangInv ==
  /\ LangType /\ LivesAreApart
  /\ ~langSpoilt => /\ EventsEndInSettings /\ LastIsSettings
                    /\ FileIsLast /\ FileIsSettings

LEMMA Formats ==
  /\ \A p \in Language!Presentation : Prefs(p) \in Language!UI /\ p # Language!Bad
  /\ Prefs(Language!Bad) = Language!Bad
  /\ \A u \in Language!UI :
       /\ u \notin {Language!Bad, Language!Missing, ""}
       /\ Language!ConvertToUserSettingsFormat(u) \in Language!Presentation
       /\ Prefs(Language!ConvertToUserSettingsFormat(u)) = u
  /\ Language!ConvertToUserSettingsFormat(Language!Bad) = Language!Bad
  /\ Language!Bad # Language!Missing
BY DEF Prefs, Language!Presentation, Language!Bad, Language!Missing, Language!UI,
       Language!ConvertToUserPrefsFormat, Language!ConvertToUserSettingsFormat

(* A change of the language is an event to whoever listens.                *)
LEMMA SetLanguageKeeps ==
  ASSUME LangInv, NEW p \in Languages, Language!SetPresentationLanguage(p)
  PROVE  /\ settings' \in Languages /\ needed' = FALSE
         /\ events' \in Seq(Languages)
         /\ events' = IF listening /\ p # settings
                      THEN Append(events, p) ELSE events
<1>1. /\ settings' = p /\ needed' = FALSE
      /\ events' = IF listening /\ p # settings
                   THEN Append(events, p) ELSE events
  BY DEF Language!SetPresentationLanguage
<1>2. events \in Seq(Languages)
  BY DEF LangInv, LangType
<1>3. CASE listening /\ p # settings
  <2>1. events' = Append(events, p)
    BY <1>1, <1>3
  <2>2. Append(events, p) \in Seq(Languages)
    BY <1>2
  <2>3. QED  BY <1>1, <2>1, <2>2
<1>4. CASE ~(listening /\ p # settings)
  <2>1. events' = events
    BY <1>1, <1>4
  <2>2. QED  BY <1>1, <1>2, <2>1
<1>5. QED  BY <1>3, <1>4

(* While the plugin listens, a change keeps file and events together.      *)
LEMMA ChangeIsHeard ==
  ASSUME LangInv, NEW p \in Languages, Language!SetPresentationLanguage(p),
         phase = "up",
         UNCHANGED <<langFile, lastLanguage, migrated, phase, listening, got,
                     langSpoilt>>
  PROVE  LangInv'
<1>1. /\ settings' = p /\ needed' = FALSE /\ events' \in Seq(Languages)
      /\ events' = IF p # settings THEN Append(events, p) ELSE events
  BY SetLanguageKeeps DEF Language!SetPresentationLanguage, LangInv, LivesAreApart
<1>2. LangType'
  BY <1>1 DEF LangInv, LangType
<1>3. LivesAreApart'
  BY <1>1 DEF LangInv, LivesAreApart
<1>4. ASSUME ~langSpoilt'
      PROVE  EventsEndInSettings' /\ LastIsSettings' /\ FileIsLast' /\ FileIsSettings'
  <2>1. EventsEndInSettings /\ LastIsSettings /\ FileIsLast /\ FileIsSettings
    BY <1>4 DEF LangInv
  <2>2. CASE p = settings
    BY <1>1, <2>1, <2>2 DEF EventsEndInSettings, LastIsSettings, FileIsLast,
                            FileIsSettings
  <2>3. CASE p # settings
    <3>1. /\ Len(events') = Len(events) + 1 /\ Len(events) \in Nat
          /\ events'[Len(events')] = p /\ events' # <<>>
          /\ \A i \in 1..Len(events) : i \in 1..Len(events') /\ events'[i] = events[i]
      <4>1. events' = Append(events, p) /\ events \in Seq(Languages)
        BY <1>1, <2>3 DEF LangInv, LangType
      <4>2. QED  BY <4>1
    <3>2. FileIsLast'
      BY <2>1, <3>1 DEF FileIsLast
    <3>3. QED
      BY <1>1, <3>1, <3>2 DEF EventsEndInSettings, LastIsSettings, FileIsSettings
  <2>4. QED  BY <2>2, <2>3
<1>5. QED  BY <1>2, <1>3, <1>4 DEF LangInv

(* The migration, from Initialize or from the first call after a failure.  *)
LEMMA MigrationKeeps ==
  ASSUME LangInv, ~migrated, Language!PerformMigration,
         UNCHANGED <<lastLanguage, listening>>,
         \/ phase = "down" /\ phase' = "migrating"
         \/ phase = "up" /\ phase' = "up",
         got' \in Language!UI \cup {Language!Bad, Language!Missing},
         got' # Language!Missing => migrated' /\ phase = "up"
  PROVE  LangInv'
<1>1. CASE UNCHANGED <<settings, needed, events, langFile, langSpoilt, migrated>>
  BY <1>1 DEF LangInv, LangType, LivesAreApart, EventsEndInSettings,
              LastIsSettings, FileIsLast, FileIsSettings
<1>2. CASE Language!Migration /\ migrated' = TRUE
  <2>1. CASE needed /\ langFile # Language!Missing
    <3>1. events = <<>> /\ lastLanguage = "" /\ UNCHANGED <<langFile, langSpoilt>>
      BY <1>2, <2>1 DEF LangInv, LivesAreApart, Language!Migration
    <3>2. CASE langFile = Language!Bad
      <4>1. UNCHANGED <<settings, needed, events>>
        BY <1>2, <2>1, <3>2, Formats DEF Language!Migration
      <4>2. LangType'
        BY <1>2, <3>1, <4>1 DEF LangInv, LangType
      <4>3. LivesAreApart'
        BY <1>2, <3>1, <4>1 DEF LangInv, LangType, LivesAreApart
      <4>4. EventsEndInSettings' /\ LastIsSettings' /\ FileIsLast' /\ FileIsSettings'
        BY <3>1, <3>2, <4>1 DEF EventsEndInSettings, LastIsSettings, FileIsLast,
                                FileIsSettings
      <4>5. QED  BY <4>2, <4>3, <4>4 DEF LangInv
    <3>3. CASE langFile \in Language!UI
      <4> DEFINE p == Language!ConvertToUserSettingsFormat(langFile)
      <4>1. p \in Language!Presentation /\ p # Language!Bad /\ Prefs(p) = langFile
        BY <3>3, Formats
      <4>2. Language!SetPresentationLanguage(p) /\ p \in Languages
        BY <1>2, <2>1, <4>1 DEF Language!Migration, Languages
      <4> HIDE DEF p
      <4>3. /\ settings' = p /\ needed' = FALSE /\ events' \in Seq(Languages)
            /\ events' = IF listening /\ p # settings
                         THEN Append(events, p) ELSE events
        BY <4>2, SetLanguageKeeps DEF Language!SetPresentationLanguage
      <4>4. events' # <<>> => events'[Len(events')] = p /\ phase = "up"
        <5>1. CASE listening /\ p # settings
          <6>1. events' = Append(<<>>, p) /\ phase = "up"
            BY <3>1, <4>3, <5>1 DEF LangInv, LivesAreApart
          <6>2. Append(<<>>, p)[Len(Append(<<>>, p))] = p
            OBVIOUS
          <6>3. QED  BY <6>1, <6>2
        <5>2. CASE ~(listening /\ p # settings)
          BY <3>1, <4>3, <5>2
        <5>3. QED  BY <5>1, <5>2
      <4>5. LangType'
        BY <1>2, <3>1, <4>2, <4>3 DEF LangInv, LangType
      <4>6. LivesAreApart'
        BY <1>2, <3>1, <4>3, <4>4 DEF LangInv, LangType, LivesAreApart
      <4>7. EventsEndInSettings' /\ LastIsSettings' /\ FileIsLast' /\ FileIsSettings'
        BY <3>1, <4>1, <4>3, <4>4 DEF EventsEndInSettings, LastIsSettings,
           FileIsLast, FileIsSettings
      <4>8. QED  BY <4>5, <4>6, <4>7 DEF LangInv
    <3>4. QED  BY <2>1, <3>2, <3>3 DEF LangInv, LangType
  <2>2. CASE ~(needed /\ langFile # Language!Missing)
    <3>1. PICK saved \in BOOLEAN :
            /\ langFile' = IF saved /\ settings # Language!Bad
                           THEN Prefs(settings) ELSE langFile
            /\ langSpoilt' = (langSpoilt \/ ~saved)
      BY <1>2, <2>2 DEF Language!Migration, Prefs
    <3>2. UNCHANGED <<settings, needed, events>>
      BY <1>2, <2>2 DEF Language!Migration
    <3>3. settings # Language!Bad => settings \in Language!Presentation
                                     /\ Prefs(settings) \in Language!UI
      BY Formats DEF LangInv, LangType, Languages
    <3>4. LangType'
      BY <1>2, <3>1, <3>2, <3>3 DEF LangInv, LangType
    <3>5. LivesAreApart'
      BY <1>2, <3>2 DEF LangInv, LivesAreApart
    <3>6. ASSUME ~langSpoilt'
          PROVE  EventsEndInSettings' /\ LastIsSettings' /\ FileIsLast' /\ FileIsSettings'
      <4>1. /\ EventsEndInSettings /\ LastIsSettings /\ FileIsLast
            /\ saved /\ ~langSpoilt
        BY <3>1, <3>6 DEF LangInv, LangType
      <4>2. EventsEndInSettings' /\ LastIsSettings'
        BY <3>2, <4>1 DEF EventsEndInSettings, LastIsSettings
      <4>3. CASE settings = Language!Bad
        BY <3>1, <3>2, <4>1, <4>2, <4>3 DEF FileIsLast, FileIsSettings
      <4>4. CASE settings # Language!Bad
        <5>1. langFile' = Prefs(settings)
          BY <3>1, <4>1, <4>4
        <5>2. CASE events = <<>>
          BY <3>2, <4>1, <4>2, <4>4, <5>1, <5>2 DEF LastIsSettings, FileIsLast,
                                          FileIsSettings
        <5>3. CASE events # <<>>
          <6>1. Len(events) \in 1..Len(events) /\ events[Len(events)] = settings
            <7>1. events \in Seq(Languages) /\ events[Len(events)] = settings
              BY <4>1, <5>3 DEF EventsEndInSettings, LangInv, LangType
            <7>2. Len(events) \in Nat /\ Len(events) # 0
              BY <5>3, <7>1, EmptySeq
            <7>3. QED  BY <7>1, <7>2
          <6>2. FileIsLast'
            BY <3>2, <3>3, <4>4, <5>1, <6>1, Formats DEF FileIsLast
          <6>3. QED  BY <3>2, <4>2, <5>3, <6>2 DEF FileIsSettings
        <5>4. QED  BY <5>2, <5>3
      <4>5. QED  BY <4>3, <4>4
    <3>7. QED  BY <3>4, <3>5, <3>6 DEF LangInv
  <2>3. QED  BY <2>1, <2>2
<1>3. QED  BY <1>1, <1>2 DEF Language!PerformMigration

LEMMA InitializeKeeps ==
  ASSUME LangInv, Language!Initialize
  PROVE  LangInv'
<1>1. /\ phase = "down" /\ phase' = "migrating" /\ Language!PerformMigration
      /\ UNCHANGED <<lastLanguage, listening, got>>
  BY DEF Language!Initialize
<1>2. ~migrated /\ got' = Language!Missing
  BY <1>1 DEF LangInv, LivesAreApart
<1>3. QED  BY <1>1, <1>2, MigrationKeeps

LEMMA RegisterNotificationKeeps ==
  ASSUME LangInv, Language!RegisterNotification
  PROVE  LangInv'
<1> USE DEF Language!RegisterNotification
<1>1. LangType'
  BY DEF LangInv, LangType
<1>2. LivesAreApart'
  BY DEF LangInv, LivesAreApart
<1>3. QED
  BY <1>1, <1>2 DEF LangInv, EventsEndInSettings, LastIsSettings, FileIsLast,
                    FileIsSettings

LEMMA DeinitializeKeeps ==
  ASSUME LangInv, Language!Deinitialize
  PROVE  LangInv'
<1> USE DEF Language!Deinitialize
<1>1. LangType'
  BY EmptySeq DEF LangInv, LangType
<1>2. LivesAreApart'
  BY DEF LangInv, LivesAreApart
<1>3. EventsEndInSettings' /\ LastIsSettings' /\ FileIsLast' /\ FileIsSettings'
  BY DEF EventsEndInSettings, LastIsSettings, FileIsLast, FileIsSettings
<1>4. QED  BY <1>1, <1>2, <1>3 DEF LangInv

(* An event is taken from the front: the last one of the rest is still the *)
(* language that is set, and the one that ends the queue is that language. *)
LEMMA EventTaken ==
  ASSUME events \in Seq(Languages), events # <<>>, events' = Tail(events),
         EventsEndInSettings, UNCHANGED settings
  PROVE  /\ Head(events) = events[1] /\ Head(events) \in Languages
         /\ events' \in Seq(Languages) /\ EventsEndInSettings'
         /\ events' = <<>> => Head(events) = settings
         /\ \A i \in 1..Len(events) :
              i # 1 => i - 1 \in 1..Len(events') /\ events'[i - 1] = events[i]
<1>1. Len(events) \in Nat \ {0}
  BY EmptySeq
<1>2. /\ Head(events) \in Languages /\ Tail(events) \in Seq(Languages)
      /\ Len(Tail(events)) = Len(events) - 1
      /\ \A i \in 1..Len(Tail(events)) : Tail(events)[i] = events[i + 1]
  BY HeadTailProperties
<1>3. Head(events) = events[1]
  BY <1>1
<1>4. \A i \in 1..Len(events) :
        i # 1 => i - 1 \in 1..Len(events') /\ events'[i - 1] = events[i]
  BY <1>1, <1>2
<1>5. events[Len(events)] = settings
  BY DEF EventsEndInSettings
<1>6. ASSUME events' # <<>>
      PROVE  events'[Len(events')] = settings
  <2>1. Len(events') # 0 /\ Len(events') = Len(events) - 1
    BY <1>2, <1>6, EmptySeq
  <2>2. Len(events) \in 1..Len(events) /\ Len(events) # 1
    BY <1>1, <2>1
  <2>3. QED  BY <1>4, <1>5, <2>1, <2>2
<1>7. ASSUME events' = <<>>
      PROVE  Head(events) = settings
  <2>1. Len(Tail(events)) = 0
    <3>1. Tail(events) = <<>>
      BY <1>7
    <3>2. QED  BY <3>1, EmptySeq
  <2>2. Len(events) = 1
    BY <1>1, <1>2, <2>1
  <2>3. QED  BY <1>3, <1>5, <2>2
<1>8. QED  BY <1>2, <1>3, <1>4, <1>6, <1>7 DEF EventsEndInSettings

(* A skipped write is one of the language in the file, or of one that an   *)
(* event behind it will write.                                             *)
LEMMA ChangedKeeps ==
  ASSUME LangInv, Language!OnPresentationLanguageChanged
  PROVE  LangInv'
<1> DEFINE u == Prefs(Head(events))
<1>1. /\ events # <<>> /\ events' = Tail(events) /\ events \in Seq(Languages)
      /\ UNCHANGED <<settings, needed, migrated, phase, listening, got>>
  BY DEF Language!OnPresentationLanguageChanged, LangInv, LangType
<1>2. \/ u # Language!Bad /\ Language!Save(u) /\ UNCHANGED langSpoilt
      \/ u = Language!Bad /\ UNCHANGED <<langFile, lastLanguage, langSpoilt>>
      \/ langSpoilt' = TRUE /\ UNCHANGED <<langFile, lastLanguage>>
  BY DEF Language!OnPresentationLanguageChanged, Prefs
<1>3. Tail(events) \in Seq(Languages) /\ Head(events) \in Languages
  BY <1>1, HeadTailProperties
<1>4. u \in Language!UI \cup {Language!Bad}
  BY <1>3, Formats DEF Languages
<1>5. u # Language!Bad => u \notin {"", Language!Missing}
  BY <1>4, Formats
<1>6. u = Language!Bad => Head(events) = Language!Bad
  BY <1>3, Formats DEF Languages
<1> HIDE DEF u
<1>7. LangType'
  <2>1. /\ langFile' \in Language!UI \cup {Language!Bad, Language!Missing}
        /\ lastLanguage' \in Language!UI \cup {""}
    BY <1>2, <1>4 DEF Language!Save, LangInv, LangType
  <2>2. langSpoilt' \in BOOLEAN
    BY <1>2 DEF LangInv, LangType
  <2>3. QED  BY <1>1, <1>3, <2>1, <2>2 DEF LangInv, LangType
<1>8. phase = "up" /\ ~needed
  BY <1>1 DEF LangInv, LivesAreApart
<1>9. LivesAreApart'
  BY <1>1, <1>8 DEF LangInv, LivesAreApart
<1>10. ASSUME ~langSpoilt'
       PROVE  EventsEndInSettings' /\ LastIsSettings' /\ FileIsLast' /\ FileIsSettings'
  <2>1. ~langSpoilt
    BY <1>2, <1>10
  <2>2. EventsEndInSettings /\ FileIsLast
    BY <2>1 DEF LangInv
  <2>3. /\ Head(events) = events[1] /\ EventsEndInSettings'
        /\ events' = <<>> => Head(events) = settings
        /\ \A i \in 1..Len(events) :
             i # 1 => i - 1 \in 1..Len(events') /\ events'[i - 1] = events[i]
    BY <1>1, <2>2, EventTaken
  <2>4. Prefs(events[1]) = u
    BY <2>3 DEF u
  <2>5. events' = <<>> => settings' = settings /\ u = Prefs(settings)
    BY <1>1, <2>3 DEF u
  <2>6. CASE u \in {Language!Bad, lastLanguage}
    <3>1. UNCHANGED <<langFile, lastLanguage>>
      BY <1>2, <1>10, <2>6 DEF Language!Save
    <3>2. FileIsLast'
      <4>1. CASE lastLanguage \in {"", langFile}
        BY <3>1, <4>1 DEF FileIsLast
      <4>2. CASE lastLanguage \notin {"", langFile}
        <5>1. PICK i \in 1..Len(events) :
                Prefs(events[i]) \notin {Language!Bad, lastLanguage}
          BY <2>2, <4>2 DEF FileIsLast
        <5>2. i # 1
          BY <2>4, <2>6, <5>1
        <5>3. i - 1 \in 1..Len(events') /\ events'[i - 1] = events[i]
          BY <2>3, <5>2
        <5>4. Prefs(events'[i - 1]) \notin {Language!Bad, lastLanguage'}
          BY <3>1, <5>1, <5>3
        <5>5. QED  BY <5>3, <5>4 DEF FileIsLast
      <4>3. QED  BY <4>1, <4>2
    <3>3. ASSUME events' = <<>>, settings' # Language!Bad
          PROVE  lastLanguage' = Prefs(settings') /\ langFile' = Prefs(settings')
      <4>1. u # Language!Bad
        BY <1>1, <1>6, <2>3, <3>3
      <4>2. lastLanguage' = u /\ lastLanguage' # ""
        BY <1>5, <2>6, <3>1, <4>1
      <4>3. ~\E i \in 1..Len(events') :
                Prefs(events'[i]) \notin {Language!Bad, lastLanguage'}
        <5>1. 1..Len(events') = {}
          BY <3>3
        <5>2. QED  BY <5>1
      <4>4. langFile' = u
        BY <3>2, <4>2, <4>3 DEF FileIsLast
      <4>5. QED  BY <2>5, <3>3, <4>2, <4>4
    <3>4. QED  BY <2>3, <3>2, <3>3 DEF LastIsSettings, FileIsSettings
  <2>7. CASE u \notin {Language!Bad, lastLanguage}
    <3>1. langFile' = u /\ lastLanguage' = u
      BY <1>2, <1>10, <2>7 DEF Language!Save
    <3>2. QED
      BY <2>3, <2>5, <3>1 DEF LastIsSettings, FileIsLast, FileIsSettings
  <2>8. QED  BY <2>6, <2>7
<1>11. QED  BY <1>7, <1>9, <1>10 DEF LangInv

LEMMA MigrationType ==
  ASSUME LangInv, Language!PerformMigration
  PROVE  settings' \in Languages
<1>1. settings' = settings
      \/ \E p \in Languages : settings' = p
  BY Formats DEF Language!PerformMigration, Language!Migration,
     Language!SetPresentationLanguage, LangInv, LangType, Languages
<1>2. QED  BY <1>1 DEF LangInv, LangType

LEMMA GetKeeps ==
  ASSUME LangInv, Language!getUILanguage
  PROVE  LangInv'
<1>1. /\ phase = "up" /\ got = Language!Missing
      /\ got' = IF migrated' THEN Prefs(settings') ELSE Language!Missing
      /\ UNCHANGED <<lastLanguage, phase, listening>>
  BY DEF Language!getUILanguage, Prefs
<1>2. CASE migrated
  <2>1. UNCHANGED <<settings, needed, events, langFile, langSpoilt, migrated>>
    BY <1>2 DEF Language!getUILanguage
  <2>2. got' \in Language!UI \cup {Language!Bad, Language!Missing}
    BY <1>1, <2>1, Formats DEF LangInv, LangType, Languages
  <2>3. LangType'
    BY <1>1, <2>1, <2>2 DEF LangInv, LangType
  <2>4. LivesAreApart'
    BY <1>1, <1>2, <2>1 DEF LangInv, LivesAreApart
  <2>5. QED
    BY <1>1, <2>1, <2>3, <2>4 DEF LangInv, EventsEndInSettings, LastIsSettings,
                                  FileIsLast, FileIsSettings
<1>3. CASE ~migrated
  <2>1. Language!PerformMigration
    BY <1>3 DEF Language!getUILanguage
  <2>2. settings' \in Languages
    BY <2>1, MigrationType
  <2>3. got' \in Language!UI \cup {Language!Bad, Language!Missing}
    BY <1>1, <2>2, Formats DEF Languages
  <2>4. got' # Language!Missing => migrated' /\ phase = "up"
    BY <1>1
  <2>5. QED  BY <1>1, <1>3, <2>1, <2>3, <2>4, MigrationKeeps
<1>4. QED  BY <1>2, <1>3

LEMMA AnswerKeeps ==
  ASSUME LangInv, Language!AnswerUILanguage
  PROVE  LangInv'
<1>1. /\ got # Language!Missing /\ got' = Language!Missing
      /\ UNCHANGED <<settings, needed, migrated, phase, listening, events>>
  BY DEF Language!AnswerUILanguage
<1>2. \/ /\ got # Language!Bad /\ Language!Save(got)
         /\ langSpoilt' = (langSpoilt \/ events # <<>> \/ got # Prefs(settings))
      \/ got = Language!Bad /\ UNCHANGED <<langFile, lastLanguage, langSpoilt>>
      \/ langSpoilt' = TRUE /\ UNCHANGED <<langFile, lastLanguage>>
  BY DEF Language!AnswerUILanguage, Prefs
<1>3. phase = "up" /\ migrated
  BY <1>1 DEF LangInv, LivesAreApart
<1>4. LangType'
  <2>1. /\ langFile' \in Language!UI \cup {Language!Bad, Language!Missing}
        /\ lastLanguage' \in Language!UI \cup {""}
    BY <1>1, <1>2 DEF Language!Save, LangInv, LangType
  <2>2. langSpoilt' \in BOOLEAN
    BY <1>2 DEF LangInv, LangType
  <2>3. QED  BY <1>1, <2>1, <2>2 DEF LangInv, LangType
<1>5. LivesAreApart'
  BY <1>1, <1>3 DEF LangInv, LivesAreApart
<1>6. ASSUME ~langSpoilt'
      PROVE  EventsEndInSettings' /\ LastIsSettings' /\ FileIsLast' /\ FileIsSettings'
  <2>1. ~langSpoilt
    BY <1>2, <1>6
  <2>2. EventsEndInSettings /\ LastIsSettings /\ FileIsLast /\ FileIsSettings
    BY <2>1 DEF LangInv
  <2>3. CASE UNCHANGED <<langFile, lastLanguage, langSpoilt>>
    BY <1>1, <2>2, <2>3 DEF EventsEndInSettings, LastIsSettings, FileIsLast,
                            FileIsSettings
  <2>4. CASE got # Language!Bad /\ Language!Save(got)
             /\ events = <<>> /\ got = Prefs(settings)
    <3>1. got # ""
      BY <1>1, <2>4, Formats DEF LangInv, LangType
    <3>2. lastLanguage' = got
      BY <2>4 DEF Language!Save
    <3>3. langFile' = got
      <4>1. CASE got = lastLanguage
        <5>1. 1..Len(events) = {}
          BY <2>4
        <5>2. lastLanguage = langFile
          BY <2>2, <3>1, <4>1, <5>1 DEF FileIsLast
        <5>3. QED  BY <2>4, <4>1, <5>2 DEF Language!Save
      <4>2. CASE got # lastLanguage
        BY <2>4, <4>2 DEF Language!Save
      <4>3. QED  BY <4>1, <4>2
    <3>4. QED
      BY <1>1, <2>2, <2>4, <3>2, <3>3 DEF EventsEndInSettings, LastIsSettings,
                                          FileIsLast, FileIsSettings
  <2>5. QED  BY <1>2, <1>6, <2>3, <2>4
<1>7. QED  BY <1>4, <1>5, <1>6 DEF LangInv

LEMMA SetKeeps ==
  ASSUME LangInv, NEW u \in Language!UI \cup {Language!Bad}, Language!setUILanguage(u)
  PROVE  LangInv'
<1> DEFINE p == Language!ConvertToUserSettingsFormat(u)
<1>1. phase = "up" /\ UNCHANGED <<lastLanguage, phase, listening, got>>
  BY DEF Language!setUILanguage
<1>2. CASE migrated
  <2>1. UNCHANGED <<langFile, langSpoilt, migrated>>
    BY <1>2 DEF Language!setUILanguage
  <2>2. p \in Languages
    BY Formats DEF Languages
  <2>3. Language!SetPresentationLanguage(p) \/ UNCHANGED <<settings, needed, events>>
    BY <1>2 DEF Language!setUILanguage
  <2> HIDE DEF p
  <2>4. CASE Language!SetPresentationLanguage(p)
    BY <1>1, <2>1, <2>2, <2>4, ChangeIsHeard
  <2>5. CASE UNCHANGED <<settings, needed, events>>
    BY <1>1, <2>1, <2>5 DEF LangInv, LangType, LivesAreApart,
       EventsEndInSettings, LastIsSettings, FileIsLast, FileIsSettings
  <2>6. QED  BY <2>3, <2>4, <2>5
<1>3. CASE ~migrated
  <2>1. Language!PerformMigration /\ got' = Language!Missing
    BY <1>1, <1>3 DEF Language!setUILanguage, LangInv, LivesAreApart
  <2>2. QED  BY <1>1, <1>3, <2>1, MigrationKeeps
<1>4. QED  BY <1>2, <1>3

LEMMA OtherClientKeeps ==
  ASSUME LangInv, NEW p \in Languages, Language!OtherClient(p)
  PROVE  LangInv'
<1>1. /\ Language!SetPresentationLanguage(p)
      /\ UNCHANGED <<langFile, lastLanguage, migrated, phase, listening, got>>
      /\ langSpoilt' = (langSpoilt \/ phase = "migrating")
  BY DEF Language!OtherClient
<1>2. CASE phase = "up"
  <2>1. UNCHANGED langSpoilt
    BY <1>1, <1>2 DEF LangInv, LangType
  <2>2. QED  BY <1>1, <1>2, <2>1, ChangeIsHeard
<1>3. CASE phase # "up"
  <2>1. /\ settings' = p /\ needed' = FALSE /\ events' = <<>> /\ lastLanguage = ""
        /\ events = <<>>
    BY <1>1, <1>3 DEF Language!SetPresentationLanguage, LangInv, LivesAreApart
  <2>2. LangType'
    <3>1. langSpoilt' \in BOOLEAN
      BY <1>1
    <3>2. QED  BY <1>1, <2>1, <3>1, EmptySeq DEF LangInv, LangType
  <2>3. LivesAreApart'
    BY <1>1, <2>1 DEF LangInv, LivesAreApart
  <2>4. ASSUME ~langSpoilt'
        PROVE  EventsEndInSettings' /\ LastIsSettings' /\ FileIsLast' /\ FileIsSettings'
    <3>1. ~migrated'
      BY <1>1, <1>3, <2>4 DEF LangInv, LangType, LivesAreApart
    <3>2. QED
      BY <1>1, <2>1, <3>1 DEF EventsEndInSettings, LastIsSettings, FileIsLast,
                              FileIsSettings
  <2>5. QED  BY <2>2, <2>3, <2>4 DEF LangInv
<1>4. QED  BY <1>2, <1>3

(* When no event is on its way, the preferences file holds the language    *)
(* UserSettings has, although setUILanguage never writes the file and      *)
(* OnPresentationLanguageChanged and getUILanguage skip the write of the   *)
(* language they wrote last: through any number of sets, events, gets,     *)
(* failed migrations and restarts, unless a save failed, an event was      *)
(* missed before the registration or a get met a change.                   *)
THEOREM FileFollows == Spec => []FileFollowsSettings
<1>1. Init => LangInv
  <2> SUFFICES ASSUME Language!Init PROVE LangInv
    BY DEF Init
  <2>1. "CA_fr" \in Language!UI
    BY DEF Language!UI, Language!Presentation, Language!ConvertToUserPrefsFormat
  <2>2. LangType
    BY <2>1, EmptySeq DEF Language!Init, LangType, Languages
  <2>3. LivesAreApart
    BY DEF Language!Init, LivesAreApart
  <2>4. EventsEndInSettings /\ LastIsSettings /\ FileIsLast /\ FileIsSettings
    BY DEF Language!Init, EventsEndInSettings, LastIsSettings, FileIsLast,
           FileIsSettings
  <2>5. QED  BY <2>2, <2>3, <2>4 DEF LangInv
<1>2. LangInv /\ [Next]_vars => LangInv'
  <2> SUFFICES ASSUME LangInv, [Next]_vars PROVE LangInv'
    OBVIOUS
  <2>1. Language!Next \/ UNCHANGED languageVars
    BY DEF Next, vars
  <2>2. CASE Language!Next
    <3>1. \/ Language!Initialize \/ Language!RegisterNotification
          \/ Language!Deinitialize \/ Language!OnPresentationLanguageChanged
          \/ Language!getUILanguage \/ Language!AnswerUILanguage
          \/ \E u \in Language!UI \cup {Language!Bad} : Language!setUILanguage(u)
          \/ \E p \in Languages : Language!OtherClient(p)
      BY <2>2, Zenon DEF Language!Next, Languages
    <3>2. QED
      BY <3>1, InitializeKeeps, RegisterNotificationKeeps, DeinitializeKeeps,
         ChangedKeeps, GetKeeps, AnswerKeeps, SetKeeps, OtherClientKeeps, Zenon
  <2>3. CASE UNCHANGED languageVars
    BY <2>3 DEF languageVars, LangInv, LangType, LivesAreApart,
       EventsEndInSettings, LastIsSettings, FileIsLast, FileIsSettings
  <2>4. QED  BY <2>1, <2>2, <2>3
<1>3. LangInv => FileFollowsSettings
  BY DEF LangInv, FileIsSettings, FileFollowsSettings,
         Language!FileFollowsSettings, Prefs
<1>4. QED  BY <1>1, <1>2, <1>3, PTL DEF Spec

=============================================================================
