--------------------------- MODULE AudioSettings ---------------------------
(***************************************************************************)
(* DisplaySettings, audio: the settings of the audio ports in the          *)
(* device-settings library (external: it keeps a value for each setting    *)
(* and port, and any call of it may throw), the events of the library, and *)
(* volume and mute, which the plugin itself compares with what it told     *)
(* last.  The calls run one at a time (locked API).                        *)
(***************************************************************************)
EXTENDS Integers, TLC

CONSTANTS MaxCalls,      \* calls and events in one behaviour
          HdmiOut        \* Host::isHDMIOutPortPresent(): a set-top, not a TV

Ports == {"HDMI0", "HDMI_ARC0", "SPDIF0"}
Numbers == {-1, 0, 1, 3}                  \* -1 stands for what is no number

VARIABLES
  attached,  \* isConnected() of each port (external)
  setting,   \* by setting and port: the values written (the others are 0)
  level,     \* volume of each port
  muted,     \* mute of each port
  sound,     \* stereo mode and auto of each port
  cacheMuted,\* cache_muted of setMuted
  arc,       \* hdmiArcVolumeLevel, hdmiArcMuteStatus
  toldMuted, \* what the last muteStatusChanged said
  lastMuted, \* history: the mute that was set last, by a call or by the ARC device
  apart,     \* history: the ARC device reported another mute than cache_muted, and no call has differed from that since
  answer,    \* of the last call
  crashed,   \* setSoundMode without a port has exhausted the stack
  calls

vars == <<attached, setting, level, muted, sound, cacheMuted, arc, toldMuted, lastMuted, apart,
          answer, crashed, calls>>

Init == /\ attached = [p \in Ports |-> TRUE]
        /\ setting = <<>>
        /\ level = [p \in Ports |-> 0] /\ muted = [p \in Ports |-> FALSE]
        /\ sound = [p \in Ports |-> [mode |-> "stereo", auto |-> FALSE]]
        /\ cacheMuted = FALSE /\ arc = [level |-> 0, muted |-> FALSE]
        /\ toldMuted = FALSE /\ lastMuted = FALSE /\ apart = FALSE
        /\ answer = "none" /\ crashed = FALSE /\ calls = 0

Volume == UNCHANGED <<level, muted, sound, cacheMuted, arc, toldMuted, lastMuted, apart, crashed>>
Count == ~crashed /\ calls < MaxCalls /\ calls' = calls + 1
Writes == Count /\ UNCHANGED attached /\ Volume
Call == Count /\ UNCHANGED <<attached, setting>>

-----------------------------------------------------------------------------
(* Writing: parameters that do not parse are refused before the library is *)
(* called; the library takes the value, or throws.                         *)
isValidUnsignedInt(v) == v >= 0

Set(s, p, v) == \/ setting' = <<s, p>> :> v @@ setting /\ answer' = "done"
                \/ UNCHANGED setting /\ answer' = "failed"
Refuse == UNCHANGED setting /\ answer' = "failed"
One(v) == [mode |-> v, level |-> 0]

setVolumeLeveller(p, v) ==
  IF isValidUnsignedInt(v) THEN Set("volumeLeveller", p, [mode |-> IF v = 0 THEN 0 ELSE 1, level |-> v])
  ELSE Refuse

(* Off and auto have level 0; another mode is refused. *)
TwoPart(m, v) == [mode |-> m, level |-> IF m = 1 THEN v ELSE 0]

setVolumeLeveller2(p, m, v) ==
  IF isValidUnsignedInt(m) /\ m \in 0..2 THEN Set("volumeLeveller", p, TwoPart(m, v)) ELSE Refuse

setSurroundVirtualizer(p, v) ==
  IF isValidUnsignedInt(v) THEN Set("surroundVirtualizer", p, [mode |-> IF v = 0 THEN 0 ELSE 1, level |-> v])
  ELSE Refuse

setSurroundVirtualizer2(p, m, v) ==
  IF isValidUnsignedInt(m) /\ isValidUnsignedInt(v) /\ m \in 0..2
  THEN Set("surroundVirtualizer", p, TwoPart(m, v)) ELSE Refuse

setBassEnhancer(p, v) == IF isValidUnsignedInt(v) THEN Set("bassEnhancer", p, One(v)) ELSE Refuse
setDRCMode(p, v) == IF isValidUnsignedInt(v) THEN Set("DRCMode", p, One(v)) ELSE Refuse
enableSurroundDecoder(p, b) == Set("surroundDecoder", p, One(b))
setMISteering(p, b) == Set("MISteering", p, One(b))
setDolbyVolumeMode(p, b) == Set("dolbyVolumeMode", p, One(b))

Parsed(s, p, v) == IF v = -1 THEN Refuse ELSE Set(s, p, One(v))
setMS12AudioCompression(p, v) == Parsed("compression", p, v)
setDialogEnhancement(p, v) == Parsed("dialogEnhancement", p, v)
setIntelligentEqualizerMode(p, v) == Parsed("intelligentEqualizer", p, v)
setGraphicEqualizerMode(p, v) == Parsed("graphicEqualizer", p, v)
setMS12AudioProfile(p, v) == Set("ms12Profile", p, One(v))
setMS12ProfileSettingsOverride(p, v) == Set("ms12Profile", p, One(v))

(* The gain is checked against its range, here 0..2. *)
setGain(p, v) == IF v \in 0..2 THEN Set("gain", p, One(v)) ELSE Refuse

(* A negative delay is refused, as one that is no number. *)
setAudioDelay(p, v) == IF v < 0 THEN Refuse ELSE Set("audioDelay", p, One(v))

(* On a TV these are settings of the whole device. *)
OnHost(p) == IF HdmiOut THEN p ELSE "host"
setAssociatedAudioMixing(p, b) == Set("associatedAudioMixing", OnHost(p), One(b))
setFaderControl(p, v) == IF v = -1 THEN Refuse ELSE Set("faderControl", OnHost(p), One(v))
setPrimaryLanguage(p, v) == Set("primaryLanguage", OnHost(p), One(v))
setSecondaryLanguage(p, v) == Set("secondaryLanguage", OnHost(p), One(v))
setAudioAtmosOutputMode(b) ==
  IF HdmiOut /\ ~attached["HDMI0"] THEN Refuse ELSE Set("atmosOutput", OnHost("HDMI0"), One(b))

Reset(s, p) == \/ setting' = <<s, p>> :> One(0) @@ setting /\ answer' = "done"
               \/ Refuse
resetDialogEnhancement(p) == Reset("dialogEnhancement", p)
resetBassEnhancer(p) == Reset("bassEnhancer", p)
resetSurroundVirtualizer(p) == Reset("surroundVirtualizer", p)
resetVolumeLeveller(p) == Reset("volumeLeveller", p)

Resets(p) == \/ resetDialogEnhancement(p) \/ resetBassEnhancer(p)
             \/ resetSurroundVirtualizer(p) \/ resetVolumeLeveller(p)

Write == /\ Writes
         /\ \E p \in Ports :
              \/ Resets(p)
              \/ \E v \in Numbers :
                   \/ setVolumeLeveller(p, v) \/ setSurroundVirtualizer(p, v)
                   \/ setBassEnhancer(p, v) \/ setDRCMode(p, v) \/ setMS12AudioCompression(p, v)
                   \/ setDialogEnhancement(p, v) \/ setIntelligentEqualizerMode(p, v)
                   \/ setGraphicEqualizerMode(p, v) \/ setMS12AudioProfile(p, v)
                   \/ setMS12ProfileSettingsOverride(p, v) \/ setGain(p, v) \/ setAudioDelay(p, v)
                   \/ setFaderControl(p, v) \/ setPrimaryLanguage(p, v) \/ setSecondaryLanguage(p, v)
                   \/ \E m \in Numbers : setVolumeLeveller2(p, m, v) \/ setSurroundVirtualizer2(p, m, v)
              \/ \E b \in {0, 1} :
                   \/ enableSurroundDecoder(p, b) \/ setMISteering(p, b) \/ setDolbyVolumeMode(p, b)
                   \/ setAssociatedAudioMixing(p, b) \/ setAudioAtmosOutputMode(b)

-----------------------------------------------------------------------------
(* Reading: the value of the library, 0 where nothing was written.         *)
Value(s, p) == IF <<s, p>> \in DOMAIN setting THEN setting[s, p] ELSE One(0)
Enabled(n) == IF n = 0 THEN "off" ELSE "on"
Read(v) == Call /\ Volume /\ answer' \in {v, "failed"}

(* A port that is not connected: nothing is answered, as a success for the *)
(* volume leveller, as a failure for the others.                           *)
getVolumeLeveller(p) == Read(IF attached[p] THEN Enabled(Value("volumeLeveller", p).mode) ELSE "nothing")
getVolumeLeveller2(p) == Read(IF attached[p] THEN Enabled(Value("volumeLeveller", p).mode) ELSE "nothing")
IfAttached(s, p) == Read(IF attached[p] THEN Enabled(Value(s, p).mode) ELSE "failed")
getBassEnhancer(p) == IfAttached("bassEnhancer", p)
isSurroundDecoderEnabled(p) == IfAttached("surroundDecoder", p)
getDRCMode(p) == IfAttached("DRCMode", p)
getSurroundVirtualizer(p) == IfAttached("surroundVirtualizer", p)
getSurroundVirtualizer2(p) == IfAttached("surroundVirtualizer", p)
getMISteering(p) == IfAttached("MISteering", p)

Get(s, p) == Read(Enabled(Value(s, p).mode))
getGain(p) == Get("gain", p)
getMS12AudioCompression(p) == Get("compression", p)
getDolbyVolumeMode(p) == Get("dolbyVolumeMode", p)
getDialogEnhancement(p) == Get("dialogEnhancement", p)
getIntelligentEqualizerMode(p) == Get("intelligentEqualizer", p)
getGraphicEqualizerMode(p) == Get("graphicEqualizer", p)
getMS12AudioProfile(p) == Get("ms12Profile", p)
getAssociatedAudioMixing(p) == Get("associatedAudioMixing", OnHost(p))
getFaderControl(p) == Get("faderControl", OnHost(p))
getPrimaryLanguage(p) == Get("primaryLanguage", OnHost(p))
getSecondaryLanguage(p) == Get("secondaryLanguage", OnHost(p))

(* checkPortName: the name of a family of ports stands for its first port. *)
checkPortName(p) == p \in Ports \cup {""}

(* Without a port it is HDMI0, or SPDIF0 when only another display is      *)
(* connected; an unknown port is HDMI0.                                    *)
ChosenPort(p) == CASE p \in Ports -> {p}
                   [] p = ""      -> {"HDMI0", "SPDIF0"}
                   [] OTHER       -> {"HDMI0"}
getAudioDelay(p) == \E q \in ChosenPort(p) : Get("audioDelay", q)

(* Lists and capabilities. *)
Capabilities == Call /\ Volume /\ answer' \in {"list", "none"}
getSupportedAudioPorts == Capabilities
getSupportedAudioModes == Capabilities
getSettopAudioCapabilities == Capabilities
getSettopMS12Capabilities == Capabilities
getSupportedMS12AudioProfiles == Capabilities
getSupportedMS12Config == Read("config")
audioFormatToString == {"format", "UNKNOWN"}
getAudioFormat == \E f \in audioFormatToString : Read(f)

(* The ARC port counts as connected only while audio is routed to it, on a *)
(* TV; on a set-top HDMI0 is asked when no port is given.                  *)
getSinkAtmosCapability(p, routed) ==
  LET port == IF p = "" THEN "HDMI0" ELSE p
      asks == \/ HdmiOut /\ attached[port]
              \/ ~HdmiOut /\ (p = "" \/ (attached[p] /\ (p = "HDMI_ARC0" => routed)))
  IN  IF p \notin Ports \cup {""} THEN Read("failed") ELSE Read(IF asks THEN "capability" ELSE "failed")

getEnableAudioPort(p) == Read(IF p = "HDMI_ARC0" THEN "configured" ELSE "enabled")

Reads == \/ \E p \in Ports : \/ getVolumeLeveller(p) \/ getVolumeLeveller2(p) \/ getBassEnhancer(p)
                             \/ isSurroundDecoderEnabled(p) \/ getDRCMode(p) \/ getSurroundVirtualizer(p)
                             \/ getSurroundVirtualizer2(p) \/ getMISteering(p) \/ getGain(p)
                             \/ getMS12AudioCompression(p) \/ getDolbyVolumeMode(p) \/ getDialogEnhancement(p)
                             \/ getIntelligentEqualizerMode(p) \/ getGraphicEqualizerMode(p)
                             \/ getMS12AudioProfile(p) \/ getAssociatedAudioMixing(p) \/ getFaderControl(p)
                             \/ getPrimaryLanguage(p) \/ getSecondaryLanguage(p) \/ getEnableAudioPort(p)
         \/ \E p \in Ports \cup {"", "bad"} : getAudioDelay(p) \/ \E r \in BOOLEAN : getSinkAtmosCapability(p, r)
         \/ getSupportedAudioPorts \/ getSupportedAudioModes \/ getSettopAudioCapabilities
         \/ getSettopMS12Capabilities \/ getSupportedMS12AudioProfiles \/ getSupportedMS12Config
         \/ getAudioFormat

-----------------------------------------------------------------------------
(* Volume and mute. *)
getVolumeLevel(p) == Read(Enabled(IF p = "HDMI_ARC0" THEN arc.level ELSE level[p]))
getMuted(p) == Read(IF muted[p] THEN "on" ELSE "off")

(* The event is sent when the level differs from what the port had. *)
setVolumeLevel(p, v) ==
  /\ Call /\ UNCHANGED <<muted, sound, cacheMuted, arc, toldMuted, lastMuted, apart, crashed>>
  /\ \/ v >= 0 /\ level' = [level EXCEPT ![p] = v] /\ answer' = IF level[p] # v THEN "told" ELSE "done"
     \/ UNCHANGED level /\ answer' = "failed"

(* as setMuted below, but the cache is written before the library is called *)
setMutedEarly(p, b) ==
  /\ Call /\ UNCHANGED <<level, sound, arc, crashed>>
  /\ cacheMuted' = b
  /\ \/ /\ muted' = [muted EXCEPT ![p] = b]
        /\ lastMuted' = b
        /\ toldMuted' = IF cacheMuted # b THEN b ELSE toldMuted
        /\ apart' = (apart /\ b = cacheMuted)
        /\ answer' = "done"
     \/ UNCHANGED <<muted, lastMuted, toldMuted, apart>> /\ answer' = "failed"

(* The event is sent when the mute differs from the one set last, whatever *)
(* port that was for.                                                      *)
setMuted(p, b) ==
  /\ Call /\ UNCHANGED <<level, sound, arc, crashed>>
  /\ \/ /\ muted' = [muted EXCEPT ![p] = b]
        /\ cacheMuted' = b /\ lastMuted' = b
        /\ toldMuted' = IF cacheMuted # b THEN b ELSE toldMuted
        /\ apart' = (apart /\ b = cacheMuted)
        /\ answer' = "done"
     \/ UNCHANGED <<muted, cacheMuted, lastMuted, toldMuted, apart>> /\ answer' = "failed"

(* The ARC device reports; its mute is compared with its own last one and  *)
(* told, without the cache of setMuted.                                    *)
onArcAudioStatusEventHandler(v, b) ==
  /\ Call /\ UNCHANGED <<level, muted, sound, cacheMuted, crashed, answer>>
  /\ arc' = [level |-> v, muted |-> b]
  /\ toldMuted' = IF arc.muted # b THEN b ELSE toldMuted
  /\ lastMuted' = IF arc.muted # b THEN b ELSE lastMuted
  /\ apart' = IF arc.muted # b THEN b # cacheMuted ELSE apart

-----------------------------------------------------------------------------
(* Sound modes of the ports that are not ARC.  Auto on HDMI becomes        *)
(* surround or stereo by what the display can do; a mode that is not known *)
(* changes nothing and is a success.  Without a port, and not for auto,    *)
(* setSoundMode calls itself without a port again.                         *)
SoundModes == {"mono", "stereo", "surround", "passthru", "auto"}

setSoundMode(p, m, surround) ==
  /\ Call /\ UNCHANGED <<level, muted, cacheMuted, arc, toldMuted, lastMuted, apart>>
  /\ LET port == IF p = "" /\ m = "auto" THEN "HDMI0" ELSE p
         mode == IF m # "auto" THEN m
                 ELSE IF port = "HDMI0" /\ ~surround THEN "stereo" ELSE "surround"
     IN
     \/ m \notin SoundModes /\ answer' = "done" /\ UNCHANGED <<sound, crashed>>
     \/ m \in SoundModes /\ ~checkPortName(port) /\ answer' = "failed" /\ UNCHANGED <<sound, crashed>>
     \/ m \in SoundModes /\ port = "" /\ crashed' = TRUE /\ UNCHANGED <<sound, answer>>
     \/ /\ m \in SoundModes /\ port \in {"HDMI0", "SPDIF0"} /\ UNCHANGED crashed
        /\ IF port = "HDMI0" \/ attached[port]
           THEN /\ sound' = [sound EXCEPT ![port] =
                     [auto |-> (m = "auto"),
                      mode |-> IF port = "SPDIF0" /\ m = "auto" THEN @.mode ELSE mode]]
                /\ answer' = "done"
           ELSE answer' = "failed" /\ UNCHANGED sound
     \/ m \in SoundModes /\ port \in Ports /\ answer' = "failed" /\ UNCHANGED <<sound, crashed>>

getSoundMode(p) ==
  \E q \in ChosenPort(p) :
    Read(IF sound[q].auto /\ (attached[q] \/ q # "SPDIF0") THEN "auto"
         ELSE IF ~attached[q] /\ q = "SPDIF0" THEN "stereo" ELSE sound[q].mode)

-----------------------------------------------------------------------------
(* Events of the library: each is told as it comes. *)
Notify(e) == Call /\ Volume /\ answer' = e
notifyAudioFormatChange == \E f \in audioFormatToString : Notify(f)
notifyAtmosCapabilityChange == Notify("AtmosCapabilityChanged")
notifyAssociatedAudioMixingChange == Notify("associatedAudioMixingChanged")
notifyFaderControlChange == Notify("faderControlChanged")
notifyPrimaryLanguageChange == Notify("primaryLanguageChanged")
notifySecondaryLanguageChange == Notify("secondaryLanguageChanged")

OnAudioFormatUpdate == notifyAudioFormatChange
OnDolbyAtmosCapabilitiesChanged(status) == status /\ notifyAtmosCapabilityChange
OnAssociatedAudioMixingChanged == notifyAssociatedAudioMixingChange
OnAudioFaderControlChanged == notifyFaderControlChange
OnAudioPrimaryLanguageChanged == notifyPrimaryLanguageChange
OnAudioSecondaryLanguageChanged == notifySecondaryLanguageChange

(* A port is plugged or unplugged (external), and the clients are told. *)
connectedAudioPortUpdated == answer' = "connectedAudioPortUpdated"
OnAudioOutHotPlug(p) ==
  /\ Count
  /\ attached' = [attached EXCEPT ![p] = ~@]
  /\ connectedAudioPortUpdated /\ Volume /\ UNCHANGED setting

Events == \/ OnAudioFormatUpdate \/ OnDolbyAtmosCapabilitiesChanged(TRUE) \/ OnAssociatedAudioMixingChanged
          \/ OnAudioFaderControlChanged \/ OnAudioPrimaryLanguageChanged \/ OnAudioSecondaryLanguageChanged
          \/ \E p \in Ports : OnAudioOutHotPlug(p)
          \/ \E v \in {0, 1}, b \in BOOLEAN : onArcAudioStatusEventHandler(v, b)

Sounds == \/ \E p \in Ports : getVolumeLevel(p) \/ getMuted(p)
          \/ \E p \in Ports, v \in {-1, 1} : setVolumeLevel(p, v)
          \/ \E p \in Ports, b \in BOOLEAN : setMuted(p, b)
          \/ \E p \in Ports \cup {"", "bad"} : getSoundMode(p)
          \/ \E p \in Ports \cup {"", "bad"}, m \in SoundModes \cup {"bad"}, s \in BOOLEAN : setSoundMode(p, m, s)

Next == Write \/ Reads \/ Sounds \/ Events

Spec == Init /\ [][Next]_vars

-----------------------------------------------------------------------------
(* A client that follows muteStatusChanged knows the mute that was set     *)
(* last, by setMuted on any port or by the ARC device.  The two compare    *)
(* with different members: after the ARC device has reported another mute  *)
(* than cache_muted, a setMuted equal to the cache is not told, until one  *)
(* differs from it (setMuted 2611-2617, onArcAudioStatusEventHandler       *)
(* 4912-4919).  A failed call changes nothing of it.                       *)
MuteIsTold == ~apart => toldMuted = lastMuted
=============================================================================
