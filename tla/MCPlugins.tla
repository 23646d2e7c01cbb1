----------------------------- MODULE MCPlugins ------------------------------
(***************************************************************************)
(* The smaller plugins, and the video and audio settings of                *)
(* DisplaySettings, for TLC.  They run in processes of their own or share no       *)
(* variable, so that each behaviour here is one of the part that `part'    *)
(* names, the others standing still.                                       *)
(***************************************************************************)
EXTENDS Integers

CONSTANTS Clients, Callers, Samples, HdmiOut, Values,
          MaxSteps, MaxLanguageSteps, MaxFrameCalls, MaxResetCalls,
          MaxUptime, MaxVideoCalls, MaxAudioCalls

VARIABLES
  part,
  file, registered, requested, life, born, told, req, reg, boot, up, spoilt, steps,
  settings, needed, langFile, lastLanguage, migrated, phase, listening, events, got, langSpoilt,
  langSteps,
  stats, last, collecting, isActive, timer, frequency, display, report, fpsRaced, fpsCalls,
  resetThread, running, resetPc, resetClients, resetPool, flags, device, rfc, dirt, resetAnswer,
  succeeded, refused, lost, resetTold, resetCalls,
  uptime, inactive, enabled, params, standby, forced, rfcUpdated, job, reboots, first,
  resolution, connected, change, plugged, resCache, conCache, hdrCache, reading, look, video, hotplug,
  videoAnswer, videoTold, videoCalls,
  attached, setting, level, muted, sound, cacheMuted, arc, toldMuted, lastMuted, apart,
  audioAnswer, crashed, audioCalls

Mode == INSTANCE SystemMode
Language == INSTANCE UserPreferences
          WITH file <- langFile, last <- lastLanguage, spoilt <- langSpoilt, steps <- langSteps,
               MaxSteps <- MaxLanguageSteps
Fps == INSTANCE FrameRate WITH raced <- fpsRaced, calls <- fpsCalls, MaxCalls <- MaxFrameCalls
Reset == INSTANCE Warehouse
          WITH pc <- resetPc, clients <- resetClients, pool <- resetPool, answer <- resetAnswer,
               told <- resetTold, calls <- resetCalls, MaxCalls <- MaxResetCalls
Reboot == INSTANCE RebootController
Video == INSTANCE VideoSettings
          WITH device <- video, answer <- videoAnswer, told <- videoTold,
               calls <- videoCalls, MaxCalls <- MaxVideoCalls
Audio == INSTANCE AudioSettings
          WITH answer <- audioAnswer, calls <- audioCalls, MaxCalls <- MaxAudioCalls

modeVars == <<file, registered, requested, life, born, told, req, reg, boot, up, spoilt, steps>>
languageVars == <<settings, needed, langFile, lastLanguage, migrated, phase, listening, events, got,
                  langSpoilt, langSteps>>
fpsVars == <<stats, last, collecting, isActive, timer, frequency, display, report, fpsRaced, fpsCalls>>
resetVars == <<resetThread, running, resetPc, resetClients, resetPool, flags, device, rfc, dirt,
               resetAnswer, succeeded, refused, lost, resetTold, resetCalls>>
rebootVars == <<uptime, inactive, enabled, params, standby, forced, rfcUpdated, job, reboots, first>>
videoVars == <<resolution, connected, change, plugged, resCache, conCache, hdrCache, reading, look, video,
               hotplug, videoAnswer, videoTold, videoCalls>>
audioVars == <<attached, setting, level, muted, sound, cacheMuted, arc, toldMuted, lastMuted, apart,
               audioAnswer, crashed, audioCalls>>
vars == <<part, modeVars, languageVars, fpsVars, resetVars, rebootVars, videoVars, audioVars>>

(* A part that stands still is given one of its initial states. *)
Init == /\ part \in {"mode", "language", "fps", "reset", "reboot", "video", "audio"}
        /\ Mode!Init /\ Language!Init /\ Fps!Init /\ Reset!Init /\ Reboot!Init
        /\ Video!Init /\ Audio!Init
        /\ part # "language" => ~needed /\ settings = Language!Bad /\ langFile = Language!Missing
        /\ part # "reboot" => ~enabled /\ params = [standby |-> 0, forced |-> 0]
        /\ part # "video" => \A p \in DOMAIN connected : ~connected[p]

Next ==
  /\ UNCHANGED part
  /\ \/ /\ part = "mode" /\ Mode!Next
        /\ UNCHANGED <<languageVars, fpsVars, resetVars, rebootVars, videoVars, audioVars>>
     \/ /\ part = "language" /\ Language!Next
        /\ UNCHANGED <<modeVars, fpsVars, resetVars, rebootVars, videoVars, audioVars>>
     \/ /\ part = "fps" /\ Fps!Next
        /\ UNCHANGED <<modeVars, languageVars, resetVars, rebootVars, videoVars, audioVars>>
     \/ /\ part = "reset" /\ Reset!Next
        /\ UNCHANGED <<modeVars, languageVars, fpsVars, rebootVars, videoVars, audioVars>>
     \/ /\ part = "reboot" /\ Reboot!Next
        /\ UNCHANGED <<modeVars, languageVars, fpsVars, resetVars, videoVars, audioVars>>
     \/ /\ part = "video" /\ Video!Next
        /\ UNCHANGED <<modeVars, languageVars, fpsVars, resetVars, rebootVars, audioVars>>
     \/ /\ part = "audio" /\ Audio!Next
        /\ UNCHANGED <<modeVars, languageVars, fpsVars, resetVars, rebootVars, videoVars>>

Spec == Init /\ [][Next]_vars

-----------------------------------------------------------------------------
(* SystemMode, RequestState and ClientActivated: when nothing is under way *)
(* a running client has been asked for the state the file names.           *)
ClientsFollowState == Mode!ClientsFollowState

(* UserPreferences, setUILanguage and OnPresentationLanguageChanged: the   *)
(* preferences file follows the language UserSettings has.                 *)
FileFollowsSettings == Language!FileFollowsSettings

(* FrameRate, StartFpsCollection and StopFpsCollection: a collection in    *)
(* progress has its timer, and no timer runs without one.                  *)
CollectionHasTimer == Fps!CollectionHasTimer

(* Warehouse, ResetDevice: a reset that leaves the device running, or that *)
(* threw, is announced exactly once.                                       *)
AnnouncedOnce == Reset!AnnouncedOnce

(* RebootController, heartbeatMsg: no device is rebooted before it has     *)
(* been up for a threshold that counts.                                    *)
RebootIsEarned == Reboot!RebootIsEarned

(* DisplaySettings: the cached resolution and connection are those of the  *)
(* default port, where nothing overtook them.                              *)
CachesAreReal == Video!CachesAreReal

(* DisplaySettings, setMuted: listeners know the mute that was set last.   *)
MuteIsTold == Audio!MuteIsTold
=============================================================================
