-------------------------- MODULE RebootController -------------------------
(***************************************************************************)
(* PowerManager's maintenance reboot: a heartbeat job that schedules       *)
(* itself again, reads its thresholds from the parameter store (RFC,       *)
(* external) at the first heartbeat only, and reboots a device that has    *)
(* been up, and inactive, for long enough.  Time is counted in heartbeats. *)
(***************************************************************************)
EXTENDS Integers

CONSTANTS MaxUptime,   \* bound on the time that is looked at
          Values       \* what a threshold parameter may hold, 0 and less too

VARIABLES
  uptime,    \* now<seconds>(), in heartbeats
  inactive,  \* Settings::InactiveDuration(), in heartbeats
  enabled,   \* StandbyReboot.Enable
  params,    \* StandbyAutoReboot and ForceAutoReboot
  standby,   \* _standbyRebootThreshold
  forced,    \* _forcedRebootThreshold
  rfcUpdated,\* _rfcUpdated
  job,       \* the heartbeat job is scheduled
  reboots,   \* the reboots the last heartbeat asked for
  first      \* history: the parameters at the first heartbeat since the start

vars == <<uptime, inactive, enabled, params, standby, forced, rfcUpdated, job, reboots, first>>

DefaultStandby == 3
DefaultForced == 6
Grace == 1             \* 300 s, one heartbeat

Init == /\ uptime = 0 /\ inactive = 0 /\ enabled \in BOOLEAN
        /\ params \in [standby : Values, forced : Values]
        /\ standby = DefaultStandby /\ forced = DefaultForced
        /\ rfcUpdated = FALSE /\ job = TRUE /\ reboots = {}
        /\ first = [standby |-> 0, forced |-> 0]

(* fetchRFCValueInt: -1 when the parameter cannot be read, and 0, which is *)
(* what atoi makes of it, when it is no number or is put in quotes.        *)
fetchRFCValueInt(v) == {v, 0, -1}
isStandbyRebootEnabled == {enabled, FALSE}

(* as SetThreshold below, but every value that was read is taken *)
SetThresholdRead(old, v) == IF v # -1 THEN v ELSE old

SetThreshold(old, v) == IF v > 0 THEN v ELSE old
IsThresholdExceeded(t) == uptime' >= t
IsGraceIntervalExceeded == inactive' >= Grace

(* The reboots of one heartbeat: the forced one is looked at only past the *)
(* standby threshold, and both may be asked for.                           *)
Due(s, f) == IF IsThresholdExceeded(s)
             THEN (IF IsGraceIntervalExceeded THEN {"standby"} ELSE {})
                  \cup (IF IsThresholdExceeded(f) THEN {"forced"} ELSE {})
             ELSE {}

scheduleHeartbeat == job' = TRUE

(* One interval passes, active or not, and the heartbeat runs.  A reboot   *)
(* that was asked for and did not come is asked for again.                 *)
heartbeatMsg ==
  /\ job /\ uptime < MaxUptime
  /\ uptime' = uptime + 1
  /\ inactive' \in {0, inactive + 1}
  /\ IF rfcUpdated THEN UNCHANGED <<standby, forced, first>>
     ELSE /\ \E s \in fetchRFCValueInt(params.standby), f \in fetchRFCValueInt(params.forced) :
               standby' = SetThreshold(standby, s) /\ forced' = SetThreshold(forced, f)
          /\ first' = params
  /\ rfcUpdated' = TRUE
  /\ \E e \in isStandbyRebootEnabled : reboots' = (IF e THEN Due(standby', forced') ELSE {})
  /\ scheduleHeartbeat
  /\ UNCHANGED <<enabled, params>>

(* external: the parameters are written while the device is up *)
ParametersChange ==
  /\ enabled' \in BOOLEAN /\ params' \in [standby : Values, forced : Values]
  /\ UNCHANGED <<uptime, inactive, standby, forced, rfcUpdated, job, reboots, first>>

(* external: the device reboots; of all this only the parameters are kept *)
Reboot ==
  /\ reboots # {}
  /\ uptime' = 0 /\ inactive' = 0
  /\ standby' = DefaultStandby /\ forced' = DefaultForced
  /\ rfcUpdated' = FALSE /\ job' = TRUE /\ reboots' = {}
  /\ first' = [standby |-> 0, forced |-> 0]
  /\ UNCHANGED <<enabled, params>>

Next == heartbeatMsg \/ ParametersChange \/ Reboot

Spec == Init /\ [][Next]_vars

-----------------------------------------------------------------------------
(* A device is never rebooted before its time, at worst at every first     *)
(* heartbeat, for ever: it has been up for the default threshold or for    *)
(* the positive one the parameter had at the first heartbeat, however      *)
(* often a parameter is 0, negative, in quotes or unreadable, and whatever *)
(* is written later (heartbeatMsg 79-108, SetThreshold 42-49).             *)
RebootIsEarned ==
  /\ reboots # {} => \/ uptime >= DefaultStandby
                     \/ first.standby > 0 /\ uptime >= first.standby
  /\ "forced" \in reboots => \/ uptime >= DefaultForced
                             \/ first.forced > 0 /\ uptime >= first.forced
=============================================================================
