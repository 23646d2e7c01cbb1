---------------------- MODULE ThermalControllerProofs ----------------------
(***************************************************************************)
(* ProtectionInProportion and NotFasterTooSoon for all thresholds, grace   *)
(* intervals, temperatures and callers.                                    *)
(***************************************************************************)
EXTENDS ThermalController, TLAPS

(* The grace interval does not change while the zones are being checked.   *)
GraceIsLocked ==
    pc \in {"deepsleep", "request", "reboot", "rebooting"} => graceMutex = Poller

(* The reading has not yet been compared with the thresholds of zone z.    *)
Unchecked(z) ==
    pc \in {"reading", "zones", "deepsleep", "done"}
             \cup (IF z = "reboot" THEN {"request", "reboot"} ELSE {})

(* A reading of concern is remembered as such.                             *)
ReadingIsSeen ==
    \A z \in Zones :
        /\ pc \in {"reading", "zones", "deepsleep", "request", "reboot"}
        /\ value >= Thresholds[z].concern
        => hot[z]

(* The zone a monitor is in is hot, unless it is about to be left, and the *)
(* monitor is not older than the heat.  A frozen zone is the exception.    *)
ZoneIsHot ==
    \A z \in Zones :
        zone[z] /\ ~frozen[z] =>
            /\ age[z] <= since[z]
            /\ hot[z] \/ (Unchecked(z) /\ value < Thresholds[z].safe)

(* The recorded speed is the platform's unless a change was refused, and   *)
(* slow enough for the last reading that was compared with the thresholds. *)
SpeedIsRecorded == ~refused => clock = cpu

SpeedFits ==
    pc \in {"sleep", "poll"} /\ declockGrace # 0 =>
        /\ value >= Thresholds["declock"].critical => cpu = "MINIMAL"
        /\ value >= Thresholds["declock"].concern => cpu # "NORMAL"

(* The time of declocking is not older than the last reading of concern,   *)
(* unless that reading has still to be handled.                            *)
DeclockIsRecent ==
    declockGrace # 0 =>
        \/ age["declock"] <= since["declock"]
        \/ pc \notin {"sleep", "poll"} /\ value >= Thresholds["declock"].concern

Inv ==
    /\ TypeOK /\ GraceIsLocked /\ ReadingIsSeen /\ ZoneIsHot
    /\ SpeedIsRecorded /\ SpeedFits /\ DeclockIsRecent
    /\ SleepIsWarranted /\ RebootIsWarranted

-----------------------------------------------------------------------------
(* The thresholds are numbers in their order.                              *)
LEMMA ThresholdsAreOrdered ==
    ASSUME NEW z \in Monitors
    PROVE  /\ Thresholds[z].safe \in Nat /\ Thresholds[z].concern \in Nat
           /\ Thresholds[z].critical \in Nat
           /\ Thresholds[z].safe <= Thresholds[z].concern
           /\ Thresholds[z].concern <= Thresholds[z].critical
  BY ThermalAssumption

(* What the check of a zone leaves: a zone that is hot and not younger     *)
(* than its heat, or a frozen one; and it demands deep sleep or a reboot   *)
(* only for a reason.                                                      *)
LEMMA ZoneIsChecked ==
    ASSUME Inv, NEW z \in Zones,
           pc \in {"deepsleep", "reboot"}, Check(z), UNCHANGED since
    PROVE  /\ zone' \in [Zones -> BOOLEAN] /\ frozen' \in [Zones -> BOOLEAN]
           /\ age' \in [Monitors -> 0..MaxGrace]
           /\ age'["declock"] = age["declock"]
           /\ \A y \in Zones \ {z} :
                 zone'[y] = zone[y] /\ frozen'[y] = frozen[y] /\ age'[y] = age[y]
           /\ zone'[z] /\ ~frozen'[z] => hot[z] /\ age'[z] <= since[z]
           /\ Due(z) => \/ value >= Thresholds[z].critical
                        \/ hot[z] /\ since[z] >= grace
                        \/ frozen'[z]
<1> USE DEF Inv, TypeOK
<1>0. /\ z \in Monitors /\ Zones \subseteq Monitors /\ "declock" \notin Zones
      /\ "declock" \in Monitors
  BY DEF Zones, Monitors
<1>1. value \in Nat /\ MaxGrace \in Nat
  BY ThermalAssumption
<1>2. CASE grace = 0
  <2>1. /\ frozen' = [frozen EXCEPT ![z] = @ \/ zone[z]]
        /\ zone' = zone /\ age' = age
    BY <1>2 DEF Check
  <2>2. frozen' \in [Zones -> BOOLEAN] /\ (zone'[z] => frozen'[z])
        /\ \A y \in Zones \ {z} : frozen'[y] = frozen[y]
    BY <2>1
  <2>3. ~Due(z)
    BY <1>2 DEF Due
  <2> QED
    BY <2>1, <2>2, <2>3
<1>3. CASE grace # 0
  <2>1. /\ zone' = [zone EXCEPT ![z] = InZone(z)]
        /\ age' = [age EXCEPT ![z] = InZoneFor(z)]
        /\ frozen' = [frozen EXCEPT ![z] = @ /\ InZone(z)]
    BY <1>3 DEF Check
  <2>2. InZone(z) \in BOOLEAN /\ InZoneFor(z) \in 0..MaxGrace
    BY <1>0, <1>1 DEF InZone, InZoneFor, Enters, Leaves
  <2>3. /\ zone' \in [Zones -> BOOLEAN] /\ zone'[z] = InZone(z)
        /\ \A y \in Zones \ {z} : zone'[y] = zone[y]
    BY <2>1, <2>2
  <2>4. /\ frozen' \in [Zones -> BOOLEAN] /\ frozen'[z] = (frozen[z] /\ InZone(z))
        /\ \A y \in Zones \ {z} : frozen'[y] = frozen[y]
    BY <2>1, <2>2
  <2>5. /\ age' \in [Monitors -> 0..MaxGrace] /\ age'[z] = InZoneFor(z)
        /\ \A y \in Monitors \ {z} : age'[y] = age[y]
    BY <1>0, <2>1, <2>2
  <2>6. ASSUME InZone(z), ~frozen[z] PROVE hot[z] /\ InZoneFor(z) <= since[z]
    <3>1. CASE Enters(z)
      <4>1. hot[z]
        BY <3>1 DEF Enters, ReadingIsSeen
      <4> QED
        BY <1>0, <1>1, <3>1, <4>1 DEF InZoneFor
    <3>2. CASE ~Enters(z)
      <4>1. zone[z] /\ ~(value < Thresholds[z].safe)
        BY <2>6, <3>2 DEF InZone, Leaves
      <4> QED
        BY <2>6, <3>2, <4>1 DEF InZoneFor, ZoneIsHot
    <3> QED
      BY <3>1, <3>2
  <2>7. ASSUME Due(z), ~(value >= Thresholds[z].critical), ~frozen'[z]
        PROVE  hot[z] /\ since[z] >= grace
    <3>1. InZone(z) /\ InZoneFor(z) >= grace
      BY <2>7 DEF Due
    <3>2. hot[z] /\ InZoneFor(z) <= since[z]
      BY <2>4, <2>6, <2>7, <3>1
    <3> QED
      BY <1>0, <1>1, <2>2, <3>1, <3>2
  <2> QED
    BY <1>0, <2>3, <2>4, <2>5, <2>6, <2>7
<1> QED
  BY <1>2, <1>3

(* Older adds a poll to every age, up to the bound: an order of ages is    *)
(* kept.                                                                   *)
LEMMA OlderKeepsOrder ==
    ASSUME NEW f \in [Monitors -> 0..MaxGrace], NEW g \in [Monitors -> 0..MaxGrace],
           NEW m \in Monitors
    PROVE  /\ Older(f) \in [Monitors -> 0..MaxGrace]
           /\ f[m] <= g[m] => Older(f)[m] <= Older(g)[m]
  BY ThermalAssumption DEF Older

(* The start of the polling thread.                                        *)
LEMMA InitInv == Init => Inv
<1> SUFFICES ASSUME Init PROVE Inv
  OBVIOUS
<1> USE DEF Init
<1>1. /\ zone \in [Zones -> BOOLEAN] /\ frozen = zone /\ hot = zone
      /\ \A z \in Zones : ~zone[z]
  OBVIOUS
<1>2. /\ age \in [Monitors -> 0..MaxGrace] /\ since = age
      /\ grace \in 0..MaxGrace /\ declockGrace \in 0..MaxGrace /\ value \in Temps
  BY ThermalAssumption
<1>3. {asked, stop, refused} \subseteq BOOLEAN
  OBVIOUS
<1>4. TypeOK
  BY <1>1, <1>2, <1>3 DEF TypeOK, Speeds, Holders, Free
<1>5. SpeedFits
  BY ThermalAssumption, ThresholdsAreOrdered DEF SpeedFits, Monitors
<1>6. DeclockIsRecent
  BY <1>2, ThermalAssumption DEF DeclockIsRecent, Monitors
<1> QED
  BY <1>1, <1>4, <1>5, <1>6 DEF Inv, GraceIsLocked, ReadingIsSeen, ZoneIsHot, SpeedIsRecorded,
     SleepIsWarranted, RebootIsWarranted

(* Steps of the poller that move on without touching what is monitored.    *)
LEMMA MovingOnKeepsInv ==
    ASSUME Inv,
           EndReading \/ ReadFails \/ LockGrace \/ RequestDeepSleep \/ RebootNow \/ StopPolling
    PROVE  Inv'
<1> USE DEF Inv
<1>1. UNCHANGED <<value, level, zones, grace, declockGrace, clocks, call, stop, history>>
  BY DEF EndReading, ReadFails, LockGrace, RequestDeepSleep, RebootNow, StopPolling, locks
<1>2. TypeOK'
  BY <1>1 DEF EndReading, ReadFails, LockGrace, RequestDeepSleep, RebootNow, StopPolling,
     TypeOK, zones, clocks, locks, history, Holders
<1>3. GraceIsLocked'
  BY DEF EndReading, ReadFails, LockGrace, RequestDeepSleep, RebootNow, StopPolling,
     GraceIsLocked, locks
<1>4. ReadingIsSeen' /\ ZoneIsHot'
  BY <1>1 DEF EndReading, ReadFails, LockGrace, RequestDeepSleep, RebootNow, StopPolling,
     ReadingIsSeen, ZoneIsHot, Unchecked, zones, history
<1>5. SpeedIsRecorded' /\ SpeedFits' /\ DeclockIsRecent'
  BY <1>1 DEF EndReading, ReadFails, LockGrace, RequestDeepSleep, RebootNow, StopPolling,
     SpeedIsRecorded, SpeedFits, DeclockIsRecent, zones, clocks, history
<1>6. SleepIsWarranted' /\ RebootIsWarranted'
  BY DEF EndReading, ReadFails, LockGrace, RequestDeepSleep, RebootNow, StopPolling,
     SleepIsWarranted, RebootIsWarranted
<1> QED
  BY <1>2, <1>3, <1>4, <1>5, <1>6

(* A reading: the history follows it, and what the monitors hold is true   *)
(* until they have looked at it.                                           *)
LEMMA ReadingKeepsInv ==
    ASSUME Inv, NEW t \in Temps, NEW l \in {"NORMAL", "HIGH"}, ReadTemperature(t, l)
    PROVE  Inv'
<1> USE DEF Inv
<1>1. /\ pc = "poll" /\ pc' = "reading" /\ value' = t /\ level' = l /\ asked' = FALSE
      /\ thermMutex' = Poller
      /\ UNCHANGED <<zones, grace, declockGrace, clocks, apiLock, graceMutex, call, stop>>
  BY DEF ReadTemperature
<1>2. hot' = [z \in Zones |-> /\ t >= Thresholds[z].safe
                              /\ hot[z] \/ t >= Thresholds[z].concern]
  BY DEF ReadTemperature, Observe
<1>3. since' = [m \in Monitors |->
                  IF \/ m = "declock" /\ t >= Thresholds[m].concern
                     \/ m \in Zones /\ ~hot[m]
                  THEN 0 ELSE since[m]]
  BY DEF ReadTemperature, Observe
<1>4. t \in Nat /\ MaxGrace \in Nat
  BY ThermalAssumption
<1>5. hot' \in [Zones -> BOOLEAN] /\ since' \in [Monitors -> 0..MaxGrace]
  BY <1>2, <1>3, <1>4 DEF TypeOK
<1>6. TypeOK'
  BY <1>1, <1>5 DEF TypeOK, zones, clocks, Holders
<1>7. ReadingIsSeen'
  BY <1>1, <1>2, <1>4, ThresholdsAreOrdered DEF ReadingIsSeen, Zones, Monitors
<1>8. ZoneIsHot'
  <2> SUFFICES ASSUME NEW z \in Zones, zone[z], ~frozen[z]
               PROVE  /\ age[z] <= since'[z]
                      /\ hot'[z] \/ t < Thresholds[z].safe
    BY <1>1 DEF ZoneIsHot, Unchecked, zones
  <2>1. z \in Monitors /\ z # "declock"
    BY DEF Zones, Monitors
  <2>2. hot[z] /\ age[z] <= since[z]
    BY <1>1 DEF ZoneIsHot, Unchecked
  <2>3. since'[z] = since[z]
    BY <1>3, <2>1, <2>2
  <2>4. hot'[z] \/ t < Thresholds[z].safe
    BY <1>2, <1>4, <2>1, <2>2, ThresholdsAreOrdered
  <2> QED
    BY <2>2, <2>3, <2>4
<1>9. DeclockIsRecent'
  <2>1. "declock" \in Monitors /\ "declock" \notin Zones
    BY DEF Zones, Monitors
  <2>2. t >= Thresholds["declock"].concern \/ since'["declock"] = since["declock"]
    BY <1>3, <2>1
  <2> QED
    BY <1>1, <2>2 DEF DeclockIsRecent, zones
<1> QED
  BY <1>1, <1>6, <1>7, <1>8, <1>9 DEF GraceIsLocked, SpeedIsRecorded, SpeedFits,
     SleepIsWarranted, RebootIsWarranted, clocks

(* The checks of the two zones.                                            *)
LEMMA ChecksKeepInv ==
    ASSUME Inv, deepSleepIfNeeded \/ rebootIfNeeded
    PROVE  Inv'
<1> USE DEF Inv
<1>0. Zones \subseteq Monitors /\ Zones = {"deepsleep", "reboot"}
  BY DEF Zones, Monitors
<1>1. CASE deepSleepIfNeeded
  <2>1. /\ pc = "deepsleep" /\ Check("deepsleep")
        /\ pc' = IF Due("deepsleep") THEN "request" ELSE "reboot"
        /\ UNCHANGED <<value, level, grace, declockGrace, clocks, locks, call,
                        asked, stop, history>>
    BY <1>1 DEF deepSleepIfNeeded
  <2>2. /\ zone' \in [Zones -> BOOLEAN] /\ frozen' \in [Zones -> BOOLEAN]
        /\ age' \in [Monitors -> 0..MaxGrace]
        /\ age'["declock"] = age["declock"]
        /\ zone'["reboot"] = zone["reboot"] /\ frozen'["reboot"] = frozen["reboot"]
        /\ age'["reboot"] = age["reboot"]
        /\ zone'["deepsleep"] /\ ~frozen'["deepsleep"] =>
              hot["deepsleep"] /\ age'["deepsleep"] <= since["deepsleep"]
        /\ Due("deepsleep") => \/ value >= Thresholds["deepsleep"].critical
                               \/ hot["deepsleep"] /\ since["deepsleep"] >= grace
                               \/ frozen'["deepsleep"]
    BY <1>0, <2>1, ZoneIsChecked DEF history
  <2>3. TypeOK'
    BY <2>1, <2>2 DEF TypeOK, clocks, locks, history
  <2>4. ZoneIsHot'
    BY <1>0, <2>1, <2>2 DEF ZoneIsHot, Unchecked, history
  <2>5. SleepIsWarranted' /\ RebootIsWarranted'
    BY <2>1, <2>2 DEF SleepIsWarranted, RebootIsWarranted, history
  <2>6. GraceIsLocked' /\ ReadingIsSeen'
    BY <2>1 DEF GraceIsLocked, ReadingIsSeen, locks, history
  <2>7. SpeedIsRecorded' /\ SpeedFits' /\ DeclockIsRecent'
    BY <2>1, <2>2 DEF SpeedIsRecorded, SpeedFits, DeclockIsRecent, clocks, history
  <2> QED
    BY <2>3, <2>4, <2>5, <2>6, <2>7
<1>2. CASE rebootIfNeeded
  <2>1. /\ pc = "reboot" /\ Check("reboot")
        /\ pc' = IF Due("reboot") THEN "rebooting" ELSE "declock"
        /\ graceMutex' = IF Due("reboot") THEN Poller ELSE Free
        /\ UNCHANGED <<value, level, grace, declockGrace, clocks, apiLock,
                        thermMutex, call, asked, stop, history>>
    BY <1>2 DEF rebootIfNeeded
  <2>2. /\ zone' \in [Zones -> BOOLEAN] /\ frozen' \in [Zones -> BOOLEAN]
        /\ age' \in [Monitors -> 0..MaxGrace]
        /\ age'["declock"] = age["declock"]
        /\ zone'["deepsleep"] = zone["deepsleep"] /\ frozen'["deepsleep"] = frozen["deepsleep"]
        /\ age'["deepsleep"] = age["deepsleep"]
        /\ zone'["reboot"] /\ ~frozen'["reboot"] =>
              hot["reboot"] /\ age'["reboot"] <= since["reboot"]
        /\ Due("reboot") => \/ value >= Thresholds["reboot"].critical
                            \/ hot["reboot"] /\ since["reboot"] >= grace
                            \/ frozen'["reboot"]
    BY <1>0, <2>1, ZoneIsChecked DEF history
  <2>3. TypeOK'
    BY <2>1, <2>2 DEF TypeOK, clocks, history, Holders
  <2>4. ZoneIsHot'
    BY <1>0, <2>1, <2>2 DEF ZoneIsHot, Unchecked, history
  <2>5. SleepIsWarranted' /\ RebootIsWarranted'
    BY <2>1, <2>2 DEF SleepIsWarranted, RebootIsWarranted, history
  <2>6. GraceIsLocked' /\ ReadingIsSeen'
    BY <2>1 DEF GraceIsLocked, ReadingIsSeen, history
  <2>7. SpeedIsRecorded' /\ SpeedFits' /\ DeclockIsRecent'
    BY <2>1, <2>2 DEF SpeedIsRecorded, SpeedFits, DeclockIsRecent, clocks, history
  <2> QED
    BY <2>3, <2>4, <2>5, <2>6, <2>7
<1> QED
  BY <1>1, <1>2

(* The clock: what declockIfNeeded leaves is slow enough and, unless its   *)
(* time was taken again, not made faster before the interval was over.     *)
LEMMA DeclockSetsSpeed ==
    ASSUME Inv, declockIfNeeded
    PROVE  /\ cpu' \in Speeds /\ clock' \in Speeds /\ refused' \in BOOLEAN
           /\ ~refused' => clock' = cpu'
           /\ age' = age \/ age' = [age EXCEPT !["declock"] = 0]
           /\ declockGrace = 0 => cpu' = cpu
           /\ declockGrace # 0 =>
                 /\ value >= Thresholds["declock"].critical => cpu' = "MINIMAL"
                 /\ value >= Thresholds["declock"].concern =>
                        cpu' # "NORMAL" /\ age' = [age EXCEPT !["declock"] = 0]
           /\ Faster(cpu, cpu') => /\ declockGrace # 0
                                   /\ value < Thresholds["declock"].concern
                                   /\ age["declock"] >= declockGrace
<1> USE DEF Inv, TypeOK
<1>1. /\ value \in Nat /\ "declock" \in Monitors
      /\ Thresholds["declock"].safe \in Nat
      /\ Thresholds["declock"].concern \in Nat /\ Thresholds["declock"].critical \in Nat
      /\ Thresholds["declock"].safe <= Thresholds["declock"].concern
      /\ Thresholds["declock"].concern <= Thresholds["declock"].critical
  BY ThermalAssumption, ThresholdsAreOrdered DEF Monitors
<1>2. ASSUME NEW s \in Speeds, SetClockSpeed(s)
      PROVE  /\ cpu' = s /\ clock' \in Speeds /\ refused' \in BOOLEAN
             /\ ~refused' => clock' = cpu'
  BY <1>2 DEF SetClockSpeed
<1>3. ASSUME KeepSpeed
      PROVE  /\ cpu' = cpu /\ clock' \in Speeds /\ refused' \in BOOLEAN
             /\ ~refused' => clock' = cpu'
  BY <1>3 DEF KeepSpeed, clocks, SpeedIsRecorded
<1>4. {"MINIMAL", "SCALED", "NORMAL"} = Speeds
  BY DEF Speeds
<1>5. CASE declockGrace = 0
  BY <1>3, <1>4, <1>5 DEF declockIfNeeded, Faster
<1>6. CASE declockGrace # 0
  <2> DEFINE T == Thresholds["declock"]
  <2>1. Declock
    BY <1>6 DEF declockIfNeeded
  <2>2. CASE /\ value >= T.critical
             /\ IF cpu # "MINIMAL" THEN SetClockSpeed("MINIMAL") ELSE KeepSpeed
             /\ ResetMonitor
    BY <1>1, <1>2, <1>3, <1>4, <1>6, <2>2 DEF ResetMonitor, Faster
  <2>3. CASE /\ value >= T.concern /\ value < T.critical
             /\ IF cpu = "NORMAL" THEN SetClockSpeed("SCALED") ELSE KeepSpeed
             /\ ResetMonitor
    BY <1>1, <1>2, <1>3, <1>4, <1>6, <2>3 DEF ResetMonitor, Faster
  <2>4. CASE value < T.concern /\ cpu # "MINIMAL" /\ ResetMonitor /\ KeepSpeed
    BY <1>1, <1>3, <1>4, <1>6, <2>4 DEF ResetMonitor, Faster
  <2>5. CASE value < T.concern /\ Waited /\ SetClockSpeed("SCALED") /\ ResetMonitor
    BY <1>1, <1>2, <1>4, <1>6, <2>5 DEF ResetMonitor, Waited
  <2>6. CASE value < T.concern /\ KeepSpeed /\ UNCHANGED age
    BY <1>1, <1>3, <1>4, <1>6, <2>6 DEF Faster
  <2>7. CASE value < T.concern /\ Waited /\ SetClockSpeed("NORMAL") /\ UNCHANGED age
    BY <1>1, <1>2, <1>4, <1>6, <2>7 DEF Waited
  <2> QED
    BY <2>1, <2>2, <2>3, <2>4, <2>5, <2>6, <2>7 DEF Declock
<1> QED
  BY <1>5, <1>6

LEMMA DeclockKeepsInv ==
    ASSUME Inv, declockIfNeeded
    PROVE  Inv'
<1> USE DEF Inv
<1>1. /\ pc = "declock" /\ pc' = "sleep"
      /\ UNCHANGED <<value, level, zone, frozen, grace, declockGrace, locks,
                      call, asked, stop, history>>
  BY DEF declockIfNeeded
<1>2. "declock" \in Monitors /\ "declock" \notin Zones /\ Zones \subseteq Monitors
      /\ MaxGrace \in Nat
  BY ThermalAssumption DEF Monitors, Zones
<1>3. /\ age' \in [Monitors -> 0..MaxGrace]
      /\ \A z \in Zones : age'[z] = age[z]
      /\ age'["declock"] \in {0, age["declock"]}
  BY <1>2, DeclockSetsSpeed DEF TypeOK
<1>4. TypeOK'
  BY <1>1, <1>3, DeclockSetsSpeed DEF TypeOK, locks, history
<1>5. ZoneIsHot' /\ ReadingIsSeen' /\ GraceIsLocked'
  BY <1>1, <1>3 DEF ZoneIsHot, Unchecked, ReadingIsSeen, GraceIsLocked, history
<1>6. SpeedIsRecorded' /\ SpeedFits'
  BY <1>1, DeclockSetsSpeed DEF SpeedIsRecorded, SpeedFits
<1>7. DeclockIsRecent'
  <2>1. since["declock"] \in Nat /\ age["declock"] \in Nat
    BY <1>2 DEF TypeOK
  <2>2. declockGrace # 0 /\ value >= Thresholds["declock"].concern => age'["declock"] = 0
    BY <1>2, DeclockSetsSpeed DEF TypeOK
  <2> QED
    BY <1>1, <1>3, <2>1, <2>2 DEF DeclockIsRecent, history
<1> QED
  BY <1>1, <1>4, <1>5, <1>6, <1>7 DEF SleepIsWarranted, RebootIsWarranted

(* The time between two polls.                                             *)
LEMMA SleepKeepsInv ==
    ASSUME Inv, Sleep
    PROVE  Inv'
<1> USE DEF Inv
<1>1. /\ pc = "sleep" /\ pc' = "poll" /\ age' = Older(age) /\ since' = Older(since)
      /\ UNCHANGED <<value, level, zone, frozen, grace, declockGrace, clocks,
                      locks, call, asked, stop, hot>>
  BY DEF Sleep
<1>2. "declock" \in Monitors /\ Zones \subseteq Monitors
  BY DEF Monitors, Zones
<1>3. /\ age' \in [Monitors -> 0..MaxGrace] /\ since' \in [Monitors -> 0..MaxGrace]
      /\ \A m \in Monitors : age[m] <= since[m] => age'[m] <= since'[m]
  BY <1>1, <1>2, OlderKeepsOrder DEF TypeOK
<1>4. TypeOK'
  BY <1>1, <1>3 DEF TypeOK, clocks, locks
<1>5. ZoneIsHot' /\ ReadingIsSeen' /\ GraceIsLocked'
  BY <1>1, <1>2, <1>3 DEF ZoneIsHot, Unchecked, ReadingIsSeen, GraceIsLocked
<1>6. SpeedIsRecorded' /\ SpeedFits' /\ DeclockIsRecent'
  BY <1>1, <1>2, <1>3 DEF SpeedIsRecorded, SpeedFits, DeclockIsRecent, clocks
<1> QED
  BY <1>1, <1>4, <1>5, <1>6 DEF SleepIsWarranted, RebootIsWarranted

(* API threads and the destructor.                                         *)
LEMMA CallersKeepInv ==
    ASSUME Inv,
           \/ \E c \in Callers, what \in {"setGrace", "getState"} : Enter(c, what)
           \/ \E c \in Callers : Exit(c)
           \/ Destroy
    PROVE  Inv'
<1> USE DEF Inv
<1>1. UNCHANGED <<pc, value, level, zones, declockGrace, clocks, thermMutex,
                  graceMutex, asked, history>>
  BY DEF Enter, Exit, SetOvertempGraceInterval, GetThermalState, Leave, Destroy, locks
<1>2. grace' = grace \/ (graceMutex = Free /\ grace' \in GraceValues)
  BY DEF Enter, Exit, SetOvertempGraceInterval, GetThermalState, Destroy
<1>3. /\ apiLock' \in Holders
      /\ call' \in [Callers -> {"idle", "setGrace", "getState"}]
      /\ stop' \in BOOLEAN
  BY DEF Enter, Exit, SetOvertempGraceInterval, GetThermalState, Leave, Destroy, locks,
     TypeOK, Holders
<1>4. grace' \in 0..MaxGrace
  BY <1>2, ThermalAssumption DEF TypeOK
<1>5. TypeOK'
  BY <1>1, <1>3, <1>4 DEF TypeOK, zones, clocks, history
<1>6. SleepIsWarranted' /\ RebootIsWarranted'
  <2>1. pc \in {"request", "rebooting"} => grace' = grace
    BY <1>2 DEF GraceIsLocked, Free, Poller
  <2> QED
    BY <1>1, <2>1 DEF SleepIsWarranted, RebootIsWarranted, zones, history
<1>7. ZoneIsHot' /\ ReadingIsSeen' /\ GraceIsLocked'
  BY <1>1 DEF ZoneIsHot, Unchecked, ReadingIsSeen, GraceIsLocked, zones, history
<1>8. SpeedIsRecorded' /\ SpeedFits' /\ DeclockIsRecent'
  BY <1>1 DEF SpeedIsRecorded, SpeedFits, DeclockIsRecent, zones, clocks, history
<1> QED
  BY <1>5, <1>6, <1>7, <1>8

LEMMA NextInv == Inv /\ [Next]_vars => Inv'
<1> SUFFICES ASSUME Inv, [Next]_vars PROVE Inv'
  OBVIOUS
<1>1. CASE UNCHANGED vars
  BY <1>1 DEF vars, zones, clocks, locks, history, Inv, TypeOK, GraceIsLocked,
     ReadingIsSeen, ZoneIsHot, Unchecked, SpeedIsRecorded, SpeedFits, DeclockIsRecent,
     SleepIsWarranted, RebootIsWarranted
<1>2. CASE Next
  BY <1>2, MovingOnKeepsInv, ReadingKeepsInv, ChecksKeepInv, DeclockKeepsInv,
     SleepKeepsInv, CallersKeepInv, Zenon DEF Next, PollStep
<1> QED
  BY <1>1, <1>2

-----------------------------------------------------------------------------
(* Deep sleep and reboot come for a reason and not before their time, and  *)
(* the clock is slow when the device is hot (deepSleepIfNeeded,            *)
(* rebootIfNeeded, declockIfNeeded), for all thresholds in their order,    *)
(* all grace intervals and any number of callers that change them.         *)
THEOREM ProtectionIsInProportion == Spec => []ProtectionInProportion
<1>1. Inv => ProtectionInProportion
  BY DEF Inv, ProtectionInProportion, SpeedIsRecorded, SpeedFits, SlowEnough
<1> QED
  BY InitInv, NextInv, <1>1, PTL DEF Spec

(* Only declockIfNeeded changes the clock, to the speed it records; a      *)
(* clock made faster is one whose recorded speed was made faster too,      *)
(* unless that was ahead of the clock.                                     *)
LEMMA SpeedStep ==
    ASSUME Inv, Next, Faster(clock, clock'), ~Faster(clock, cpu)
    PROVE  since["declock"] >= declockGrace
<1>1. CASE declockIfNeeded
  <2>0. Faster(cpu, cpu')
    <3>1. {cpu, clock, cpu', clock'} \subseteq Speeds
      BY <1>1, DeclockSetsSpeed DEF Inv, TypeOK
    <3>2. clock' = clock \/ clock' = cpu'
      BY <1>1 DEF declockIfNeeded, Declock, SetClockSpeed, KeepSpeed, clocks
    <3> QED
      BY <3>1, <3>2 DEF Faster, Speeds
  <2>1. /\ declockGrace # 0 /\ value < Thresholds["declock"].concern
        /\ age["declock"] >= declockGrace
    BY <1>1, <2>0, DeclockSetsSpeed
  <2>2. /\ value \in Nat /\ "declock" \in Monitors /\ MaxGrace \in Nat
        /\ Thresholds["declock"].concern \in Nat
    BY ThermalAssumption, ThresholdsAreOrdered DEF Inv, TypeOK, Monitors
  <2>3. age["declock"] <= since["declock"]
    BY <2>1, <2>2 DEF Inv, DeclockIsRecent
  <2> QED
    BY <2>1, <2>2, <2>3 DEF Inv, TypeOK
<1>2. CASE ~declockIfNeeded
  <2>1. clock' = clock
    BY <1>2 DEF Next, PollStep, ReadTemperature, EndReading, ReadFails, LockGrace,
       deepSleepIfNeeded, RequestDeepSleep, rebootIfNeeded, RebootNow, Sleep, StopPolling,
       Enter, Exit, SetOvertempGraceInterval, GetThermalState, Leave, Destroy, clocks
  <2> QED
    BY <2>1 DEF Faster
<1> QED
  BY <1>1, <1>2

(* No step makes the platform's clock faster before the grace interval of  *)
(* declocking has passed since the last reading of concern                 *)
(* (declockIfNeeded), unless the recorded speed was ahead of the clock     *)
(* after a refused change.                                                 *)
THEOREM SlowForLongEnough == Spec => NotFasterTooSoon
<1>1. Inv /\ [Next]_vars => 
        [Faster(clock, clock') /\ ~Faster(clock, cpu)
            => since["declock"] >= declockGrace]_vars
  BY SpeedStep
<1> QED
  BY InitInv, NextInv, <1>1, PTL DEF Spec, NotFasterTooSoon
=============================================================================
