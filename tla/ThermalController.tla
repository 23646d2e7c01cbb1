-------------------------- MODULE ThermalController --------------------------
(***************************************************************************)
(* ThermalController: the thread that polls the temperature and puts the   *)
(* device to sleep, reboots it or slows its clock, beside the API threads  *)
(* of PowerManagerImplementation that change the grace interval and read   *)
(* the temperature.  Time is counted in polls: what a poll and a call take *)
(* is nothing beside the interval between two polls.                       *)
(***************************************************************************)
EXTENDS Naturals

CONSTANTS Callers,       \* API threads
          Temps,         \* temperatures the platform reports
          Thresholds,    \* of "deepsleep", "reboot" and "declock"
          GraceValues,   \* grace intervals clients ask for, in polls
          DeclockGraces, \* grace intervals of declocking; 0 disables it
          MaxGrace       \* bound on the ages kept: the longest grace

Zones == {"deepsleep", "reboot"}
Monitors == Zones \cup {"declock"}
Speeds == {"MINIMAL", "SCALED", "NORMAL"}

ASSUME ThermalAssumption ==
    /\ Temps \subseteq Nat /\ 0 \in Temps
    /\ MaxGrace \in Nat
    /\ GraceValues \subseteq 0..MaxGrace /\ GraceValues \ {0} # {}
    /\ DeclockGraces \subseteq 0..MaxGrace
    /\ Thresholds \in [Monitors -> [critical : Nat, concern : Nat, safe : Nat]]
    /\ \A z \in Monitors : /\ Thresholds[z].safe <= Thresholds[z].concern
                           /\ Thresholds[z].concern <= Thresholds[z].critical
    /\ 0 < Thresholds["declock"].concern  \* value is 0 before the first reading

VARIABLES pc,           \* of the polling thread
          value, level, \* m_cur_Thermal_Value, m_cur_Thermal_Level
          zone,         \* deepSleepZone and _rebootZone
          age,          \* polls since each monitorTime
          grace,        \* graceInterval of reboot and deep sleep
          declockGrace, \* graceInterval of declocking
          cpu,          \* cur_Cpu_Speed
          clock,        \* the platform's clock speed
          apiLock, thermMutex, graceMutex,  \* who holds them
          call,         \* what each API thread is in
          asked,        \* deep sleep was requested in this poll
          stop,         \* _stopThread
          since,        \* history: polls since the temperature was no concern
          hot,          \* history: it was one, and not safe since
          frozen,       \* history: a zone not looked at while grace was 0
          refused       \* history: the platform refused the last clock speed

locks == <<apiLock, thermMutex, graceMutex>>
zones == <<zone, age, frozen>>
clocks == <<cpu, clock, refused>>
history == <<since, hot>>

vars == <<pc, value, level, zones, grace, declockGrace, clocks, locks, call,
          asked, stop, history>>

Free == "free"
Poller == "poller"
Holders == Callers \cup {Free, Poller}

TypeOK ==
    /\ pc \in {"poll", "reading", "zones", "deepsleep", "request", "reboot",
               "rebooting", "declock", "sleep", "done"}
    /\ value \in Temps
    /\ level \in {"NORMAL", "HIGH"}
    /\ zone \in [Zones -> BOOLEAN] /\ frozen \in [Zones -> BOOLEAN]
    /\ hot \in [Zones -> BOOLEAN]
    /\ age \in [Monitors -> 0..MaxGrace]
    /\ since \in [Monitors -> 0..MaxGrace]
    /\ grace \in 0..MaxGrace /\ declockGrace \in 0..MaxGrace
    /\ cpu \in Speeds /\ clock \in Speeds
    /\ {apiLock, thermMutex, graceMutex} \subseteq Holders
    /\ call \in [Callers -> {"idle", "setGrace", "getState"}]
    /\ {asked, stop, refused} \subseteq BOOLEAN

(* initializeThermalProtection, thermal protection being enabled.          *)
Init ==
    /\ pc = "poll"
    /\ value = 0 /\ level = "NORMAL"
    /\ zone = [z \in Zones |-> FALSE] /\ frozen = zone /\ hot = zone
    /\ age = [m \in Monitors |-> 0] /\ since = age
    /\ grace \in GraceValues \ {0}
    /\ declockGrace \in DeclockGraces
    /\ cpu = "NORMAL" /\ clock = "NORMAL" /\ refused = FALSE
    /\ apiLock = Free /\ thermMutex = Free /\ graceMutex = Free
    /\ call = [c \in Callers |-> "idle"]
    /\ asked = FALSE /\ stop = FALSE

-----------------------------------------------------------------------------
(* The polling thread.                                                     *)

(* What a reading says about each history: whether it has been a concern   *)
(* and not safe since, and for how long it has been in that state.         *)
Observe(t) ==
    /\ hot' = [z \in Zones |-> /\ t >= Thresholds[z].safe
                               /\ hot[z] \/ t >= Thresholds[z].concern]
    /\ since' = [m \in Monitors |->
                   IF \/ m = "declock" /\ t >= Thresholds[m].concern
                      \/ m \in Zones /\ ~hot[m]
                   THEN 0 ELSE since[m]]

(* GetTemperature under _therm_mutex.  A change of level is told to the    *)
(* clients before the mutex is released.                                   *)
ReadTemperature(t, l) ==
    /\ pc = "poll" /\ ~stop
    /\ thermMutex = Free
    /\ value' = t
    /\ level' = l
    /\ asked' = FALSE
    /\ Observe(t)
    /\ pc' = "reading"
    /\ thermMutex' = Poller
    /\ UNCHANGED <<zones, grace, declockGrace, clocks, apiLock, graceMutex,
                   call, stop>>

(* The clients have returned.  A thread told to stop in the meantime       *)
(* leaves the loop here, with the mutex.                                   *)
EndReading ==
    /\ pc = "reading"
    /\ \/ ~stop /\ pc' = "zones" /\ thermMutex' = Free
       \/ stop /\ pc' = "done" /\ UNCHANGED thermMutex
    /\ UNCHANGED <<value, level, zones, grace, declockGrace, clocks, apiLock,
                   graceMutex, call, asked, stop, history>>

ReadFails ==
    /\ pc = "poll" /\ ~stop
    /\ thermMutex = Free
    /\ pc' = "sleep"
    /\ UNCHANGED <<value, level, zones, grace, declockGrace, clocks, locks,
                   call, asked, stop, history>>

LockGrace ==
    /\ pc = "zones"
    /\ graceMutex = Free
    /\ graceMutex' = Poller
    /\ pc' = "deepsleep"
    /\ UNCHANGED <<value, level, zones, grace, declockGrace, clocks, apiLock,
                   thermMutex, call, asked, stop, history>>

(* A zone is entered at concern and left below safe; at critical neither.  *)
Enters(z) == /\ ~zone[z]
             /\ value >= Thresholds[z].concern
             /\ value < Thresholds[z].critical
Leaves(z) == zone[z] /\ value < Thresholds[z].safe
InZone(z) == (zone[z] \/ Enters(z)) /\ ~Leaves(z)

(* difftime, the monitor time being set when the zone is entered.          *)
InZoneForOld(z) == age[z]   \* a mutant: the time is not set
InZoneFor(z) == IF Enters(z) THEN 0 ELSE age[z]

(* The device must sleep, or reboot, now.                                  *)
Due(z) ==
    /\ grace # 0
    /\ \/ value >= Thresholds[z].critical
       \/ InZone(z) /\ InZoneFor(z) >= grace

Check(z) ==
    IF grace = 0
    THEN /\ frozen' = [frozen EXCEPT ![z] = @ \/ zone[z]]
         /\ UNCHANGED <<zone, age>>
    ELSE /\ zone' = [zone EXCEPT ![z] = InZone(z)]
         /\ age' = [age EXCEPT ![z] = InZoneFor(z)]
         /\ frozen' = [frozen EXCEPT ![z] = @ /\ InZone(z)]

deepSleepIfNeeded ==
    /\ pc = "deepsleep"
    /\ Check("deepsleep")
    /\ pc' = IF Due("deepsleep") THEN "request" ELSE "reboot"
    /\ UNCHANGED <<value, level, grace, declockGrace, clocks, locks, call,
                   asked, stop, history>>

(* onDeepSleepForThermalChange: SetPowerState takes and releases _apiLock  *)
(* several times, under _grace_interval_mutex.                             *)
RequestDeepSleep ==
    /\ pc = "request"
    /\ apiLock = Free
    /\ asked' = TRUE
    /\ pc' = "reboot"
    /\ UNCHANGED <<value, level, zones, grace, declockGrace, clocks, locks,
                   call, stop, history>>

rebootIfNeeded ==
    /\ pc = "reboot"
    /\ Check("reboot")
    /\ pc' = IF Due("reboot") THEN "rebooting" ELSE "declock"
    /\ graceMutex' = IF Due("reboot") THEN Poller ELSE Free
    /\ UNCHANGED <<value, level, grace, declockGrace, clocks, apiLock,
                   thermMutex, call, asked, stop, history>>

(* rebootNow.sh returns, or the device is gone before it does.             *)
RebootNow ==
    /\ pc = "rebooting"
    /\ pc' = "declock"
    /\ graceMutex' = Free
    /\ UNCHANGED <<value, level, zones, grace, declockGrace, clocks, apiLock,
                   thermMutex, call, asked, stop, history>>

(* The speed is recorded whether or not the platform took it.              *)
SetClockSpeed(s) ==
    /\ cpu' = s
    /\ \/ clock' = s /\ refused' = FALSE
       \/ UNCHANGED clock /\ refused' = TRUE

KeepSpeed == UNCHANGED clocks
ResetMonitor == age' = [age EXCEPT !["declock"] = 0]

Waited == age["declock"] >= declockGrace

(* A mutant: the time is not taken again while the temperature is high.    *)
DeclockHasty ==
    LET T == Thresholds["declock"]
    IN  /\ \/ /\ value >= T.critical
              /\ IF cpu # "MINIMAL" THEN SetClockSpeed("MINIMAL")
                 ELSE KeepSpeed
           \/ /\ value >= T.concern /\ value < T.critical
              /\ IF cpu = "NORMAL" THEN SetClockSpeed("SCALED") ELSE KeepSpeed
           \/ /\ value < T.concern
              /\ IF cpu # "NORMAL" /\ Waited THEN SetClockSpeed("NORMAL")
                 ELSE KeepSpeed
        /\ UNCHANGED age

(* The four bands of declockIfNeeded.                                      *)
Declock ==
    LET T == Thresholds["declock"]
    IN  \/ /\ value >= T.critical
           /\ IF cpu # "MINIMAL" THEN SetClockSpeed("MINIMAL") ELSE KeepSpeed
           /\ ResetMonitor
        \/ /\ value >= T.concern /\ value < T.critical
           /\ IF cpu = "NORMAL" THEN SetClockSpeed("SCALED") ELSE KeepSpeed
           /\ ResetMonitor
        \/ /\ value > T.safe /\ value < T.concern
           /\ \/ cpu # "MINIMAL" /\ ResetMonitor /\ KeepSpeed
              \/ /\ cpu = "MINIMAL" /\ Waited
                 /\ SetClockSpeed("SCALED")
                 /\ ResetMonitor
              \/ cpu = "MINIMAL" /\ ~Waited /\ KeepSpeed /\ UNCHANGED age
        \/ /\ value <= T.safe /\ value < T.concern
           /\ IF cpu # "NORMAL" /\ Waited THEN SetClockSpeed("NORMAL")
              ELSE KeepSpeed
           /\ UNCHANGED age

declockIfNeeded ==
    /\ pc = "declock"
    /\ \/ declockGrace = 0 /\ KeepSpeed /\ UNCHANGED age
       \/ declockGrace # 0 /\ Declock
    /\ pc' = "sleep"
    /\ UNCHANGED <<value, level, zone, frozen, grace, declockGrace, locks,
                   call, asked, stop, history>>

Older(f) == [m \in Monitors |-> IF f[m] < MaxGrace THEN f[m] + 1 ELSE f[m]]

(* sleep(thermal_poll_interval).                                           *)
Sleep ==
    /\ pc = "sleep"
    /\ pc' = "poll"
    /\ age' = Older(age)
    /\ since' = Older(since)
    /\ UNCHANGED <<value, level, zone, frozen, grace, declockGrace, clocks,
                   locks, call, asked, stop, hot>>

StopPolling ==
    /\ pc = "poll" /\ stop
    /\ pc' = "done"
    /\ UNCHANGED <<value, level, zones, grace, declockGrace, clocks, locks,
                   call, asked, stop, history>>

-----------------------------------------------------------------------------
(* API threads: _apiLock first, then the controller's mutex.               *)

Enter(c, what) ==
    /\ ~stop
    /\ call[c] = "idle" /\ apiLock = Free
    /\ apiLock' = c
    /\ call' = [call EXCEPT ![c] = what]
    /\ UNCHANGED <<pc, value, level, zones, grace, declockGrace, clocks,
                   thermMutex, graceMutex, asked, stop, history>>

Leave(c) ==
    /\ apiLock' = Free
    /\ call' = [call EXCEPT ![c] = "idle"]
    /\ UNCHANGED <<pc, value, level, zones, declockGrace, clocks, thermMutex,
                   graceMutex, asked, stop, history>>

SetOvertempGraceInterval(c, g) ==
    /\ call[c] = "setGrace"
    /\ graceMutex = Free
    /\ grace' = g
    /\ Leave(c)

GetThermalState(c) ==
    /\ call[c] = "getState"
    /\ thermMutex = Free
    /\ Leave(c)
    /\ UNCHANGED grace

(* The destructor; clients are done with the plugin by then.               *)
Destroy ==
    /\ ~stop
    /\ \A c \in Callers : call[c] = "idle"
    /\ stop' = TRUE
    /\ UNCHANGED <<pc, value, level, zones, grace, declockGrace, clocks,
                   locks, call, asked, history>>

-----------------------------------------------------------------------------
PollStep ==
    \/ \E t \in Temps, l \in {"NORMAL", "HIGH"} : ReadTemperature(t, l)
    \/ EndReading \/ ReadFails \/ LockGrace
    \/ deepSleepIfNeeded \/ RequestDeepSleep
    \/ rebootIfNeeded \/ RebootNow
    \/ declockIfNeeded \/ Sleep \/ StopPolling

Exit(c) ==
    \/ \E g \in GraceValues : SetOvertempGraceInterval(c, g)
    \/ GetThermalState(c)

Next ==
    \/ PollStep
    \/ \E c \in Callers, what \in {"setGrace", "getState"} : Enter(c, what)
    \/ \E c \in Callers : Exit(c)
    \/ Destroy

Spec == Init /\ [][Next]_vars

(* Threads run, and std::mutex hands a free mutex to some waiter in the    *)
(* end: a thread whose next step is possible again and again takes it.     *)
FairSpec ==
    /\ Spec
    /\ SF_vars(PollStep)
    /\ \A c \in Callers : SF_vars(Exit(c))

-----------------------------------------------------------------------------
(* Deep sleep is requested for a critical temperature, or for one that was *)
(* a concern and has not been safe for the grace interval: no sequence of  *)
(* readings, failed readings and changes of the interval shortens it.      *)
(* Excepted is a zone that was not looked at while the interval was 0: the *)
(* code then takes old for present heat.                                   *)
SleepIsWarranted ==
    pc = "request" =>
        \/ value >= Thresholds["deepsleep"].critical
        \/ hot["deepsleep"] /\ since["deepsleep"] >= grace
        \/ frozen["deepsleep"]

(* The same of a reboot.                                                   *)
RebootIsWarranted ==
    pc = "rebooting" =>
        \/ value >= Thresholds["reboot"].critical
        \/ hot["reboot"] /\ since["reboot"] >= grace
        \/ frozen["reboot"]

(* When a poll is over, the platform's clock is as slow as the last        *)
(* reading demands, whatever the speeds before, unless the platform        *)
(* refused the last change.                                                *)
SlowEnough ==
    pc = "sleep" /\ declockGrace # 0 /\ ~refused =>
        /\ value >= Thresholds["declock"].critical => clock = "MINIMAL"
        /\ value >= Thresholds["declock"].concern => clock # "NORMAL"

(* Protection in proportion: deep sleep and reboot come for a reason and   *)
(* not before their time, and the clock is slow when the device is hot.    *)
ProtectionInProportion ==
    TypeOK /\ SleepIsWarranted /\ RebootIsWarranted /\ SlowEnough

Faster(a, b) == a # b /\ (a = "MINIMAL" \/ b = "NORMAL")

(* The platform's clock is made faster only when the last reading of       *)
(* concern is a grace interval old.  One case is excepted: the platform    *)
(* refused to go faster, the speed was recorded all the same, and the next *)
(* reading of concern "slows" the clock from what is recorded to a speed   *)
(* above the real one.                                                     *)
NotFasterTooSoon ==
    [][Faster(clock, clock') /\ ~Faster(clock, cpu)
          => since["declock"] >= declockGrace]_vars

(* "Temperature at which box will ALWAYS go to deep sleep"                 *)
(* (ThermalController.h): a critical reading is followed by the request,   *)
(* the grace interval being never 0.                                       *)
CriticalSleeps ==
    pc = "zones" /\ value >= Thresholds["deepsleep"].critical ~> asked
=============================================================================
