---------------------------- MODULE SystemStore ----------------------------
(***************************************************************************)
(* The values SystemServices keeps in files and RFC parameters: territory  *)
(* and region (under m_territoryMutex), time zone and its accuracy (read,  *)
(* compared and written without a lock), the friendly name, the blocklist  *)
(* and four flags.  The process may be killed at any step.                 *)
(***************************************************************************)
EXTENDS Integers

CONSTANTS Callers, MaxCalls

Territories == {"USA", "CAN"}           \* members of m_strStandardTerritoryList
Regions == {"XX-AA"}                    \* a region isRegionValid accepts
Zones == {"America/New_York", "Universal"}
Accuracies == {"INITIAL", "FINAL"}
Names == {"Kitchen", "Den"}
Flags == {"blocklist", "optOut", "fsr"}
Unset == ""
Nowhere == [territory |-> Unset, region |-> Unset]

VARIABLES
  territoryFile,  \* TERRITORYFILE, Nowhere if missing or empty
  territory,      \* m_strTerritory, m_strRegion
  pairs,          \* history: what calls of setTerritory have set together
  tzFile,         \* TZ_FILE
  accuracyFile,   \* TZ_ACCURACY_FILE
  tz,             \* where each call of setTimeZoneDST is, and what it has read
  friendlyName, friendlyRfc,
  naming,         \* where each call of setFriendlyName is
  flag,           \* DEVICESTATE_FILE, OPTOUT_TELEMETRY_STATUS, the mfr library
  migrationFile,  \* MIGRATIONSTATUS
  told,           \* history: what the events have last said
  reply,          \* the last answer of a getter
  spoilt,         \* history: a write failed, a process died between the steps of a
                  \* setter, or two calls of one overlapped
  up, calls

vars == <<territoryFile, territory, pairs, tzFile, accuracyFile, tz, friendlyName,
          friendlyRfc, naming, flag, migrationFile, told, reply, spoilt, up, calls>>

NoCall == [at |-> "idle", zone |-> Unset, old |-> Unset, accuracy |-> Unset, oldAccuracy |-> Unset]

Init == /\ territoryFile = Nowhere /\ territory = Nowhere /\ pairs = {Nowhere}
        /\ tzFile = Unset /\ accuracyFile = Unset
        /\ tz = [c \in Callers |-> NoCall]
        /\ friendlyName = Unset /\ friendlyRfc = Unset /\ naming = [c \in Callers |-> "idle"]
        /\ flag = [f \in Flags |-> Unset]
        /\ migrationFile = Unset
        /\ told = [territory |-> Unset, zone |-> Unset, accuracy |-> "INITIAL", name |-> Unset]
        /\ reply = [of |-> "none"] /\ spoilt = FALSE
        /\ up = TRUE /\ calls = 0

Call == /\ up /\ calls < MaxCalls
        /\ calls' = calls + 1
        /\ UNCHANGED up

Ready(c) == tz[c] = NoCall /\ naming[c] = "idle"

Answer(of, v) == reply' = [of |-> of, value |-> v]

-----------------------------------------------------------------------------
(* Territory.  A read leaves the members alone where the file is missing   *)
(* or empty, keeps the region where the file names none, and clears both   *)
(* where the file is damaged (external: something else has written it).    *)
isRegionValid(r) == r \in Regions

readTerritoryFromFile(old) ==
  IF territoryFile.territory = Unset THEN old
  ELSE [territory |-> territoryFile.territory,
        region |-> IF territoryFile.region = Unset THEN old.region ELSE territoryFile.region]

(* The file is truncated when it is opened; a kill may come before a line. *)
writeTerritory(t, r) == territoryFile' = [territory |-> t, region |-> r]

onTerritoryChanged(t) == told' = [told EXCEPT !.territory = t]

RestSame == UNCHANGED <<tzFile, accuracyFile, tz, friendlyName, friendlyRfc, naming, flag, migrationFile>>

(* An unknown territory, a bad region and an empty one write nothing (the  *)
(* last two are "bad", a call without a region is Unset), nor does a file  *)
(* that cannot be opened.  That a write fails is not seen.                 *)
setTerritory(t, r) ==
  /\ Call
  /\ territory' = readTerritoryFromFile(territory)
  /\ \/ /\ t \in Territories /\ (r = Unset \/ isRegionValid(r))
        /\ \/ writeTerritory(t, r) /\ UNCHANGED spoilt
           \/ writeTerritory(Unset, Unset) /\ spoilt' = TRUE
        /\ onTerritoryChanged(t)
        /\ pairs' = pairs \cup {[territory |-> t, region |-> r]}
     \/ UNCHANGED <<territoryFile, told, pairs, spoilt>>
  /\ UNCHANGED reply /\ RestSame

(* as getTerritory below, but the members are not cleared before the read *)
getTerritoryUncleared ==
  /\ up /\ UNCHANGED <<up, calls>>
  /\ territory' = readTerritoryFromFile(territory)
  /\ Answer("territory", territory')
  /\ UNCHANGED <<territoryFile, pairs, told, spoilt>> /\ RestSame

getTerritory ==
  /\ up /\ UNCHANGED <<up, calls>>
  /\ territory' = readTerritoryFromFile(Nowhere)
  /\ Answer("territory", territory')
  /\ UNCHANGED <<territoryFile, pairs, told, spoilt>> /\ RestSame

-----------------------------------------------------------------------------
(* Time zone. *)
getTimeZoneDSTHelper == tzFile
getTimeZoneAccuracyDSTHelper == IF accuracyFile \in Accuracies THEN accuracyFile ELSE "INITIAL"

TerritorySame == UNCHANGED <<territoryFile, territory, pairs>>

(* A zone that is not in the database is refused. *)
setTimeZoneDST(c, zone, accuracy) ==
  /\ Ready(c) /\ Call
  /\ IF zone \in Zones
     THEN /\ tz' = [tz EXCEPT ![c] = [at |-> "zone", zone |-> zone, old |-> getTimeZoneDSTHelper,
                                     accuracy |-> accuracy, oldAccuracy |-> Unset]]
          /\ spoilt' = (spoilt \/ \E d \in Callers : tz[d] # NoCall)
     ELSE UNCHANGED <<tz, spoilt>>
  /\ TerritorySame
  /\ UNCHANGED <<tzFile, accuracyFile, friendlyName, friendlyRfc, naming, flag, migrationFile, told, reply>>

ZoneStep == /\ TerritorySame
            /\ UNCHANGED <<friendlyName, friendlyRfc, naming, flag, migrationFile, reply, up, calls>>

(* A write that fails leaves the old file (not opened) or an empty one. *)
WriteTimeZone(c) ==
  /\ tz[c].at = "zone"
  /\ tz' = [tz EXCEPT ![c].at = "accuracy"]
  /\ \/ tzFile' = tz[c].zone /\ tz[c].zone # tz[c].old /\ UNCHANGED spoilt
     \/ tzFile' \in {tzFile, Unset} /\ tz[c].zone # tz[c].old /\ spoilt' = TRUE
     \/ tz[c].zone = tz[c].old /\ UNCHANGED <<tzFile, spoilt>>
  /\ UNCHANGED <<accuracyFile, told>> /\ ZoneStep

(* A bad or absent accuracy stands for the old one. *)
WriteAccuracy(c) ==
  LET old == getTimeZoneAccuracyDSTHelper
      accuracy == IF tz[c].accuracy \in Accuracies THEN tz[c].accuracy ELSE old IN
  /\ tz[c].at = "accuracy"
  /\ tz' = [tz EXCEPT ![c] = [@ EXCEPT !.at = "tell", !.accuracy = accuracy, !.oldAccuracy = old]]
  /\ \/ accuracyFile' = accuracy /\ accuracy # old /\ UNCHANGED spoilt
     \/ accuracyFile' \in {accuracyFile, Unset} /\ accuracy # old /\ spoilt' = TRUE
     \/ accuracy = old /\ UNCHANGED <<accuracyFile, spoilt>>
  /\ UNCHANGED <<tzFile, told>> /\ ZoneStep

onTimeZoneDSTChanged(zone, accuracy) == told' = [told EXCEPT !.zone = zone, !.accuracy = accuracy]

(* as TellTimeZone below, but a change of the accuracy alone is not announced *)
TellTimeZoneOnly(c) ==
  /\ tz[c].at = "tell"
  /\ IF tz[c].zone # tz[c].old THEN onTimeZoneDSTChanged(tz[c].zone, tz[c].accuracy) ELSE UNCHANGED told
  /\ tz' = [tz EXCEPT ![c] = NoCall]
  /\ UNCHANGED <<tzFile, accuracyFile, spoilt>> /\ ZoneStep

(* The event goes out where zone or accuracy differs, whether or not the   *)
(* writes succeeded.                                                       *)
TellTimeZone(c) ==
  /\ tz[c].at = "tell"
  /\ IF tz[c].zone # tz[c].old \/ tz[c].accuracy # tz[c].oldAccuracy
     THEN onTimeZoneDSTChanged(tz[c].zone, tz[c].accuracy)
     ELSE UNCHANGED told
  /\ tz' = [tz EXCEPT ![c] = NoCall]
  /\ UNCHANGED <<tzFile, accuracyFile, spoilt>> /\ ZoneStep

Query == /\ Call /\ TerritorySame
         /\ UNCHANGED <<tzFile, accuracyFile, tz, friendlyName, friendlyRfc, naming, flag, migrationFile, told, spoilt>>

getTimeZoneDST == /\ Query
                  /\ Answer("timeZone", IF tzFile = Unset THEN "Universal" ELSE tzFile)

(* The zone files under one directory, or under several of the caller's. *)
processTimeZones == {"listed", "failed"}
getTimeZones == Query /\ \E r \in processTimeZones : Answer("timeZones", r)

-----------------------------------------------------------------------------
(* Friendly name: memory, then the event, then the RFC parameter; without  *)
(* a lock.                                                                 *)
setFriendlyName(c, n) ==
  /\ Ready(c) /\ Call
  /\ IF n = friendlyName THEN UNCHANGED <<friendlyName, naming, spoilt>>
     ELSE /\ friendlyName' = n
          /\ naming' = [naming EXCEPT ![c] = "tell"]
          /\ spoilt' = (spoilt \/ \E d \in Callers : naming[d] # "idle")
  /\ TerritorySame
  /\ UNCHANGED <<tzFile, accuracyFile, tz, friendlyRfc, flag, migrationFile, told, reply>>

NameStep == /\ TerritorySame
            /\ UNCHANGED <<tzFile, accuracyFile, tz, friendlyName, flag, migrationFile, reply, up, calls>>

onFriendlyNameChanged(c) ==
  /\ naming[c] = "tell"
  /\ told' = [told EXCEPT !.name = friendlyName]
  /\ naming' = [naming EXCEPT ![c] = "save"]
  /\ UNCHANGED <<friendlyRfc, spoilt>> /\ NameStep

SaveFriendlyName(c) ==
  /\ naming[c] = "save"
  /\ \/ friendlyRfc' = friendlyName /\ UNCHANGED spoilt
     \/ UNCHANGED friendlyRfc /\ spoilt' = TRUE
  /\ naming' = [naming EXCEPT ![c] = "idle"]
  /\ UNCHANGED told /\ NameStep

getFriendlyName == Query /\ Answer("name", friendlyName)

-----------------------------------------------------------------------------
(* Flags.  write_parameters reports success even if the file could not be  *)
(* opened.  It sends the change only where the file had another value.     *)
Keep(f, v) == flag' = [flag EXCEPT ![f] = v]

FlagCall == /\ Call /\ TerritorySame
            /\ UNCHANGED <<tzFile, accuracyFile, tz, friendlyName, friendlyRfc, naming, migrationFile, told, spoilt>>

write_parameters(v) == Keep("blocklist", v) \/ UNCHANGED flag
read_parameters == flag["blocklist"]
onBlocklistChanged(v) == Answer("onBlocklistChanged", v)

setBlocklistFlag(v) ==
  /\ FlagCall
  /\ write_parameters(v)
  /\ IF flag["blocklist"] \notin {Unset, v} THEN onBlocklistChanged(v) ELSE UNCHANGED reply

getBlocklistFlag == Query /\ Answer("blocklist", read_parameters)

setOptOutTelemetry(v) == FlagCall /\ (Keep("optOut", v) \/ UNCHANGED flag) /\ UNCHANGED reply
isOptOutTelemetry == Query /\ Answer("optOut", IF flag["optOut"] = Unset THEN "false" ELSE flag["optOut"])

setFSRFlag(v) == FlagCall /\ (Keep("fsr", v) \/ UNCHANGED flag) /\ UNCHANGED reply
getFSRFlag == Query /\ \E ok \in BOOLEAN : Answer("fsr", IF ok THEN flag["fsr"] ELSE "false")

(* setMigrationStatus writes a file; getMigrationStatus asks for the RFC   *)
(* parameter, which this code does not set.                                *)
setMigrationStatus(s) ==
  /\ Call /\ TerritorySame
  /\ \/ s \in {"STARTED"} /\ migrationFile' = s
     \/ UNCHANGED migrationFile
  /\ UNCHANGED <<tzFile, accuracyFile, tz, friendlyName, friendlyRfc, naming, flag, told, reply, spoilt>>

getMigrationStatus == Query /\ \E s \in {"rfc", "failed"} : Answer("migration", s)
getBootTypeInfo == Query /\ \E s \in {"read", "failed"} : Answer("bootType", s)
getBuildType == Query /\ \E s \in {"read", "failed"} : Answer("buildType", s)
setBootLoaderSplashScreen == Query /\ \E s \in {"invalid path", "failed", "done"} : Answer("splash", s)

-----------------------------------------------------------------------------
(* A kill in setTerritory leaves an empty file, its first line, or all of  *)
(* it with no event; a kill in setTimeZoneDST, a file that is written or   *)
(* cut short, with no event; a kill in setFriendlyName, the event alone.   *)
TerritoryCut ==
  \E t \in Territories \cup {Unset}, r \in Regions \cup {Unset} :
    /\ t = Unset => r = Unset
    /\ writeTerritory(t, r)
    /\ pairs' = pairs \cup {[territory |-> t, region |-> r]}

HalfDone == \/ \E c \in Callers : tz[c].at \in {"accuracy", "tell"}
            \/ \E c \in Callers : naming[c] = "save"

Killed ==
  /\ up /\ calls < MaxCalls
  /\ up' = FALSE /\ calls' = calls + 1
  /\ \/ UNCHANGED <<territoryFile, pairs, tzFile, accuracyFile>> /\ spoilt' = (spoilt \/ HalfDone)
     \/ TerritoryCut /\ spoilt' = TRUE /\ UNCHANGED <<tzFile, accuracyFile>>
     \/ /\ \E c \in Callers : tz[c].at = "zone" /\ tz[c].zone # tz[c].old
        /\ tzFile' = Unset /\ spoilt' = TRUE /\ UNCHANGED <<territoryFile, pairs, accuracyFile>>
     \/ /\ \E c \in Callers : tz[c].at = "accuracy"
        /\ accuracyFile' = Unset /\ spoilt' = TRUE /\ UNCHANGED <<territoryFile, pairs, tzFile>>
  /\ tz' = [c \in Callers |-> NoCall] /\ naming' = [c \in Callers |-> "idle"]
  /\ territory' = Nowhere /\ friendlyName' = Unset
  /\ UNCHANGED <<friendlyRfc, flag, migrationFile, told, reply>>

(* Initialize takes the name from the RFC parameter, if that can be read;  *)
(* Unset is the built-in name.                                             *)
Initialize ==
  /\ ~up /\ up' = TRUE
  /\ friendlyName' \in {friendlyRfc, friendlyName}
  /\ UNCHANGED <<territoryFile, territory, pairs, tzFile, accuracyFile, tz, friendlyRfc, naming,
                 flag, migrationFile, told, reply, spoilt, calls>>

Setters == \/ \E t \in Territories \cup {"ZZZ"}, r \in Regions \cup {Unset, "bad"} : setTerritory(t, r)
           \/ \E c \in Callers, z \in Zones \cup {"Nowhere"}, a \in Accuracies \cup {Unset} : setTimeZoneDST(c, z, a)
           \/ \E c \in Callers : WriteTimeZone(c) \/ WriteAccuracy(c) \/ TellTimeZone(c)
           \/ \E c \in Callers, n \in Names : setFriendlyName(c, n)
           \/ \E c \in Callers : onFriendlyNameChanged(c) \/ SaveFriendlyName(c)
           \/ \E v \in {"true", "false"} : setBlocklistFlag(v) \/ setOptOutTelemetry(v) \/ setFSRFlag(v)
           \/ \E s \in {"STARTED", "bad"} : setMigrationStatus(s)
           \/ setBootLoaderSplashScreen

Getters == \/ getTerritory \/ getTimeZoneDST \/ getTimeZones \/ getFriendlyName \/ getBlocklistFlag
           \/ isOptOutTelemetry \/ getFSRFlag \/ getMigrationStatus \/ getBootTypeInfo \/ getBuildType

Next == Setters \/ Getters \/ Killed \/ Initialize

Spec == Init /\ [][Next]_vars

-----------------------------------------------------------------------------
(* A region is only ever answered with the territory it was set with: the  *)
(* members that keep the last region between reads, and files cut short by *)
(* a kill, never mix two calls (getTerritory 3201-3211).                   *)
RegionFitsTerritory ==
  reply.of = "territory" /\ reply.value.region # Unset => reply.value \in pairs

(* While no write has failed, no two calls of a setter overlapped and no   *)
(* kill came between the steps of one, what listeners were last told is    *)
(* what the next start of the process will find, whenever no setter is     *)
(* between its steps: time zone, accuracy, territory and name              *)
(* (setTimeZoneDST 3010-3066, setTerritory, setFriendlyName 3104-3112).    *)
ChangesAreTold ==
  ~spoilt /\ (\A c \in Callers : Ready(c)) =>
    told = [territory |-> territoryFile.territory, zone |-> tzFile,
            accuracy |-> getTimeZoneAccuracyDSTHelper, name |-> friendlyRfc]
=============================================================================
