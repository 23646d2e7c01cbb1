-------------------------- MODULE UserPreferences --------------------------
(***************************************************************************)
(* The UI language of UserPreferences: the value lives in the UserSettings *)
(* plugin (external), a copy in a file of another format follows it by     *)
(* events and by every get, and is skipped where it equals the last one    *)
(* written.  Once in a life of the plugin the two are brought together     *)
(* (PerformMigration).  No lock covers the file or _lastUILanguage.        *)
(***************************************************************************)
EXTENDS Integers, Sequences

CONSTANTS MaxSteps

Presentation == {"en-US", "fr-CA"}      \* format of UserSettings
Bad == "bad"                            \* a value in no format
Missing == "missing"

VARIABLES
  settings,   \* the presentation language UserSettings has
  needed,     \* what GetMigrationState answers
  file,       \* UILanguage in SETTINGS_FILE_NAME
  last,       \* _lastUILanguage
  migrated,   \* _isMigrationDone
  phase,      \* of the plugin: down, migrating, up
  listening,  \* _notification is registered
  events,     \* changes on their way to _notification
  got,        \* the language a get has read and not yet written, or Missing
  spoilt,     \* history: a save failed, an event was missed, or a get met a change
  steps

vars == <<settings, needed, file, last, migrated, phase, listening, events, got, spoilt, steps>>

ConvertToUserPrefsFormat(p) == CASE p = "en-US" -> "US_en" [] p = "fr-CA" -> "CA_fr" [] OTHER -> Bad
ConvertToUserSettingsFormat(u) == CASE u = "US_en" -> "en-US" [] u = "CA_fr" -> "fr-CA" [] OTHER -> Bad
UI == {ConvertToUserPrefsFormat(p) : p \in Presentation}

Init == /\ settings \in Presentation \cup {Bad} /\ needed \in BOOLEAN
        /\ file \in {Missing, Bad, "CA_fr"}
        /\ last = "" /\ migrated = FALSE /\ phase = "down"
        /\ listening = FALSE /\ events = <<>> /\ got = Missing
        /\ spoilt = FALSE /\ steps = 0

Bounded == steps < MaxSteps /\ steps' = steps + 1

(* SetPresentationLanguage of UserSettings (external): a change is sent to *)
(* whoever listens, and there is nothing left to migrate.                  *)
SetPresentationLanguage(p) ==
  /\ settings' = p
  /\ needed' = FALSE
  /\ events' = IF listening /\ p # settings THEN Append(events, p) ELSE events

-----------------------------------------------------------------------------
(* PerformMigration: the file decides where a migration is needed and the  *)
(* file can be read; otherwise UserSettings decides and the file is        *)
(* written.  It fails where the inspector or a write of the setting fails. *)
Migration ==
  IF needed /\ file # Missing
  THEN /\ IF ConvertToUserSettingsFormat(file) # Bad
          THEN SetPresentationLanguage(ConvertToUserSettingsFormat(file))
          ELSE UNCHANGED <<settings, needed, events>>
       /\ UNCHANGED <<file, spoilt>>
  ELSE /\ \E saved \in BOOLEAN :
            /\ file' = IF saved /\ settings # Bad THEN ConvertToUserPrefsFormat(settings) ELSE file
            /\ spoilt' = (spoilt \/ ~saved)
       /\ UNCHANGED <<settings, needed, events>>

PerformMigration == \/ Migration /\ migrated' = TRUE
                    \/ UNCHANGED <<settings, needed, events, file, spoilt, migrated>>

(* Initialize migrates and registers after it; it gives up where           *)
(* UserSettings does not come up.                                          *)
Initialize == /\ phase = "down" /\ Bounded
              /\ PerformMigration
              /\ phase' = "migrating"
              /\ UNCHANGED <<last, listening, got>>

RegisterNotification == /\ phase = "migrating"
                        /\ phase' = "up" /\ listening' = TRUE
                        /\ UNCHANGED <<settings, needed, file, last, migrated, events, got, spoilt, steps>>

(* A new instance of the plugin begins with an empty memory. *)
Deinitialize == /\ phase = "up" /\ got = Missing /\ Bounded
                /\ phase' = "down" /\ listening' = FALSE /\ events' = <<>>
                /\ last' = "" /\ migrated' = FALSE
                /\ UNCHANGED <<settings, needed, file, got, spoilt>>

-----------------------------------------------------------------------------
(* The file is written where the language is not the last one written. *)
Save(u) == IF u = last
           THEN UNCHANGED <<file, last>>
           ELSE file' = u /\ last' = u

(* as OnPresentationLanguageChanged below, but _lastUILanguage is left *)
OnPresentationLanguageChangedOnly ==
  /\ events # <<>>
  /\ events' = Tail(events)
  /\ LET u == ConvertToUserPrefsFormat(Head(events)) IN
     file' = IF u \in {Bad, last} THEN file ELSE u
  /\ UNCHANGED <<settings, needed, last, migrated, phase, listening, got, spoilt, steps>>

OnPresentationLanguageChanged ==
  /\ events # <<>>
  /\ events' = Tail(events)
  /\ LET u == ConvertToUserPrefsFormat(Head(events)) IN
     \/ u # Bad /\ Save(u) /\ UNCHANGED spoilt
     \/ u = Bad /\ UNCHANGED <<file, last, spoilt>>
     \/ u \notin {Bad, last} /\ spoilt' = TRUE /\ UNCHANGED <<file, last>>
  /\ UNCHANGED <<settings, needed, migrated, phase, listening, got, steps>>

(* A get reads UserSettings in one step and writes the file in another. *)
getUILanguage ==
  /\ phase = "up" /\ got = Missing /\ Bounded
  /\ IF migrated THEN UNCHANGED <<settings, needed, events, file, spoilt, migrated>> ELSE PerformMigration
  /\ got' = IF migrated' THEN ConvertToUserPrefsFormat(settings') ELSE Missing
  /\ UNCHANGED <<last, phase, listening>>

AnswerUILanguage ==
  /\ got # Missing
  /\ \/ got # Bad /\ Save(got) /\ spoilt' = (spoilt \/ events # <<>> \/ got # ConvertToUserPrefsFormat(settings))
     \/ got = Bad /\ UNCHANGED <<file, last, spoilt>>
     \/ got \notin {Bad, last} /\ spoilt' = TRUE /\ UNCHANGED <<file, last>>
  /\ got' = Missing
  /\ UNCHANGED <<settings, needed, migrated, phase, listening, events, steps>>

setUILanguage(u) ==
  /\ phase = "up" /\ Bounded
  /\ IF migrated
     THEN /\ IF ConvertToUserSettingsFormat(u) # Bad
             THEN SetPresentationLanguage(ConvertToUserSettingsFormat(u)) \/ UNCHANGED <<settings, needed, events>>
             ELSE UNCHANGED <<settings, needed, events>>
          /\ UNCHANGED <<file, spoilt, migrated>>
     ELSE PerformMigration              \* the set itself follows as a step of its own
  /\ UNCHANGED <<last, phase, listening, got>>

(* Somebody else sets the presentation language, in any format. *)
OtherClient(p) ==
  /\ Bounded
  /\ SetPresentationLanguage(p)
  /\ spoilt' = (spoilt \/ phase = "migrating")
  /\ UNCHANGED <<file, last, migrated, phase, listening, got>>

Next == \/ Initialize \/ RegisterNotification \/ Deinitialize
        \/ OnPresentationLanguageChanged
        \/ getUILanguage \/ AnswerUILanguage
        \/ \E u \in UI \cup {Bad} : setUILanguage(u)
        \/ \E p \in Presentation \cup {Bad} : OtherClient(p)

Spec == Init /\ [][Next]_vars

-----------------------------------------------------------------------------
(* When nothing is under way, the file holds the language of UserSettings  *)
(* in its own format, although writes are skipped where they seem          *)
(* unnecessary, as long as no save failed, no event was missed before the  *)
(* registration and no get met a change; what a migration could not read   *)
(* may stay until the next change (OnPresentationLanguageChanged 333-352,  *)
(* getUILanguage 441-451, PerformMigration 142-245).                       *)
FileFollowsSettings ==
  /\ phase = "up" /\ events = <<>> /\ got = Missing
  /\ migrated /\ ~spoilt /\ settings # Bad
  => file \in {ConvertToUserPrefsFormat(settings), Bad}
=============================================================================
