----------------------------- MODULE SystemMode -----------------------------
(***************************************************************************)
(* SystemMode: a state (VIDEO or GAME) that is requested for the device    *)
(* and passed to every client that has activated.  RequestState takes no   *)
(* lock; ClientActivated and ClientDeactivated hold _adminLock.  All of    *)
(* them read the file, change it and write it back.  The plugin may die    *)
(* and come back; a client may die without a word and come back.           *)
(***************************************************************************)
EXTENDS Integers

CONSTANTS Clients, MaxSteps

States == {"VIDEO", "GAME"}
Nothing == "none"

VARIABLES
  file,        \* SYSTEM_MODE_FILE: the state and the callsigns
  registered,  \* _clients: the incarnation each callsign stands for, 0 if absent
  requested,   \* stateRequested
  life,        \* the incarnation of each client, 0 while it is down
  born,        \* the last incarnation of each client
  told,        \* what the running incarnation was last asked for
  req,         \* the call of RequestState under way
  reg,         \* the call of ClientActivated or ClientDeactivated under way
  boot,        \* the constructor: the callsigns it has still to activate
  up,
  spoilt,      \* history: two calls overlapped, a client died, came or went beside
               \* the constructor, or the constructor lost a callsign
  steps

vars == <<file, registered, requested, life, born, told, req, reg, boot, up, spoilt, steps>>

Idle == [at |-> "idle"]
Default == [state |-> "VIDEO", callsigns |-> {}]

Init == /\ file = Default
        /\ registered = [c \in Clients |-> 0] /\ requested = FALSE
        /\ life = [c \in Clients |-> 0] /\ born = [c \in Clients |-> 0]
        /\ told = [c \in Clients |-> Nothing]
        /\ req = Idle /\ reg = Idle /\ boot = Idle
        /\ up = TRUE /\ spoilt = FALSE /\ steps = 0

Bounded == steps < MaxSteps /\ steps' = steps + 1

(* Request() of an interface whose plugin is gone reaches nobody. *)
Request(c, s) == IF registered[c] # 0 /\ registered[c] = life[c] THEN [told EXCEPT ![c] = s] ELSE told

(* updateSystemModeFile in two steps: the content is read, then written.   *)
(* The list of callsigns is searched for a substring: the set is faithful  *)
(* where no callsign is part of another.                                   *)
updateSystemModeFile(content, property, value, action) ==
  IF property = "currentstate"
  THEN [content EXCEPT !.state = value]
  ELSE [content EXCEPT !.callsigns = CASE action = "add"    -> @ \cup {value}
                                       [] action = "delete" -> @ \ {value}
                                       [] OTHER             -> {}]

-----------------------------------------------------------------------------
(* RequestState: every client in turn, then the file, then the flag. *)
RequestState(s) ==
  /\ up /\ req = Idle /\ Bounded
  /\ req' = [at |-> "walk", state |-> s, left |-> {c \in Clients : registered[c] # 0}]
  /\ spoilt' = (spoilt \/ reg # Idle)
  /\ UNCHANGED <<file, registered, requested, life, born, told, reg, boot, up>>

(* The walk meets a client that is inserted or erased ahead of it or not.  *)
TellNext == /\ req.at = "walk" /\ req.left # {}
            /\ \E c \in req.left : /\ told' = Request(c, req.state)
                                   /\ req' = [req EXCEPT !.left = @ \ {c}]
            /\ UNCHANGED <<file, registered, requested, life, born, reg, boot, up, spoilt, steps>>

ReadForState == /\ req.at = "walk" /\ req.left = {}
                /\ req' = [at |-> "write", state |-> req.state, content |-> file]
                /\ UNCHANGED <<file, registered, requested, life, born, told, reg, boot, up, spoilt, steps>>

WriteState == /\ req.at = "write"
              /\ file' = updateSystemModeFile(req.content, "currentstate", req.state, "add")
              /\ requested' = TRUE /\ req' = Idle
              /\ UNCHANGED <<registered, life, born, told, reg, boot, up, spoilt, steps>>

GetState == file.state

-----------------------------------------------------------------------------
(* The file is read under the lock and written in a later step. *)
Register(c, act) ==
  /\ reg' = [at |-> "write", client |-> c, action |-> act, content |-> file]
  /\ spoilt' = (spoilt \/ req # Idle)

(* A callsign that cannot be opened, or has not the interface, is ignored. *)
(* insert leaves an entry that is already there as it is.                  *)
ClientActivated(c) ==
  /\ up /\ reg = Idle /\ Bounded
  /\ life[c] = 0
  /\ born' = [born EXCEPT ![c] = @ + 1]
  /\ life' = [life EXCEPT ![c] = born'[c]]
  /\ told' = [told EXCEPT ![c] = Nothing]
  /\ \/ /\ registered' = [registered EXCEPT ![c] = IF @ = 0 THEN born'[c] ELSE @]
        /\ Register(c, "add")
     \/ UNCHANGED <<registered, reg>> /\ spoilt' = TRUE
  /\ UNCHANGED <<file, requested, req, boot, up>>

ClientDeactivated(c) ==
  /\ up /\ reg = Idle /\ Bounded
  /\ life[c] # 0
  /\ life' = [life EXCEPT ![c] = 0]
  /\ told' = [told EXCEPT ![c] = Nothing]
  /\ IF registered[c] # 0
     THEN registered' = [registered EXCEPT ![c] = 0] /\ Register(c, "delete")
     ELSE UNCHANGED <<registered, reg, spoilt>>
  /\ UNCHANGED <<file, requested, born, req, boot, up>>

(* as EndRegister below, but a client that came after a request is not told *)
EndRegisterOnly ==
  /\ reg.at = "write"
  /\ file' = updateSystemModeFile(reg.content, "callsign", reg.client, reg.action)
  /\ reg' = Idle
  /\ UNCHANGED <<registered, requested, life, born, told, req, boot, up, spoilt, steps>>

(* The entry is written; a client that came after a request is told. *)
EndRegister ==
  /\ reg.at = "write"
  /\ file' = updateSystemModeFile(reg.content, "callsign", reg.client, reg.action)
  /\ told' = IF reg.action = "add" /\ requested
             THEN [told EXCEPT ![reg.client] = file'.state] ELSE told
  /\ reg' = Idle
  /\ UNCHANGED <<registered, requested, life, born, req, boot, up, spoilt, steps>>

ClientCrash(c) == /\ life[c] # 0 /\ Bounded
                  /\ life' = [life EXCEPT ![c] = 0]
                  /\ told' = [told EXCEPT ![c] = Nothing]
                  /\ spoilt' = TRUE
                  /\ UNCHANGED <<file, registered, requested, born, req, reg, boot, up>>

(* A client that starts or stops while SystemMode is down finds no         *)
(* interface and changes the list of callsigns itself.                     *)
ActivatedAlone(c) ==
  /\ ~up /\ life[c] = 0 /\ Bounded
  /\ born' = [born EXCEPT ![c] = @ + 1]
  /\ life' = [life EXCEPT ![c] = born'[c]]
  /\ told' = [told EXCEPT ![c] = Nothing]
  /\ file' = updateSystemModeFile(file, "callsign", c, "add")
  /\ spoilt' = (spoilt \/ boot # Idle)
  /\ UNCHANGED <<registered, requested, req, reg, boot, up>>

DeactivatedAlone(c) ==
  /\ ~up /\ life[c] # 0 /\ Bounded
  /\ life' = [life EXCEPT ![c] = 0]
  /\ told' = [told EXCEPT ![c] = Nothing]
  /\ file' = updateSystemModeFile(file, "callsign", c, "delete")
  /\ spoilt' = (spoilt \/ boot # Idle)
  /\ UNCHANGED <<registered, requested, born, req, reg, boot, up>>

-----------------------------------------------------------------------------
(* The plugin dies with its map and its flag; the file stays.  A write cut *)
(* short is left to spoilt, and so are the callsigns that the constructor  *)
(* had deleted and not yet written again.                                  *)
Crash == /\ up \/ boot # Idle
         /\ Bounded
         /\ up' = FALSE /\ boot' = Idle /\ req' = Idle /\ reg' = Idle
         /\ registered' = [c \in Clients |-> 0] /\ requested' = FALSE
         /\ spoilt' = (spoilt \/ req # Idle \/ reg # Idle \/ (boot # Idle /\ boot.left # {}))
         /\ UNCHANGED <<file, life, born, told>>

(* The constructor takes the callsigns out of the file ... *)
SystemModeImplementation ==
  /\ ~up /\ boot = Idle
  /\ boot' = [at |-> "activate", left |-> file.callsigns]
  /\ file' = updateSystemModeFile(file, "callsign", "", "deleteall")
  /\ UNCHANGED <<registered, requested, life, born, told, req, reg, up, spoilt, steps>>

(* ... and activates them one by one.  Open, which may take 3 s, finds no  *)
(* shell for a client that is down, and may fail for one that runs.        *)
Reactivate ==
  /\ boot # Idle
  /\ \E c \in boot.left :
       /\ boot' = [boot EXCEPT !.left = @ \ {c}]
       /\ \/ /\ life[c] # 0
             /\ registered' = [registered EXCEPT ![c] = life[c]]
             /\ file' = updateSystemModeFile(file, "callsign", c, "add")
             /\ UNCHANGED spoilt
          \/ spoilt' = (spoilt \/ life[c] # 0) /\ UNCHANGED <<registered, file>>
  /\ UNCHANGED <<requested, life, born, told, req, reg, up, steps>>

Constructed == /\ boot # Idle /\ boot.left = {}
               /\ boot' = Idle /\ up' = TRUE
               /\ UNCHANGED <<file, registered, requested, life, born, told, req, reg, spoilt, steps>>

Next == \/ \E s \in States : RequestState(s)
        \/ TellNext \/ ReadForState \/ WriteState \/ EndRegister
        \/ \E c \in Clients : ClientActivated(c) \/ ClientDeactivated(c) \/ ClientCrash(c)
        \/ \E c \in Clients : ActivatedAlone(c) \/ DeactivatedAlone(c)
        \/ Crash \/ SystemModeImplementation \/ Reactivate \/ Constructed

Spec == Init /\ [][Next]_vars

-----------------------------------------------------------------------------
Quiet == up /\ req = Idle /\ reg = Idle

(* As long as no two calls overlapped, no client died or met the           *)
(* constructor, and no callsign was lost between its deletion and its new  *)
(* entry there (a crash, or an Open that failed for a running client):     *)
(* once a state has been requested in this life of the plugin, every       *)
(* running client was last asked for exactly that state, also one that     *)
(* activated later, while the plugin was down, or before its restart; and  *)
(* the map and the file name exactly the running clients (RequestState     *)
(* 178-185, ClientActivated 289-305, the constructor 78-107, and           *)
(* DisplaySettings 563-574 and 596-612, which write the file themselves).  *)
ClientsFollowState ==
  Quiet /\ ~spoilt =>
    /\ requested => \A c \in Clients : life[c] # 0 => told[c] = GetState
    /\ registered = life
    /\ file.callsigns = {c \in Clients : life[c] # 0}
=============================================================================
