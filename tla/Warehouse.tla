----------------------------- MODULE Warehouse -----------------------------
(***************************************************************************)
(* Warehouse: ResetDevice starts a thread for the reset after joining the  *)
(* thread of the one before; the thread runs deviceReset.sh and announces  *)
(* a warehouse reset that leaves the device running through the worker     *)
(* pool.  Two callers at once may end the process, which is started again. *)
(* The other calls run their scripts and parameter writes at once.         *)
(* Scripts, the parameter store (RFC) and the file system are external:    *)
(* each of their operations may fail.                                      *)
(***************************************************************************)
EXTENDS Integers, Sequences, SequencesExt

CONSTANTS Callers,   \* threads that may be in ResetDevice
          Clients,   \* notification interfaces
          MaxCalls

VARIABLES
  resetThread, \* the thread m_resetThread holds, 0 when there is none to join
  running,     \* resets by thread: what was asked, where thread and script are
  pc,          \* where each caller is in ResetDevice
  clients,     \* _warehouseNotification
  pool,        \* ResetDone jobs submitted and not dispatched
  flags,       \* marker files, and /opt/.rebootFlag written
  device,      \* runs, or reboots
  rfc,         \* hardware test: enabled, to be executed
  dirt,        \* files that a reset removes: custom data, user data, the store
  answer,      \* of the last call
  succeeded,   \* history: resets that left the device running, see Succeeds
  refused,     \* history: resets whose join or whose thread threw
  lost,        \* history: ResetDone jobs pending when the process ended
  told,        \* history: ResetDone jobs dispatched
  calls

vars == <<resetThread, running, pc, clients, pool, flags, device, rfc, dirt, answer,
          succeeded, refused, lost, told, calls>>

ResetTypes == {"COLD", "FACTORY", "USERFACTORY", "WAREHOUSE_CLEAR", "WAREHOUSE"}
None == [type |-> "none"]
Over == [type |-> "none", suppress |-> FALSE, at |-> "ended", script |-> "none"]

Init == /\ resetThread = 0 /\ running = <<>> /\ pc = [c \in Callers |-> None]
        /\ clients = {} /\ pool = <<>> /\ flags = {} /\ device = "runs"
        /\ rfc = [enable |-> FALSE, execute |-> FALSE]
        /\ dirt = {"custom", "user", "store"} /\ answer = [of |-> "none"]
        /\ succeeded = 0 /\ refused = 0 /\ lost = 0 /\ told = 0 /\ calls = 0

Threads == UNCHANGED <<resetThread, running, pc, pool, succeeded, refused, lost, told>>
Call == device = "runs" /\ calls < MaxCalls /\ calls' = calls + 1
Answer(of, ok) == answer' = [of |-> of, success |-> ok]

-----------------------------------------------------------------------------
Register(n) == /\ Call /\ Threads /\ clients' = clients \cup {n} /\ Answer("register", TRUE)
               /\ UNCHANGED <<flags, device, rfc, dirt>>

Unregister(n) == /\ Call /\ Threads
                 /\ clients' = clients \ {n} /\ Answer("unregister", n \in clients)
                 /\ UNCHANGED <<flags, device, rfc, dirt>>

ResetDone(success) == pool' = Append(pool, success)

(* ResetDevice: the handle is looked at, joined if it holds a thread, and  *)
(* replaced by that of the new thread.  No lock keeps two callers apart.   *)
ResetDevice(c, type, suppress) ==
  /\ Call /\ pc[c] = None
  /\ pc' = [pc EXCEPT ![c] = [type |-> type, suppress |-> suppress,
                              at |-> IF resetThread = 0 THEN "start" ELSE "join"]]
  /\ UNCHANGED <<resetThread, running, clients, pool, flags, device, rfc, dirt, answer,
                 succeeded, refused, lost, told>>

At(c, where) == pc[c] # None /\ pc[c].at = where

(* The call threw: the failure is announced, and success is answered. *)
Throws(c) == /\ ResetDone(FALSE) /\ refused' = refused + 1
             /\ pc' = [pc EXCEPT ![c] = None] /\ Answer("reset", TRUE)

(* The join of a thread that another caller joins too, or has joined,      *)
(* throws system_error.                                                    *)
Join(c) ==
  /\ At(c, "join")
  /\ \/ /\ resetThread # 0 /\ running[resetThread].at = "ended"
        /\ resetThread' = 0
        /\ pc' = [pc EXCEPT ![c].at = "start"]
        /\ UNCHANGED <<pool, refused, answer>>
     \/ /\ resetThread = 0 \/ \E d \in Callers \ {c} : At(d, "join")
        /\ Throws(c)
        /\ UNCHANGED resetThread
  /\ UNCHANGED <<running, clients, flags, device, rfc, dirt, succeeded, lost, told, calls>>

(* The thread is made, or std::thread throws. *)
Start(c) ==
  /\ At(c, "start")
  /\ \/ /\ running' = Append(running, [type |-> pc[c].type, suppress |-> pc[c].suppress,
                                       at |-> "begin", script |-> "none"])
        /\ pc' = [pc EXCEPT ![c] = [type |-> "handle", thread |-> Len(running) + 1, at |-> "replace"]]
        /\ UNCHANGED <<pool, refused, answer>>
     \/ Throws(c) /\ UNCHANGED running
  /\ UNCHANGED <<resetThread, clients, flags, device, rfc, dirt, succeeded, lost, told, calls>>

(* The new thread is moved into the handle.  ThreadRAII leaves that to     *)
(* std::thread, which ends the process when the handle holds a thread      *)
(* nobody has joined: one that another caller has started since the join.  *)
Replace(c) ==
  /\ At(c, "replace") /\ resetThread = 0
  /\ resetThread' = pc[c].thread
  /\ pc' = [pc EXCEPT ![c] = None] /\ Answer("reset", TRUE)
  /\ UNCHANGED <<running, clients, pool, flags, device, rfc, dirt, succeeded, refused, lost, told, calls>>

(* What is left of a reset whose thread has ended: its script, if it runs. *)
Left(r) == IF r.script = "runs" THEN [r EXCEPT !.at = "ended"] ELSE Over

(* The process ends and is started again; the scripts it left go on. *)
Terminate(c) ==
  /\ At(c, "replace") /\ resetThread # 0
  /\ resetThread' = 0 /\ pc' = [d \in Callers |-> None]
  /\ pool' = <<>> /\ lost' = lost + Len(pool)
  /\ clients' = {} /\ answer' = [of |-> "none"]
  /\ running' = [t \in DOMAIN running |-> Left(running[t])]
  /\ UNCHANGED <<flags, device, rfc, dirt, succeeded, refused, told, calls>>

-----------------------------------------------------------------------------
resetWarehouseRebootFlag == {"rebootFlag"}

(* What each reset writes before and after its script, whether the device  *)
(* reboots by the script, or by a command after it, and what the thread    *)
(* knows of the script: its result, that it was launched (it is put in the *)
(* background), or nothing, as the result is thrown away.                  *)
processColdFactoryReset == [before |-> {}, after |-> resetWarehouseRebootFlag, reboots |-> TRUE, reboot |-> TRUE, knows |-> "nothing", clears |-> {"custom", "user", "store"}]
processFactoryReset == [before |-> {}, after |-> resetWarehouseRebootFlag, reboots |-> TRUE, reboot |-> FALSE, knows |-> "nothing", clears |-> {"custom", "user"}]
processUserFactoryReset == [before |-> resetWarehouseRebootFlag, after |-> {}, reboots |-> TRUE, reboot |-> FALSE, knows |-> "nothing", clears |-> {"user"}]
processWHReset == [before |-> resetWarehouseRebootFlag \cup {"reset"}, after |-> {}, reboots |-> TRUE, reboot |-> FALSE, knows |-> "result", clears |-> {"custom"}]
processWHResetNoReboot == [before |-> {"reset"}, after |-> {}, reboots |-> FALSE, reboot |-> FALSE, knows |-> "launch", clears |-> {"custom"}]
processWHClear == [before |-> resetWarehouseRebootFlag \cup {"clear"}, after |-> {}, reboots |-> TRUE, reboot |-> FALSE, knows |-> "nothing", clears |-> {"custom"}]
processWHClearNoReboot == [before |-> {"clear"}, after |-> {}, reboots |-> FALSE, reboot |-> FALSE, knows |-> "result", clears |-> {"custom"}]

Process(r) ==
  CASE r.type = "COLD"            -> processColdFactoryReset
    [] r.type = "FACTORY"         -> processFactoryReset
    [] r.type = "USERFACTORY"     -> processUserFactoryReset
    [] r.type = "WAREHOUSE_CLEAR" -> IF r.suppress THEN processWHClearNoReboot ELSE processWHClear
    [] OTHER                      -> IF r.suppress THEN processWHResetNoReboot ELSE processWHReset

(* The thread writes its flags and launches the script, or fails to. *)
Begin(t) ==
  /\ device = "runs" /\ t \in DOMAIN running /\ running[t].at = "begin"
  /\ flags' = flags \cup Process(running[t]).before
  /\ \E launch \in {"runs", "none"} :
       running' = [running EXCEPT ![t].at = "wait", ![t].script = launch]
  /\ UNCHANGED <<resetThread, pc, clients, pool, device, rfc, dirt, answer, succeeded, refused, lost, told, calls>>

ScriptOver(r, result) == IF r.at = "ended" THEN Over ELSE [r EXCEPT !.script = result]

(* deviceReset.sh ends. *)
Script(t) ==
  /\ device = "runs" /\ t \in DOMAIN running /\ running[t].script = "runs"
  /\ LET p == Process(running[t]) IN
     \/ /\ running' = [running EXCEPT ![t] = ScriptOver(@, "ok")]
        /\ dirt' = dirt \ p.clears
        /\ device' = IF p.reboots THEN "reboots" ELSE device
     \/ running' = [running EXCEPT ![t] = ScriptOver(@, "failed")] /\ UNCHANGED <<dirt, device>>
  /\ UNCHANGED <<resetThread, pc, clients, pool, flags, rfc, answer, succeeded, refused, lost, told, calls>>

(* What the thread takes for the result.  The shell that puts a script in  *)
(* the background reports success, whatever becomes of the script.         *)
Result(r) ==
  CASE Process(r).knows = "result" -> r.script = "ok"
    [] Process(r).knows = "launch" -> r.script # "none"
    [] OTHER                       -> TRUE

(* as Announces below, but every successful warehouse reset is announced *)
AnnouncesReboots(r, ok) == ok /\ r.type \in {"WAREHOUSE", "WAREHOUSE_CLEAR"}

(* The result counts as a warehouse reset only when the script succeeded,  *)
(* so the failure branch of the announcement is never taken.               *)
Announces(r, ok) == ok /\ r.type \in {"WAREHOUSE", "WAREHOUSE_CLEAR"} /\ r.suppress

(* A reset that leaves the device running and whose script succeeded, as   *)
(* far as its thread can know.                                             *)
Succeeds(r) == ~Process(r).reboots /\ Result(r)

(* WareHouseResetIARM: the script has ended, unless it runs in the         *)
(* background; then the announcement.                                      *)
WareHouseResetIARM(t) ==
  /\ device = "runs" /\ t \in DOMAIN running /\ running[t].at = "wait"
  /\ LET p == Process(running[t]) IN
     /\ p.knows = "launch" \/ running[t].script # "runs"
     /\ flags' = flags \cup p.after
     /\ \/ p.reboot /\ device' = "reboots"
        \/ UNCHANGED device
  /\ IF Announces(running[t], Result(running[t])) THEN ResetDone(TRUE) ELSE UNCHANGED pool
  /\ succeeded' = IF Succeeds(running[t]) THEN succeeded + 1 ELSE succeeded
  /\ running' = [running EXCEPT ![t] = Left(@)]
  /\ UNCHANGED <<resetThread, pc, clients, rfc, dirt, answer, refused, lost, told, calls>>

Dispatch ==
  /\ device = "runs" /\ pool # <<>>
  /\ pool' = Tail(pool) /\ told' = told + 1
  /\ UNCHANGED <<resetThread, running, pc, clients, flags, device, rfc, dirt, answer, succeeded, refused, lost, calls>>

-----------------------------------------------------------------------------
(* The hardware test: enable, and execute only if that was written. *)
ExecuteHardwareTest ==
  /\ Call /\ Threads /\ UNCHANGED <<clients, flags, device, dirt>>
  /\ \E enabled, executed \in BOOLEAN :
       /\ rfc' = [enable |-> rfc.enable \/ enabled, execute |-> rfc.execute \/ (enabled /\ executed)]
       /\ Answer("test", enabled /\ executed)

(* The results are read first; they are lost to the caller, as a failure,  *)
(* when the test cannot be disabled after that.                            *)
GetHardwareTestResults ==
  /\ Call /\ Threads /\ UNCHANGED <<clients, flags, device, dirt>>
  /\ \E read, disabled \in BOOLEAN :
       /\ rfc' = [rfc EXCEPT !.enable = @ /\ ~(read /\ disabled)]
       /\ Answer("results", read /\ disabled)

InternalReset(phrase, isProd) ==
  /\ Call /\ Threads /\ UNCHANGED <<clients, flags, rfc>>
  /\ \/ phrase /\ ~isProd /\ device' = "reboots" /\ dirt' = dirt \ {"user"} /\ Answer("internal", TRUE)
     \/ UNCHANGED <<device, dirt>> /\ Answer("internal", FALSE)

(* IsClean: no list, or an empty one, is a failure; a path with an unset   *)
(* variable is skipped; what is left is clean when nothing older than age  *)
(* is found.                                                               *)
IsClean(list, old) ==
  /\ Call /\ Threads /\ UNCHANGED <<clients, flags, device, rfc, dirt>>
  /\ answer' = IF list = {} THEN [of |-> "clean", success |-> FALSE, clean |-> FALSE]
               ELSE [of |-> "clean", success |-> TRUE, clean |-> dirt \cap list \cap old = {}]

(* LightReset: the script runs with its variables unexpanded, whatever     *)
(* they were expanded to; the store goes whether or not it succeeded.      *)
getSDCardMountPath == {"mounted", "missing"}
LightReset ==
  /\ Call /\ Threads /\ UNCHANGED <<clients, flags, device, rfc>>
  /\ \E mount \in getSDCardMountPath, ok \in BOOLEAN :
       /\ dirt' = (IF ok THEN dirt \ {"user"} ELSE dirt) \ {"store"}
       /\ Answer("light", ok)

Step == \/ \E c \in Callers : device = "runs" /\ (Join(c) \/ Start(c) \/ Replace(c) \/ Terminate(c))
        \/ \E t \in DOMAIN running : Begin(t) \/ Script(t) \/ WareHouseResetIARM(t)
        \/ Dispatch

Next == \/ Step
        \/ \E n \in Clients : Register(n) \/ Unregister(n)
        \/ \E c \in Callers, type \in ResetTypes, suppress \in BOOLEAN : ResetDevice(c, type, suppress)
        \/ ExecuteHardwareTest \/ GetHardwareTestResults
        \/ \E phrase, isProd \in BOOLEAN : InternalReset(phrase, isProd)
        \/ \E list, old \in {{}, {"custom"}, {"custom", "user"}} : IsClean(list, old)
        \/ LightReset

Spec == Init /\ [][Next]_vars /\ WF_vars(Step)

-----------------------------------------------------------------------------
(* Exactly the resets that leave the device running and that succeeded as  *)
(* far as their threads can know, and the ones whose join or whose thread  *)
(* threw, are announced, once each: also when several callers meet at the  *)
(* join of m_resetThread, and when two scripts run at once because the     *)
(* join does not wait for one in the background (ResetDevice 683-711,      *)
(* WareHouseResetIARM 249-288).  What is lost is what was pending when the *)
(* replacement of a handle in use ended the process (687).                 *)
AnnouncedOnce == told + Len(pool) + lost = succeeded + refused
=============================================================================
