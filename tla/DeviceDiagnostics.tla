------------------------- MODULE DeviceDiagnostics -------------------------
(***************************************************************************)
(* DeviceDiagnostics: a thread polls the resource manager for the most     *)
(* active decoder, under m_AVDecoderStatusLock, and hands a change to the  *)
(* worker pool after it has let go of the lock.  The destructor clears     *)
(* m_pollThreadRun, notifies the condition variable and joins the thread.  *)
(* Built with ENABLE_ERM; the resource manager, the configuration server   *)
(* and the milestone file are external.                                    *)
(***************************************************************************)
EXTENDS Integers, Sequences

CONSTANTS Clients, MaxCalls

VARIABLES
  status,     \* what the resource manager says (external)
  thread,     \* none, top (before the lock), waiting, woken (has the lock), unlocked, ended
  lastStatus, \* local to the thread
  seen,       \* the status the thread has read
  run,        \* m_pollThreadRun
  dtor,       \* no, notify (flag cleared), join, done
  clients,    \* _deviceDiagnosticsNotification
  pool,       \* OnAVDecoderStatusChanged jobs
  told,       \* by client: the last status it was told
  answer,     \* of the last call
  calls

vars == <<status, thread, lastStatus, seen, run, dtor, clients, pool, told, answer, calls>>

decoderStatusStr == {"IDLE", "PAUSED", "ACTIVE"}

(* The constructor: the thread runs only if the manager could be created. *)
Init == /\ status = "IDLE" /\ lastStatus = "IDLE" /\ seen = "IDLE"
        /\ thread \in {"none", "top"} /\ run = (thread = "top")
        /\ dtor = "no" /\ clients = {} /\ pool = <<>>
        /\ told = [n \in Clients |-> "nothing"] /\ answer = "none" /\ calls = 0

Polling == UNCHANGED <<thread, lastStatus, seen, run, dtor, pool>>
Call == dtor = "no" /\ calls < MaxCalls /\ calls' = calls + 1

-----------------------------------------------------------------------------
Register(n) == Call /\ clients' = clients \cup {n} /\ Polling /\ UNCHANGED <<status, told, answer>>
Unregister(n) == Call /\ clients' = clients \ {n} /\ Polling /\ UNCHANGED <<status, told, answer>>

(* external: a decoder starts, pauses or stops *)
DecoderChanges(s) == /\ Call /\ s # status /\ status' = s
                     /\ Polling /\ UNCHANGED <<clients, told, answer>>

getMostActiveDecoderStatus == IF thread = "none" THEN "IDLE" ELSE status

(* It reads under the lock of the thread. *)
GetAVDecoderStatus ==
  /\ Call /\ thread # "woken" /\ answer' = getMostActiveDecoderStatus
  /\ Polling /\ UNCHANGED <<status, clients, told>>

(* getConfig: a server that answers, or does not. *)
getConfig == {"parameters", "failed"}
GetConfiguration == Call /\ answer' \in getConfig /\ Polling /\ UNCHANGED <<status, clients, told>>

getFileContent == {"lines", "failed"}
GetMilestones == Call /\ answer' \in getFileContent /\ Polling /\ UNCHANGED <<status, clients, told>>

LogMilestone(marker) ==
  /\ Call /\ answer' = IF marker = "" THEN "failed" ELSE "logged"
  /\ Polling /\ UNCHANGED <<status, clients, told>>

-----------------------------------------------------------------------------
(* AVPollThread.  The wait ends by the timeout, or by a notification that  *)
(* comes while it waits; m_pollThreadRun is tested after the wait.         *)
Wait == /\ thread = "top" /\ thread' = "waiting"
        /\ UNCHANGED <<status, lastStatus, seen, run, dtor, clients, pool, told, answer, calls>>

(* as Timeout below, but the thread waits for a notification alone *)
NoTimeout == FALSE /\ UNCHANGED vars

Timeout == /\ thread = "waiting" /\ thread' = "woken"
           /\ UNCHANGED <<status, lastStatus, seen, run, dtor, clients, pool, told, answer, calls>>

Poll == /\ thread = "woken"
        /\ IF run THEN seen' = getMostActiveDecoderStatus /\ thread' = "unlocked"
                  ELSE thread' = "ended" /\ UNCHANGED seen
        /\ UNCHANGED <<status, lastStatus, run, dtor, clients, pool, told, answer, calls>>

onDecoderStatusChange(s) == pool' = Append(pool, s)

Compare == /\ thread = "unlocked" /\ thread' = "top"
           /\ lastStatus' = seen
           /\ IF seen # lastStatus THEN onDecoderStatusChange(seen) ELSE UNCHANGED pool
           /\ UNCHANGED <<status, seen, run, dtor, clients, told, answer, calls>>

Dispatch == /\ pool # <<>> /\ dtor # "done"
            /\ pool' = Tail(pool)
            /\ told' = [n \in Clients |-> IF n \in clients THEN Head(pool) ELSE told[n]]
            /\ UNCHANGED <<status, thread, lastStatus, seen, run, dtor, clients, answer, calls>>

-----------------------------------------------------------------------------
(* The destructor: the flag under the lock, which a thread that waits does *)
(* not have; the notification without it; the join.                        *)
Stop == /\ dtor = "no" /\ thread # "woken"
        /\ run' = FALSE /\ dtor' = "notify"
        /\ UNCHANGED <<status, thread, lastStatus, seen, clients, pool, told, answer, calls>>

Notify == /\ dtor = "notify" /\ dtor' = "join"
          /\ thread' = IF thread = "waiting" THEN "woken" ELSE thread
          /\ UNCHANGED <<status, lastStatus, seen, run, clients, pool, told, answer, calls>>

JoinPoll == /\ dtor = "join" /\ thread \in {"none", "ended"} /\ dtor' = "done"
            /\ UNCHANGED <<status, thread, lastStatus, seen, run, clients, pool, told, answer, calls>>

Thread == Wait \/ Poll \/ Compare
Step == Thread \/ Timeout \/ Dispatch \/ Notify \/ JoinPoll

Next == \/ Step \/ Stop
        \/ \E n \in Clients : Register(n) \/ Unregister(n)
        \/ \E s \in decoderStatusStr : DecoderChanges(s)
        \/ GetAVDecoderStatus \/ GetConfiguration \/ GetMilestones
        \/ \E marker \in {"", "marker"} : LogMilestone(marker)

Spec == /\ Init /\ [][Next]_vars
        /\ WF_vars(Thread) /\ WF_vars(Timeout) /\ WF_vars(Dispatch) /\ WF_vars(Notify) /\ WF_vars(JoinPoll)

-----------------------------------------------------------------------------
(* The destructor returns: a notification sent while the thread is not     *)
(* waiting is lost, and the timeout of wait_for makes up for it            *)
(* (~DeviceDiagnosticsImplementation 83-90, AVPollThread 203-210).         *)
DestructorEnds == dtor = "notify" ~> dtor = "done"
=============================================================================
