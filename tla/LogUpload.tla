----------------------------- MODULE LogUpload -----------------------------
(***************************************************************************)
(* The life of the log upload script of SystemServices: uploadLogsAsync    *)
(* and abortLogUpload from API threads and from the handler of power state *)
(* changes, onLogUpload from the bus when a script reports its end.        *)
(* m_uploadLogsMutex guards m_uploadLogsPid, one section at a time; the    *)
(* bus thread holds it while it waits for the script to exit.              *)
(***************************************************************************)
EXTENDS Integers, Sequences

CONSTANTS MaxScripts, MaxCalls

NoPid == 0
Scripts == 1..MaxScripts
Uploaders == {"api", "power"}
Uncollected == {"running", "reported", "exited", "silent"}   \* a process that waitpid has not seen

VARIABLES
  pid,       \* m_uploadLogsPid
  script,    \* what each process does
  bus,       \* end reports on their way, oldest first
  waiting,   \* the process onLogUpload waits for with the mutex held, or NoPid
  pc,        \* where each caller is
  raced,     \* history: two uploads overlapped between their two sections
  calls

vars == <<pid, script, bus, waiting, pc, raced, calls>>

Init == /\ pid = NoPid /\ waiting = NoPid /\ bus = <<>>
        /\ script = [k \in Scripts |-> "none"]
        /\ pc = [c \in Uploaders |-> "idle"]
        /\ raced = FALSE /\ calls = 0

MutexFree == waiting = NoPid

-----------------------------------------------------------------------------
(* A new call or event: the first section only reads the process id. *)
Enter(c, then) == /\ pc[c] = "idle" /\ MutexFree /\ calls < MaxCalls
                  /\ calls' = calls + 1
                  /\ pc' = [pc EXCEPT ![c] = then]
                  /\ UNCHANGED <<pid, script, bus, waiting, raced>>

uploadLogsAsync(c) == Enter(c, IF pid # NoPid THEN "replace" ELSE "start")

(* ON to standby uploads where the RFC parameter asks for it, deep sleep   *)
(* aborts; other changes are only passed on.                               *)
onSystemPowerStateChanged ==
  \/ uploadLogsAsync("power")
  \/ pid # NoPid /\ Enter("power", "abort")

(* as Abort below, but the process id is kept after the script is collected *)
AbortKeepsPid == IF pid = NoPid
                 THEN UNCHANGED <<pid, script>>
                 ELSE /\ script' = [script EXCEPT ![pid] = "reaped"]
                      /\ UNCHANGED pid

(* abortLogUpload kills the script with its children and collects it. *)
Abort == IF pid = NoPid
         THEN UNCHANGED <<pid, script>>
         ELSE /\ script' = [script EXCEPT ![pid] = "reaped"]
              /\ pid' = NoPid

abortLogUpload(c) == /\ pc[c] \in {"abort", "replace"} /\ MutexFree
                     /\ Abort
                     /\ pc' = [pc EXCEPT ![c] = IF @ = "replace" THEN "start" ELSE "idle"]
                     /\ UNCHANGED <<bus, waiting, raced, calls>>

AbortCall == Enter("api", "abort")

(* logUploadAsync gives no process when the script or its settings are     *)
(* missing, or when fork fails.  A child whose execve fails exits at once, *)
(* see Die.                                                                *)
logUploadAsync(k) == IF k = NoPid THEN UNCHANGED script
                     ELSE script[k] = "none" /\ script' = [script EXCEPT ![k] = "running"]

Start(c) == /\ pc[c] = "start" /\ MutexFree
            /\ \E k \in Scripts \cup {NoPid} : logUploadAsync(k) /\ pid' = k
            /\ pc' = [pc EXCEPT ![c] = "idle"]
            /\ raced' = (raced \/ \E d \in Uploaders \ {c} : pc[d] \in {"start", "replace"})
            /\ UNCHANGED <<bus, waiting, calls>>

-----------------------------------------------------------------------------
(* The script sends its result and then exits, or it ends without a report:*)
(* it dies, or the child never became the script (_Exit(127) after execve).*)
Report(k) == /\ script[k] = "running"
             /\ script' = [script EXCEPT ![k] = "reported"]
             /\ bus' = Append(bus, k)
             /\ UNCHANGED <<pid, waiting, pc, raced, calls>>

Exit(k) == /\ script[k] = "reported"
           /\ script' = [script EXCEPT ![k] = "exited"]
           /\ UNCHANGED <<pid, bus, waiting, pc, raced, calls>>

Die(k) == /\ script[k] = "running"
          /\ script' = [script EXCEPT ![k] = "silent"]
          /\ UNCHANGED <<pid, bus, waiting, pc, raced, calls>>

(* onLogUpload: a report counts for whatever script is recorded, and is    *)
(* dropped when none is.                                                   *)
Deliver == /\ bus # <<>> /\ MutexFree
           /\ bus' = Tail(bus)
           /\ waiting' = pid
           /\ UNCHANGED <<pid, script, pc, raced, calls>>

(* as Collect below, but the mutex stays locked *)
CollectAndKeep == /\ waiting # NoPid /\ script[waiting] \in {"exited", "silent"}
                  /\ script' = [script EXCEPT ![waiting] = "reaped"]
                  /\ pid' = NoPid
                  /\ UNCHANGED <<bus, waiting, pc, raced, calls>>

Collect == /\ waiting # NoPid /\ script[waiting] \in {"exited", "silent"}
           /\ script' = [script EXCEPT ![waiting] = "reaped"]
           /\ pid' = NoPid /\ waiting' = NoPid
           /\ UNCHANGED <<bus, pc, raced, calls>>

onLogUpload == Deliver \/ Collect

Next == \/ \E c \in Uploaders : abortLogUpload(c) \/ Start(c)
        \/ uploadLogsAsync("api") \/ AbortCall
        \/ onSystemPowerStateChanged
        \/ \E k \in Scripts : Report(k) \/ Exit(k) \/ Die(k)
        \/ onLogUpload

(* Scripts end, with or without a report, the bus delivers, calls go on. *)
Progress == onLogUpload \/ \E k \in Scripts : Report(k) \/ Exit(k) \/ Die(k)
Fairness == /\ WF_vars(Progress)
            /\ \A c \in Uploaders : WF_vars(abortLogUpload(c) \/ Start(c))

Spec == Init /\ [][Next]_vars /\ Fairness

-----------------------------------------------------------------------------
(* The recorded process is one of ours that nobody has collected, so that  *)
(* kill and waitpid never hit a number the system has given to another     *)
(* process; and a script that is not collected is the recorded one, unless *)
(* two uploads overlapped between the section that reads the number and    *)
(* the one that writes it (uploadLogsAsync 3345-3356).                     *)
ScriptIsRecorded ==
  /\ pid # NoPid => script[pid] \in Uncollected
  /\ ~raced => \A k \in Scripts : script[k] \in Uncollected => k = pid

(* A recorded upload comes to its end, by report or by abort, and the      *)
(* mutex is free again, although reports of scripts that were aborted      *)
(* arrive while another one runs (onLogUpload waits for that one with the  *)
(* mutex held, 2850); only a script that ended without a report stays      *)
(* recorded until a caller aborts or replaces it (uploadlogs.cpp 160-166). *)
UploadEnds ==
  pid # NoPid ~> /\ MutexFree
                 /\ pid # NoPid => script[pid] = "silent"
=============================================================================
