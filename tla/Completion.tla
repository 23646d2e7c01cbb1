----------------------------- MODULE Completion -----------------------------
(***************************************************************************)
(* What AckController promises its owner (AckController.h, class comment   *)
(* and the comment of Schedule): one completion handler, invoked once, for *)
(* exactly one reason.  On a dropped session the comments of the class     *)
(* disagree: Schedule's says the handler is invoked with isRevoked, those  *)
(* of the destructor and of revoke that it is not called.  Its only owner  *)
(* is written for the first reading (when isRevoked is set its handler     *)
(* applies nothing and gives back a reference), so this is the promise     *)
(* stated here; that the other one is not kept is the property             *)
(* NotCalledOnceDestroyed of AckController.                                *)
(***************************************************************************)
EXTENDS Naturals

CONSTANT Clients

VARIABLES waiting,  \* clients whose acknowledgement is still expected
          armed,    \* the owner has asked for the completion handler
          result    \* "none" until the handler runs, then why it ran

absVars == <<waiting, armed, result>>

Results == {"none", "allAcked", "immediate", "timeout", "revoked"}

AbsInit ==
    /\ waiting = {}
    /\ armed = FALSE
    /\ result = "none"

(* A client is expected to acknowledge.                                    *)
Expect(c) ==
    /\ ~armed
    /\ waiting' = waiting \cup {c}
    /\ UNCHANGED <<armed, result>>

(* The owner asks for completion: at once, or after acknowledgements.      *)
Arm ==
    /\ ~armed
    /\ armed' = TRUE
    /\ result' \in {"none", "immediate"}
    /\ result' = "none" => waiting # {}
    /\ UNCHANGED waiting

(* An expected acknowledgement arrives; the last one completes.            *)
Confirm(c) ==
    /\ c \in waiting
    /\ waiting' = waiting \ {c}
    /\ result' = IF armed /\ result = "none" /\ waiting' = {}
                 THEN "allAcked" ELSE result
    /\ UNCHANGED armed

(* The timer expires before the last one.                                  *)
GiveUp ==
    /\ armed
    /\ result = "none"
    /\ waiting # {}
    /\ result' = "timeout"
    /\ UNCHANGED <<waiting, armed>>

(* The owner drops the request before the last one: the handler is told so.*)
Drop ==
    /\ armed
    /\ result = "none"
    /\ waiting # {}
    /\ result' = "revoked"
    /\ UNCHANGED <<waiting, armed>>

AbsNext ==
    \/ \E c \in Clients : Expect(c) \/ Confirm(c)
    \/ Arm
    \/ GiveUp
    \/ Drop

AbsSpec == AbsInit /\ [][AbsNext]_absVars
=============================================================================
