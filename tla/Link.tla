-------------------------------- MODULE Link --------------------------------
(***************************************************************************)
(* What every protocol client promises about its connection, whatever the  *)
(* protocol: the abstract specification that SourceClient and MqttClient   *)
(* implement and on which PLCGo is built.                                  *)
(*                                                                         *)
(* Between two calls the status changes only because of what was begun     *)
(* before (late).  A link that is being tried has something left that will *)
(* try it again (hope), unless the client has given up and somebody was    *)
(* told so (abandoned).  Neither hope nor lateness comes out of nothing.   *)
(***************************************************************************)
EXTENDS Naturals

VARIABLES
    status,    \* "down", "trying" or "up"
    hope,      \* a retry is under way
    late,      \* something is under way that no longer looks at the status
    abandoned, \* the client has given up: an error was returned instead
    connects,  \* how often Connect was called
    disconnects \* how often Disconnect was called

outcome == <<status, hope, late, abandoned>>
calls == <<connects, disconnects>>
vars == <<outcome, calls>>

Statuses == {"down", "trying", "up"}

TypeOK ==
    /\ status \in Statuses
    /\ hope \in BOOLEAN /\ late \in BOOLEAN /\ abandoned \in BOOLEAN
    /\ connects \in Nat /\ disconnects \in Nat

Promise == status = "trying" => hope \/ abandoned

Init ==
    /\ status = "down" /\ ~hope /\ ~late /\ ~abandoned
    /\ connects = 0 /\ disconnects = 0

-----------------------------------------------------------------------------
\* A call of Connect finds the link up, makes it, or leaves it to be tried.
Connect ==
    /\ connects' = connects + 1
    /\ status' \in {"trying", "up"}
    /\ hope' \in BOOLEAN /\ late' \in BOOLEAN /\ abandoned' \in BOOLEAN
    /\ Promise'
    /\ UNCHANGED disconnects

\* What was begun earlier ends, whatever the status is by now.
Finish ==
    /\ late
    /\ status' \in Statuses
    /\ hope' \in BOOLEAN /\ late' \in BOOLEAN /\ abandoned' \in BOOLEAN
    /\ Promise'
    /\ UNCHANGED calls

\* A retry sees that the link is still to be tried, and goes ahead.
Look ==
    /\ hope /\ status = "trying"
    /\ late' = TRUE
    /\ UNCHANGED <<status, hope, abandoned, calls>>

\* What is under way may cease, and nothing comes instead.
Ceases ==
    /\ hope' \in BOOLEAN /\ (hope' => hope)
    /\ late' \in BOOLEAN /\ (late' => late)

\* A retry gives up, because there is nothing to try any more.
Expire ==
    /\ Ceases
    /\ Promise'
    /\ UNCHANGED <<status, abandoned, calls>>

\* Disconnect takes the link down, or fails and says so.
Disconnect ==
    /\ disconnects' = disconnects + 1
    /\ Ceases
    /\ \/ status' = "down" /\ UNCHANGED abandoned
       \/ abandoned' = TRUE /\ UNCHANGED status
    /\ UNCHANGED connects

Next == Connect \/ Finish \/ Look \/ Expire \/ Disconnect

Spec == Init /\ [][Next]_vars
=============================================================================
