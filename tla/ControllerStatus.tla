-------------------------- MODULE ControllerStatus --------------------------
(***************************************************************************)
(* The controller's status call (compute_status in                         *)
(* observer_controller/src/collector_manager.rs) beside registration: it   *)
(* reads the registered and the expected collectors by two messages to the *)
(* collector manager, between which the registry may change.               *)
(***************************************************************************)
EXTENDS Registration

CONSTANTS
    NoQuery

VARIABLES
    online,   \* the assigned collectors the call under way found registered, or NoQuery
    swept     \* history: assigned collectors swept since the controller started

staVars == <<regVars, online, swept>>

\* The call asks for the registered collectors...
StatusCall ==
    /\ ctl_up
    /\ online = NoQuery
    /\ online' = {c \in Assigned : registered[c] # "vacant"}
    /\ UNCHANGED <<regVars, swept>>

\* Mutant: offline is decided by the registry at the time of the answer.
OfflineNow == {c \in expected : registered[c] = "vacant"}

\* ...and then for the expected ones.
Offline == expected \ online

\* The answer is online and Offline.
StatusAnswer ==
    /\ ctl_up
    /\ online # NoQuery
    /\ online' = NoQuery
    /\ UNCHANGED <<regVars, swept>>

\* A step of registration; a crash of the controller ends the call.
RegStep ==
    /\ RegNext
    /\ online' = IF ctl_up' THEN online ELSE NoQuery
    /\ swept' = IF ctl_up' THEN swept \cup {c \in Assigned : registered[c] = "expired"
                                                          /\ registered'[c] = "vacant"}
                ELSE {}

StaInit == RegInit /\ online = NoQuery /\ swept = {}

StaNext == RegStep \/ StatusCall \/ StatusAnswer

StaFairSpec == StaInit /\ [][StaNext]_staVars /\ RegFairness
-----------------------------------------------------------------------------
(* Properties *)

\* Whatever happens between the two reads, the answer accounts for every assigned
\* collector that was not swept since the controller started, as online or offline,
\* never as both. A swept one is in neither list until it is heard again: offline are
\* only those that were never heard.
StatusAccountsForAll ==
    [][StatusAnswer => Offline = Assigned \ (online \cup swept)]_staVars
=============================================================================
