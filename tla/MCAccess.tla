------------------------------ MODULE MCAccess ------------------------------
(***************************************************************************)
(* Access and Tab for TLC: either roles and their cached lists change, and *)
(* no tab is open, or a tab is open and the grants of its user change.     *)
(***************************************************************************)
EXTENDS Tab

VARIABLE focus

vars == <<accessVars, tabVars, focus>>

Init ==
    /\ focus \in {"roles", "tab"}
    /\ AccessInit
    /\ focus = "tab" => inTurn
    /\ TabInit

Next ==
    /\ UNCHANGED focus
    /\ \/ focus = "roles" /\ RoleStep /\ UNCHANGED tabVars
       \/ focus = "tab" /\ GrantStep /\ UNCHANGED tabVars
       \/ focus = "tab" /\ TabNext

Spec == Init /\ [][Next]_vars /\ TabFairness

\* As TabCatchesUp, for the behaviours in which a tab is open.
OpenTabCatchesUp == focus = "tab" => TabCatchesUp

=============================================================================
