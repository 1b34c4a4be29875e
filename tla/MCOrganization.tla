--------------------------- MODULE MCOrganization ---------------------------
(***************************************************************************)
(* Accounts, Branches and Placement for TLC.  No property relates their    *)
(* states, so a behaviour is one of the first, the second or the third.    *)
(***************************************************************************)
EXTENDS Accounts, Branches, Placement, TLC

VARIABLE focus  \* which of the three moves

vars == <<accountVars, branchVars, placementVars, focus>>

\* Locations are interchangeable.
BranchSymmetry == Permutations(Branch)

AnyOf(S) == CHOOSE x \in S : TRUE

\* The parts that do not move start in one of their initial states.
Init ==
    /\ focus \in {"accounts", "branches", "placement"}
    /\ AccountsInit
    /\ BranchesInit
    /\ PlacementInit
    /\ focus # "accounts" => serial
    /\ focus # "branches" => LET l == AnyOf(Locations) IN loc[l].hq /\ loc[l].name = AnyOf(Names)

Next ==
    \/ focus = "accounts" /\ AccountsNext /\ UNCHANGED <<branchVars, placementVars, focus>>
    \/ focus = "branches" /\ BranchesNext /\ UNCHANGED <<accountVars, placementVars, focus>>
    \/ focus = "placement" /\ PlacementNext /\ UNCHANGED <<accountVars, branchVars, focus>>

Spec == Init /\ [][Next]_vars

=============================================================================
