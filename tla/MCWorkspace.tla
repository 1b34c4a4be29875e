---------------------------- MODULE MCWorkspace -----------------------------
(***************************************************************************)
(* The workspace for TLC: somebody with a baseline role and one key more   *)
(* or less, who does one thing at a time; somebody with a custom role      *)
(* whose keys change while handlers run; or the charts of the dashboard.   *)
(***************************************************************************)
EXTENDS Workspace, Charts

VARIABLE focus

vars == <<workspaceVars, chartVars, focus>>

Baselines ==
    {[role |-> "BRANCH_MANAGER", keys |-> BranchManagerKeys], [role |-> "CUSTOM", keys |-> {}]}
      \cup {[role |-> r, keys |-> StaffKeys[r]] : r \in DOMAIN StaffKeys}

\* The keys of a SUPER_ADMIN are not looked at.
Variants ==
    {[role |-> "SUPER_ADMIN", keys |-> {}]} \cup Baselines
      \cup {[b EXCEPT !.keys = IF k \in @ THEN @ \ {k} ELSE @ \cup {k}] :
              b \in Baselines, k \in AllPermissionKeys}

CustomRole ==
    [role |-> "CUSTOM",
     keys |-> {"users.read", "users.approve", "payroll.create", "ikimina.manage"}]

AnyOf(S) == CHOOSE x \in S : TRUE

Init ==
    /\ focus \in {"roles", "changes", "charts"}
    /\ WorkspaceInit(IF focus = "roles" THEN Variants ELSE {CustomRole})
    /\ ChartsInit
    /\ focus # "charts" => viewer = AnyOf(Viewers) /\ filter = AnyOf(Filters)

Next ==
    /\ UNCHANGED focus
    /\ \/ focus = "roles" /\ (HandlerStep \/ (Quiet /\ PersonStep)) /\ UNCHANGED chartVars
       \/ focus = "changes" /\ (HandlerStep \/ PersonStep \/ FailStep \/ AccessStep)
            /\ UNCHANGED chartVars
       \/ focus = "charts" /\ ChartStep /\ UNCHANGED workspaceVars

\* Fairness is only asked for where keys change.
Fairness ==
    /\ \A s \in Slots : WF_workspaceVars(focus = "changes" /\ Progress(s))
    /\ WF_workspaceVars(focus = "changes" /\ CatchUp)

Spec == Init /\ [][Next]_vars /\ Fairness

\* RevokedPageIsLeft, where keys change: a page whose key is taken away is left.
RevokedPageLeft == focus = "changes" => RevokedPageIsLeft

\* HandlersEnd, where keys change and requests fail: no page loads for ever.
NothingLoadsForEver == focus = "changes" => HandlersEnd

=============================================================================
