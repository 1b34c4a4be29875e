------------------------------ MODULE MCPayroll ------------------------------
(* Instances of PayrollBatches for TLC. *)
EXTENDS PayrollBatches, TLC

\* Employees are interchangeable: every constant treats them alike.
EmployeeSymmetry == Permutations(Employees)

\* So are the slots that requests run in.
RequestSymmetry == Permutations(Requests)

\* The cron fires every night, and not every one of its sweeps fails.
CronFairness ==
    LET rest == <<payrollVars, ikiminaVars>> IN
    WF_vars(FindExpired /\ UNCHANGED rest) /\ SF_vars(PauseExpired /\ UNCHANGED rest)

FairSpec == Spec /\ CronFairness

=============================================================================
