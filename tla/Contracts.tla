----------------------------- MODULE Contracts -----------------------------
(***************************************************************************)
(* Employment status and contract end                                      *)
(* (backend/src/employees/employees.service.ts): suspend, reactivate, the  *)
(* contract dates that update writes, and autoPauseExpiredContracts, which *)
(* runs from the nightly cron and at the start of createBatch.  The sweep  *)
(* finds the expired employees first and pauses them in a transaction      *)
(* later: Find and Commit.                                                 *)
(***************************************************************************)
EXTENDS Workforce

VARIABLES
    staff,  \* employees: status, and whether contract_end_date has passed
    sweep   \* the employees a running sweep has found; {} when none runs

contractVars == <<staff, sweep>>

StaffStatus == {"ACTIVE", "PAUSED", "SUSPENDED"}

\* Every employee has a status of the schema and a sweep holds employees.
ContractsTypeOK ==
    /\ staff \in [Employees -> [status : StaffStatus, ended : BOOLEAN]]
    /\ sweep \subseteq Contracted

ContractsInit ==
    /\ staff = [e \in Employees |-> [status |-> "ACTIVE", ended |-> FALSE]]
    /\ sweep = {}

\* Mutant: only employees still on their contract are matched (lt becomes gte).
Expired_Inverted == {e \in Contracted : staff[e].status = "ACTIVE" /\ ~ staff[e].ended}

\* Whom autoPauseExpiredContracts selects.
Expired == {e \in Contracted : staff[e].status = "ACTIVE" /\ staff[e].ended}

\* The employees table once a sweep that found emps has committed.
Paused(emps) ==
    [e \in Employees |-> IF e \in emps THEN [staff[e] EXCEPT !.status = "PAUSED"]
                         ELSE staff[e]]

-----------------------------------------------------------------------------
\* The contract end date goes by.
ContractEnds(e) ==
    /\ ~ staff[e].ended
    /\ staff' = [staff EXCEPT ![e].ended = TRUE]
    /\ UNCHANGED sweep

\* update writes new contract dates; it leaves the status as it is.
RenewContract(e) ==
    /\ staff[e].ended
    /\ staff' = [staff EXCEPT ![e].ended = FALSE]
    /\ UNCHANGED sweep

\* suspend and reactivate: no status is ruled out.
ChangeStatus(e, status) ==
    /\ staff[e].status # status
    /\ staff' = [staff EXCEPT ![e].status = status]
    /\ UNCHANGED sweep

FindExpired ==
    /\ sweep = {}
    /\ Expired # {}
    /\ sweep' = Expired
    /\ UNCHANGED staff

PauseExpired ==
    /\ sweep # {}
    /\ staff' = Paused(sweep)
    /\ sweep' = {}

\* The sweep's transaction is rolled back, or the process stops under it.
SweepFails ==
    /\ sweep # {}
    /\ sweep' = {}
    /\ UNCHANGED staff

\* What people and the calendar do, and what the nightly job does.
StaffNext ==
    \E e \in Employees :
      \/ ContractEnds(e)
      \/ RenewContract(e)
      \/ \E s \in {"ACTIVE", "SUSPENDED"} : ChangeStatus(e, s)
CronNext == FindExpired \/ PauseExpired \/ SweepFails

ContractsNext == StaffNext \/ CronNext

\* The cron fires every night, and not every one of its sweeps fails.
ContractsFairness == WF_contractVars(FindExpired) /\ SF_contractVars(PauseExpired)

ContractsSpec == ContractsInit /\ [][ContractsNext]_contractVars /\ ContractsFairness

-----------------------------------------------------------------------------
(* Properties *)

\* The cron's comment: an employee is automatically paused the day after the
\* contract ends; here, unless renewed or suspended first.
EndedIsPaused ==
    \A e \in Contracted :
      (staff[e].status = "ACTIVE" /\ staff[e].ended)
        ~> (staff[e].status # "ACTIVE" \/ ~ staff[e].ended)

=============================================================================
