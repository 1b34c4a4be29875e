----------------------------- MODULE Workforce -----------------------------
(***************************************************************************)
(* The employees that payroll, contracts and savings all refer to, and how *)
(* often they are paid.                                                    *)
(***************************************************************************)
EXTENDS Integers, FiniteSets

CONSTANTS
    Employees,   \* rows of the employees table
    Monthly,     \* those paid MONTHLY, who may join Ikimina
    Contracted   \* those in a category paid DAILY or CUSTOM

ASSUME WorkforceAssumption ==
    /\ Monthly \subseteq Employees
    /\ Contracted \subseteq Employees

=============================================================================
