------------------------------ MODULE Earnings ------------------------------
(***************************************************************************)
(* What a payroll item says: calculateEmployeePayroll of payroll.service,  *)
(* from a payment structure, a month of attendance and the configured      *)
(* levies, and the PAYE preview of the payment-structures controller.      *)
(*                                                                         *)
(* The code computes with floating-point numbers and prorates by dividing  *)
(* by the expected working days, W.  The model computes exactly: its unit  *)
(* is 1/(100 W) of a cent, so percentages and prorated parts are whole.    *)
(***************************************************************************)
EXTENDS Integers

CONSTANTS
    Slips,       \* the months that are computed, before anybody came to work
    MaxPresent,  \* days of presence recorded in the period
    Grosses,     \* salaries the PAYE preview is asked about
    NoValue      \* a value that is not given

\* Amounts and rates are entered in cents and whole percents.  Negative amounts, which the
\* request classes do not refuse (IsDecimal), are left out.
Slip == [freq: {"MONTHLY", "DAILY", "CUSTOM"}, rate: Nat, period: Nat, contract: Nat \cup {NoValue},
         workDays: Nat \cup {NoValue}, present: Nat, overtime: Nat, allowance: Nat, percent: Nat,
         pit: Nat, fixed: Nat, override: Nat \cup {NoValue}]

ASSUME EarningsAssumption ==
    Slips \subseteq Slip /\ Grosses \subseteq Nat /\ NoValue \notin Nat /\ MaxPresent \in Nat

VARIABLES
    slip,   \* inputs of one employee's item
    gross   \* salary of the PAYE preview

earningsVars == <<slip, gross>>

MonthlyWorkDays == 22
MaxOf(a, b) == IF a >= b THEN a ELSE b
MinOf(a, b) == IF a <= b THEN a ELSE b
Less(a, b) == MaxOf(0, a - b)

EarningsInit == slip \in Slips /\ gross \in Grosses

(***************************************************************************)
(* The days                                                                *)
(***************************************************************************)
\* A value in the request wins; a daily or fixed-term contract with dates counts its own
\* days; never less than one.
ExpectedWorkDays(s) ==
    LET configured == IF s.freq = "MONTHLY" THEN MonthlyWorkDays ELSE s.period
        contract == IF s.freq # "MONTHLY" /\ s.contract # NoValue THEN s.contract ELSE configured
    IN
    MaxOf(1, IF s.workDays # NoValue THEN s.workDays ELSE contract)

SalaryPresentDays(s) == IF s.freq = "MONTHLY" THEN MinOf(s.present, ExpectedWorkDays(s)) ELSE s.present

AbsentDays(s) == Less(ExpectedWorkDays(s), SalaryPresentDays(s))

\* toFixed(2), in cents, of a salary in cents.
CalculateMonthlyDailyRate(salary, days) == (2 * salary + days) \div (2 * days)

\* The structure's daily rate was computed from the salary when it was saved.
DailyRate(s) ==
    IF s.freq # "MONTHLY" THEN s.rate
    ELSE LET stored == CalculateMonthlyDailyRate(s.rate, MonthlyWorkDays) IN
         IF stored # 0 THEN stored ELSE CalculateMonthlyDailyRate(s.rate, ExpectedWorkDays(s))

(***************************************************************************)
(* The amounts                                                             *)
(***************************************************************************)
Whole(s, cents) == cents * 100 * ExpectedWorkDays(s)
Prorated(s, cents) == cents * 100 * SalaryPresentDays(s)
ProratedShare(s, cents, percent) == cents * percent * SalaryPresentDays(s)

\* calculateConfiguredDeductions: a percentage of the full base and a fixed amount, prorated.
Configured(s, fullBase) == ProratedShare(s, fullBase, s.percent) + Prorated(s, s.fixed)

\* The full salary, less a line for the days of absence; income tax on the basic salary.
MonthlyItem(s) ==
    LET base == Whole(s, s.rate)
        allowance == Prorated(s, s.allowance)
        overtime == Whole(s, s.overtime)
        deductions == ProratedShare(s, s.rate, s.pit) + Configured(s, s.rate)
                          + Whole(s, AbsentDays(s) * DailyRate(s))
    IN
    [gross |-> base + allowance + overtime, deductions |-> deductions,
     net |-> Less(base + allowance + overtime, deductions)]

\* DAILY and CUSTOM, more than 21 days present.
LongItem(s) ==
    LET fullBase == s.rate * ExpectedWorkDays(s)
        earned == Prorated(s, fullBase) + Prorated(s, s.allowance) + Whole(s, s.overtime)
    IN
    [gross |-> earned, deductions |-> Configured(s, fullBase), net |-> Less(earned, Configured(s, fullBase))]

\* DAILY and CUSTOM, up to 21 days: no allowance and no deduction; only here does the
\* base_amount of an override reach the item.
ShortItem(s) ==
    LET base == IF s.override # NoValue THEN s.override ELSE s.rate * s.present
        earned == Whole(s, base) + Whole(s, s.overtime)
    IN
    [gross |-> earned, deductions |-> 0, net |-> earned]

IsOver21Days_Inclusive(s) == s.present >= 21  \* mutant
IsOver21Days(s) == s.present > 21

Item(s) ==
    CASE s.freq = "MONTHLY" -> MonthlyItem(s)
      [] s.freq # "MONTHLY" /\ IsOver21Days(s) -> LongItem(s)
      [] OTHER -> ShortItem(s)

(***************************************************************************)
(* The PAYE preview                                                        *)
(***************************************************************************)
\* Math.round of tenths.
Rounded(tenths) == (tenths + 5) \div 10

CalculateRwandaPaye_KeepFirst(g) ==  \* mutant
    LET r1 == Less(g, 60000) IN
    IF r1 <= 40000 THEN Rounded(r1) ELSE Rounded(40000 + 2 * MinOf(r1, 100000) + 3 * Less(r1, 100000))
\* calculateRwandaPaye takes one bracket after the other off what remains.
CalculateRwandaPaye(g) ==
    LET r1 == Less(g, 60000)
        r2 == Less(r1, 40000)
        r3 == Less(r2, 100000)
    IN
    CASE g <= 60000 -> 0
      [] g > 60000 /\ r1 <= 40000 -> Rounded(r1)
      [] r1 > 40000 /\ r2 <= 100000 -> Rounded(40000 + 2 * r2)
      [] OTHER -> Rounded(40000 + 2 * 100000 + 3 * r3)

(***************************************************************************)
(* Steps: another day is recorded, or a higher salary is tried.            *)
(***************************************************************************)
MarkPresent ==
    /\ slip.present < MaxPresent
    /\ slip' = [slip EXCEPT !.present = @ + 1]
    /\ UNCHANGED gross

PreviewMore == gross' \in Grosses /\ gross' > gross /\ UNCHANGED slip

EarningsSpec == EarningsInit /\ [][MarkPresent \/ PreviewMore]_earningsVars

(***************************************************************************)
(* Properties                                                              *)
(***************************************************************************)
\* Somebody on a monthly salary who never came is paid nothing but what rounding the daily
\* rate to cents leaves over: at most half a cent for each of the 22 days.  It takes the
\* usual working days; a request for fewer leaves a part of the salary to the absent.
NoShowIsPaidNothing ==
    (slip.present = 0 /\ slip.freq = "MONTHLY" /\ slip.workDays = NoValue) =>
        Item(slip).net <= Whole(slip, slip.overtime + MonthlyWorkDays \div 2)

\* Coming one more day never lowers the pay, as long as the levies of a day are below its
\* pay and a month is not taken for fewer than 22 days; the one place where it may is the 22nd day of a daily or fixed-term employee, from
\* which on deductions apply.  A cent is left to the rounding of the daily rate.
PresenceNeverCosts ==
    [][ LET fullBase == IF slip.freq = "MONTHLY" THEN slip.rate ELSE slip.rate * ExpectedWorkDays(slip)
            levies == fullBase * (slip.percent + slip.pit) + 100 * slip.fixed
        IN
        /\ levies <= 100 * (fullBase + slip.allowance)
        /\ IF slip.freq = "MONTHLY" THEN ExpectedWorkDays(slip) >= MonthlyWorkDays ELSE slip'.present # 22
        => Item(slip').net + Whole(slip, 1) >= Item(slip).net ]_slip

\* The preview's tax is the sum over the brackets of the rate times the part of the salary
\* that lies in the bracket, rounded once.
PayeFollowsBrackets ==
    LET part(from, to) == Less(MinOf(gross, to), from) IN
    CalculateRwandaPaye(gross) = Rounded(part(60000, 100000) + 2 * part(100000, 200000) + 3 * Less(gross, 200000))

\* Pay at the edges: nothing for somebody who never came, and the tax of each
\* bracket up to and past its bounds.
EarningsSound == NoShowIsPaidNothing /\ PayeFollowsBrackets

=============================================================================
