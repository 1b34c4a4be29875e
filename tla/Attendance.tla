----------------------------- MODULE Attendance -----------------------------
(***************************************************************************)
(* Attendance: the time_records table, the requests that write it, the     *)
(* list of missing days, and the spreadsheet import of the attendance      *)
(* page, which reads the filled template, compares it with what is stored  *)
(* and sends only the cells that differ (time-records.service.ts and       *)
(* attendance/page.tsx of the frontend).                                   *)
(*                                                                         *)
(* A request that reads a record and writes it later is two steps; the     *)
(* import is three: the file is read, the stored records are fetched and   *)
(* compared, the server stores the rest.  Of the order of what is sent     *)
(* only this matters: the cells of a row are of different days, and of two *)
(* rows for one employee the lower one is stored last.  Fields marked      *)
(* ghost are history kept for the properties only.                         *)
(***************************************************************************)
EXTENDS Workforce, Sequences

CONSTANTS
    LastDate,   \* the dates are 1..LastDate
    Hours,      \* overtime hours that are entered
    Absence,    \* no record, no value entered, an empty cell
    Rows,       \* rows a person may type into the template
    Writers,    \* requests of other users in flight
    MaxEdits    \* bound on the requests of other users

ASSUME AttendanceAssumption ==
    /\ LastDate \in Nat /\ MaxEdits \in Nat
    /\ 0 \in Hours /\ Hours \subseteq Nat
    /\ Rows \subseteq [emp: Employees, hours: Hours \cup {Absence}, mark: {"P", "A", "?", Absence},
                       cells: [1..LastDate -> {"P", "A", "?", Absence}]]

VARIABLES
    place,    \* working location and department of each employee
    office,   \* what the person at the attendance page is
    records,  \* time_records: one per employee and date, or Absence
    writer,   \* requests of other users
    edits,    \* requests of other users so far
    file,     \* the filled template
    upload,   \* where the import of the file is
    pending   \* the last list of missing days that was asked for

attendanceVars == <<place, office, records, writer, edits, file, upload, pending>>

Dates == 1..LastDate
Statuses == {"PRESENT", "ABSENT"}
Record == [status: Statuses, hours: Hours, approved: BOOLEAN, mixed: BOOLEAN]
WIdle == [pc |-> "idle"]

\* A log of an import request, with the row of the file it comes from; the browser leaves
\* overtime_hours out when there is none.
Entry == [row: Nat, emp: Employees, date: Dates, status: Statuses, hours: Hours \cup {Absence}]

\* No value is none of the values.
ASSUME AbsenceAssumption ==
    /\ Absence \notin Hours /\ Absence \notin Statuses /\ Absence \notin {"P", "A", "?"}
    /\ Absence \notin Record
    /\ \A start, end \in Dates, missing \in SUBSET (Employees \X Dates) :
          Absence # [start |-> start, end |-> end, missing |-> missing]

NormalizeHours_AnyDay(status, hours) == IF hours = Absence THEN 0 ELSE hours  \* mutant
\* normalizeHours: nobody works overtime on a day of absence; a missing value is zero.
NormalizeHours(status, hours) == IF status = "ABSENT" \/ hours = Absence THEN 0 ELSE hours

\* ensureActorCanAccessEmployee: an administrator everywhere, a manager or HR in the
\* working location, everybody else in the department.
CanAccess(e) ==
    \/ office = "admin"
    \/ place[e].location = "here" /\ (office = "manager" \/ place[e].department = "own")

AttendanceInit ==
    /\ place \in [Employees -> {[location |-> "here", department |-> "own"],
                                [location |-> "here", department |-> "other"],
                                [location |-> "away", department |-> "other"]}]
    /\ office \in {"admin", "manager", "staff"}
    /\ records = [e \in Employees |-> [d \in Dates |-> Absence]]
    /\ writer = [w \in Writers |-> WIdle]
    /\ edits = 0
    /\ file \in {<<r>> : r \in Rows} \cup {<<r, s>> : r, s \in Rows}
    /\ upload = [pc |-> "idle", send |-> {}, stale |-> FALSE, settled |-> FALSE]
    /\ pending = Absence

(***************************************************************************)
(* Requests of other users                                                 *)
(***************************************************************************)
\* Every write by another user makes what the import compared with out of date.
Overtaken == upload' = [upload EXCEPT !.stale = TRUE, !.settled = FALSE]

\* A request in flight that has read one of these records has read an old one.
Crossed(cells) ==
    [w \in Writers |->
        IF writer[w].pc = "update" /\ <<writer[w].emp, writer[w].date>> \in cells
        THEN [writer[w] EXCEPT !.crossed = TRUE] ELSE writer[w]]

\* create looks for a record of the day before it opens its transaction.
BeginCreate(w, e, d, status, hours) ==
    /\ writer[w].pc = "idle" /\ edits < MaxEdits
    /\ records[e][d] = Absence
    /\ writer' = [writer EXCEPT ![w] = [pc |-> "create", emp |-> e, date |-> d,
                                        status |-> status, hours |-> NormalizeHours(status, hours)]]
    /\ edits' = edits + 1
    /\ UNCHANGED <<place, office, records, file, upload, pending>>

\* The unique key of employee and date refuses the second of two requests that both saw none.
CommitCreate(w) ==
    LET t == writer[w] IN
    /\ t.pc = "create"
    /\ writer' = [writer EXCEPT ![w] = WIdle]
    /\ IF records[t.emp][t.date] # Absence
       THEN UNCHANGED <<records, upload>>
       ELSE /\ records' = [records EXCEPT ![t.emp][t.date] =
                              [status |-> t.status, hours |-> t.hours, approved |-> FALSE, mixed |-> FALSE]]
            /\ Overtaken
    /\ UNCHANGED <<place, office, edits, file, pending>>

\* update computes the hours from the status it read, when the request brings none.
BeginUpdateRecord(w, e, d, status, hours) ==
    LET rec == records[e][d]
        resolved == IF status = Absence THEN rec.status ELSE status
    IN
    /\ writer[w].pc = "idle" /\ edits < MaxEdits
    /\ rec # Absence
    /\ writer' = [writer EXCEPT ![w] =
           [pc |-> "update", emp |-> e, date |-> d, status |-> status, crossed |-> FALSE,
            hours |-> NormalizeHours(resolved, IF hours = Absence THEN rec.hours ELSE hours)]]
    /\ edits' = edits + 1
    /\ UNCHANGED <<place, office, records, file, upload, pending>>

\* The hours are always written, the status only when the request brings one.  approved_by
\* stays as it is.  ghost: mixed records that the hours came from a status no longer stored.
Written(rec, t) ==
    [rec EXCEPT !.hours = t.hours, !.status = IF t.status = Absence THEN @ ELSE t.status,
                !.mixed = t.crossed /\ t.status = Absence]

CommitUpdateRecord(w) ==
    LET t == writer[w] IN
    /\ t.pc = "update"
    /\ records' = [records EXCEPT ![t.emp][t.date] = Written(@, t)]
    /\ writer' = [Crossed({<<t.emp, t.date>>}) EXCEPT ![w] = WIdle]
    /\ Overtaken
    /\ UNCHANGED <<place, office, edits, file, pending>>

Approve(e, d) ==
    /\ edits < MaxEdits
    /\ records[e][d] # Absence
    /\ records' = [records EXCEPT ![e][d].approved = TRUE]
    /\ edits' = edits + 1
    /\ UNCHANGED <<place, office, writer, file, upload, pending>>

(***************************************************************************)
(* The import                                                              *)
(***************************************************************************)
\* The symbol of a cell: its own, or the one of the row's row_status column.
Symbol(row, d) == IF row.cells[d] # Absence THEN row.cells[d] ELSE row.mark

\* The overtime of a row goes to its first day of presence, the other days get none.
FirstPresent(row, d) == \A c \in 1..(d - 1) : Symbol(row, c) # "P"

CellHours(row, d) ==
    CASE Symbol(row, d) = "A" \/ row.hours = Absence -> Absence
      [] OTHER -> IF FirstPresent(row, d) THEN row.hours ELSE 0

LogOf(rows, i, d) ==
    [row |-> i, emp |-> rows[i].emp, date |-> d,
     status |-> IF Symbol(rows[i], d) = "P" THEN "PRESENT" ELSE "ABSENT",
     hours |-> CellHours(rows[i], d)]

\* One symbol that is neither P nor A rejects the whole file.
Readable(rows) == \A i \in DOMAIN rows : \A d \in Dates : Symbol(rows[i], d) # "?"

Filled(rows) == {c \in (DOMAIN rows) \X Dates : Symbol(rows[c[1]], c[2]) # Absence}
AllProcessedLogs(rows) == {LogOf(rows, c[1], c[2]) : c \in Filled(rows)}

SameHours_Strict(stored, given) == stored = given  \* mutant
\* For the comparison, null, undefined and blank all mean zero.
SameHours(stored, given) == stored = (IF given = Absence THEN 0 ELSE given)

IsUnchanged(entry) ==
    LET rec == records[entry.emp][entry.date] IN
    /\ CanAccess(entry.emp)
    /\ rec # Absence
    /\ rec.status = entry.status
    /\ SameHours(rec.hours, entry.hours)

ChangedLogs(rows) == {entry \in AllProcessedLogs(rows) : ~IsUnchanged(entry)}

\* handleImportUpload reads the file; it may be uploaded again whenever no import is under way.
ReadFile ==
    /\ upload.pc = "idle"
    /\ Readable(file) /\ AllProcessedLogs(file) # {}
    /\ upload' = [upload EXCEPT !.pc = "fetching"]
    /\ UNCHANGED <<place, office, records, writer, edits, file, pending>>

\* The stored records arrive; nothing is sent when every cell is stored already.
Compare ==
    /\ upload.pc = "fetching"
    /\ LET send == ChangedLogs(file) IN
       upload' = [upload EXCEPT !.pc = IF send = {} THEN "idle" ELSE "sending", !.send = send,
                                !.stale = FALSE, !.settled = @ \/ send = {}]
    /\ UNCHANGED <<place, office, records, writer, edits, file, pending>>

\* The server refuses the whole request for one row it refuses.
RowErrors(entry) == ~CanAccess(entry.emp) \/ (entry.status = "ABSENT" /\ entry.hours \notin {0, Absence})
Accepted(entries) == IF \E entry \in entries : RowErrors(entry) THEN {} ELSE entries

\* upsert: a new record, or the old one with status and hours replaced.
Upsert(old, entry) ==
    LET hours == NormalizeHours(entry.status, entry.hours) IN
    IF old = Absence
    THEN [status |-> entry.status, hours |-> hours, approved |-> FALSE, mixed |-> FALSE]
    ELSE [old EXCEPT !.status = entry.status, !.hours = hours, !.mixed = FALSE]

Cells(entries) == {<<entry.emp, entry.date>> : entry \in entries}

\* Of the logs for one record, the one stored last.
LastFor(entries, e, d) ==
    CHOOSE x \in entries : /\ x.emp = e /\ x.date = d
                           /\ \A y \in entries : y.emp = e /\ y.date = d => y.row <= x.row

\* bulkCreate stores the logs in one transaction, in their order.  The page ends in the same
\* state when the answer is lost: the file may be uploaded again.
BulkCreate ==
    /\ upload.pc = "sending"
    /\ LET entries == Accepted(upload.send) IN
       /\ records' = [e \in Employees |-> [d \in Dates |->
              IF <<e, d>> \in Cells(entries) THEN Upsert(records[e][d], LastFor(entries, e, d))
                                             ELSE records[e][d]]]
       /\ writer' = Crossed(Cells(entries))
       /\ upload' = [pc |-> "idle", send |-> {}, stale |-> upload.stale,
                     settled |-> entries # {} /\ ~upload.stale]
    /\ UNCHANGED <<place, office, edits, file, pending>>

\* The stored records cannot be fetched, or the request does not reach the server.
ImportFails ==
    /\ upload.pc \in {"fetching", "sending"}
    /\ upload' = [upload EXCEPT !.pc = "idle", !.send = {}]
    /\ UNCHANGED <<place, office, records, writer, edits, file, pending>>

(***************************************************************************)
(* The list of missing days                                                *)
(***************************************************************************)
\* enumerateDateKeys: both ends are included.
DateKeys(start, end) == {d \in Dates : start <= d /\ d <= end}

\* findPending: the dates of the period without a record, for each employee in reach.
FindPending(start, end) ==
    /\ start <= end
    /\ pending' = [start |-> start, end |-> end,
                   missing |-> {ed \in {e \in Employees : CanAccess(e)} \X DateKeys(start, end) :
                                  records[ed[1]][ed[2]] = Absence}]
    /\ UNCHANGED <<place, office, records, writer, edits, file, upload>>

ImportStep == ReadFile \/ Compare \/ BulkCreate \/ ImportFails
EditStep ==
    \/ \E w \in Writers, e \in Employees, d \in Dates :
          \/ \E s \in Statuses, h \in Hours \cup {Absence} : BeginCreate(w, e, d, s, h)
          \/ \E s \in Statuses \cup {Absence}, h \in Hours \cup {Absence} : BeginUpdateRecord(w, e, d, s, h)
    \/ \E w \in Writers : CommitCreate(w) \/ CommitUpdateRecord(w)
    \/ \E e \in Employees, d \in Dates : Approve(e, d)
PendingStep == \E s, t \in Dates : FindPending(s, t)

AttendanceSpec == AttendanceInit /\ [][ImportStep \/ EditStep \/ PendingStep]_attendanceVars

(***************************************************************************)
(* Properties                                                              *)
(***************************************************************************)
\* Every variable stays in its range: whatever the import sends, at most one record per
\* employee and date, with a status and a number of hours.
AttendanceTypeOK ==
    /\ records \in [Employees -> [Dates -> Record \cup {Absence}]]
    /\ upload.pc \in {"idle", "fetching", "sending"}
    /\ upload.send \subseteq Entry /\ upload.stale \in BOOLEAN /\ upload.settled \in BOOLEAN
    /\ edits \in 0..MaxEdits
    /\ \A w \in Writers : writer[w].pc \in {"idle", "create", "update"}

\* A day of absence carries no overtime (payroll would pay it: it sums the overtime of every
\* record), however edits, imports and approvals interleave; the one exception is a change of
\* the hours alone that read the record before another request made it an absence.
AbsentHasNoOvertime ==
    \A e \in Employees, d \in Dates :
        LET rec == records[e][d] IN
        rec # Absence /\ rec.status = "ABSENT" => rec.hours = 0 \/ rec.mixed

\* Once an import went through and nobody else wrote meanwhile, every cell of the file is
\* stored as typed, and uploading the file again would send nothing.  A person has one row.
FileIsStored ==
    (upload.settled /\ (\A i, j \in DOMAIN file : file[i].emp = file[j].emp => i = j))
        => /\ ChangedLogs(file) = {}
           /\ \A i \in DOMAIN file : \A d \in {c \in Dates : Symbol(file[i], c) # Absence} :
                 LET rec == records[file[i].emp][d]
                     present == Symbol(file[i], d) = "P"
                     overtime == present /\ FirstPresent(file[i], d) /\ file[i].hours # Absence
                 IN
                 /\ rec.status = IF present THEN "PRESENT" ELSE "ABSENT"
                 /\ rec.hours = IF overtime THEN file[i].hours ELSE 0

\* A day that the list of missing days leaves out has a record, now and for good: no
\* request deletes one, so nobody is asked for it again.
UnlistedIsRecorded ==
    pending # Absence =>
        \A e \in Employees : CanAccess(e) =>
            \A d \in pending.start..pending.end :
                <<e, d>> \in pending.missing \/ records[e][d] # Absence

\* What the attendance page says of its import: "Re-uploading an unchanged file sends
\* nothing at all".  With two rows for one employee it does not hold.
ReuploadSendsNothing == upload.settled => ChangedLogs(file) = {}

\* However edits, imports and lists of missing days interleave, absences carry
\* no overtime and no unrecorded day is left out of a list.
AttendanceSound == AttendanceTypeOK /\ AbsentHasNoOvertime /\ UnlistedIsRecorded

=============================================================================
