---------------------------- MODULE Staff_proofs ----------------------------
(***************************************************************************)
(* What is recorded of people and what they earn: attendance, for any      *)
(* employees, dates, template and number of requests in flight; the        *)
(* amounts of a payroll item, for any salary and any levies; the levies    *)
(* themselves, and the terms on which people are employed.                 *)
(***************************************************************************)
EXTENDS Attendance, Earnings, Levies, Hiring, WellFoundedInduction, FiniteSetTheorems, TLAPS

-----------------------------------------------------------------------------
(* Attendance: what requests in flight and the import under way rest on *)

\* What a request has read is still so, unless it is marked as crossed: a new
\* status fits the hours it computed, and so does the stored one.
Creation == [pc: {"create"}, emp: Employees, date: Dates, status: Statuses, hours: Hours]
Change == [pc: {"update"}, emp: Employees, date: Dates, status: Statuses \cup {Absence},
           crossed: BOOLEAN, hours: Hours]

RequestIsSound(t) ==
    \/ t = WIdle
    \/ t \in Creation /\ (t.status = "ABSENT" => t.hours = 0)
    \/ /\ t \in Change /\ records[t.emp][t.date] # Absence
       /\ t.status = "ABSENT" => t.hours = 0
       /\ t.status = Absence /\ ~ t.crossed /\ records[t.emp][t.date].status = "ABSENT" => t.hours = 0

RecordsAreTyped ==
    /\ records \in [Employees -> [Dates -> Record \cup {Absence}]]
    /\ edits \in 0..MaxEdits /\ file \in Seq(Rows)

RequestsAreSound == writer = [w \in Writers |-> writer[w]] /\ \A w \in Writers : RequestIsSound(writer[w])

OneRowEach == \A i, j \in DOMAIN file : file[i].emp = file[j].emp => i = j

\* What an import that nobody overtook is about to send is what differs, and
\* once it is stored nothing differs.
ImportIsSound ==
    /\ upload \in [pc: {"idle", "fetching", "sending"}, send: SUBSET Entry, stale: BOOLEAN, settled: BOOLEAN]
    /\ upload.send \subseteq AllProcessedLogs(file)
    /\ upload.pc # "idle" \/ upload.settled => Readable(file)
    /\ upload.pc = "sending" /\ ~ upload.stale => upload.send = ChangedLogs(file)
    /\ OneRowEach /\ upload.settled => ChangedLogs(file) = {}

ListIsSound ==
    /\ pending # Absence => pending.start \in Dates /\ pending.end \in Dates
    /\ UnlistedIsRecorded

AttendanceInv ==
    RecordsAreTyped /\ AbsentHasNoOvertime /\ RequestsAreSound /\ ImportIsSound /\ ListIsSound

-----------------------------------------------------------------------------
(* Lemmas about records *)

\* A set of numbers up to a bound has a greatest one.
LEMMA GreatestExists ==
    ASSUME NEW n \in Nat, NEW T \in SUBSET (0..n), T # {}
    PROVE  \E m \in T : \A k \in T : k <= m
<1>1. PICK D \in SUBSET Nat : D = {n - k : k \in T}
  <2>1. \A k \in T : k \in Int /\ 0 <= k /\ k <= n
    OBVIOUS
  <2>2. \A k \in T : n - k \in Nat
    BY <2>1
  <2> QED  BY <2>2
<1>2. D # {}
  BY <1>1
<1>3. PICK x \in D : \A y \in D : ~ (<<y, x>> \in OpToRel(<, Nat))
  BY <1>2, NatLessThanWellFounded, WFMin
<1>4. \A y \in D : ~ (y < x)
  BY <1>3 DEF OpToRel
<1>5. PICK m \in T : x = n - m
  BY <1>1
<1>6. ASSUME NEW k \in T PROVE k <= m
  <2>1. n - k \in D
    BY <1>1
  <2>2. ~ (n - k < n - m)
    BY <1>4, <1>5, <2>1
  <2> QED  BY <2>2
<1> QED  BY <1>6

\* A record of which payroll takes no overtime it should not.
Clean(rec) == rec # Absence /\ rec.status = "ABSENT" => rec.hours = 0 \/ rec.mixed

\* Records appear and are written over; none is ever taken away.
RecordsStay ==
    \A e \in Employees, d \in Dates : records[e][d] # Absence => records'[e][d] # Absence

\* Normalised overtime is a number of hours, none for an absence.
LEMMA HoursNormalized ==
    ASSUME NEW status \in Statuses, NEW hours \in Hours \cup {Absence}
    PROVE  /\ NormalizeHours(status, hours) \in Hours
           /\ status = "ABSENT" => NormalizeHours(status, hours) = 0
BY AttendanceAssumption DEF NormalizeHours

\* A record is written.
LEMMA CellWritten ==
    ASSUME RecordsAreTyped, AbsentHasNoOvertime, NEW e \in Employees, NEW d \in Dates,
           NEW v \in Record, Clean(v), records' = [records EXCEPT ![e][d] = v]
    PROVE  /\ records' \in [Employees -> [Dates -> Record \cup {Absence}]]
           /\ AbsentHasNoOvertime' /\ RecordsStay
           /\ records'[e][d] = v
           /\ \A f \in Employees, c \in Dates : <<f, c>> # <<e, d>> => records'[f][c] = records[f][c]
<1>1. records \in [Employees -> [Dates -> Record \cup {Absence}]] /\ v # Absence
  BY AbsenceAssumption DEF RecordsAreTyped
<1>2. records'[e][d] = v
      /\ \A f \in Employees, c \in Dates : <<f, c>> # <<e, d>> => records'[f][c] = records[f][c]
  BY <1>1
<1>3. records' \in [Employees -> [Dates -> Record \cup {Absence}]]
  BY <1>1
<1>4. RecordsStay
  <2> SUFFICES ASSUME NEW f \in Employees, NEW c \in Dates, records[f][c] # Absence
               PROVE  records'[f][c] # Absence
    BY DEF RecordsStay
  <2> QED  BY <1>1, <1>2
<1>5. AbsentHasNoOvertime'
  <2> SUFFICES ASSUME NEW f \in Employees, NEW c \in Dates PROVE Clean(records'[f][c])
    BY DEF AbsentHasNoOvertime, Clean
  <2>1. Clean(records[f][c])
    BY DEF AbsentHasNoOvertime, Clean
  <2> QED  BY <1>2, <2>1
<1> QED  BY <1>2, <1>3, <1>4, <1>5

\* A list that was right stays right while records stay.
LEMMA ListKept ==
    ASSUME ListIsSound, RecordsStay, UNCHANGED <<place, office, pending>>
    PROVE  ListIsSound'
<1>1. pending # Absence => pending.start \in Dates /\ pending.end \in Dates
  BY DEF ListIsSound
<1>2. UnlistedIsRecorded'
  <2> SUFFICES ASSUME pending # Absence, NEW e \in Employees, CanAccess(e),
                      NEW d \in pending.start..pending.end
               PROVE  <<e, d>> \in pending.missing \/ records'[e][d] # Absence
    BY DEF UnlistedIsRecorded, CanAccess
  <2>1. d \in Dates
    BY <1>1, AttendanceAssumption DEF Dates
  <2>2. <<e, d>> \in pending.missing \/ records[e][d] # Absence
    BY DEF ListIsSound, UnlistedIsRecorded
  <2> QED  BY <2>1, <2>2 DEF RecordsStay
<1> QED  BY <1>1, <1>2 DEF ListIsSound

\* What differs is the same while status and hours of every record are.
LEMMA DifferencesKept ==
    ASSUME UNCHANGED <<place, office, file>>,
           \A e \in Employees, d \in Dates :
              /\ records'[e][d] = Absence <=> records[e][d] = Absence
              /\ records[e][d] # Absence => /\ records'[e][d].status = records[e][d].status
                                            /\ records'[e][d].hours = records[e][d].hours,
           AllProcessedLogs(file) \subseteq Entry
    PROVE  ChangedLogs(file)' = ChangedLogs(file)
<1>1. AllProcessedLogs(file)' = AllProcessedLogs(file)
  BY DEF AllProcessedLogs, Filled, LogOf, Symbol, CellHours, FirstPresent
<1>2. ASSUME NEW x \in Entry PROVE IsUnchanged(x)' <=> IsUnchanged(x)
  <2>1. x.emp \in Employees /\ x.date \in Dates
    BY DEF Entry
  <2> QED  BY <2>1 DEF IsUnchanged, CanAccess, SameHours
<1> QED  BY <1>1, <1>2 DEF ChangedLogs

-----------------------------------------------------------------------------
(* Lemmas about the file *)

\* A row of the file names an employee, hours and symbols.
LEMMA RowsTyped ==
    ASSUME RecordsAreTyped, NEW i \in DOMAIN file
    PROVE  /\ i \in Nat /\ file[i].emp \in Employees /\ file[i].hours \in Hours \cup {Absence}
           /\ \A d \in Dates : Symbol(file[i], d) \in {"P", "A", "?", Absence}
<1>1. file \in Seq(Rows) /\ i \in 1..Len(file) /\ i \in Nat
  BY DEF RecordsAreTyped
<1>2. file[i] \in Rows
  BY <1>1
<1>3. file[i] \in [emp: Employees, hours: Hours \cup {Absence}, mark: {"P", "A", "?", Absence},
                   cells: [1..LastDate -> {"P", "A", "?", Absence}]]
  BY <1>2, AttendanceAssumption
<1> QED  BY <1>1, <1>3 DEF Symbol, Dates

\* The log of a cell says what the cell says.
LEMMA LogTyped ==
    ASSUME RecordsAreTyped, NEW i \in DOMAIN file, NEW d \in Dates
    PROVE  /\ LogOf(file, i, d) \in Entry
           /\ LogOf(file, i, d).row = i /\ LogOf(file, i, d).emp = file[i].emp
           /\ LogOf(file, i, d).date = d
           /\ LogOf(file, i, d).status = IF Symbol(file[i], d) = "P" THEN "PRESENT" ELSE "ABSENT"
           /\ LogOf(file, i, d).hours = CellHours(file[i], d)
<1>1. i \in Nat /\ file[i].emp \in Employees /\ file[i].hours \in Hours \cup {Absence}
  BY RowsTyped
<1>2. CellHours(file[i], d) \in Hours \cup {Absence}
  BY <1>1, AttendanceAssumption DEF CellHours
<1> QED  BY <1>1, <1>2 DEF LogOf, Entry, Statuses

\* The file is turned into entries.
LEMMA LogsTyped ==
    ASSUME RecordsAreTyped
    PROVE  AllProcessedLogs(file) \subseteq Entry /\ ChangedLogs(file) \subseteq Entry
<1>1. \A c \in Filled(file) : c[1] \in DOMAIN file /\ c[2] \in Dates
  BY DEF Filled
<1> QED  BY <1>1, LogTyped DEF AllProcessedLogs, ChangedLogs

\* An absence has no hours in a file that can be read.
LEMMA LogFits ==
    ASSUME RecordsAreTyped, Readable(file), NEW i \in DOMAIN file, NEW d \in Dates,
           Symbol(file[i], d) # Absence
    PROVE  /\ Symbol(file[i], d) \in {"P", "A"}
           /\ Symbol(file[i], d) = "A" => CellHours(file[i], d) = Absence
           /\ Symbol(file[i], d) = "P" =>
                CellHours(file[i], d) = IF file[i].hours = Absence THEN Absence
                                        ELSE IF FirstPresent(file[i], d) THEN file[i].hours ELSE 0
<1>1. Symbol(file[i], d) \in {"P", "A"}
  BY RowsTyped DEF Readable
<1> QED  BY <1>1 DEF CellHours

-----------------------------------------------------------------------------
(* The import under way, as others write *)

\* What a file means depends on the file only.
LEMMA FileKept ==
    ASSUME UNCHANGED file
    PROVE  /\ Readable(file)' <=> Readable(file)
           /\ AllProcessedLogs(file)' = AllProcessedLogs(file)
BY DEF Readable, AllProcessedLogs, Filled, LogOf, Symbol, CellHours, FirstPresent

\* Another user wrote: what was compared is out of date.
LEMMA ImportOvertaken ==
    ASSUME ImportIsSound, Overtaken, UNCHANGED file
    PROVE  ImportIsSound'
<1>1. /\ upload' \in [pc: {"idle", "fetching", "sending"}, send: SUBSET Entry, stale: BOOLEAN, settled: BOOLEAN]
      /\ upload'.pc = upload.pc /\ upload'.send = upload.send /\ upload'.stale = TRUE /\ upload'.settled = FALSE
  BY DEF ImportIsSound, Overtaken
<1>2. (Readable(file)' <=> Readable(file)) /\ AllProcessedLogs(file)' = AllProcessedLogs(file)
  BY FileKept
<1> QED  BY <1>1, <1>2 DEF ImportIsSound

\* Nothing the import looks at changed.
LEMMA ImportKept ==
    ASSUME ImportIsSound, UNCHANGED <<upload, file>>, ChangedLogs(file)' = ChangedLogs(file)
    PROVE  ImportIsSound'
<1>1. (Readable(file)' <=> Readable(file)) /\ AllProcessedLogs(file)' = AllProcessedLogs(file)
  BY FileKept
<1>2. OneRowEach' <=> OneRowEach
  BY DEF OneRowEach
<1> QED  BY <1>1, <1>2 DEF ImportIsSound

\* A step that leaves records, places and file alone leaves the changes to send alone.
LEMMA RecordsSame ==
    ASSUME RecordsAreTyped, UNCHANGED <<place, office, file, records>>
    PROVE  /\ ChangedLogs(file)' = ChangedLogs(file)
           /\ RecordsStay /\ (AbsentHasNoOvertime => AbsentHasNoOvertime')
BY LogsTyped, DifferencesKept DEF RecordsStay, AbsentHasNoOvertime

-----------------------------------------------------------------------------
(* Requests of other users *)

\* A request in flight, after a write to records that it did not read, or that
\* left the status alone.
LEMMA RequestKept ==
    ASSUME NEW t, RequestIsSound(t), RecordsStay,
           t \in Change => (t.crossed \/ records'[t.emp][t.date].status = records[t.emp][t.date].status)
    PROVE  RequestIsSound(t)'
<1>1. CASE t = WIdle
  BY <1>1 DEF RequestIsSound
<1>2. CASE t \in Creation /\ (t.status = "ABSENT" => t.hours = 0)
  BY <1>2 DEF RequestIsSound
<1>3. CASE /\ t \in Change /\ records[t.emp][t.date] # Absence
           /\ t.status = "ABSENT" => t.hours = 0
           /\ t.status = Absence /\ ~ t.crossed /\ records[t.emp][t.date].status = "ABSENT" => t.hours = 0
  <2>1. t.emp \in Employees /\ t.date \in Dates
    BY <1>3 DEF Change
  <2>2. records'[t.emp][t.date] # Absence
    BY <1>3, <2>1 DEF RecordsStay
  <2> QED  BY <1>3, <2>2 DEF RequestIsSound
<1> QED  BY <1>1, <1>2, <1>3 DEF RequestIsSound

\* What a request is, once what it read was written over.
LEMMA RequestCrossed ==
    ASSUME RequestsAreSound, NEW C, NEW w \in Writers
    PROVE  /\ Crossed(C)[w].pc = writer[w].pc
           /\ RequestIsSound(Crossed(C)[w])
           /\ Crossed(C)[w] \in Change =>
                 Crossed(C)[w].crossed \/ <<Crossed(C)[w].emp, Crossed(C)[w].date>> \notin C
<1>1. RequestIsSound(writer[w])
  BY DEF RequestsAreSound
<1>2. CASE writer[w].pc = "update" /\ <<writer[w].emp, writer[w].date>> \in C
  <2>1. Crossed(C)[w] = [writer[w] EXCEPT !.crossed = TRUE]
    BY <1>2 DEF Crossed
  <2>2. writer[w] \in Change
    BY <1>1, <1>2 DEF RequestIsSound, WIdle, Creation
  <2>3. /\ Crossed(C)[w] \in Change /\ Crossed(C)[w].crossed /\ Crossed(C)[w].pc = "update"
        /\ Crossed(C)[w].emp = writer[w].emp /\ Crossed(C)[w].date = writer[w].date
        /\ Crossed(C)[w].status = writer[w].status /\ Crossed(C)[w].hours = writer[w].hours
    BY <2>1, <2>2 DEF Change
  <2>4. records[writer[w].emp][writer[w].date] # Absence /\ (writer[w].status = "ABSENT" => writer[w].hours = 0)
    BY <1>1, <1>2 DEF RequestIsSound, WIdle, Creation
  <2> QED  BY <1>2, <2>3, <2>4 DEF RequestIsSound
<1>3. CASE ~ (writer[w].pc = "update" /\ <<writer[w].emp, writer[w].date>> \in C)
  <2>1. Crossed(C)[w] = writer[w]
    BY <1>3 DEF Crossed
  <2> QED  BY <1>1, <1>3, <2>1 DEF Change
<1> QED  BY <1>2, <1>3


\* Checking a new record keeps the invariant of attendance.
LEMMA StepBeginCreate ==
    ASSUME AttendanceInv, NEW w \in Writers, NEW e \in Employees, NEW d \in Dates,
           NEW status \in Statuses, NEW hours \in Hours \cup {Absence}, BeginCreate(w, e, d, status, hours)
    PROVE  AttendanceInv'
<1>1. /\ UNCHANGED <<place, office, records, file, upload, pending>> /\ edits < MaxEdits /\ edits' = edits + 1
      /\ RecordsAreTyped /\ AbsentHasNoOvertime /\ RequestsAreSound /\ ImportIsSound /\ ListIsSound
  BY DEF BeginCreate, AttendanceInv
<1>2. ChangedLogs(file)' = ChangedLogs(file) /\ RecordsStay /\ AbsentHasNoOvertime'
  BY <1>1, RecordsSame
<1>3. PICK h \in Hours : h = NormalizeHours(status, hours) /\ (status = "ABSENT" => h = 0)
  BY HoursNormalized
<1>4. PICK t : t = [pc |-> "create", emp |-> e, date |-> d, status |-> status, hours |-> h]
  OBVIOUS
<1>5. writer' = [writer EXCEPT ![w] = t] /\ t \in Creation /\ t.status = status /\ t.hours = h
  BY <1>3, <1>4 DEF BeginCreate, Creation
<1>6. RequestIsSound(t)'
  BY <1>3, <1>5 DEF RequestIsSound
<1>7. \A v \in Writers : RequestIsSound(writer[v])'
  <2> SUFFICES ASSUME NEW v \in Writers, NEW r, r = writer'[v] PROVE RequestIsSound(r)'
    OBVIOUS
  <2>1. CASE v = w
    BY <1>1, <1>5, <1>6, <2>1 DEF RequestsAreSound
  <2>2. CASE v # w
    <3>1. r = writer[v] /\ RequestIsSound(r)
      BY <1>1, <1>5, <2>2 DEF RequestsAreSound
    <3> QED  BY <1>1, <1>2, <3>1, RequestKept
  <2> QED  BY <2>1, <2>2
<1>8. RequestsAreSound'
  BY <1>1, <1>5, <1>7 DEF RequestsAreSound
<1>9. RecordsAreTyped'
  BY <1>1, AttendanceAssumption DEF RecordsAreTyped
<1> QED  BY <1>1, <1>2, <1>8, <1>9, ImportKept, ListKept DEF AttendanceInv

\* Reading a record to change keeps the invariant of attendance.
LEMMA StepBeginUpdate ==
    ASSUME AttendanceInv, NEW w \in Writers, NEW e \in Employees, NEW d \in Dates,
           NEW status \in Statuses \cup {Absence}, NEW hours \in Hours \cup {Absence},
           BeginUpdateRecord(w, e, d, status, hours)
    PROVE  AttendanceInv'
<1>1. /\ UNCHANGED <<place, office, records, file, upload, pending>> /\ edits < MaxEdits /\ edits' = edits + 1
      /\ RecordsAreTyped /\ AbsentHasNoOvertime /\ RequestsAreSound /\ ImportIsSound /\ ListIsSound
  BY DEF BeginUpdateRecord, AttendanceInv
<1>2. ChangedLogs(file)' = ChangedLogs(file) /\ RecordsStay /\ AbsentHasNoOvertime'
  BY <1>1, RecordsSame
<1>3. PICK rec \in Record : rec = records[e][d]
  BY <1>1 DEF RecordsAreTyped, BeginUpdateRecord
<1>4. PICK s \in Statuses : s = IF status = Absence THEN rec.status ELSE status
  BY <1>3 DEF Record
<1>5. PICK g \in Hours \cup {Absence} : g = IF hours = Absence THEN rec.hours ELSE hours
  BY <1>3 DEF Record
<1>6. PICK h \in Hours : h = NormalizeHours(s, g) /\ (s = "ABSENT" => h = 0)
  BY HoursNormalized
<1>7. PICK t : t = [pc |-> "update", emp |-> e, date |-> d, status |-> status, crossed |-> FALSE, hours |-> h]
  OBVIOUS
<1>8. /\ writer' = [writer EXCEPT ![w] = t] /\ t \in Change
      /\ t.status = status /\ t.hours = h /\ t.emp = e /\ t.date = d
  BY <1>3, <1>4, <1>5, <1>6, <1>7 DEF BeginUpdateRecord, Change
<1>9. RequestIsSound(t)'
  <2>1. records'[t.emp][t.date] = rec /\ rec # Absence
    BY <1>1, <1>3, <1>8 DEF BeginUpdateRecord
  <2>2. /\ t.status = "ABSENT" => t.hours = 0
        /\ t.status = Absence /\ rec.status = "ABSENT" => t.hours = 0
    BY <1>4, <1>6, <1>8, AbsenceAssumption DEF Statuses
  <2> QED  BY <1>8, <2>1, <2>2 DEF RequestIsSound
<1>10. \A v \in Writers : RequestIsSound(writer[v])'
  <2> SUFFICES ASSUME NEW v \in Writers, NEW r, r = writer'[v] PROVE RequestIsSound(r)'
    OBVIOUS
  <2>1. CASE v = w
    BY <1>1, <1>8, <1>9, <2>1 DEF RequestsAreSound
  <2>2. CASE v # w
    <3>1. r = writer[v] /\ RequestIsSound(r)
      BY <1>1, <1>8, <2>2 DEF RequestsAreSound
    <3> QED  BY <1>1, <1>2, <3>1, RequestKept
  <2> QED  BY <2>1, <2>2
<1>11. RequestsAreSound'
  BY <1>1, <1>8, <1>10 DEF RequestsAreSound
<1>12. RecordsAreTyped'
  BY <1>1, AttendanceAssumption DEF RecordsAreTyped
<1> QED  BY <1>1, <1>2, <1>11, <1>12, ImportKept, ListKept DEF AttendanceInv

\* A record is written by a request that ends; the others, W, that read it are
\* crossed, or none did.
Ends(w, e, d, v, W) ==
    /\ records' = [records EXCEPT ![e][d] = v] /\ Clean(v)
    /\ writer' = [W EXCEPT ![w] = WIdle] /\ W = [u \in Writers |-> W[u]]
    /\ \A u \in Writers : /\ RequestIsSound(W[u])
                          /\ W[u] \in Change => W[u].crossed \/ <<W[u].emp, W[u].date>> # <<e, d>>
    /\ Overtaken /\ UNCHANGED <<place, office, edits, file, pending>>

\* A request that writes one sound record keeps what the invariant says of the others.
LEMMA RequestEnds ==
    ASSUME RecordsAreTyped, AbsentHasNoOvertime, RequestsAreSound, ImportIsSound, ListIsSound,
           NEW w \in Writers, NEW e \in Employees, NEW d \in Dates, NEW v \in Record, NEW W,
           Ends(w, e, d, v, W)
    PROVE  AttendanceInv'
<1>1. /\ records' \in [Employees -> [Dates -> Record \cup {Absence}]]
      /\ AbsentHasNoOvertime' /\ RecordsStay
      /\ \A f \in Employees, c \in Dates : <<f, c>> # <<e, d>> => records'[f][c] = records[f][c]
  BY CellWritten DEF Ends
<1>2. \A u \in Writers : RequestIsSound(writer[u])'
  <2> SUFFICES ASSUME NEW u \in Writers, NEW r, r = writer'[u] PROVE RequestIsSound(r)'
    OBVIOUS
  <2>1. CASE u = w
    BY <2>1 DEF RequestIsSound, Ends
  <2>2. CASE u # w
    <3>1. r = W[u] /\ RequestIsSound(r)
      BY <2>2 DEF Ends
    <3>2. r \in Change => r.crossed \/ records'[r.emp][r.date].status = records[r.emp][r.date].status
      BY <1>1, <3>1 DEF Change, Ends
    <3> QED  BY <1>1, <3>1, <3>2, RequestKept
  <2> QED  BY <2>1, <2>2
<1>3. RequestsAreSound'
  BY <1>2 DEF RequestsAreSound, Ends
<1>4. RecordsAreTyped'
  BY <1>1 DEF RecordsAreTyped, Ends
<1> QED  BY <1>1, <1>3, <1>4, ImportOvertaken, ListKept DEF AttendanceInv, Ends

\* Storing a new record keeps the invariant of attendance.
LEMMA StepCommitCreate ==
    ASSUME AttendanceInv, NEW w \in Writers, CommitCreate(w)
    PROVE  AttendanceInv'
<1>1. /\ UNCHANGED <<place, office, edits, file, pending>> /\ writer' = [writer EXCEPT ![w] = WIdle]
      /\ RecordsAreTyped /\ AbsentHasNoOvertime /\ RequestsAreSound /\ ImportIsSound /\ ListIsSound
  BY DEF CommitCreate, AttendanceInv
<1>2. PICK t \in Creation : t = writer[w] /\ (t.status = "ABSENT" => t.hours = 0)
  BY <1>1 DEF RequestsAreSound, RequestIsSound, CommitCreate, WIdle, Change
<1>3. CASE records[t.emp][t.date] # Absence
  <2>1. UNCHANGED <<records, upload>>
    BY <1>2, <1>3 DEF CommitCreate
  <2>2. ChangedLogs(file)' = ChangedLogs(file) /\ RecordsStay /\ AbsentHasNoOvertime'
    BY <1>1, <2>1, RecordsSame
  <2>3. \A v \in Writers : RequestIsSound(writer[v])'
    <3> SUFFICES ASSUME NEW v \in Writers, NEW r, r = writer'[v] PROVE RequestIsSound(r)'
      OBVIOUS
    <3>1. r = WIdle \/ r = writer[v]
      BY <1>1 DEF RequestsAreSound
    <3>2. RequestIsSound(r)
      BY <1>1, <3>1 DEF RequestsAreSound, RequestIsSound
    <3> QED  BY <2>1, <2>2, <3>2, RequestKept
  <2>4. RequestsAreSound'
    BY <1>1, <2>3 DEF RequestsAreSound
  <2>5. RecordsAreTyped'
    BY <1>1, <2>1 DEF RecordsAreTyped
  <2> QED  BY <1>1, <2>1, <2>2, <2>4, <2>5, ImportKept, ListKept DEF AttendanceInv
<1>4. CASE records[t.emp][t.date] = Absence
  <2>1. PICK v \in Record : v = [status |-> t.status, hours |-> t.hours, approved |-> FALSE, mixed |-> FALSE]
    BY DEF Creation, Record
  <2>2. records' = [records EXCEPT ![t.emp][t.date] = v] /\ Overtaken
    BY <1>2, <1>4, <2>1 DEF CommitCreate
  <2>3. Clean(v)
    <3>1. v.status = t.status /\ v.hours = t.hours
      BY <2>1
    <3> QED  BY <1>2, <3>1 DEF Clean
  <2>4. t.emp \in Employees /\ t.date \in Dates
    BY DEF Creation
  <2>5. PICK W : W = writer
    OBVIOUS
  <2>6. \A u \in Writers : /\ RequestIsSound(W[u])
                           /\ W[u] \in Change => W[u].crossed \/ <<W[u].emp, W[u].date>> # <<t.emp, t.date>>
    BY <1>1, <1>4, <2>5 DEF RequestsAreSound, RequestIsSound, Change, WIdle, Creation
  <2>7. Ends(w, t.emp, t.date, v, W)
    BY <1>1, <2>2, <2>3, <2>5, <2>6 DEF Ends, RequestsAreSound
  <2> QED  BY <1>1, <2>4, <2>7, RequestEnds
<1> QED  BY <1>3, <1>4

\* Storing a changed record keeps the invariant of attendance.
LEMMA StepCommitUpdate ==
    ASSUME AttendanceInv, NEW w \in Writers, CommitUpdateRecord(w)
    PROVE  AttendanceInv'
<1>1. /\ UNCHANGED <<place, office, edits, file, pending>> /\ Overtaken
      /\ RecordsAreTyped /\ AbsentHasNoOvertime /\ RequestsAreSound /\ ImportIsSound /\ ListIsSound
  BY DEF CommitUpdateRecord, AttendanceInv
<1>2. PICK t \in Change :
         /\ t = writer[w] /\ records[t.emp][t.date] # Absence
         /\ t.status = "ABSENT" => t.hours = 0
         /\ t.status = Absence /\ ~ t.crossed /\ records[t.emp][t.date].status = "ABSENT" => t.hours = 0
  BY <1>1 DEF RequestsAreSound, RequestIsSound, CommitUpdateRecord, WIdle, Creation
<1>3. t.emp \in Employees /\ t.date \in Dates /\ t.hours \in Hours /\ t.status \in Statuses \cup {Absence}
      /\ t.crossed \in BOOLEAN
  BY DEF Change
<1>4. PICK rec \in Record : rec = records[t.emp][t.date]
  BY <1>1, <1>2, <1>3 DEF RecordsAreTyped
<1>5. PICK s \in Statuses : s = IF t.status = Absence THEN rec.status ELSE t.status
  BY <1>3 DEF Record
<1>6. PICK m \in BOOLEAN : m = (t.crossed /\ t.status = Absence)
  OBVIOUS
<1>7. PICK v : v = [rec EXCEPT !.hours = t.hours, !.status = s, !.mixed = m]
  OBVIOUS
<1>8. v \in Record /\ v.hours = t.hours /\ v.status = s /\ v.mixed = m
  BY <1>3, <1>7 DEF Record
<1>9. v = Written(rec, t)
  BY <1>5, <1>6, <1>7 DEF Written, Record
<1>10. records' = [records EXCEPT ![t.emp][t.date] = v]
  BY <1>1, <1>2, <1>3, <1>4, <1>9 DEF CommitUpdateRecord, RecordsAreTyped
<1>11. Clean(v)
  <2>1. s = "ABSENT" => t.hours = 0 \/ m
    BY <1>2, <1>4, <1>5, <1>6
  <2> QED  BY <1>8, <2>1 DEF Clean
<1>12. PICK W : W = Crossed({<<t.emp, t.date>>})
  OBVIOUS
<1>13. writer' = [W EXCEPT ![w] = WIdle] /\ W = [u \in Writers |-> W[u]]
  BY <1>2, <1>12 DEF CommitUpdateRecord, Crossed
<1>14. \A u \in Writers : /\ RequestIsSound(W[u])
                          /\ W[u] \in Change => W[u].crossed \/ <<W[u].emp, W[u].date>> # <<t.emp, t.date>>
  BY <1>1, <1>12, RequestCrossed
<1>15. Ends(w, t.emp, t.date, v, W)
  BY <1>1, <1>10, <1>11, <1>13, <1>14 DEF Ends
<1> QED  BY <1>1, <1>3, <1>8, <1>15, RequestEnds

\* Approving leaves status and hours alone.
LEMMA StepApprove ==
    ASSUME AttendanceInv, NEW e \in Employees, NEW d \in Dates, Approve(e, d)
    PROVE  AttendanceInv'
<1>1. /\ UNCHANGED <<place, office, writer, file, upload, pending>> /\ edits < MaxEdits /\ edits' = edits + 1
      /\ RecordsAreTyped /\ AbsentHasNoOvertime /\ RequestsAreSound /\ ImportIsSound /\ ListIsSound
  BY DEF Approve, AttendanceInv
<1>2. PICK rec \in Record : rec = records[e][d]
  BY <1>1 DEF RecordsAreTyped, Approve
<1>3. PICK v : v = [rec EXCEPT !.approved = TRUE]
  OBVIOUS
<1>4. v \in Record /\ v.status = rec.status /\ v.hours = rec.hours /\ v.mixed = rec.mixed
  BY <1>3 DEF Record
<1>5. Clean(v)
  BY <1>1, <1>2, <1>4, AbsenceAssumption DEF Clean, AbsentHasNoOvertime
<1>6. records' = [records EXCEPT ![e][d] = v]
  BY <1>1, <1>2, <1>3 DEF Approve, RecordsAreTyped
<1>7. /\ records' \in [Employees -> [Dates -> Record \cup {Absence}]]
      /\ AbsentHasNoOvertime' /\ RecordsStay /\ records'[e][d] = v
      /\ \A f \in Employees, c \in Dates : <<f, c>> # <<e, d>> => records'[f][c] = records[f][c]
  BY <1>1, <1>4, <1>5, <1>6, CellWritten
<1>8. \A f \in Employees, c \in Dates :
         /\ records'[f][c] = Absence <=> records[f][c] = Absence
         /\ records[f][c] # Absence => /\ records'[f][c].status = records[f][c].status
                                       /\ records'[f][c].hours = records[f][c].hours
  BY <1>2, <1>4, <1>7, AbsenceAssumption
<1>9. ChangedLogs(file)' = ChangedLogs(file)
  BY <1>1, <1>8, LogsTyped, DifferencesKept
<1>10. RequestsAreSound'
  <2>1. \A u \in Writers : RequestIsSound(writer[u])'
    <3> SUFFICES ASSUME NEW u \in Writers, NEW r, r = writer[u] PROVE RequestIsSound(r)'
      BY <1>1
    <3>1. RequestIsSound(r)
      BY <1>1 DEF RequestsAreSound
    <3>2. r \in Change => r.crossed \/ records'[r.emp][r.date].status = records[r.emp][r.date].status
      BY <1>1, <1>8, <3>1 DEF RequestIsSound, Change, WIdle, Creation
    <3> QED  BY <1>7, <3>1, <3>2, RequestKept
  <2> QED  BY <1>1, <2>1 DEF RequestsAreSound
<1>11. RecordsAreTyped'
  BY <1>1, <1>7, AttendanceAssumption DEF RecordsAreTyped
<1> QED  BY <1>1, <1>7, <1>9, <1>10, <1>11, ImportKept, ListKept DEF AttendanceInv


-----------------------------------------------------------------------------
(* The import and the list of missing days *)

\* An entry of a file is a filled cell of it.
LEMMA LogIs ==
    ASSUME NEW x \in AllProcessedLogs(file)
    PROVE  \E i \in DOMAIN file, d \in Dates : x = LogOf(file, i, d) /\ Symbol(file[i], d) # Absence
<1>1. PICK c \in Filled(file) : x = LogOf(file, c[1], c[2])
  BY DEF AllProcessedLogs
<1>2. c[1] \in DOMAIN file /\ c[2] \in Dates /\ Symbol(file[c[1]], c[2]) # Absence
  BY DEF Filled
<1> QED  BY <1>1, <1>2

\* With one row for each, a record has one log.
LEMMA LogsDistinct ==
    ASSUME RecordsAreTyped, OneRowEach, NEW x \in AllProcessedLogs(file), NEW y \in AllProcessedLogs(file),
           x.emp = y.emp, x.date = y.date
    PROVE  x = y
<1>1. PICK i \in DOMAIN file, d \in Dates : x = LogOf(file, i, d)
  BY LogIs
<1>2. PICK j \in DOMAIN file, c \in Dates : y = LogOf(file, j, c)
  BY LogIs
<1>3. x.emp = file[i].emp /\ x.date = d /\ y.emp = file[j].emp /\ y.date = c
  BY <1>1, <1>2, LogTyped
<1>4. i = j
  BY <1>3 DEF OneRowEach
<1> QED  BY <1>1, <1>2, <1>3, <1>4

\* Of the logs for a record, one is stored last.
LEMMA LastIs ==
    ASSUME RecordsAreTyped, NEW E, E \subseteq AllProcessedLogs(file), NEW e, NEW d, <<e, d>> \in Cells(E)
    PROVE  LastFor(E, e, d) \in E /\ LastFor(E, e, d).emp = e /\ LastFor(E, e, d).date = d
<1>1. PICK own : own = {x \in E : x.emp = e /\ x.date = d}
  OBVIOUS
<1>2. own # {}
  BY <1>1 DEF Cells
<1>3. Len(file) \in Nat /\ DOMAIN file = 1..Len(file)
  BY DEF RecordsAreTyped
<1>4. \A x \in own : x.row \in 0..Len(file)
  <2> SUFFICES ASSUME NEW x \in own PROVE x.row \in 0..Len(file)
    OBVIOUS
  <2>1. PICK i \in DOMAIN file, c \in Dates : x = LogOf(file, i, c)
    BY <1>1, LogIs
  <2>2. x.row = i
    BY <2>1, LogTyped
  <2> QED  BY <1>3, <2>2
<1>5. PICK R \in SUBSET (0..Len(file)) : R = {x.row : x \in own}
  BY <1>4
<1>6. PICK m \in R : \A k \in R : k <= m
  BY <1>2, <1>3, <1>5, GreatestExists
<1>7. PICK x \in own : x.row = m
  BY <1>5
<1>8. \E z \in E : z.emp = e /\ z.date = d /\ \A y \in E : y.emp = e /\ y.date = d => y.row <= z.row
  BY <1>1, <1>5, <1>6, <1>7
<1> QED  BY <1>8 DEF LastFor

\* What is stored for a log.
LEMMA UpsertIs ==
    ASSUME NEW old \in Record \cup {Absence}, NEW x \in Entry
    PROVE  /\ Upsert(old, x) \in Record /\ Clean(Upsert(old, x))
           /\ Upsert(old, x).status = x.status /\ Upsert(old, x).hours = NormalizeHours(x.status, x.hours)
<1>1. PICK s \in Statuses : s = x.status
  BY DEF Entry
<1>2. PICK h \in Hours : h = NormalizeHours(x.status, x.hours) /\ (s = "ABSENT" => h = 0)
  BY <1>1, HoursNormalized DEF Entry
<1>3. Upsert(old, x) = IF old = Absence THEN [status |-> s, hours |-> h, approved |-> FALSE, mixed |-> FALSE]
                       ELSE [old EXCEPT !.status = s, !.hours = h, !.mixed = FALSE]
  BY <1>1, <1>2 DEF Upsert
<1>4. Upsert(old, x) \in Record /\ Upsert(old, x).status = s /\ Upsert(old, x).hours = h
  <2>1. CASE old = Absence
    BY <1>3, <2>1 DEF Record
  <2>2. CASE old # Absence
    BY <1>3, <2>2 DEF Record
  <2> QED  BY <2>1, <2>2
<1> QED  BY <1>1, <1>2, <1>4 DEF Clean


\* The records after E was stored.
Stores(E) ==
    records' = [e \in Employees |-> [d \in Dates |->
        IF <<e, d>> \in Cells(E) THEN Upsert(records[e][d], LastFor(E, e, d)) ELSE records[e][d]]]

\* Storing entries of the file leaves typed records, without overtime on absences.
LEMMA RecordsStored ==
    ASSUME RecordsAreTyped, AbsentHasNoOvertime, NEW E, E \subseteq AllProcessedLogs(file), Stores(E)
    PROVE  /\ records' \in [Employees -> [Dates -> Record \cup {Absence}]]
           /\ AbsentHasNoOvertime' /\ RecordsStay
           /\ \A e \in Employees, d \in Dates : <<e, d>> \notin Cells(E) => records'[e][d] = records[e][d]
<1>1. \A e \in Employees, d \in Dates :
        records'[e][d] = IF <<e, d>> \in Cells(E) THEN Upsert(records[e][d], LastFor(E, e, d)) ELSE records[e][d]
  BY DEF Stores
<1>2. ASSUME NEW e \in Employees, NEW d \in Dates
      PROVE  /\ records'[e][d] \in Record \cup {Absence} /\ Clean(records'[e][d])
             /\ records[e][d] # Absence => records'[e][d] # Absence
             /\ <<e, d>> \notin Cells(E) => records'[e][d] = records[e][d]
  <2>1. records[e][d] \in Record \cup {Absence} /\ Clean(records[e][d])
    BY DEF RecordsAreTyped, AbsentHasNoOvertime, Clean
  <2>2. CASE <<e, d>> \in Cells(E)
    <3>1. PICK x \in Entry : x = LastFor(E, e, d)
      BY <2>2, LastIs, LogsTyped
    <3>2. records'[e][d] = Upsert(records[e][d], x)
      BY <1>1, <2>2, <3>1
    <3>3. records'[e][d] \in Record /\ Clean(records'[e][d])
      BY <2>1, <3>2, UpsertIs
    <3> QED  BY <2>2, <3>3, AbsenceAssumption
  <2>3. CASE <<e, d>> \notin Cells(E)
    BY <1>1, <2>1, <2>3
  <2> QED  BY <2>2, <2>3
<1>3. records' \in [Employees -> [Dates -> Record \cup {Absence}]]
  <2>1. records' = [e \in Employees |-> [d \in Dates |-> records'[e][d]]]
    BY DEF Stores
  <2> QED  BY <1>2, <2>1
<1>4. AbsentHasNoOvertime'
  BY <1>2 DEF AbsentHasNoOvertime, Clean
<1> QED  BY <1>2, <1>3, <1>4 DEF RecordsStay

\* Once what differs is stored, nothing differs.
LEMMA NothingDiffers ==
    ASSUME RecordsAreTyped, OneRowEach, Readable(file), Stores(ChangedLogs(file)),
           \A x \in ChangedLogs(file) : ~ RowErrors(x), UNCHANGED <<place, office, file>>
    PROVE  ChangedLogs(file)' = {}
<1>1. AllProcessedLogs(file)' = AllProcessedLogs(file)
  BY FileKept
<1>2. ChangedLogs(file) \subseteq AllProcessedLogs(file)
  BY DEF ChangedLogs
<1>3. ASSUME NEW z \in AllProcessedLogs(file)
      PROVE  IsUnchanged(z)'
  <2>1. z \in Entry /\ z.emp \in Employees /\ z.date \in Dates
    BY LogsTyped DEF Entry
  <2>2. CASE z \in ChangedLogs(file)
    <3>1. <<z.emp, z.date>> \in Cells(ChangedLogs(file))
      BY <2>2 DEF Cells
    <3>2. LastFor(ChangedLogs(file), z.emp, z.date) = z
      <4>1. PICK E : E = ChangedLogs(file)
        OBVIOUS
      <4>2. LastFor(E, z.emp, z.date) \in E /\ LastFor(E, z.emp, z.date).emp = z.emp
            /\ LastFor(E, z.emp, z.date).date = z.date
        BY <1>2, <3>1, <4>1, LastIs
      <4> QED  BY <1>2, <4>1, <4>2, LogsDistinct
    <3>3. records'[z.emp][z.date] = Upsert(records[z.emp][z.date], z)
      BY <2>1, <3>1, <3>2 DEF Stores
    <3>4. PICK new \in Record : /\ new = records'[z.emp][z.date]
                                /\ new.status = z.status /\ new.hours = NormalizeHours(z.status, z.hours)
      BY <2>1, <3>3, UpsertIs DEF RecordsAreTyped
    <3>5. z.status = "ABSENT" => z.hours = Absence
      <4>1. PICK i \in DOMAIN file, d \in Dates : z = LogOf(file, i, d) /\ Symbol(file[i], d) # Absence
        BY LogIs
      <4> QED  BY <4>1, LogTyped, LogFits
    <3>6. SameHours(new.hours, z.hours)
      BY <3>4, <3>5 DEF SameHours, NormalizeHours
    <3>7. CanAccess(z.emp)'
      BY <2>2 DEF RowErrors, CanAccess
    <3> QED  BY <3>4, <3>6, <3>7, AbsenceAssumption DEF IsUnchanged, SameHours
  <2>3. CASE z \notin ChangedLogs(file)
    <3>1. IsUnchanged(z)
      BY <2>3 DEF ChangedLogs
    <3>2. <<z.emp, z.date>> \notin Cells(ChangedLogs(file))
      <4> SUFFICES ASSUME NEW x \in ChangedLogs(file), x.emp = z.emp, x.date = z.date PROVE FALSE
        BY DEF Cells
      <4>1. x = z
        BY <1>2, LogsDistinct
      <4> QED  BY <2>3, <4>1
    <3>3. records'[z.emp][z.date] = records[z.emp][z.date]
      BY <2>1, <3>2 DEF Stores
    <3> QED  BY <3>1, <3>3 DEF IsUnchanged, CanAccess, SameHours
  <2> QED  BY <2>2, <2>3
<1> QED  BY <1>1, <1>3 DEF ChangedLogs

\* The import of a file keeps the invariant of attendance.
LEMMA StepBulkCreate ==
    ASSUME AttendanceInv, BulkCreate
    PROVE  AttendanceInv'
<1>1. /\ UNCHANGED <<place, office, edits, file, pending>> /\ upload.pc = "sending"
      /\ RecordsAreTyped /\ AbsentHasNoOvertime /\ RequestsAreSound /\ ImportIsSound /\ ListIsSound
  BY DEF BulkCreate, AttendanceInv
<1>2. PICK E : E = Accepted(upload.send)
  OBVIOUS
<1>3. /\ Stores(E) /\ writer' = Crossed(Cells(E))
      /\ upload' = [pc |-> "idle", send |-> {}, stale |-> upload.stale, settled |-> E # {} /\ ~ upload.stale]
  BY <1>2 DEF BulkCreate, Stores
<1>4. E \subseteq upload.send /\ E \subseteq AllProcessedLogs(file)
  BY <1>1, <1>2 DEF Accepted, ImportIsSound
<1>5. E # {} => E = upload.send /\ \A x \in E : ~ RowErrors(x)
  BY <1>2 DEF Accepted
<1>6. /\ records' \in [Employees -> [Dates -> Record \cup {Absence}]]
      /\ AbsentHasNoOvertime' /\ RecordsStay
      /\ \A e \in Employees, d \in Dates : <<e, d>> \notin Cells(E) => records'[e][d] = records[e][d]
  BY <1>1, <1>3, <1>4, RecordsStored
<1>7. RequestsAreSound'
  <2>1. \A u \in Writers : RequestIsSound(writer[u])'
    <3> SUFFICES ASSUME NEW u \in Writers, NEW r, r = writer'[u] PROVE RequestIsSound(r)'
      OBVIOUS
    <3>1. PICK C : C = Cells(E)
      OBVIOUS
    <3>2. RequestIsSound(r) /\ (r \in Change => r.crossed \/ <<r.emp, r.date>> \notin C)
      BY <1>1, <1>3, <3>1, RequestCrossed
    <3>3. r \in Change => r.crossed \/ records'[r.emp][r.date].status = records[r.emp][r.date].status
      BY <1>6, <3>1, <3>2 DEF Change
    <3> QED  BY <1>6, <3>2, <3>3, RequestKept
  <2> QED  BY <1>3, <2>1 DEF RequestsAreSound, Crossed
<1>8. ImportIsSound'
  <2>1. /\ upload' \in [pc: {"idle", "fetching", "sending"}, send: SUBSET Entry, stale: BOOLEAN, settled: BOOLEAN]
        /\ upload'.pc = "idle" /\ upload'.send = {} /\ upload'.settled = (E # {} /\ ~ upload.stale)
    BY <1>1, <1>3 DEF ImportIsSound
  <2>2. Readable(file)
    BY <1>1 DEF ImportIsSound
  <2>3. OneRowEach' /\ upload'.settled => ChangedLogs(file)' = {}
    <3> SUFFICES ASSUME OneRowEach', upload'.settled PROVE ChangedLogs(file)' = {}
      OBVIOUS
    <3>1. E = upload.send /\ ~ upload.stale /\ \A x \in E : ~ RowErrors(x)
      BY <1>5, <2>1
    <3>2. E = ChangedLogs(file)
      BY <1>1, <3>1 DEF ImportIsSound
    <3>3. OneRowEach
      BY <1>1 DEF OneRowEach
    <3> QED  BY <1>1, <1>3, <2>2, <3>1, <3>2, <3>3, NothingDiffers
  <2>4. Readable(file)'
    BY <1>1, <2>2, FileKept
  <2> QED  BY <2>1, <2>3, <2>4 DEF ImportIsSound
<1>9. RecordsAreTyped'
  BY <1>1, <1>6 DEF RecordsAreTyped
<1> QED  BY <1>1, <1>6, <1>7, <1>8, <1>9, ListKept DEF AttendanceInv

\* The file is read, the stored records arrive, or the import fails.
LEMMA StepImport ==
    ASSUME AttendanceInv, ReadFile \/ Compare \/ ImportFails
    PROVE  AttendanceInv'
<1>1. /\ UNCHANGED <<place, office, records, writer, edits, file, pending>>
      /\ RecordsAreTyped /\ AbsentHasNoOvertime /\ RequestsAreSound /\ ImportIsSound /\ ListIsSound
  BY DEF ReadFile, Compare, ImportFails, AttendanceInv
<1>2. ChangedLogs(file)' = ChangedLogs(file) /\ RecordsStay /\ AbsentHasNoOvertime'
  BY <1>1, RecordsSame
<1>3. /\ Readable(file)' <=> Readable(file)
      /\ AllProcessedLogs(file)' = AllProcessedLogs(file) /\ (OneRowEach' <=> OneRowEach)
      /\ ChangedLogs(file) \subseteq AllProcessedLogs(file) /\ ChangedLogs(file) \subseteq Entry
  BY <1>1, FileKept, LogsTyped DEF OneRowEach, ChangedLogs
<1>4. RequestsAreSound'
  BY <1>1 DEF RequestsAreSound, RequestIsSound
<1>5. RecordsAreTyped' /\ ListIsSound'
  BY <1>1, <1>2, ListKept DEF RecordsAreTyped
<1>6. ImportIsSound'
  <2>1. CASE ReadFile
    <3>1. /\ upload' = [upload EXCEPT !.pc = "fetching"] /\ Readable(file)
      BY <2>1 DEF ReadFile
    <3>2. /\ upload' \in [pc: {"idle", "fetching", "sending"}, send: SUBSET Entry, stale: BOOLEAN, settled: BOOLEAN]
          /\ upload'.pc = "fetching" /\ upload'.send = upload.send /\ upload'.settled = upload.settled
      BY <1>1, <3>1 DEF ImportIsSound
    <3> QED  BY <1>1, <1>2, <1>3, <3>1, <3>2 DEF ImportIsSound
  <2>2. CASE Compare
    <3>1. PICK send : send = ChangedLogs(file)
      OBVIOUS
    <3>2. PICK done \in BOOLEAN : done = (upload.settled \/ send = {})
      OBVIOUS
    <3>3. PICK pc \in {"idle", "sending"} : pc = IF send = {} THEN "idle" ELSE "sending"
      OBVIOUS
    <3>4. /\ upload.pc = "fetching"
          /\ upload' = [upload EXCEPT !.pc = pc, !.send = send, !.stale = FALSE, !.settled = done]
      BY <1>1, <2>2, <3>1, <3>2, <3>3 DEF Compare, ImportIsSound
    <3>5. /\ upload' \in [pc: {"idle", "fetching", "sending"}, send: SUBSET Entry, stale: BOOLEAN, settled: BOOLEAN]
          /\ upload'.pc = pc /\ upload'.send = send /\ upload'.stale = FALSE /\ upload'.settled = done
      BY <1>1, <1>3, <3>1, <3>4 DEF ImportIsSound
    <3>6. OneRowEach /\ done => send = {}
      BY <1>1, <3>1, <3>2 DEF ImportIsSound
    <3> QED  BY <1>1, <1>2, <1>3, <3>1, <3>4, <3>5, <3>6 DEF ImportIsSound
  <2>3. CASE ImportFails
    <3>1. upload' = [upload EXCEPT !.pc = "idle", !.send = {}]
      BY <2>3 DEF ImportFails
    <3>2. /\ upload' \in [pc: {"idle", "fetching", "sending"}, send: SUBSET Entry, stale: BOOLEAN, settled: BOOLEAN]
          /\ upload'.pc = "idle" /\ upload'.send = {} /\ upload'.settled = upload.settled
      BY <1>1, <3>1 DEF ImportIsSound
    <3> QED  BY <1>1, <1>2, <1>3, <3>2 DEF ImportIsSound
  <2> QED  BY <2>1, <2>2, <2>3
<1> QED  BY <1>2, <1>4, <1>5, <1>6 DEF AttendanceInv

\* Listing who has no record keeps the invariant of attendance.
LEMMA StepFindPending ==
    ASSUME AttendanceInv, NEW s \in Dates, NEW t \in Dates, FindPending(s, t)
    PROVE  AttendanceInv'
<1>1. /\ UNCHANGED <<place, office, records, writer, edits, file, upload>>
      /\ RecordsAreTyped /\ AbsentHasNoOvertime /\ RequestsAreSound /\ ImportIsSound
  BY DEF FindPending, AttendanceInv
<1>2. ChangedLogs(file)' = ChangedLogs(file) /\ AbsentHasNoOvertime'
  BY <1>1, RecordsSame
<1>3. PICK M : M = {ed \in {e \in Employees : CanAccess(e)} \X DateKeys(s, t) : records[ed[1]][ed[2]] = Absence}
  OBVIOUS
<1>4. pending' = [start |-> s, end |-> t, missing |-> M]
  BY <1>3 DEF FindPending
<1>5. ListIsSound'
  <2>1. pending'.start = s /\ pending'.end = t /\ pending'.missing = M
    BY <1>4
  <2>2. UnlistedIsRecorded'
    <3> SUFFICES ASSUME NEW e \in Employees, CanAccess(e), NEW d \in s..t
                 PROVE  <<e, d>> \in M \/ records[e][d] # Absence
      BY <1>1, <2>1 DEF UnlistedIsRecorded, CanAccess
    <3>1. d \in DateKeys(s, t)
      BY AttendanceAssumption DEF DateKeys, Dates
    <3> QED  BY <1>3, <3>1
  <2> QED  BY <2>1, <2>2 DEF ListIsSound
<1>6. RequestsAreSound'
  BY <1>1 DEF RequestsAreSound, RequestIsSound
<1>7. RecordsAreTyped'
  BY <1>1 DEF RecordsAreTyped
<1> QED  BY <1>1, <1>2, <1>5, <1>6, <1>7, ImportKept DEF AttendanceInv

\* The invariant of attendance holds before the first record.
LEMMA AttendanceStart == AttendanceInit => AttendanceInv
<1> SUFFICES ASSUME AttendanceInit PROVE AttendanceInv
  OBVIOUS
<1>1. \A e \in Employees, d \in Dates : records[e][d] = Absence
  BY DEF AttendanceInit
<1>2. RecordsAreTyped
  <2>1. file \in Seq(Rows)
    <3>1. \E a, b \in Rows : file = <<a>> \/ file = <<a, b>>
      BY DEF AttendanceInit
    <3>2. PICK a \in Rows, b \in Rows : file = <<a>> \/ file = <<a, b>>
      BY <3>1
    <3>3. CASE file = <<a>>
      BY <3>3
    <3>4. CASE file = <<a, b>>
      BY <3>4
    <3> QED  BY <3>2, <3>3, <3>4
  <2> QED  BY <2>1, AttendanceAssumption DEF RecordsAreTyped, AttendanceInit
<1>3. AbsentHasNoOvertime
  BY <1>1 DEF AbsentHasNoOvertime
<1>4. RequestsAreSound
  BY DEF AttendanceInit, RequestsAreSound, RequestIsSound
<1>5. ImportIsSound
  BY DEF AttendanceInit, ImportIsSound
<1>6. ListIsSound
  BY DEF AttendanceInit, ListIsSound, UnlistedIsRecorded
<1> QED  BY <1>2, <1>3, <1>4, <1>5, <1>6 DEF AttendanceInv

\* Every step of attendance keeps the invariant.
LEMMA AttendanceNext ==
    AttendanceInv /\ [ImportStep \/ EditStep \/ PendingStep]_attendanceVars => AttendanceInv'
<1> SUFFICES ASSUME AttendanceInv, [ImportStep \/ EditStep \/ PendingStep]_attendanceVars
             PROVE  AttendanceInv'
  OBVIOUS
<1>1. CASE ImportStep
  BY <1>1, StepBulkCreate, StepImport DEF ImportStep
<1>2. CASE EditStep
  BY <1>2, StepBeginCreate, StepBeginUpdate, StepCommitCreate, StepCommitUpdate, StepApprove DEF EditStep
<1>3. CASE PendingStep
  BY <1>3, StepFindPending DEF PendingStep
<1>4. CASE UNCHANGED attendanceVars
  <2>1. UNCHANGED <<place, office, records, writer, edits, file, upload, pending>>
    BY <1>4 DEF attendanceVars
  <2>2. RecordsAreTyped' /\ RequestsAreSound'
    BY <2>1 DEF AttendanceInv, RecordsAreTyped, RequestsAreSound, RequestIsSound
  <2> QED  BY <2>1, <2>2, RecordsSame, ImportKept, ListKept DEF AttendanceInv
<1> QED  BY <1>1, <1>2, <1>3, <1>4

\* The invariant of attendance holds throughout.
LEMMA AttendanceAlways == AttendanceSpec => []AttendanceInv
BY AttendanceStart, AttendanceNext, PTL DEF AttendanceSpec

\* For any employees, dates and requests in flight: an absence carries no
\* overtime that payroll would pay, however edits, imports and approvals
\* interleave, and a day left out of a list of missing days has a record for
\* good (time-records.service create, update, bulkCreate, findPending).
THEOREM AttendanceIsSound == AttendanceSpec => []AttendanceSound
<1>1. AttendanceInv => AttendanceSound
  <2> SUFFICES ASSUME AttendanceInv PROVE AttendanceSound
    OBVIOUS
  <2>1. \A w \in Writers : writer[w].pc \in {"idle", "create", "update"}
    BY DEF AttendanceInv, RequestsAreSound, RequestIsSound, WIdle, Creation, Change
  <2>2. AttendanceTypeOK
    BY <2>1 DEF AttendanceInv, AttendanceTypeOK, RecordsAreTyped, ImportIsSound
  <2> QED  BY <2>2 DEF AttendanceInv, AttendanceSound, ListIsSound
<1> QED  BY <1>1, AttendanceAlways, PTL

\* For any template with one row for each person: once an import went through
\* and nobody wrote meanwhile, every cell is stored as typed and uploading the
\* file again sends nothing (handleImportUpload of the attendance page).
THEOREM ImportedFileIsStored == AttendanceSpec => []FileIsStored
<1>1. AttendanceInv => FileIsStored
  <2> SUFFICES ASSUME AttendanceInv, upload.settled, OneRowEach
               PROVE  /\ ChangedLogs(file) = {}
                      /\ \A i \in DOMAIN file : \A d \in {c \in Dates : Symbol(file[i], c) # Absence} :
                           LET rec == records[file[i].emp][d]
                               present == Symbol(file[i], d) = "P"
                               overtime == present /\ FirstPresent(file[i], d) /\ file[i].hours # Absence
                           IN
                           /\ rec.status = IF present THEN "PRESENT" ELSE "ABSENT"
                           /\ rec.hours = IF overtime THEN file[i].hours ELSE 0
    BY DEF FileIsStored, OneRowEach
  <2>1. ChangedLogs(file) = {} /\ Readable(file) /\ RecordsAreTyped
    BY DEF AttendanceInv, ImportIsSound
  <2>2. ASSUME NEW i \in DOMAIN file, NEW d \in Dates, Symbol(file[i], d) # Absence
        PROVE  /\ records[file[i].emp][d].status = IF Symbol(file[i], d) = "P" THEN "PRESENT" ELSE "ABSENT"
               /\ records[file[i].emp][d].hours =
                    IF Symbol(file[i], d) = "P" /\ FirstPresent(file[i], d) /\ file[i].hours # Absence
                    THEN file[i].hours ELSE 0
    <3>1. LogOf(file, i, d) \in AllProcessedLogs(file)
      <4>1. <<i, d>> \in Filled(file) /\ <<i, d>>[1] = i /\ <<i, d>>[2] = d
        BY <2>2 DEF Filled
      <4> QED  BY <4>1 DEF AllProcessedLogs
    <3>2. IsUnchanged(LogOf(file, i, d))
      BY <2>1, <3>1 DEF ChangedLogs
    <3>3. /\ records[file[i].emp][d].status = LogOf(file, i, d).status
          /\ SameHours(records[file[i].emp][d].hours, CellHours(file[i], d))
      BY <2>1, <3>2, LogTyped DEF IsUnchanged
    <3>4. LogOf(file, i, d).status = IF Symbol(file[i], d) = "P" THEN "PRESENT" ELSE "ABSENT"
      BY <2>1, LogTyped
    <3>5. /\ Symbol(file[i], d) \in {"P", "A"}
          /\ Symbol(file[i], d) = "A" => CellHours(file[i], d) = Absence
          /\ Symbol(file[i], d) = "P" =>
               CellHours(file[i], d) = IF file[i].hours = Absence THEN Absence
                                       ELSE IF FirstPresent(file[i], d) THEN file[i].hours ELSE 0
      BY <2>1, <2>2, LogFits
    <3>6. file[i].hours \in Hours \cup {Absence} /\ 0 # Absence
      BY <2>1, RowsTyped, AttendanceAssumption, AbsenceAssumption
    <3> QED  BY <3>3, <3>4, <3>5, <3>6 DEF SameHours
  <2> QED  BY <2>1, <2>2
<1> QED  BY <1>1, AttendanceAlways, PTL


-----------------------------------------------------------------------------
(* Earnings *)

\* A difference that is cut off at zero.
LEMMA LessIs ==
    ASSUME NEW a \in Int, NEW b \in Int
    PROVE  Less(a, b) \in Nat /\ (a <= b => Less(a, b) = 0) /\ (a >= b => Less(a, b) = a - b)
BY DEF Less, MaxOf

\* The days that are expected are at least one, and whoever came does not change them.
LEMMA ExpectedDays ==
    ASSUME NEW s \in Slip
    PROVE  /\ ExpectedWorkDays(s) \in Nat \ {0}
           /\ s.freq = "MONTHLY" /\ s.workDays = NoValue => ExpectedWorkDays(s) = 22
<1>1. /\ s.period \in Nat /\ s.contract \in Nat \cup {NoValue} /\ s.workDays \in Nat \cup {NoValue}
  BY DEF Slip
<1> QED  BY <1>1 DEF ExpectedWorkDays, MaxOf, MonthlyWorkDays

\* A daily rate, rounded to cents: 22 of them are the salary up to 11 cents.
LEMMA RateRounded ==
    ASSUME NEW r \in Nat
    PROVE  /\ CalculateMonthlyDailyRate(r, 22) \in Nat
           /\ 44 * CalculateMonthlyDailyRate(r, 22) >= 2 * r - 21
BY DEF CalculateMonthlyDailyRate

\* What the brackets of the preview are, for every salary.
LEMMA PayeIs == ASSUME gross \in Nat PROVE PayeFollowsBrackets
<1>1. PICK g \in Nat : g = gross
  OBVIOUS
<1>2. PICK a \in Nat, b \in Nat, c \in Nat :
        /\ a = Less(MinOf(g, 100000), 60000) /\ b = Less(MinOf(g, 200000), 100000) /\ c = Less(g, 200000)
  <2>1. MinOf(g, 100000) \in Int /\ MinOf(g, 200000) \in Int
    BY DEF MinOf
  <2>2. /\ Less(MinOf(g, 100000), 60000) \in Nat /\ Less(MinOf(g, 200000), 100000) \in Nat
        /\ Less(g, 200000) \in Nat
    BY <2>1 DEF Less, MaxOf
  <2> QED  BY <2>2
<1>3. CASE g <= 60000
  <2>1. a = 0 /\ b = 0 /\ c = 0
    BY <1>2, <1>3 DEF Less, MaxOf, MinOf
  <2>2. Rounded(0) = 0
    BY DEF Rounded
  <2>3. Less(g, 60000) = 0 /\ Less(0, 40000) = 0
    BY <1>3 DEF Less, MaxOf
  <2>4. CalculateRwandaPaye(g) = 0
    BY <1>3, <2>3 DEF CalculateRwandaPaye
  <2> QED  BY <1>1, <1>2, <2>1, <2>2, <2>4 DEF PayeFollowsBrackets
<1>4. CASE g > 60000 /\ g <= 100000
  <2>1. a = g - 60000 /\ b = 0 /\ c = 0 /\ Less(g, 60000) = g - 60000
    BY <1>2, <1>4 DEF Less, MaxOf, MinOf
  <2>2. CalculateRwandaPaye(g) = Rounded(g - 60000)
    BY <1>4, <2>1 DEF CalculateRwandaPaye
  <2>3. a + 2 * b + 3 * c = g - 60000
    BY <2>1
  <2> QED  BY <1>1, <1>2, <2>2, <2>3 DEF PayeFollowsBrackets
<1>5. CASE g > 100000 /\ g <= 200000
  <2>1. a = 40000 /\ b = g - 100000 /\ c = 0 /\ Less(g, 60000) = g - 60000 /\ Less(g - 60000, 40000) = g - 100000
    BY <1>2, <1>5 DEF Less, MaxOf, MinOf
  <2>2. CalculateRwandaPaye(g) = Rounded(40000 + 2 * (g - 100000))
    BY <1>5, <2>1 DEF CalculateRwandaPaye
  <2>3. a + 2 * b + 3 * c = 40000 + 2 * (g - 100000)
    BY <2>1
  <2> QED  BY <1>1, <1>2, <2>2, <2>3 DEF PayeFollowsBrackets
<1>6. CASE g > 200000
  <2>1. /\ a = 40000 /\ b = 100000 /\ c = g - 200000 /\ Less(g, 60000) = g - 60000
        /\ Less(g - 60000, 40000) = g - 100000 /\ Less(g - 100000, 100000) = g - 200000
    BY <1>2, <1>6 DEF Less, MaxOf, MinOf
  <2>2. CalculateRwandaPaye(g) = Rounded(40000 + 2 * 100000 + 3 * (g - 200000))
    BY <1>6, <2>1 DEF CalculateRwandaPaye
  <2>3. a + 2 * b + 3 * c = 40000 + 2 * 100000 + 3 * (g - 200000)
    BY <2>1
  <2> QED  BY <1>1, <1>2, <2>2, <2>3 DEF PayeFollowsBrackets
<1> QED  BY <1>3, <1>4, <1>5, <1>6

\* Who was never present is paid overtime and rounding at most.
LEMMA NoShowIs == ASSUME slip \in Slip PROVE NoShowIsPaidNothing
<1>1. SUFFICES ASSUME slip.present = 0, slip.freq = "MONTHLY", slip.workDays = NoValue
               PROVE  Item(slip).net <= Whole(slip, slip.overtime + MonthlyWorkDays \div 2)
  BY DEF NoShowIsPaidNothing
<1>2. PICK r \in Nat, o \in Nat, a \in Nat, p \in Nat, t \in Nat, f \in Nat :
        /\ r = slip.rate /\ o = slip.overtime /\ a = slip.allowance /\ p = slip.percent /\ t = slip.pit
        /\ f = slip.fixed
  BY DEF Slip
<1>3. ExpectedWorkDays(slip) = 22
  BY <1>1, ExpectedDays
<1>4. SalaryPresentDays(slip) = 0 /\ AbsentDays(slip) = 22
  BY <1>1, <1>3 DEF SalaryPresentDays, AbsentDays, Less, MaxOf, MinOf
<1>5. PICK q \in Nat : q = DailyRate(slip) /\ 44 * q >= 2 * r - 21
  BY <1>1, <1>2, <1>3, RateRounded DEF DailyRate, MonthlyWorkDays
<1>6. Item(slip).net = Less(r * 100 * 22 + a * 100 * 0 + o * 100 * 22,
                            r * t * 0 + (r * p * 0 + f * 100 * 0) + 22 * q * 100 * 22)
  BY <1>1, <1>2, <1>3, <1>4, <1>5 DEF Item, MonthlyItem, Whole, Prorated, ProratedShare, Configured
<1>7. r * t * 0 = 0 /\ r * p * 0 = 0
  OBVIOUS
<1>8. Item(slip).net = Less(2200 * r + 2200 * o, 48400 * q)
  BY <1>6, <1>7
<1>9. Less(2200 * r + 2200 * o, 48400 * q) <= 2200 * (o + 11)
  <2>1. PICK x \in Int, y \in Int : x = 2200 * r + 2200 * o /\ y = 48400 * q
    OBVIOUS
  <2>2. x - y <= 2200 * (o + 11) /\ 0 <= 2200 * (o + 11)
    BY <1>5, <2>1
  <2>3. Less(x, y) = 0 \/ Less(x, y) = x - y
    BY LessIs
  <2> QED  BY <2>1, <2>2, <2>3
<1>10. Whole(slip, slip.overtime + MonthlyWorkDays \div 2) = 2200 * (o + 11)
  BY <1>2, <1>3 DEF Whole, MonthlyWorkDays
<1> QED  BY <1>8, <1>9, <1>10

\* What the computations start from.
EarningsInv == slip \in Slip /\ gross \in Nat

\* The invariant of a pay slip holds throughout.
LEMMA EarningsAlways == EarningsSpec => []EarningsInv
<1>1. EarningsInit => EarningsInv
  BY EarningsAssumption DEF EarningsInit, EarningsInv
<1>2. EarningsInv /\ [MarkPresent \/ PreviewMore]_earningsVars => EarningsInv'
  BY EarningsAssumption DEF EarningsInv, MarkPresent, PreviewMore, earningsVars, Slip
<1> QED  BY <1>1, <1>2, PTL DEF EarningsSpec

\* For every salary, levy and overtime: somebody who never came is paid nothing
\* but overtime and what rounding leaves over, and the tax of the preview is
\* the sum over the brackets (calculateEmployeePayroll, calculateRwandaPaye).
THEOREM EarningsAreSound == EarningsSpec => []EarningsSound
<1>1. EarningsInv => EarningsSound
  BY PayeIs, NoShowIs DEF EarningsInv, EarningsSound
<1> QED  BY <1>1, EarningsAlways, PTL


\* One more day of presence: what is left does not fall, up to c.
LEMMA LeftGrows ==
    ASSUME NEW a \in Int, NEW b \in Int, NEW d \in Int, NEW e \in Int, NEW c \in Nat, d - e + c >= a - b
    PROVE  Less(d, e) + c >= Less(a, b)
<1>1. Less(d, e) = IF d >= e THEN d - e ELSE 0
  BY DEF Less, MaxOf
<1>2. Less(a, b) = IF a >= b THEN a - b ELSE 0
  BY DEF Less, MaxOf
<1> QED  BY <1>1, <1>2

\* The net amounts of items, by their inputs.
MonthlyNet(r, a, o, p, t, f, W, P, q) ==
    Less(r * 100 * W + a * 100 * P + o * 100 * W,
         r * t * P + (r * p * P + f * 100 * P) + ((W - P) * q) * 100 * W)
LongNet(F, a, o, p, f, W, P) ==
    Less(F * 100 * P + a * 100 * P + o * 100 * W, F * p * P + f * 100 * P)

\* A day's levies are below its pay: a day of absence costs what a day earns,
\* up to a cent.
LEMMA MonthlyMore ==
    ASSUME NEW r \in Nat, NEW a \in Nat, NEW o \in Nat, NEW p \in Nat, NEW t \in Nat, NEW f \in Nat,
           NEW W \in Nat, NEW P \in Nat, NEW q \in Nat, P < W,
           r * (p + t) + 100 * f <= 100 * (r + a), q * W + W >= r
    PROVE  MonthlyNet(r, a, o, p, t, f, W, P + 1, q) + 100 * W >= MonthlyNet(r, a, o, p, t, f, W, P, q)
<1>1. PICK u \in Nat, v \in Nat, h \in Nat, k \in Int : u = r * t /\ v = r * p /\ h = q * W /\ k = (W - P) * q
  OBVIOUS
<1>2. u * (P + 1) = u * P + u /\ v * (P + 1) = v * P + v
  OBVIOUS
<1>3. r * (p + t) = v + u
  BY <1>1
<1>4. (W - (P + 1)) * q = k - q
  BY <1>1
<1>5. (k - q) * 100 * W = k * 100 * W - 100 * h
  BY <1>1
<1>6. PICK x \in Int, y \in Int : /\ x = r * 100 * W + a * 100 * P + o * 100 * W
                                  /\ y = u * P + (v * P + f * 100 * P) + k * 100 * W
  OBVIOUS
<1>7. r * 100 * W + a * 100 * (P + 1) + o * 100 * W = x + 100 * a
  BY <1>6
<1>8. u * (P + 1) + (v * (P + 1) + f * 100 * (P + 1)) + ((W - (P + 1)) * q) * 100 * W
        = y + (u + v + 100 * f - 100 * h)
  BY <1>2, <1>4, <1>5, <1>6
<1>9. (x + 100 * a) - (y + (u + v + 100 * f - 100 * h)) + 100 * W >= x - y
  BY <1>1, <1>3
<1>10. Less(x + 100 * a, y + (u + v + 100 * f - 100 * h)) + 100 * W >= Less(x, y)
  BY <1>9, LeftGrows
<1> QED  BY <1>1, <1>6, <1>7, <1>8, <1>10 DEF MonthlyNet

\* More than 21 days: a day's levies are below its pay.
LEMMA LongMore ==
    ASSUME NEW F \in Nat, NEW a \in Nat, NEW o \in Nat, NEW p \in Nat, NEW t \in Nat, NEW f \in Nat,
           NEW W \in Nat, NEW P \in Nat, F * (p + t) + 100 * f <= 100 * (F + a)
    PROVE  LongNet(F, a, o, p, f, W, P + 1) + 100 * W >= LongNet(F, a, o, p, f, W, P)
<1>1. PICK v \in Nat, u \in Nat : v = F * p /\ u = F * t
  OBVIOUS
<1>2. v * (P + 1) = v * P + v /\ F * (p + t) = v + u
  BY <1>1
<1>3. PICK x \in Int, y \in Int : /\ x = F * 100 * P + a * 100 * P + o * 100 * W
                                  /\ y = v * P + f * 100 * P
  OBVIOUS
<1>4. F * 100 * (P + 1) + a * 100 * (P + 1) + o * 100 * W = x + (100 * F + 100 * a)
  BY <1>3
<1>5. v * (P + 1) + f * 100 * (P + 1) = y + (v + 100 * f)
  BY <1>2, <1>3
<1>6. (x + (100 * F + 100 * a)) - (y + (v + 100 * f)) + 100 * W >= x - y
  BY <1>2
<1>7. Less(x + (100 * F + 100 * a), y + (v + 100 * f)) + 100 * W >= Less(x, y)
  BY <1>6, LeftGrows
<1> QED  BY <1>1, <1>3, <1>4, <1>5, <1>7 DEF LongNet


\* 22 rounded daily rates, or as many as a month is taken for, and a cent for
\* each make up the salary.
LEMMA RateCovers ==
    ASSUME NEW s \in Slip, s.freq = "MONTHLY", ExpectedWorkDays(s) >= 22
    PROVE  /\ DailyRate(s) \in Nat
           /\ DailyRate(s) * ExpectedWorkDays(s) + ExpectedWorkDays(s) >= s.rate
<1>1. PICK r \in Nat, W \in Nat : r = s.rate /\ W = ExpectedWorkDays(s) /\ W >= 22
  BY ExpectedDays DEF Slip
<1>2. PICK c \in Nat : c = CalculateMonthlyDailyRate(r, 22) /\ 44 * c >= 2 * r - 21
  BY RateRounded
<1>3. CASE c # 0
  <2>1. DailyRate(s) = c
    BY <1>1, <1>2, <1>3 DEF DailyRate, MonthlyWorkDays
  <2>2. c * W >= c * 22
    BY <1>1
  <2> QED  BY <1>1, <1>2, <2>1, <2>2
<1>4. CASE c = 0
  <2>1. DailyRate(s) = CalculateMonthlyDailyRate(r, W)
    BY <1>1, <1>2, <1>4 DEF DailyRate, MonthlyWorkDays
  <2>2. PICK q \in Nat : q = CalculateMonthlyDailyRate(r, W)
    <3>1. 2 * r + W \in Nat /\ 2 * W \in Nat /\ 2 * W > 0
      BY <1>1
    <3> QED  BY <3>1 DEF CalculateMonthlyDailyRate
  <2>3. q * W >= 0
    OBVIOUS
  <2>4. r <= 10
    BY <1>2, <1>4
  <2> QED  BY <1>1, <2>1, <2>2, <2>3, <2>4
<1> QED  BY <1>3, <1>4

\* Only the presence differs: the same days are expected, at the same rate.
LEMMA OneDayMore ==
    ASSUME NEW s \in Slip, NEW z, z = [s EXCEPT !.present = s.present + 1]
    PROVE  /\ z \in Slip /\ z.present = s.present + 1
           /\ z.freq = s.freq /\ z.rate = s.rate /\ z.overtime = s.overtime /\ z.allowance = s.allowance
           /\ z.percent = s.percent /\ z.pit = s.pit /\ z.fixed = s.fixed /\ z.override = s.override
           /\ ExpectedWorkDays(z) = ExpectedWorkDays(s) /\ DailyRate(z) = DailyRate(s)
<1>1. /\ z \in Slip /\ z.present = s.present + 1
      /\ z.freq = s.freq /\ z.rate = s.rate /\ z.overtime = s.overtime /\ z.allowance = s.allowance
      /\ z.percent = s.percent /\ z.pit = s.pit /\ z.fixed = s.fixed /\ z.override = s.override
      /\ z.period = s.period /\ z.contract = s.contract /\ z.workDays = s.workDays
  BY DEF Slip
<1>2. ExpectedWorkDays(z) = ExpectedWorkDays(s)
  BY <1>1 DEF ExpectedWorkDays
<1>3. DailyRate(z) = DailyRate(s)
  BY <1>1, <1>2 DEF DailyRate
<1> QED  BY <1>1, <1>2, <1>3

\* One more day of presence lowers the net pay by no more than a cent of rounding.
LEMMA PresencePays ==
    ASSUME NEW s \in Slip, NEW z, z = [s EXCEPT !.present = s.present + 1],
           NEW F \in Nat, F = (IF s.freq = "MONTHLY" THEN s.rate ELSE s.rate * ExpectedWorkDays(s)),
           F * (s.percent + s.pit) + 100 * s.fixed <= 100 * (F + s.allowance),
           IF s.freq = "MONTHLY" THEN ExpectedWorkDays(s) >= MonthlyWorkDays ELSE z.present # 22
    PROVE  Item(z).net + Whole(s, 1) >= Item(s).net
<1>1. PICK r \in Nat, o \in Nat, a \in Nat, p \in Nat, t \in Nat, f \in Nat, n \in Nat, W \in Nat :
        /\ r = s.rate /\ o = s.overtime /\ a = s.allowance /\ p = s.percent /\ t = s.pit
        /\ f = s.fixed /\ n = s.present /\ W = ExpectedWorkDays(s) /\ W > 0
  BY ExpectedDays DEF Slip
<1>2. /\ z.present = n + 1 /\ z.freq = s.freq /\ z.rate = r /\ z.overtime = o /\ z.allowance = a
      /\ z.percent = p /\ z.pit = t /\ z.fixed = f /\ z.override = s.override
      /\ ExpectedWorkDays(z) = W /\ DailyRate(z) = DailyRate(s)
  BY <1>1, OneDayMore
<1>3. Whole(s, 1) = 100 * W
  BY <1>1 DEF Whole
<1>4. F * (p + t) + 100 * f <= 100 * (F + a)
  BY <1>1
<1>5. CASE s.freq = "MONTHLY"
  <2>1. PICK q \in Nat : q = DailyRate(s) /\ q * W + W >= r
    BY <1>1, <1>5, RateCovers DEF MonthlyWorkDays
  <2>2. PICK P \in Nat, Q \in Nat :
          /\ P = SalaryPresentDays(s) /\ Q = SalaryPresentDays(z) /\ P <= W /\ Q <= W
          /\ (n < W => P = n /\ Q = n + 1) /\ (n >= W => P = W /\ Q = W)
    <3>1. SalaryPresentDays(s) = IF n < W THEN n ELSE W
      <4>1. SalaryPresentDays(s) = MinOf(n, W)
        BY <1>1, <1>5 DEF SalaryPresentDays
      <4> QED  BY <4>1 DEF MinOf
    <3>2. SalaryPresentDays(z) = IF n < W THEN n + 1 ELSE W
      BY <1>2, <1>5 DEF SalaryPresentDays, MinOf
    <3>3. SalaryPresentDays(s) \in Nat /\ SalaryPresentDays(z) \in Nat
      BY <3>1, <3>2
    <3>4. /\ SalaryPresentDays(s) <= W /\ SalaryPresentDays(z) <= W
          /\ n < W => SalaryPresentDays(s) = n /\ SalaryPresentDays(z) = n + 1
          /\ n >= W => SalaryPresentDays(s) = W /\ SalaryPresentDays(z) = W
      BY <3>1, <3>2
    <3> QED  BY <3>3, <3>4
  <2>3. AbsentDays(s) = W - P /\ AbsentDays(z) = W - Q
    BY <1>1, <1>2, <2>2 DEF AbsentDays, Less, MaxOf
  <2>4. Item(s).net = MonthlyNet(r, a, o, p, t, f, W, P, q)
    BY <1>1, <1>5, <2>1, <2>2, <2>3 DEF Item, MonthlyItem, MonthlyNet, Whole, Prorated, ProratedShare,
                                                   Configured
  <2>5. Item(z).net = MonthlyNet(r, a, o, p, t, f, W, Q, q)
    BY <1>2, <1>5, <2>1, <2>2, <2>3 DEF Item, MonthlyItem, MonthlyNet, Whole, Prorated, ProratedShare,
                                                   Configured
  <2>6. CASE n < W
    <3>1. F = r
      BY <1>1, <1>5
    <3>2. P < W /\ Q = P + 1
      BY <2>2, <2>6
    <3>3. r * (p + t) + 100 * f <= 100 * (r + a)
      BY <1>4, <3>1
    <3>4. MonthlyNet(r, a, o, p, t, f, W, P + 1, q) + 100 * W >= MonthlyNet(r, a, o, p, t, f, W, P, q)
      BY <2>1, <3>2, <3>3, MonthlyMore
    <3> QED  BY <1>3, <2>4, <2>5, <3>2, <3>4
  <2>7. CASE n >= W
    <3>1. P = Q
      BY <2>2, <2>7
    <3>2. MonthlyNet(r, a, o, p, t, f, W, P, q) \in Nat
      <4>1. PICK x \in Int, y \in Int :
              /\ x = r * 100 * W + a * 100 * P + o * 100 * W
              /\ y = r * t * P + (r * p * P + f * 100 * P) + ((W - P) * q) * 100 * W
        OBVIOUS
      <4> QED  BY <4>1, LessIs DEF MonthlyNet
    <3>3. PICK N \in Nat : Item(z).net = N /\ Item(s).net = N
      BY <2>4, <2>5, <3>1, <3>2
    <3> QED  BY <1>3, <3>3
  <2> QED  BY <2>6, <2>7
<1>6. CASE s.freq # "MONTHLY" /\ n > 21
  <2>1. SalaryPresentDays(s) = n /\ SalaryPresentDays(z) = n + 1 /\ F = r * W
    BY <1>1, <1>2, <1>6 DEF SalaryPresentDays
  <2>2. Item(s).net = LongNet(F, a, o, p, f, W, n)
    BY <1>1, <1>6, <2>1 DEF Item, LongItem, LongNet, IsOver21Days, Whole, Prorated, ProratedShare,
                                             Configured
  <2>3. Item(z).net = LongNet(F, a, o, p, f, W, n + 1)
    BY <1>2, <1>6, <2>1 DEF Item, LongItem, LongNet, IsOver21Days, Whole, Prorated, ProratedShare,
                                             Configured
  <2>4. LongNet(F, a, o, p, f, W, n + 1) + 100 * W >= LongNet(F, a, o, p, f, W, n)
    BY <1>4, LongMore
  <2> QED  BY <1>3, <2>2, <2>3, <2>4
<1>7. CASE s.freq # "MONTHLY" /\ ~ (n > 21)
  <2>1. n + 1 <= 21
    BY <1>2, <1>7
  <2>2. PICK b \in Nat, c \in Nat : /\ b = (IF s.override # NoValue THEN s.override ELSE r * n)
                                    /\ c = (IF s.override # NoValue THEN s.override ELSE r * (n + 1))
                                    /\ c >= b
    <3>1. r * (n + 1) = r * n + r /\ r * n \in Nat
      OBVIOUS
    <3> QED  BY <3>1 DEF Slip
  <2>3. Item(s).net = b * 100 * W + o * 100 * W
    BY <1>1, <1>7, <2>2 DEF Item, ShortItem, IsOver21Days, Whole
  <2>4. Item(z).net = c * 100 * W + o * 100 * W
    BY <1>2, <1>7, <2>1, <2>2 DEF Item, ShortItem, IsOver21Days, Whole
  <2>5. c * 100 * W >= b * 100 * W
    BY <2>2
  <2> QED  BY <1>3, <2>3, <2>4, <2>5
<1> QED  BY <1>5, <1>6, <1>7

\* For every salary, allowance, levy and number of working days: coming one
\* more day never lowers the pay, as long as the levies of a day are below its
\* pay, the 22nd day of a daily employee excepted (calculateEmployeePayroll).
THEOREM PresenceNeverCostsAnything == EarningsSpec => PresenceNeverCosts
<1> DEFINE Full == IF slip.freq = "MONTHLY" THEN slip.rate ELSE slip.rate * ExpectedWorkDays(slip)
<1> DEFINE Pays ==
       /\ Full * (slip.percent + slip.pit) + 100 * slip.fixed <= 100 * (Full + slip.allowance)
       /\ IF slip.freq = "MONTHLY" THEN ExpectedWorkDays(slip) >= MonthlyWorkDays ELSE slip'.present # 22
       => Item(slip').net + Whole(slip, 1) >= Item(slip).net
<1>1. EarningsInv /\ [MarkPresent \/ PreviewMore]_earningsVars => [Pays]_slip
  <2> SUFFICES ASSUME EarningsInv, MarkPresent PROVE Pays
    BY DEF PreviewMore, earningsVars
  <2>1. PICK s \in Slip : s = slip
    BY DEF EarningsInv
  <2>2. PICK z : z = slip'
    OBVIOUS
  <2>3. z = [s EXCEPT !.present = s.present + 1]
    BY <2>1, <2>2 DEF MarkPresent
  <2>4. PICK F \in Nat : F = (IF s.freq = "MONTHLY" THEN s.rate ELSE s.rate * ExpectedWorkDays(s))
    <3>1. s.rate \in Nat /\ ExpectedWorkDays(s) \in Nat
      BY ExpectedDays DEF Slip
    <3>2. s.rate * ExpectedWorkDays(s) \in Nat
      BY <3>1
    <3> QED  BY <3>1, <3>2
  <2> QED  BY <2>1, <2>2, <2>3, <2>4, PresencePays
<1> QED  BY <1>1, EarningsAlways, PTL DEF EarningsSpec, PresenceNeverCosts

-----------------------------------------------------------------------------
(* Levies: the row of a tax that counts *)

\* A set that is finite can be listed, every member once.
LEMMA ListOfSet ==
    ASSUME NEW S, IsFiniteSet(S)
    PROVE  /\ SetToSeq(S) \in Seq(S)
           /\ \A i, j \in DOMAIN SetToSeq(S) : SetToSeq(S)[i] = SetToSeq(S)[j] => i = j
           /\ \A x \in S : \E i \in DOMAIN SetToSeq(S) : SetToSeq(S)[i] = x
<1>1. PICK n \in Nat : n = Cardinality(S)
  BY FS_CardinalityType
<1>2. PICK g \in Bijection(1..n, S) : TRUE
  BY <1>1, FS_CardinalityType DEF ExistsBijection
<1>3. g \in [1..n -> S] /\ IsInjective(g)
  BY <1>2 DEF Bijection, Injection
<1>4. PICK f : f = SetToSeq(S)
  OBVIOUS
<1>5. f \in [1..n -> S] /\ IsInjective(f)
  BY <1>1, <1>3, <1>4 DEF SetToSeq
<1>6. IsFiniteSet(1..n) /\ Cardinality(1..n) = n
  BY FS_Interval
<1>7. f \in Surjection(1..n, S)
  BY <1>1, <1>5, <1>6, FS_Injection DEF Injection
<1>8. f \in Seq(S) /\ DOMAIN f = 1..n
  BY <1>5
<1>9. \A x \in S : \E i \in 1..n : f[i] = x
  BY <1>7 DEF Surjection
<1>10. \A i, j \in 1..n : f[i] = f[j] => i = j
  BY <1>5 DEF IsInjective
<1> QED  BY <1>4, <1>8, <1>9, <1>10

\* What a row of a table holds.
LEMMA RowOfTax ==
    ASSUME NEW tx \in Seq(Tax), NEW i \in DOMAIN tx
    PROVE  /\ i \in Nat /\ i <= Len(tx) /\ tx[i] \in Tax
           /\ tx[i].name \in Names /\ tx[i].rate \in Percents
           /\ tx[i].from \in Nat /\ tx[i].from <= LastMonth + 1
<1>1. tx[i] \in Tax /\ i \in Nat /\ i <= Len(tx)
  OBVIOUS
<1>2. PICK row \in Tax : row = tx[i]
  BY <1>1
<1>3. row.name \in Names /\ row.rate \in Percents /\ row.from \in Nat /\ row.from <= LastMonth + 1
  BY LeviesAssumption DEF Tax
<1> QED  BY <1>1, <1>2, <1>3

\* A row of deductions names a type and an employee.
LEMMA RowOfDeduction ==
    ASSUME NEW ds \in Seq(Deduction), NEW i \in DOMAIN ds
    PROVE  ds[i] \in Deduction /\ ds[i].type \in Names /\ ds[i].emp \in Workers
<1>1. ds[i] \in Deduction
  OBVIOUS
<1> QED  BY <1>1 DEF Deduction

\* Row i is the one that findMonthlyTaxesAtDate takes of the rows ts.
IsLatest(tx, ts, i) ==
    i \in ts /\ \A j \in ts : tx[j].from < tx[i].from \/ (tx[j].from = tx[i].from /\ j <= i)

\* Of any rows one is the latest, and only one.
LEMMA LatestExists ==
    ASSUME NEW tx \in Seq(Tax), NEW ts \in SUBSET DOMAIN tx, ts # {}
    PROVE  \E i \in ts : IsLatest(tx, ts, i)
<1>1. \A i \in ts : i \in Nat /\ i <= Len(tx) /\ tx[i].from \in Nat /\ tx[i].from <= LastMonth + 1
  BY RowOfTax
<1>2. PICK n \in Nat : n = LastMonth + 1
  BY LeviesAssumption
<1>8. PICK F \in SUBSET (0..n) : F = {tx[i].from : i \in ts}
  <2>1. \A i \in ts : tx[i].from \in 0..n
    BY <1>1, <1>2
  <2> QED  BY <2>1
<1>3. PICK f \in F : \A g \in F : g <= f
  <2>1. F # {}
    BY <1>8
  <2> QED  BY <2>1, GreatestExists
<1>4. PICK T \in SUBSET (0..Len(tx)) : T = {i \in ts : tx[i].from = f}
  <2>1. \A i \in ts : i \in 0..Len(tx)
    BY <1>1
  <2> QED  BY <2>1
<1>5. T # {}
  BY <1>3, <1>4, <1>8
<1>6. PICK i \in T : \A j \in T : j <= i
  <2>1. Len(tx) \in Nat
    OBVIOUS
  <2> QED  BY <1>5, <2>1, GreatestExists
<1>7. ASSUME NEW j \in ts PROVE tx[j].from < tx[i].from \/ (tx[j].from = tx[i].from /\ j <= i)
  <2>1. tx[j].from \in F /\ tx[i].from = f
    BY <1>4, <1>8
  <2>2. tx[j].from <= f /\ f \in Nat
    BY <1>1, <1>3, <2>1
  <2>3. tx[j].from = f => j \in T
    BY <1>4
  <2> QED  BY <1>1, <1>6, <2>1, <2>2, <2>3
<1> QED  BY <1>4, <1>7 DEF IsLatest

\* The latest of some rates of a tax is one row.
LEMMA LatestIsOne ==
    ASSUME NEW tx \in Seq(Tax), NEW ts \in SUBSET DOMAIN tx, NEW i, NEW j,
           IsLatest(tx, ts, i), IsLatest(tx, ts, j)
    PROVE  i = j
<1>1. i \in Nat /\ j \in Nat /\ tx[i].from \in Nat /\ tx[j].from \in Nat
  BY RowOfTax DEF IsLatest
<1>2. /\ tx[j].from < tx[i].from \/ (tx[j].from = tx[i].from /\ j <= i)
      /\ tx[i].from < tx[j].from \/ (tx[i].from = tx[j].from /\ i <= j)
  BY DEF IsLatest
<1> QED  BY <1>1, <1>2

\* Among some rates of a tax there is a latest.
LEMMA LatestIs ==
    ASSUME taxes \in Seq(Tax), NEW ts \in SUBSET DOMAIN taxes, ts # {}
    PROVE  IsLatest(taxes, ts, Latest(ts))
<1>1. \E i \in ts : \A j \in ts : taxes[j].from < taxes[i].from \/ (taxes[j].from = taxes[i].from /\ j <= i)
  BY LatestExists DEF IsLatest
<1> QED  BY <1>1 DEF IsLatest, Latest

\* Rows added behind do not change which of the others counts.
LEMMA LatestKept ==
    ASSUME taxes \in Seq(Tax), taxes' \in Seq(Tax),
           NEW ts \in SUBSET DOMAIN taxes, ts # {}, DOMAIN taxes \subseteq DOMAIN taxes',
           \A i \in DOMAIN taxes : taxes'[i] = taxes[i]
    PROVE  Latest(ts)' = Latest(ts) /\ Latest(ts) \in DOMAIN taxes
<1>1. IsLatest(taxes, ts, Latest(ts))
  BY LatestIs
<1>2. IsLatest(taxes', ts, Latest(ts))
  BY <1>1 DEF IsLatest
<1>3. \E i \in ts : \A j \in ts : taxes'[j].from < taxes'[i].from \/ (taxes'[j].from = taxes'[i].from /\ j <= i)
  BY LatestExists DEF IsLatest
<1>4. IsLatest(taxes', ts, Latest(ts)')
  BY <1>3 DEF IsLatest, Latest
<1>5. PICK i : i = Latest(ts)
  OBVIOUS
<1>6. PICK j : j = Latest(ts)'
  OBVIOUS
<1>7. i = j
  BY <1>2, <1>4, <1>5, <1>6, LatestIsOne
<1> QED  BY <1>1, <1>5, <1>6, <1>7 DEF IsLatest

-----------------------------------------------------------------------------
(* Levies: what each step leaves *)

\* What the settings write into the type of a tax is a type.
LEMMA ValuesGiven ==
    \A n \in Names, p \in Percents :
        types \in [Names -> Type \cup {Never}] => TypeForTax(n, p) \in Type /\ TypeForTax(n, p) # Never
<1> SUFFICES ASSUME NEW n \in Names, NEW p \in Percents, types \in [Names -> Type \cup {Never}]
             PROVE  TypeForTax(n, p) \in Type /\ TypeForTax(n, p) # Never
  OBVIOUS
<1>1. Percentage(p) \in Values
  BY DEF Values
<1>2. types[n] # Never => types[n].mandatory \in BOOLEAN
  BY DEF Type
<1>3. TypeForTax(n, p) \in Type
  BY <1>1, <1>2 DEF TypeForTax, Type
<1> QED  BY <1>3, EnteredAssumption

\* Types that exist stay.
TypesStay == \A n \in Names : types[n] # Never => types'[n] # Never

\* A new rate of a tax keeps the types of the levies.
LEMMA TaxAdded ==
    ASSUME LeviesTypeOK, NEW n \in Names, NEW p \in Percents, UpdateMonthlyTax(n, p)
    PROVE  LeviesTypeOK'
<1>1. PICK row : row = [name |-> n, rate |-> p, from |-> EffectiveFrom, active |-> TRUE]
  OBVIOUS
<1>2. row \in Tax
  BY <1>1, LeviesAssumption DEF LeviesTypeOK, Tax, EffectiveFrom, Months
<1>3. taxes' = Append(taxes, row) /\ taxes \in Seq(Tax)
  BY <1>1 DEF UpdateMonthlyTax, LeviesTypeOK
<1>4. taxes' \in Seq(Tax) /\ \A i \in DOMAIN taxes' : taxes'[i] = row \/ (i \in DOMAIN taxes /\ taxes'[i] = taxes[i])
  BY <1>2, <1>3
<1>5. types' \in [Names -> Type \cup {Never}] /\ TypesStay /\ (n # "pit" => types'[n] # Never)
  BY ValuesGiven DEF LeviesTypeOK, UpdateMonthlyTax, TypesStay
<1>6. \A i \in DOMAIN assigned' : types'[assigned'[i].type] # Never
  <2>1. \A i \in DOMAIN assigned : assigned[i].type \in Names
    BY RowOfDeduction DEF LeviesTypeOK
  <2> QED  BY <1>5, <2>1 DEF LeviesTypeOK, UpdateMonthlyTax, TypesStay
<1>7. \A i \in DOMAIN taxes' : taxes'[i].name = "pit" \/ types'[taxes'[i].name] # Never
  <2>1. \A i \in DOMAIN taxes : taxes[i].name \in Names
    BY RowOfTax DEF LeviesTypeOK
  <2> QED  BY <1>1, <1>4, <1>5, <2>1 DEF LeviesTypeOK, TypesStay
<1> QED  BY <1>4, <1>5, <1>6, <1>7 DEF LeviesTypeOK, UpdateMonthlyTax

\* Ending a tax keeps the types of the levies.
LEMMA TaxStopped ==
    ASSUME LeviesTypeOK, NEW i \in DOMAIN taxes, DeactivateMonthlyTax(i)
    PROVE  LeviesTypeOK'
<1>1. taxes \in Seq(Tax) /\ taxes' = [taxes EXCEPT ![i].active = FALSE]
  BY DEF LeviesTypeOK, DeactivateMonthlyTax
<1>2. [taxes[i] EXCEPT !.active = FALSE] \in Tax
  <2>1. taxes[i] \in Tax
    BY <1>1, RowOfTax
  <2> QED  BY <2>1 DEF Tax
<1>3. taxes' \in Seq(Tax) /\ DOMAIN taxes' = DOMAIN taxes
  BY <1>1, <1>2
<1>4. \A j \in DOMAIN taxes : taxes'[j].name = taxes[j].name
  <2> SUFFICES ASSUME NEW j \in DOMAIN taxes PROVE taxes'[j].name = taxes[j].name
    OBVIOUS
  <2>1. taxes[j] \in Tax
    BY <1>1
  <2> QED  BY <1>1, <2>1 DEF Tax
<1> QED  BY <1>3, <1>4 DEF LeviesTypeOK, DeactivateMonthlyTax

\* Listing the taxes, which stores defaults, keeps the types of the levies.
LEMMA TaxesListed ==
    ASSUME LeviesTypeOK, GetAllMonthlyTaxes
    PROVE  LeviesTypeOK'
<1> DEFINE rows(n) == {i \in DOMAIN taxes : taxes[i].name = n /\ taxes[i].active}
<1>1. taxes \in Seq(Tax) /\ types \in [Names -> Type \cup {Never}]
  BY DEF LeviesTypeOK
<1>2. ASSUME NEW n \in Names, rows(n) # {} PROVE TypeForTax(n, taxes[Latest(rows(n))].rate) \in Type
  <2>1. PICK ts \in SUBSET DOMAIN taxes : ts = rows(n)
    OBVIOUS
  <2>2. Latest(ts) \in DOMAIN taxes
    BY <1>1, <1>2, <2>1, LatestIs DEF IsLatest
  <2>3. taxes[Latest(ts)] \in Tax
    BY <1>1, <2>2
  <2>4. taxes[Latest(ts)].rate \in Percents
    BY <2>3 DEF Tax
  <2> QED  BY <1>1, <2>1, <2>4, ValuesGiven
<1>3. types' = [n \in Names |->
           IF n = "pit" \/ rows(n) = {} THEN types[n] ELSE TypeForTax(n, taxes[Latest(rows(n))].rate)]
  BY DEF GetAllMonthlyTaxes
<1> HIDE DEF rows
<1>4. types' \in [Names -> Type \cup {Never}] /\ TypesStay
  BY <1>1, <1>2, <1>3, EnteredAssumption DEF TypesStay
<1>5. \A i \in DOMAIN assigned : assigned[i].type \in Names
  BY RowOfDeduction DEF LeviesTypeOK
<1>6. \A i \in DOMAIN taxes : taxes[i].name \in Names
  BY RowOfTax DEF LeviesTypeOK
<1> QED  BY <1>4, <1>5, <1>6 DEF LeviesTypeOK, GetAllMonthlyTaxes, TypesStay

\* The rows applied to the active employees without one.
LEMMA Applied ==
    ASSUME LeviesTypeOK, NEW n \in Names
    PROVE  /\ Apply(n, Missing(n)) \in Seq(Deduction)
           /\ \A i \in DOMAIN Apply(n, Missing(n)) :
                 LET d == Apply(n, Missing(n))[i] IN
                 d.emp \in Missing(n) /\ d.type = n /\ d.start = month + 1 /\ d.end = Never /\ d.active
           /\ \A i, j \in DOMAIN Apply(n, Missing(n)) :
                 Apply(n, Missing(n))[i].emp = Apply(n, Missing(n))[j].emp => i = j
           /\ \A e \in Missing(n) : \E i \in DOMAIN Apply(n, Missing(n)) : Apply(n, Missing(n))[i].emp = e
<1> DEFINE new(e) == [emp |-> e, type |-> n, start |-> month + 1, end |-> Never, active |-> TRUE]
<1>1. PICK M \in SUBSET Workers : M = Missing(n)
  BY DEF Missing, LeviesTypeOK
<1>2. PICK S : S = {new(e) : e \in M}
  OBVIOUS
<1>3. IsFiniteSet(S)
  <2>1. IsFiniteSet(M)
    BY FS_Subset, LeviesAssumption
  <2>2. PICK f : f = [e \in M |-> new(e)]
    OBVIOUS
  <2>3. f \in Surjection(M, S)
    BY <1>2, <2>2 DEF Surjection
  <2> QED  BY <2>1, <2>3, FS_Surjection
<1>4. \A e \in M : new(e) \in Deduction
  BY LeviesAssumption DEF LeviesTypeOK, Months, Deduction
<1>5. PICK q : q = SetToSeq(S)
  OBVIOUS
<1>6. /\ q \in Seq(S)
      /\ \A i, j \in DOMAIN q : q[i] = q[j] => i = j
      /\ \A x \in S : \E i \in DOMAIN q : q[i] = x
  BY <1>3, <1>5, ListOfSet
<1>7. q = Apply(n, Missing(n))
  BY <1>1, <1>2, <1>5 DEF Apply
<1>8. \A i \in DOMAIN q : \E e \in M : q[i] = new(e)
  BY <1>2, <1>6
<1>9. q \in Seq(Deduction)
  <2>1. DOMAIN q = 1..Len(q) /\ Len(q) \in Nat /\ q = [i \in 1..Len(q) |-> q[i]]
    BY <1>6
  <2>2. \A i \in 1..Len(q) : q[i] \in Deduction
    BY <1>4, <1>8, <2>1
  <2> QED  BY <2>1, <2>2
<1>10. \A i \in DOMAIN q : q[i].emp \in M /\ q[i] = new(q[i].emp)
  <2> SUFFICES ASSUME NEW i \in DOMAIN q PROVE q[i].emp \in M /\ q[i] = new(q[i].emp)
    OBVIOUS
  <2>1. PICK e \in M : q[i] = new(e)
    BY <1>8
  <2>2. new(e).emp = e
    OBVIOUS
  <2> QED  BY <2>1, <2>2
<1>13. \A e \in M : new(e).emp = e
  OBVIOUS
<1>11. \A i, j \in DOMAIN q : q[i].emp = q[j].emp => i = j
  <2> HIDE DEF new
  <2> QED  BY <1>6, <1>10
<1>12. \A e \in M : \E i \in DOMAIN q : q[i].emp = e
  <2> HIDE DEF new
  <2> QED  BY <1>2, <1>6, <1>13
<1> QED  BY <1>1, <1>7, <1>9, <1>10, <1>11, <1>12

\* A row of a deduction keeps its type, or has one that exists.
LEMMA DeductionsTyped ==
    ASSUME LeviesTypeOK, assigned' \in Seq(Deduction),
           types' \in [Names -> Type \cup {Never}], TypesStay,
           \A i \in DOMAIN assigned' : \/ i \in DOMAIN assigned /\ assigned'[i].type = assigned[i].type
                                       \/ types'[assigned'[i].type] # Never,
           UNCHANGED <<month, first, active, taxes>>
    PROVE  LeviesTypeOK'
<1>1. assigned \in Seq(Deduction) /\ taxes \in Seq(Tax)
  BY DEF LeviesTypeOK
<1>2. \A i \in DOMAIN assigned : assigned[i].type \in Names /\ types[assigned[i].type] # Never
  BY <1>1, RowOfDeduction DEF LeviesTypeOK
<1>3. \A i \in DOMAIN assigned' : types'[assigned'[i].type] # Never
  BY <1>2 DEF TypesStay
<1>4. \A i \in DOMAIN taxes : taxes[i].name \in Names
  BY <1>1, RowOfTax
<1> QED  BY <1>3, <1>4 DEF LeviesTypeOK, TypesStay

\* A row is switched on or off, or ended; its type stays.
LEMMA DeductionChanged ==
    ASSUME LeviesTypeOK, NEW i \in DOMAIN assigned, NEW d \in Deduction,
           d.type = assigned[i].type, assigned' = [assigned EXCEPT ![i] = d],
           UNCHANGED <<month, first, active, taxes, types>>
    PROVE  LeviesTypeOK'
<1>1. assigned \in Seq(Deduction) /\ types' \in [Names -> Type \cup {Never}] /\ TypesStay
  BY DEF LeviesTypeOK, TypesStay
<1>2. /\ assigned' \in Seq(Deduction) /\ DOMAIN assigned' = DOMAIN assigned
      /\ \A j \in DOMAIN assigned : assigned'[j].type = assigned[j].type
  BY <1>1
<1> QED  BY <1>1, <1>2, DeductionsTyped

\* The types, whose every row has a type that exists: inductive as it stands.
LEMMA LeviesTypeStep == LeviesTypeOK /\ [LeviesStep]_leviesVars => LeviesTypeOK'
<1> SUFFICES ASSUME LeviesTypeOK, [LeviesStep]_leviesVars PROVE LeviesTypeOK'
  OBVIOUS
<1>1. assigned \in Seq(Deduction) /\ types \in [Names -> Type \cup {Never}] /\ month \in Months
  BY DEF LeviesTypeOK
<1>2. ASSUME NEW n \in Names, NEW p \in Percents, UpdateMonthlyTax(n, p) PROVE LeviesTypeOK'
  BY <1>2, TaxAdded
<1>3. ASSUME NEW n \in Names, NEW c \in Entered, NEW b \in BOOLEAN,
             CreateDeductionType(n, c, b) \/ UpdateDeductionType(n, c, b)
      PROVE  LeviesTypeOK'
  <2>1. [charge |-> c, mandatory |-> b] \in Type
    BY EnteredAssumption DEF Type
  <2>2. types' = [types EXCEPT ![n] = [charge |-> c, mandatory |-> b]]
    BY <1>3 DEF CreateDeductionType, UpdateDeductionType
  <2>3. types' \in [Names -> Type \cup {Never}] /\ TypesStay /\ types'[n] # Never
    BY <1>1, <2>1, <2>2, EnteredAssumption DEF TypesStay
  <2>4. PICK q \in Seq(Deduction) : q = Apply(n, Missing(n)) /\ \A i \in DOMAIN q : q[i].type = n
    BY Applied
  <2>5. assigned' = assigned \o q \/ assigned' = assigned
    BY <1>3, <2>4 DEF CreateDeductionType, UpdateDeductionType
  <2>6. UNCHANGED <<month, first, active, taxes>>
    BY <1>3 DEF CreateDeductionType, UpdateDeductionType
  <2>7. CASE assigned' = assigned \o q
    <3>1. /\ assigned' \in Seq(Deduction)
          /\ \A i \in DOMAIN assigned' : \/ i \in DOMAIN assigned /\ assigned'[i] = assigned[i]
                                         \/ \E j \in DOMAIN q : assigned'[i] = q[j]
      BY <1>1, <2>7
    <3> QED  BY <2>3, <2>4, <2>6, <3>1, DeductionsTyped
  <2>8. CASE assigned' = assigned
    BY <1>1, <2>3, <2>6, <2>8, DeductionsTyped
  <2> QED  BY <2>5, <2>7, <2>8
<1>4. ASSUME NEW n \in Names, NEW e \in Workers, NEW end \in Months \cup {Never},
             CreateEmployeeDeduction(e, n, month, end)
      PROVE  LeviesTypeOK'
  <2>1. PICK d : d = [emp |-> e, type |-> n, start |-> month, end |-> end, active |-> TRUE]
    OBVIOUS
  <2>2. d \in Deduction /\ d.type = n
    BY <1>1, <2>1, LeviesAssumption DEF Deduction, Months
  <2>3. /\ assigned' \in Seq(Deduction)
        /\ \A i \in DOMAIN assigned' : (i \in DOMAIN assigned /\ assigned'[i] = assigned[i]) \/ assigned'[i] = d
    BY <1>1, <1>4, <2>1, <2>2 DEF CreateEmployeeDeduction
  <2>4. types' = types /\ types[n] # Never /\ UNCHANGED <<month, first, active, taxes>>
    BY <1>4 DEF CreateEmployeeDeduction
  <2> QED  BY <1>1, <2>2, <2>3, <2>4, DeductionsTyped DEF TypesStay
<1>5. ASSUME NEW i \in DOMAIN taxes, DeactivateMonthlyTax(i) PROVE LeviesTypeOK'
  BY <1>5, TaxStopped
<1>6. ASSUME GetAllMonthlyTaxes PROVE LeviesTypeOK'
  BY <1>6, TaxesListed
<1>7. ASSUME NEW i \in DOMAIN assigned, DeleteEmployeeDeduction(i) PROVE LeviesTypeOK'
  <2>1. assigned[i] \in Deduction
    BY <1>1, RowOfDeduction
  <2>2. PICK d : d = [assigned[i] EXCEPT !.active = FALSE, !.end = month]
    OBVIOUS
  <2>3. d \in Deduction /\ d.type = assigned[i].type
    BY <1>1, <2>1, <2>2 DEF Deduction
  <2>4. assigned' = [assigned EXCEPT ![i] = d]
    BY <1>1, <1>7, <2>1, <2>2 DEF DeleteEmployeeDeduction, Deduction
  <2> QED  BY <1>7, <2>3, <2>4, DeductionChanged DEF DeleteEmployeeDeduction
<1>8. ASSUME NEW i \in DOMAIN assigned, NEW on \in BOOLEAN, UpdateEmployeeDeduction(i, on) PROVE LeviesTypeOK'
  <2>1. assigned[i] \in Deduction
    BY <1>1, RowOfDeduction
  <2>2. PICK d : d = [assigned[i] EXCEPT !.active = on]
    OBVIOUS
  <2>3. d \in Deduction /\ d.type = assigned[i].type
    BY <1>1, <2>1, <2>2 DEF Deduction
  <2>4. assigned' = [assigned EXCEPT ![i] = d]
    BY <1>8, <2>2 DEF UpdateEmployeeDeduction
  <2> QED  BY <1>8, <2>3, <2>4, DeductionChanged DEF UpdateEmployeeDeduction
<1>9. ASSUME TimePasses PROVE LeviesTypeOK'
  <2>1. month' = month \/ (month < LastMonth /\ month' = month + 1)
    BY <1>9, Zenon DEF TimePasses
  <2>2. month' \in Months
    BY <1>1, <2>1, LeviesAssumption DEF Months
  <2>3. first' \in BOOLEAN
    BY <1>9, Zenon DEF TimePasses
  <2>4. UNCHANGED <<active, taxes, types, assigned>>
    BY <1>9 DEF TimePasses
  <2> QED  BY <2>2, <2>3, <2>4 DEF LeviesTypeOK
<1>10. ASSUME NEW e \in Workers, StatusChanges(e) PROVE LeviesTypeOK'
  BY <1>10 DEF StatusChanges, LeviesTypeOK
<1>11. ASSUME UNCHANGED leviesVars PROVE LeviesTypeOK'
  BY <1>11 DEF leviesVars, LeviesTypeOK
<1> QED  BY <1>2, <1>3, <1>4, <1>5, <1>6, <1>7, <1>8, <1>9, <1>10, <1>11 DEF LeviesStep, ConfigStep

\* Whatever taxes, types and deductions are configured in whatever order, every
\* deduction assigned names a type that exists and every tax but the income tax
\* has one, which payroll reads (updateMonthlyTax, upsertDeductionTypeForTax,
\* createEmployeeDeduction); for any employees, names, rates and months.
THEOREM LeviesAreTyped == LeviesSpec => []LeviesTypeOK
<1>1. LeviesInit => LeviesTypeOK
  BY LeviesAssumption DEF LeviesInit, LeviesTypeOK, Months
<1> QED  BY <1>1, LeviesTypeStep, PTL DEF LeviesSpec

-----------------------------------------------------------------------------
(* Levies: what the month under way charges *)

\* A row that begins later leaves alone what is charged up to the month.
LEMMA ChargesKept ==
    ASSUME LeviesTypeOK, taxes' \in Seq(Tax), NEW row, taxes' = Append(taxes, row),
           NEW n \in Names, NEW m \in Months, ~ (row.from <= m),
           types'[n] = types[n] \/ n = "pit" \/ InForce(n, m) # {}
    PROVE  /\ PitRate(m)' = PitRate(m)
           /\ DeductionCharge(n, m)' = DeductionCharge(n, m) \/ n = "pit"
<1>1. /\ taxes \in Seq(Tax) /\ Len(taxes) \in Nat /\ DOMAIN taxes = 1..Len(taxes)
      /\ DOMAIN taxes' = 1..(Len(taxes) + 1) /\ taxes'[Len(taxes) + 1] = row
      /\ \A i \in DOMAIN taxes : taxes'[i] = taxes[i]
  BY DEF LeviesTypeOK
<1>2. \A i \in DOMAIN taxes' : i \in DOMAIN taxes \/ i = Len(taxes) + 1
  BY <1>1
<1>3. \A k \in Names : InForce(k, m)' = InForce(k, m)
  BY <1>1, <1>2 DEF InForce
<1>4. ASSUME NEW k \in Names, InForce(k, m) # {}
      PROVE  taxes'[Latest(InForce(k, m))'] = taxes[Latest(InForce(k, m))]
  <2>1. PICK ts \in SUBSET DOMAIN taxes : ts = InForce(k, m)
    BY DEF InForce
  <2>2. Latest(ts)' = Latest(ts) /\ Latest(ts) \in DOMAIN taxes
    BY <1>1, <1>4, <2>1, LatestKept
  <2>3. Latest(InForce(k, m))' = Latest(ts)' /\ Latest(InForce(k, m)) = Latest(ts)
    BY <1>3, <2>1 DEF Latest
  <2> QED  BY <1>1, <2>2, <2>3
<1>5. PitRate(m)' = PitRate(m)
  BY <1>3, <1>4, LeviesAssumption DEF PitRate
<1>6. n # "pit" => DeductionCharge(n, m)' = DeductionCharge(n, m)
  BY <1>3, <1>4 DEF DeductionCharge
<1> QED  BY <1>5, <1>6

\* One step of the two parts of MonthUnderWayKept.
RateWaits ==
    \A n \in Names, m \in Months :
      (taxes' # taxes /\ Len(taxes') > Len(taxes) /\ ~first /\ m <= month /\ (n = "pit" \/ InForce(n, m) # {}))
          => IF n = "pit" THEN PitRate(m)' = PitRate(m)
             ELSE DeductionCharge(n, m)' = DeductionCharge(n, m)

\* Every step lets a new rate wait for its month.
LEMMA RateWaitsStep == LeviesTypeOK /\ LeviesTypeOK' /\ LeviesStep => RateWaits
<1> SUFFICES ASSUME LeviesTypeOK, LeviesTypeOK', LeviesStep, NEW n \in Names, NEW m \in Months,
                    taxes' # taxes, Len(taxes') > Len(taxes), ~first, m <= month,
                    n = "pit" \/ InForce(n, m) # {}
             PROVE  IF n = "pit" THEN PitRate(m)' = PitRate(m)
                    ELSE DeductionCharge(n, m)' = DeductionCharge(n, m)
  BY DEF RateWaits
<1>1. taxes \in Seq(Tax) /\ taxes' \in Seq(Tax)
  BY DEF LeviesTypeOK
<1>2. \A i \in DOMAIN taxes : ~ DeactivateMonthlyTax(i)
  <2> SUFFICES ASSUME NEW i \in DOMAIN taxes, DeactivateMonthlyTax(i) PROVE FALSE
    OBVIOUS
  <2>1. Len(taxes') = Len(taxes)
    BY <1>1 DEF DeactivateMonthlyTax
  <2> QED  BY <1>1, <2>1
<1>3. PICK k \in Names, p \in Percents : UpdateMonthlyTax(k, p)
  BY <1>2 DEF LeviesStep, ConfigStep, CreateDeductionType, UpdateDeductionType,
              CreateEmployeeDeduction, GetAllMonthlyTaxes, DeleteEmployeeDeduction,
              UpdateEmployeeDeduction, TimePasses, StatusChanges
<1>4. PICK row : row = [name |-> k, rate |-> p, from |-> EffectiveFrom, active |-> TRUE]
  OBVIOUS
<1>5. taxes' = Append(taxes, row) /\ row.from = month + 1
  BY <1>3, <1>4 DEF UpdateMonthlyTax, EffectiveFrom
<1>6. ~ (row.from <= m)
  BY <1>5 DEF LeviesTypeOK, Months
<1> QED  BY <1>1, <1>5, <1>6, ChargesKept

Mandatory ==
    \A n \in Names :
      (types'[n] # Never /\ types'[n].mandatory /\ (types[n] = Never \/ ~types[n].mandatory))
          => \A e \in Workers :
                /\ Counted(e, month)' = Counted(e, month)
                /\ month < LastMonth => Cardinality(Counted(e, month + 1)' \ Counted(e, month + 1)) =
                       (IF n # "pit" /\ e \in Missing(n) THEN 1 ELSE 0)

\* Only the requests of the deduction types make one mandatory.
LEMMA WhoMakesMandatory ==
    ASSUME LeviesTypeOK, LeviesStep, NEW n \in Names,
           types'[n] # Never, types'[n].mandatory, types[n] = Never \/ ~types[n].mandatory
    PROVE  UNCHANGED month /\ assigned' = assigned \o Apply(n, Missing(n))
<1>1. types \in [Names -> Type \cup {Never}]
  BY DEF LeviesTypeOK
<1>2. types' # types
  OBVIOUS
<1>7. \A r : ~ TypeForTax(n, r).mandatory
  <2> SUFFICES ASSUME NEW r PROVE ~ TypeForTax(n, r).mandatory
    OBVIOUS
  <2>1. TypeForTax(n, r).mandatory = IF types[n] = Never THEN FALSE ELSE types[n].mandatory
    BY DEF TypeForTax
  <2> QED  BY <2>1, Zenon
<1>3. \A k \in Names, p \in Percents : ~ UpdateMonthlyTax(k, p)
  <2> SUFFICES ASSUME NEW k \in Names, NEW p \in Percents, UpdateMonthlyTax(k, p) PROVE FALSE
    OBVIOUS
  <2>1. types'[n] = types[n] \/ types'[n] = TypeForTax(n, p)
    BY <1>1 DEF UpdateMonthlyTax
  <2> QED  BY <1>7, <2>1, Zenon
<1>4. ~ GetAllMonthlyTaxes
  <2> SUFFICES ASSUME GetAllMonthlyTaxes PROVE FALSE
    OBVIOUS
  <2>1. types'[n] = types[n] \/ \E r : types'[n] = TypeForTax(n, r)
    BY <1>1 DEF GetAllMonthlyTaxes
  <2> QED  BY <1>7, <2>1, Zenon
<1>5. PICK k \in Names, c \in Entered, b \in BOOLEAN :
         CreateDeductionType(k, c, b) \/ UpdateDeductionType(k, c, b)
  BY <1>2, <1>3, <1>4 DEF LeviesStep, ConfigStep, CreateEmployeeDeduction, DeactivateMonthlyTax,
              DeleteEmployeeDeduction, UpdateEmployeeDeduction, TimePasses, StatusChanges
<1>6. k = n /\ b = TRUE
  BY <1>1, <1>5 DEF CreateDeductionType, UpdateDeductionType
<1> QED  BY <1>5, <1>6, EnteredAssumption DEF CreateDeductionType, UpdateDeductionType

\* Every step lets a type that becomes mandatory count from the next month on.
LEMMA MandatoryStep == LeviesTypeOK /\ LeviesTypeOK' /\ LeviesStep => Mandatory
<1> SUFFICES ASSUME LeviesTypeOK, LeviesTypeOK', LeviesStep, NEW n \in Names, types'[n] # Never, types'[n].mandatory,
                    types[n] = Never \/ ~types[n].mandatory, NEW e \in Workers
             PROVE  /\ Counted(e, month)' = Counted(e, month)
                    /\ Cardinality(Counted(e, month + 1)' \ Counted(e, month + 1)) =
                          (IF n # "pit" /\ e \in Missing(n) THEN 1 ELSE 0)
  BY DEF Mandatory
<1>1. PICK q \in Seq(Deduction) : q = Apply(n, Missing(n))
  BY Applied
<1>2. assigned' = assigned \o q /\ month' = month
  BY <1>1, WhoMakesMandatory
<1>3. /\ \A i \in DOMAIN q : q[i].emp \in Missing(n) /\ q[i].type = n /\ q[i].start = month + 1 /\ q[i].end = Never /\ q[i].active
      /\ \A i, j \in DOMAIN q : q[i].emp = q[j].emp => i = j
      /\ \A x \in Missing(n) : \E i \in DOMAIN q : q[i].emp = x
  BY <1>1, Applied
<1>4. assigned \in Seq(Deduction) /\ month \in Nat
  BY DEF LeviesTypeOK, Months
<1>5. PICK l \in Nat : l = Len(assigned)
  BY <1>4
<1>6. /\ DOMAIN assigned = 1..l
      /\ \A i \in DOMAIN assigned : i \in DOMAIN assigned' /\ assigned'[i] = assigned[i]
      /\ \A j \in DOMAIN q : l + j \in DOMAIN assigned' /\ assigned'[l + j] = q[j]
      /\ \A i \in DOMAIN assigned' : i \in DOMAIN assigned \/ \E j \in DOMAIN q : i = l + j
      /\ \A j \in DOMAIN q : j \in Nat /\ l + j \notin DOMAIN assigned
  <2>1. PICK k \in Nat : k = Len(q) /\ DOMAIN q = 1..k
    OBVIOUS
  <2>2. /\ DOMAIN assigned = 1..l /\ DOMAIN assigned' = 1..(l + k)
        /\ \A i \in 1..(l + k) : assigned'[i] = IF i <= l THEN assigned[i] ELSE q[i - l]
    BY <1>2, <1>4, <1>5, <2>1
  <2>3. ASSUME NEW j \in 1..k PROVE l + j \in 1..(l + k) /\ ~ (l + j <= l) /\ (l + j) - l = j
    BY <2>1
  <2>4. ASSUME NEW i \in 1..(l + k), ~ (i <= l) PROVE i - l \in 1..k /\ i = l + (i - l)
    BY <2>1, <2>4
  <2>5. \A i \in 1..l : i \in 1..(l + k) /\ i <= l
    BY <2>1
  <2>6. \A j \in DOMAIN q : l + j \in DOMAIN assigned' /\ assigned'[l + j] = q[j]
    BY <2>1, <2>2, <2>3
  <2>7. \A i \in DOMAIN assigned' : i \in DOMAIN assigned \/ \E j \in DOMAIN q : i = l + j
    <3> SUFFICES ASSUME NEW i \in 1..(l + k), ~ (i <= l) PROVE \E j \in 1..k : i = l + j
      BY <2>1, <2>2
    <3> QED  BY <2>4
  <2>8. \A j \in DOMAIN q : j \in Nat /\ l + j \notin DOMAIN assigned
    BY <2>1, <2>2, <2>3
  <2> QED  BY <2>2, <2>5, <2>6, <2>7, <2>8
<1>7. ASSUME NEW j \in DOMAIN q PROVE ~ Overlaps(q[j], month) /\ Overlaps(q[j], month + 1)
  BY <1>3, <1>4 DEF Overlaps
<1>8. Counted(e, month)' = Counted(e, month)
  <2>1. Counted(e, month)' = {i \in DOMAIN assigned' :
            assigned'[i].emp = e /\ Overlaps(assigned'[i], month) /\ assigned'[i].type # "pit"}
    BY <1>2 DEF Counted, Overlaps
  <2> QED  BY <1>6, <1>7, <2>1 DEF Counted
<1>9. PICK new : new = Counted(e, month + 1)' \ Counted(e, month + 1)
  OBVIOUS
<1>10. \A i : i \in new <=> \E j \in DOMAIN q : i = l + j /\ q[j].emp = e /\ n # "pit"
  <2>1. Counted(e, month + 1)' = {i \in DOMAIN assigned' :
            assigned'[i].emp = e /\ Overlaps(assigned'[i], month + 1) /\ assigned'[i].type # "pit"}
    BY <1>2 DEF Counted, Overlaps
  <2> QED  BY <1>3, <1>6, <1>7, <1>9, <2>1 DEF Counted
<1>11. CASE n # "pit" /\ e \in Missing(n)
  <2>1. PICK j \in DOMAIN q : q[j].emp = e
    BY <1>3, <1>11
  <2>2. new = {l + j}
    BY <1>3, <1>10, <1>11, <2>1
  <2>3. Cardinality(new) = 1
    BY <2>2, FS_Singleton
  <2> QED  BY <1>8, <1>9, <1>11, <2>3
<1>12. CASE ~ (n # "pit" /\ e \in Missing(n))
  <2>1. new = {}
    BY <1>3, <1>10, <1>12
  <2> QED  BY <1>8, <1>9, <1>12, <2>1, FS_EmptySet
<1> QED  BY <1>11, <1>12

\* For any rates, types, employees and months: a rate entered after the first
\* of a month changes nothing that month charges for a tax in force, and a type
\* made mandatory charges each active employee without it one more line, from
\* the next month on (updateMonthlyTax, applyMandatoryDeductionTypeFromNextMonth).
THEOREM MonthIsKept == LeviesSpec => MonthUnderWayKept
<1>1. LeviesTypeOK /\ [LeviesStep]_leviesVars => [RateWaits]_leviesVars /\ [Mandatory]_leviesVars
  BY LeviesTypeStep, RateWaitsStep, MandatoryStep
<1> QED  BY <1>1, LeviesAreTyped, PTL
         DEF LeviesSpec, MonthUnderWayKept, RateWaitsForNextMonth, MandatoryStartsNextMonth, RateWaits, Mandatory

-----------------------------------------------------------------------------
(* Hiring: what requests in flight rest on *)

Detachment == [pc: {"detach"}, post: Posts, cat: Categories]
Hire == [pc: {"hire"}, emp: People, post: Posts \cup {Nobody}, cat: Categories \cup {Nobody},
         rate: Wages \cup {Nobody}, start: {0, Nobody}, end: Days \cup {Nobody}, imported: BOOLEAN]
Update == [pc: {"update"}, emp: People, post: Posts \cup {Nobody}, cat: Categories \cup {Nobody},
           p: Posts \cup {Nobody}, c: Categories \cup {Nobody}, rate: Wages \cup {Nobody},
           end: Days \cup {Nobody}, cur: Nat \cup {Nobody}, read: Term \cup {Nobody},
           default: Wages \cup {Nobody}]
NewTerms == [pc: {"terms"}, emp: People, freq: Categories, rate: Wages, from: Days, salary: Nat]
Amendment == [pc: {"amend"}, emp: People, cur: Nat, freq: Categories, to: Days \cup {Nobody},
              rate: Nat, salary: Nat]

HiringTyped ==
    /\ today \in Days /\ asked \in 0..MaxAsked
    /\ posts \in [Posts -> Position]
    /\ staff \in [People -> Employee \cup {Nobody}]
    /\ terms \in Seq(Term)
    /\ clerk \in [Clerks -> {CIdle} \cup Detachment \cup Hire \cup Update \cup NewTerms \cup Amendment]

\* A request about terms of employment is about somebody hired, and what it will
\* write over is that person's.
Changes(t) == t.pc \in {"update", "terms", "amend"}
OwnTerms(t) ==
    /\ t.pc = "hire" => (t.post = Nobody <=> t.cat = Nobody)
    /\ Changes(t) => staff[t.emp] # Nobody
    /\ t.pc = "update" => (t.cur = Nobody <=> t.read = Nobody)
    /\ t.pc \in {"update", "amend"} /\ t.cur # Nobody => t.cur \in DOMAIN terms /\ terms[t.cur].emp = t.emp

\* Nobody else changed the employee since: the request has read what is stored.
ReadIsCurrent(t) ==
    t.pc = "update" /\ ~staff[t.emp].mixed =>
        /\ t.post = Given(t.p, staff[t.emp].post) /\ t.cat = Given(t.c, staff[t.emp].cat)
        /\ IF t.cur = Nobody THEN Open(t.emp) = {}
           ELSE t.cur \in Open(t.emp) /\ t.read = terms[t.cur]

RequestsHold == \A k \in Clerks : OwnTerms(clerk[k]) /\ ReadIsCurrent(clerk[k])

\* What is being assigned is offered, and what is being detached is neither
\* assigned nor in use, unless the two crossed.
Holds(x, p, c) == staff[x] # Nobody /\ ~staff[x].mixed /\ staff[x].post = p /\ staff[x].cat = c
OffersHold ==
    \A p \in Posts, c \in Categories : <<p, c>> \notin crossed =>
      /\ \A k \in Clerks : Assigning(k, p, c) => posts[p].offers[c] # Nobody
      /\ \A x \in People : Holds(x, p, c) => posts[p].offers[c] # Nobody
      /\ \A d \in Clerks : Detaching(d, p, c) =>
            (\A k \in Clerks : ~Assigning(k, p, c)) /\ (\A x \in People : ~Holds(x, p, c))

KeysDiffer ==
    \A x, y \in People : x # y /\ staff[x] # Nobody /\ staff[y] # Nobody => staff[x].key # staff[y].key

\* The terms of one person.
PersonHolds(x) ==
    /\ staff[x] = Nobody => \A i \in DOMAIN terms : terms[i].emp # x
    /\ \A i, j \in Open(x) : i = j
    /\ \A i \in Open(x) :
          (staff[x].post # Nobody /\ staff[x].cat # Nobody /\ ~terms[i].page /\ ~staff[x].mixed)
            => /\ terms[i].freq = staff[x].cat
               /\ (terms[i].freq = "CUSTOM" /\ staff[x].start # Nobody /\ staff[x].end # Nobody)
                    => terms[i].salary = terms[i].rate * ContractDays(staff[x].start, staff[x].end)
TermsHold == \A x \in People : PersonHolds(x)

HiringInv == HiringTyped /\ RequestsHold /\ OffersHold /\ KeysDiffer /\ TermsHold

-----------------------------------------------------------------------------
(* Hiring: types *)

\* A request in flight is of the kind its step says.
LEMMA KindOf ==
    ASSUME HiringTyped, NEW k \in Clerks
    PROVE  /\ clerk[k].pc = "detach" => clerk[k] \in Detachment
           /\ clerk[k].pc = "hire" => clerk[k] \in Hire
           /\ clerk[k].pc = "update" => clerk[k] \in Update
           /\ clerk[k].pc = "terms" => clerk[k] \in NewTerms
           /\ clerk[k].pc = "amend" => clerk[k] \in Amendment
           /\ clerk[k].pc \in {"idle", "detach", "hire", "update", "terms", "amend"}
<1>1. clerk[k] \in {CIdle} \cup Detachment \cup Hire \cup Update \cup NewTerms \cup Amendment
  BY DEF HiringTyped
<1>2. /\ CIdle.pc = "idle"
      /\ \A t \in Detachment : t.pc = "detach"
      /\ \A t \in Hire : t.pc = "hire"
      /\ \A t \in Update : t.pc = "update"
      /\ \A t \in NewTerms : t.pc = "terms"
      /\ \A t \in Amendment : t.pc = "amend"
  BY DEF CIdle, Detachment, Hire, Update, NewTerms, Amendment
<1> QED  BY <1>1, <1>2

\* A row of a list of structures, field by field.
LEMMA TermOf ==
    ASSUME NEW ts \in Seq(Term), NEW i \in DOMAIN ts
    PROVE  /\ ts[i] \in Term /\ ts[i].emp \in People /\ ts[i].freq \in Categories
           /\ ts[i].rate \in Nat /\ ts[i].salary \in Nat /\ ts[i].from \in Days
           /\ ts[i].to \in Days \cup {Nobody} /\ ts[i].page \in BOOLEAN
<1>1. PICK s \in Term : s = ts[i]
  OBVIOUS
<1>2. s.emp \in People /\ s.freq \in Categories /\ s.rate \in Nat /\ s.salary \in Nat /\ s.from \in Days
      /\ s.to \in Days \cup {Nobody} /\ s.page \in BOOLEAN
  BY DEF Term
<1> QED  BY <1>1, <1>2

\* basic_salary is an amount, whatever the frequency and the contract.
LEMMA SalaryIsNat ==
    ASSUME NEW freq, NEW rate \in Nat, NEW start \in {0, Nobody}, NEW end \in Days \cup {Nobody},
           NEW fallback \in Nat
    PROVE  BasicSalary(freq, rate, start, end, fallback) \in Nat
<1>1. start # Nobody /\ end # Nobody => ContractDays(start, end) \in Nat
  BY HiringAssumption, NobodyAssumption DEF Days, ContractDays
<1>2. \A a, b \in Nat : a * b \in Nat
  OBVIOUS
<1>3. MonthDays * rate \in Nat
  BY DEF MonthDays
<1>4. start # Nobody /\ end # Nobody => rate * ContractDays(start, end) \in Nat
  BY <1>1, <1>2
<1> QED  BY <1>3, <1>4 DEF BasicSalary

\* A fixed term whose dates are known is worth its days at the rate.
LEMMA ContractValue ==
    ASSUME NEW freq, freq = "CUSTOM", NEW rate, NEW start, NEW end, NEW fallback, start # Nobody, end # Nobody
    PROVE  BasicSalary(freq, rate, start, end, fallback) = rate * ContractDays(start, end)
BY DEF BasicSalary

\* A new structure.
LEMMA StructureIsTerm ==
    ASSUME NEW x \in People, NEW freq \in Categories, NEW rate \in Nat, NEW salary \in Nat,
           NEW from \in Days, NEW page \in BOOLEAN
    PROVE  /\ Structure(x, freq, rate, salary, from, page) \in Term
           /\ Structure(x, freq, rate, salary, from, page).emp = x
           /\ Structure(x, freq, rate, salary, from, page).freq = freq
           /\ Structure(x, freq, rate, salary, from, page).rate = rate
           /\ Structure(x, freq, rate, salary, from, page).salary = salary
           /\ Structure(x, freq, rate, salary, from, page).from = from
           /\ Structure(x, freq, rate, salary, from, page).to = Nobody
           /\ Structure(x, freq, rate, salary, from, page).page = page
BY DEF Structure, Term

-----------------------------------------------------------------------------
(* Hiring: the ways terms change *)

\* The terms of x change and of nobody else; x is left with one that is open.
OthersKept(x) ==
    /\ terms' \in Seq(Term)
    /\ \A i \in DOMAIN terms :
          /\ i \in DOMAIN terms' /\ terms'[i].emp = terms[i].emp
          /\ terms[i].emp # x => terms'[i] = terms[i]
    /\ \A i \in DOMAIN terms' : i \notin DOMAIN terms => terms'[i].emp = x
    /\ \A i, j \in Open(x)' : i = j

\* One structure is written over, and stays open if it was, or is closed.
LEMMA WrittenOver ==
    ASSUME HiringTyped, NEW x \in People, PersonHolds(x), NEW i \in DOMAIN terms, terms[i].emp = x,
           NEW s \in Term, s.emp = x, s.to = Nobody => terms[i].to = Nobody,
           terms' = [terms EXCEPT ![i] = s]
    PROVE  OthersKept(x) /\ Open(x)' \subseteq Open(x) /\ terms'[i] = s
           /\ \A j \in DOMAIN terms : j # i => terms'[j] = terms[j]
<1>1. terms \in Seq(Term)
  BY DEF HiringTyped
<1>2. /\ terms' \in Seq(Term) /\ DOMAIN terms' = DOMAIN terms /\ terms'[i] = s
      /\ \A j \in DOMAIN terms : j # i => terms'[j] = terms[j]
  BY <1>1
<1>3. Open(x)' \subseteq Open(x)
  BY <1>2 DEF Open
<1>4. \A j, k \in Open(x)' : j = k
  BY <1>3 DEF PersonHolds
<1> QED  BY <1>2, <1>3, <1>4 DEF OthersKept

\* What was open is closed and a new structure is begun.
LEMMA BegunAnew ==
    ASSUME HiringTyped, NEW x \in People, NEW day \in Days, NEW s \in Term, s.emp = x, s.to = Nobody,
           terms' = Append(CloseOpen(terms, x, day), s)
    PROVE  /\ OthersKept(x) /\ Len(terms') = Len(terms) + 1 /\ terms'[Len(terms')] = s
           /\ \A i \in Open(x)' : terms'[i] = s
           /\ \A i \in DOMAIN terms : terms'[i] = CloseOpen(terms, x, day)[i]
<1>1. PICK c : c = CloseOpen(terms, x, day)
  OBVIOUS
<1>2. terms \in Seq(Term) /\ day # Nobody
  BY HiringAssumption, NobodyAssumption DEF HiringTyped, Days
<1>3. DOMAIN c = DOMAIN terms
  BY <1>1 DEF CloseOpen
<1>4. ASSUME NEW i \in DOMAIN terms
      PROVE  /\ c[i] \in Term /\ c[i].emp = terms[i].emp /\ (terms[i].emp # x => c[i] = terms[i])
             /\ terms[i].emp = x => c[i].to # Nobody
  <2>1. terms[i] \in Term
    BY <1>2, TermOf
  <2>2. PICK r \in Term : r = terms[i]
    BY <2>1
  <2>3. [r EXCEPT !.to = day] \in Term /\ [r EXCEPT !.to = day].emp = r.emp /\ [r EXCEPT !.to = day].to = day
    BY DEF Term
  <2>4. c[i] = IF r.emp = x /\ r.to = Nobody THEN [r EXCEPT !.to = day] ELSE r
    BY <1>1, <2>2 DEF CloseOpen
  <2> QED  BY <1>2, <2>2, <2>3, <2>4
<1>5. PICK n \in Nat : n = Len(terms) /\ DOMAIN terms = 1..n
  BY <1>2
<1>6. c \in Seq(Term) /\ Len(c) = n
  <2>1. DOMAIN c = 1..n /\ \A i \in 1..n : c[i] \in Term
    BY <1>3, <1>4, <1>5
  <2>2. c = [i \in 1..n |-> c[i]]
    BY <1>1, <1>5 DEF CloseOpen
  <2>3. c \in [1..n -> Term]
    BY <2>1, <2>2
  <2> QED  BY <2>3
<1>7. /\ terms' \in Seq(Term) /\ Len(terms') = n + 1 /\ DOMAIN terms' = 1..(n + 1) /\ terms'[n + 1] = s
      /\ \A i \in 1..n : i \in DOMAIN terms' /\ terms'[i] = c[i]
      /\ \A i \in DOMAIN terms' : i \in 1..n \/ i = n + 1
  BY <1>1, <1>6
<1>8. \A i \in Open(x)' : i = n + 1
  BY <1>4, <1>5, <1>7 DEF Open
<1>9. \A i \in DOMAIN terms' : i \notin DOMAIN terms => terms'[i].emp = x
  BY <1>5, <1>7
<1>10. OthersKept(x)
  BY <1>4, <1>5, <1>7, <1>8, <1>9 DEF OthersKept
<1> QED  BY <1>1, <1>5, <1>7, <1>8, <1>10

\* Nothing is written.
LEMMA LeftAlone ==
    ASSUME HiringTyped, NEW x \in People, PersonHolds(x), terms' = terms
    PROVE  OthersKept(x) /\ Open(x)' = Open(x)
BY DEF HiringTyped, OthersKept, PersonHolds, Open

-----------------------------------------------------------------------------
(* Hiring: a request ends *)

\* Somebody else's terms: the same rows are open and say the same.
LEMMA OthersOpen ==
    ASSUME NEW x, OthersKept(x), NEW y \in People, y # x
    PROVE  Open(y)' = Open(y) /\ \A i \in Open(y) : terms'[i] = terms[i]
<1>1. \A i \in DOMAIN terms : terms[i].emp = y => terms'[i] = terms[i]
  BY DEF OthersKept
<1>2. \A i \in DOMAIN terms' : terms'[i].emp = y => i \in DOMAIN terms /\ terms[i].emp = y
  BY DEF OthersKept
<1>3. \A i \in DOMAIN terms : i \in DOMAIN terms'
  BY DEF OthersKept
<1> QED  BY <1>1, <1>2, <1>3 DEF Open

\* Request k has changed employee x into e, and x's terms.
Committed(k, x, e) ==
    /\ clerk' = [clerk EXCEPT ![k] = CIdle] /\ UNCHANGED <<today, posts, asked, crossed>>
    /\ OthersKept(x)
    /\ e \in Employee /\ staff' = [staff EXCEPT ![x] = e]
    /\ \A j \in Clerks \ {k} : Changes(clerk[j]) /\ clerk[j].emp = x => e.mixed
    /\ ~e.mixed => \/ Holds(x, e.post, e.cat)
                   \/ Assigning(k, e.post, e.cat)
    /\ \A y \in People \ {x} : staff[y] # Nobody => staff[y].key # e.key

\* What such a request leaves behind is typed.
LEMMA CommitTypes ==
    ASSUME HiringInv, NEW k \in Clerks, NEW x \in People, NEW e, Committed(k, x, e)
    PROVE  /\ HiringTyped'
           /\ staff'[x] = e /\ e # Nobody /\ \A y \in People \ {x} : staff'[y] = staff[y]
           /\ clerk'[k] = CIdle /\ \A j \in Clerks \ {k} : clerk'[j] = clerk[j]
BY NobodyAssumption DEF HiringInv, HiringTyped, Committed, OthersKept

\* Other requests about x see the mark; the ones about others read what they had read.
LEMMA CommitRequests ==
    ASSUME HiringInv, NEW k \in Clerks, NEW x \in People, NEW e, Committed(k, x, e)
    PROVE  RequestsHold'
<1> SUFFICES ASSUME NEW j \in Clerks PROVE OwnTerms(clerk[j])' /\ ReadIsCurrent(clerk[j])'
  BY DEF RequestsHold
<1>1. /\ staff'[x] = e /\ e # Nobody /\ \A y \in People \ {x} : staff'[y] = staff[y]
      /\ clerk'[k] = CIdle /\ \A i \in Clerks \ {k} : clerk'[i] = clerk[i]
  BY CommitTypes
<1>2. CASE j = k
  BY <1>1, <1>2 DEF OwnTerms, ReadIsCurrent, Changes, CIdle
<1>3. CASE j # k
  <2>1. PICK t : t = clerk[j]
    OBVIOUS
  <2>2. clerk'[j] = t /\ OwnTerms(t) /\ ReadIsCurrent(t)
    BY <1>1, <1>3, <2>1 DEF HiringInv, RequestsHold
  <2>3. Changes(t) => t.emp \in People
    BY <2>1, KindOf DEF Changes, HiringInv, Update, NewTerms, Amendment
  <2>4. Changes(t) => staff'[t.emp] # Nobody
    BY <1>1, <2>2, <2>3 DEF OwnTerms
  <2>5. t.pc \in {"update", "amend"} /\ t.cur # Nobody => t.cur \in DOMAIN terms' /\ terms'[t.cur].emp = t.emp
    BY <2>2 DEF OwnTerms, Committed, OthersKept
  <2>6. OwnTerms(clerk[j])'
    BY <2>2, <2>4, <2>5 DEF OwnTerms
  <2>7. ASSUME t.pc = "update", ~staff'[t.emp].mixed
        PROVE  /\ t.emp # x /\ staff'[t.emp] = staff[t.emp] /\ Open(t.emp)' = Open(t.emp)
               /\ \A i \in Open(t.emp) : terms'[i] = terms[i]
    <3>1. Changes(t) /\ t.emp \in People
      BY <2>3, <2>7 DEF Changes
    <3>2. t.emp # x
      BY <1>1, <1>3, <2>1, <2>7, <3>1 DEF Committed
    <3>3. PICK y \in People : y = t.emp
      BY <3>1
    <3>4. Open(y)' = Open(y) /\ \A i \in Open(y) : terms'[i] = terms[i]
      BY <3>2, <3>3, OthersOpen DEF Committed
    <3> QED  BY <1>1, <3>1, <3>2, <3>3, <3>4
  <2>8. ReadIsCurrent(t)'
    BY <2>2, <2>7 DEF ReadIsCurrent
  <2>9. ReadIsCurrent(clerk[j])'
    BY <2>2, <2>8 DEF ReadIsCurrent
  <2> QED  BY <2>6, <2>9
<1> QED  BY <1>2, <1>3

\* The post and category that x has now are ones x had, or were being assigned.
LEMMA CommitOffers ==
    ASSUME HiringInv, NEW k \in Clerks, NEW x \in People, NEW e, Committed(k, x, e)
    PROVE  OffersHold'
<1> SUFFICES ASSUME NEW p \in Posts, NEW c \in Categories, <<p, c>> \notin crossed
             PROVE  /\ \A j \in Clerks : Assigning(j, p, c)' => posts[p].offers[c] # Nobody
                    /\ \A y \in People : Holds(y, p, c)' => posts[p].offers[c] # Nobody
                    /\ \A d \in Clerks : Detaching(d, p, c)' =>
                         (\A j \in Clerks : ~Assigning(j, p, c)') /\ (\A y \in People : ~Holds(y, p, c)')
  BY DEF OffersHold, Committed
<1>1. /\ staff'[x] = e /\ e # Nobody /\ \A y \in People \ {x} : staff'[y] = staff[y]
      /\ clerk'[k] = CIdle /\ \A i \in Clerks \ {k} : clerk'[i] = clerk[i]
  BY CommitTypes
<1>2. \A j \in Clerks : Assigning(j, p, c)' => Assigning(j, p, c)
  BY <1>1 DEF Assigning, CIdle
<1>3. \A j \in Clerks : Detaching(j, p, c)' => Detaching(j, p, c)
  BY <1>1 DEF Detaching, CIdle
<1>4. \A y \in People : Holds(y, p, c)' => Holds(y, p, c) \/ Assigning(k, p, c)
  <2> SUFFICES ASSUME NEW y \in People, Holds(y, p, c)' PROVE Holds(y, p, c) \/ Assigning(k, p, c)
    OBVIOUS
  <2>1. CASE y = x
    <3>1. ~e.mixed /\ e.post = p /\ e.cat = c
      BY <1>1, <2>1 DEF Holds
    <3> QED  BY <2>1, <3>1 DEF Committed
  <2>2. CASE y # x
    BY <1>1, <2>2 DEF Holds
  <2> QED  BY <2>1, <2>2
<1> QED  BY <1>2, <1>3, <1>4 DEF HiringInv, OffersHold

\* So only the terms of that person remain to be looked at.
LEMMA CommitKeeps ==
    ASSUME HiringInv, NEW k \in Clerks, NEW x \in People, NEW e, Committed(k, x, e), PersonHolds(x)'
    PROVE  HiringInv'
<1>1. /\ HiringTyped'
      /\ staff'[x] = e /\ e # Nobody /\ \A y \in People \ {x} : staff'[y] = staff[y]
  BY CommitTypes
<1>2. KeysDiffer'
  BY <1>1 DEF HiringInv, KeysDiffer, Committed
<1>3. ASSUME NEW y \in People PROVE PersonHolds(y)'
  <2>1. CASE y # x
    <3>1. Open(y)' = Open(y) /\ (\A i \in Open(y) : terms'[i] = terms[i]) /\ staff'[y] = staff[y]
      BY <1>1, <2>1, OthersOpen DEF Committed
    <3>2. PersonHolds(y)
      BY DEF HiringInv, TermsHold
    <3>3. (\A i \in DOMAIN terms : terms[i].emp # y) => (\A i \in DOMAIN terms' : terms'[i].emp # y)
      BY <2>1 DEF Committed, OthersKept
    <3> QED  BY <3>1, <3>2, <3>3 DEF PersonHolds
  <2> QED  BY <2>1
<1> QED  BY <1>1, <1>2, <1>3, CommitRequests, CommitOffers DEF HiringInv, TermsHold

-----------------------------------------------------------------------------
(* Hiring: a request begins *)

Request == Detachment \cup Hire \cup Update \cup NewTerms \cup Amendment

Assigns(t, p, c) == t.pc \in {"hire", "update"} /\ t.post = p /\ t.cat = c
Detaches(t, p, c) == t.pc = "detach" /\ t.post = p /\ t.cat = c

\* What t assigns is offered and not being detached, what it detaches is neither
\* assigned nor in use; or the pair is marked.
Admitted(t) ==
    \A p \in Posts, c \in Categories : <<p, c>> \notin crossed' =>
      /\ <<p, c>> \notin crossed
      /\ Assigns(t, p, c) => posts[p].offers[c] # Nobody /\ \A j \in Clerks : ~Detaching(j, p, c)
      /\ Detaches(t, p, c) => (\A j \in Clerks : ~Assigning(j, p, c)) /\ (\A x \in People : ~Holds(x, p, c))

\* A request that is admitted changes only who is waiting.
LEMMA StartKeeps ==
    ASSUME HiringInv, NEW k \in Clerks, NEW t \in Request, Start(k, t),
           OwnTerms(t), ReadIsCurrent(t), Admitted(t)
    PROVE  HiringInv'
<1>1. /\ clerk' = [clerk EXCEPT ![k] = t] /\ clerk[k].pc = "idle"
      /\ UNCHANGED <<today, posts, staff, terms>>
      /\ asked' = asked + 1 /\ asked < MaxAsked
  BY DEF Start
<1>2. HiringTyped'
  <2>1. asked' \in 0..MaxAsked
    BY <1>1, HiringAssumption DEF HiringInv, HiringTyped
  <2> QED  BY <1>1, <2>1 DEF HiringInv, HiringTyped, Request
<1>3. clerk'[k] = t /\ \A j \in Clerks : j # k => clerk'[j] = clerk[j]
  BY <1>1 DEF HiringInv, HiringTyped
<1>4. \A x \in People : Open(x)' = Open(x)
  BY <1>1 DEF Open
<1>5. RequestsHold'
  <2> SUFFICES ASSUME NEW j \in Clerks PROVE OwnTerms(clerk[j])' /\ ReadIsCurrent(clerk[j])'
    BY DEF RequestsHold
  <2>1. PICK r : r = clerk'[j]
    OBVIOUS
  <2>2. OwnTerms(r) /\ ReadIsCurrent(r)
    BY <1>3, <2>1 DEF HiringInv, RequestsHold
  <2>3. OwnTerms(clerk[j])'
    BY <1>1, <2>1, <2>2 DEF OwnTerms
  <2>4. ReadIsCurrent(clerk[j])'
    BY <1>1, <2>1, <2>2 DEF ReadIsCurrent, Open
  <2> QED  BY <2>3, <2>4
<1>6. OffersHold'
  <2> SUFFICES ASSUME NEW p \in Posts, NEW c \in Categories, <<p, c>> \notin crossed'
               PROVE  /\ \A j \in Clerks : Assigning(j, p, c)' => posts[p].offers[c] # Nobody
                      /\ \A x \in People : Holds(x, p, c)' => posts[p].offers[c] # Nobody
                      /\ \A d \in Clerks : Detaching(d, p, c)' =>
                           (\A j \in Clerks : ~Assigning(j, p, c)') /\ (\A x \in People : ~Holds(x, p, c)')
    BY <1>1 DEF OffersHold
  <2>1. \A x \in People : Holds(x, p, c)' <=> Holds(x, p, c)
    BY <1>1 DEF Holds
  <2>2. \A j \in Clerks : /\ Assigning(j, p, c)' <=> (IF j = k THEN Assigns(t, p, c) ELSE Assigning(j, p, c))
                          /\ Detaching(j, p, c)' <=> (IF j = k THEN Detaches(t, p, c) ELSE Detaching(j, p, c))
    BY <1>3 DEF Assigning, Detaching, Assigns, Detaches
  <2>3. ~ (Assigns(t, p, c) /\ Detaches(t, p, c))
    BY DEF Assigns, Detaches
  <2> QED  BY <2>1, <2>2, <2>3 DEF Admitted, HiringInv, OffersHold
<1>7. KeysDiffer' /\ TermsHold'
  BY <1>1 DEF HiringInv, KeysDiffer, TermsHold, PersonHolds, Open
<1> QED  BY <1>2, <1>5, <1>6, <1>7 DEF HiringInv

\* detachEmploymentCategory counts the employees first.
LEMMA DetachBegins ==
    ASSUME HiringInv, NEW k \in Clerks, NEW p \in Posts, NEW c \in Categories, BeginDetach(k, p, c)
    PROVE  HiringInv'
<1>1. PICK t : t = [pc |-> "detach", post |-> p, cat |-> c]
  OBVIOUS
<1>2. t \in Request /\ t.pc = "detach" /\ t.post = p /\ t.cat = c
  BY <1>1 DEF Request, Detachment
<1>3. OwnTerms(t) /\ ReadIsCurrent(t)
  BY <1>2 DEF OwnTerms, ReadIsCurrent, Changes
<1>4. Start(k, t) /\ crossed' = IF \E j \in Clerks : Assigning(j, p, c) THEN crossed \cup {<<p, c>>} ELSE crossed
  BY <1>1 DEF BeginDetach
<1>5. \A x \in People : ~Holds(x, p, c)
  BY DEF BeginDetach, InUse, Holds
<1>6. Admitted(t)
  BY <1>2, <1>4, <1>5 DEF Admitted, Assigns, Detaches
<1> QED  BY <1>2, <1>3, <1>4, <1>6, StartKeeps

\* create and bulkImport look up the offer before their transaction.
LEMMA HireBegins ==
    ASSUME HiringInv, NEW k \in Clerks, NEW x \in People, NEW p \in Posts \cup {Nobody},
           NEW c \in Categories \cup {Nobody}, NEW rate \in Wages \cup {Nobody}, NEW start \in {0, Nobody},
           NEW end \in Days \cup {Nobody}, NEW imported \in BOOLEAN,
           BeginHire(k, x, p, c, rate, start, end, imported)
    PROVE  HiringInv'
<1>1. PICK t : t = [pc |-> "hire", emp |-> x, post |-> p, cat |-> c, rate |-> rate,
                    start |-> start, end |-> end, imported |-> imported]
  OBVIOUS
<1>2. t \in Request /\ t.pc = "hire" /\ t.post = p /\ t.cat = c
  BY <1>1 DEF Request, Hire
<1>3. (p = Nobody /\ c = Nobody) \/ (p # Nobody /\ c # Nobody /\ posts[p].offers[c] # Nobody)
  BY DEF BeginHire, Offered
<1>4. OwnTerms(t) /\ ReadIsCurrent(t)
  BY <1>2, <1>3 DEF OwnTerms, ReadIsCurrent, Changes
<1>5. Start(k, t) /\ crossed' = IF \E j \in Clerks : Detaching(j, p, c) THEN crossed \cup {<<p, c>>} ELSE crossed
  BY <1>1 DEF BeginHire
<1>6. Admitted(t)
  BY <1>2, <1>3, <1>5, NobodyAssumption DEF Admitted, Assigns, Detaches
<1> QED  BY <1>2, <1>4, <1>5, <1>6, StartKeeps

\* update has read the employee, the offer and the open structure.
LEMMA UpdateBegins ==
    ASSUME HiringInv, NEW k \in Clerks, NEW x \in People, NEW p \in Posts \cup {Nobody},
           NEW c \in Categories \cup {Nobody}, NEW rate \in Wages \cup {Nobody},
           NEW end \in Days \cup {Nobody}, BeginUpdate(k, x, p, c, rate, end)
    PROVE  HiringInv'
<1>1. PICK e \in Employee : e = staff[x]
  BY DEF BeginUpdate, HiringInv, HiringTyped
<1>2. PICK post \in Posts \cup {Nobody} : post = Given(p, e.post)
  BY DEF Given, Employee
<1>3. PICK cat \in Categories \cup {Nobody} : cat = Given(c, e.cat)
  BY DEF Given, Employee
<1>4. /\ (post # Nobody /\ cat # Nobody) => posts[post].offers[cat] # Nobody
      /\ crossed' = IF \E j \in Clerks : Detaching(j, post, cat) THEN crossed \cup {<<post, cat>>} ELSE crossed
      /\ \E cur \in IF Open(x) = {} THEN {Nobody} ELSE Open(x) :
          Start(k, [pc |-> "update", emp |-> x, post |-> post, cat |-> cat, p |-> p, c |-> c, rate |-> rate,
                    end |-> end, cur |-> cur, read |-> IF cur = Nobody THEN Nobody ELSE terms[cur],
                    default |-> IF post = Nobody \/ cat = Nobody THEN Nobody ELSE posts[post].offers[cat]])
  BY <1>1, <1>2, <1>3 DEF BeginUpdate, Offered
<1>5. PICK cur \in IF Open(x) = {} THEN {Nobody} ELSE Open(x) :
          Start(k, [pc |-> "update", emp |-> x, post |-> post, cat |-> cat, p |-> p, c |-> c, rate |-> rate,
                    end |-> end, cur |-> cur, read |-> IF cur = Nobody THEN Nobody ELSE terms[cur],
                    default |-> IF post = Nobody \/ cat = Nobody THEN Nobody ELSE posts[post].offers[cat]])
  BY <1>4
<1>6. PICK read : read = IF cur = Nobody THEN Nobody ELSE terms[cur]
  OBVIOUS
<1>7. PICK default : default = IF post = Nobody \/ cat = Nobody THEN Nobody ELSE posts[post].offers[cat]
  OBVIOUS
<1>8. /\ cur \in Nat \cup {Nobody} /\ read \in Term \cup {Nobody} /\ (cur = Nobody <=> read = Nobody)
      /\ cur = Nobody => Open(x) = {}
      /\ cur # Nobody => cur \in Open(x) /\ cur \in DOMAIN terms /\ terms[cur].emp = x /\ read = terms[cur]
  <2>1. \A i \in Open(x) : i \in Nat /\ i # Nobody /\ i \in DOMAIN terms /\ terms[i].emp = x
                           /\ terms[i] \in Term /\ terms[i] # Nobody
    BY NobodyAssumption DEF Open, HiringInv, HiringTyped
  <2> QED  BY <1>5, <1>6, <2>1
<1>9. default \in Wages \cup {Nobody}
  <2>1. ASSUME NEW q \in Posts, NEW d \in Categories PROVE posts[q].offers[d] \in Wages \cup {Nobody}
    <3>1. posts[q] \in Position
      BY DEF HiringInv, HiringTyped
    <3> QED  BY <3>1 DEF Position
  <2> QED  BY <1>7, <2>1
<1>10. PICK t : t = [pc |-> "update", emp |-> x, post |-> post, cat |-> cat, p |-> p, c |-> c, rate |-> rate,
                    end |-> end, cur |-> cur, read |-> read, default |-> default]
  OBVIOUS
<1>11. t \in Update
  BY <1>8, <1>9, <1>10 DEF Update
<1>12. t.pc = "update" /\ t.emp = x /\ t.post = post /\ t.cat = cat /\ t.p = p /\ t.c = c /\ t.cur = cur /\ t.read = read
  BY <1>10
<1>13. Start(k, t)
  BY <1>5, <1>6, <1>7, <1>10
<1>14. OwnTerms(t)
  BY <1>1, <1>8, <1>12, NobodyAssumption DEF OwnTerms, Changes
<1>15. ReadIsCurrent(t)
  BY <1>1, <1>2, <1>3, <1>8, <1>12 DEF ReadIsCurrent
<1>16. Admitted(t)
  BY <1>4, <1>12, NobodyAssumption DEF Admitted, Assigns, Detaches
<1>17. t \in Request
  BY <1>11 DEF Request
<1> QED  BY <1>13, <1>14, <1>15, <1>16, <1>17, StartKeeps

\* The structures page computes the salary from the contract it read.
LEMMA TermsBegin ==
    ASSUME HiringInv, NEW k \in Clerks, NEW x \in People, NEW freq \in Categories, NEW rate \in Wages,
           NEW from \in Days, BeginTerms(k, x, freq, rate, from)
    PROVE  HiringInv'
<1>1. PICK e \in Employee : e = staff[x]
  BY DEF BeginTerms, HiringInv, HiringTyped
<1>2. e.start \in {0, Nobody} /\ e.end \in Days \cup {Nobody} /\ rate \in Nat
  BY HiringAssumption DEF Employee
<1>3. PICK salary \in Nat : salary = BasicSalary(freq, rate, e.start, e.end, 0)
  BY <1>2, SalaryIsNat
<1>4. PICK t : t = [pc |-> "terms", emp |-> x, freq |-> freq, rate |-> rate, from |-> from, salary |-> salary]
  OBVIOUS
<1>5. t \in Request /\ t.pc = "terms" /\ t.emp = x
  BY <1>4 DEF Request, NewTerms
<1>6. Start(k, t) /\ crossed' = crossed
  BY <1>1, <1>3, <1>4 DEF BeginTerms
<1>7. OwnTerms(t) /\ ReadIsCurrent(t)
  BY <1>1, <1>5, NobodyAssumption DEF OwnTerms, ReadIsCurrent, Changes
<1>8. Admitted(t)
  BY <1>5, <1>6 DEF Admitted, Assigns, Detaches
<1> QED  BY <1>5, <1>6, <1>7, <1>8, StartKeeps

\* It amends a structure of somebody who is employed.
LEMMA AmendBegins ==
    ASSUME HiringInv, NEW k \in Clerks, NEW i \in DOMAIN terms, NEW freq \in Categories \cup {Nobody},
           NEW rate \in Wages \cup {Nobody}, NEW to \in Days \cup {Nobody}, BeginAmend(k, i, freq, rate, to)
    PROVE  HiringInv'
<1>1. PICK s \in Term : s = terms[i] /\ s.emp \in People /\ s.freq \in Categories /\ s.rate \in Nat /\ s.salary \in Nat
  BY TermOf DEF HiringInv, HiringTyped
<1>2. PICK e \in Employee : e = staff[s.emp]
  <2>1. staff[s.emp] # Nobody
    BY <1>1 DEF HiringInv, TermsHold, PersonHolds
  <2> QED  BY <1>1, <2>1 DEF HiringInv, HiringTyped
<1>3. e.start \in {0, Nobody} /\ e.end \in Days \cup {Nobody}
  BY DEF Employee
<1>4. PICK f \in Categories : f = Given(freq, s.freq)
  BY <1>1 DEF Given
<1>5. PICK r \in Nat : r = Given(rate, IF f = "MONTHLY" THEN s.salary \div MonthDays ELSE s.rate)
  <2>1. s.salary \div MonthDays \in Nat
    BY <1>1 DEF MonthDays
  <2> QED  BY <1>1, <2>1, HiringAssumption DEF Given
<1>6. PICK salary \in Nat : salary = IF f = "DAILY" THEN s.salary ELSE BasicSalary(f, r, e.start, e.end, s.salary)
  BY <1>1, <1>3, SalaryIsNat
<1>7. PICK t : t = [pc |-> "amend", emp |-> s.emp, cur |-> i, freq |-> f, to |-> to, rate |-> r, salary |-> salary]
  OBVIOUS
<1>8. i \in Nat
  BY DEF HiringInv, HiringTyped
<1>9. t \in Request /\ t.pc = "amend" /\ t.emp = s.emp /\ t.cur = i
  BY <1>1, <1>7, <1>8 DEF Request, Amendment
<1>10. Start(k, t) /\ crossed' = crossed
  BY <1>1, <1>2, <1>4, <1>5, <1>6, <1>7 DEF BeginAmend
<1>11. OwnTerms(t) /\ ReadIsCurrent(t)
  BY <1>1, <1>2, <1>9, NobodyAssumption DEF OwnTerms, ReadIsCurrent, Changes
<1>12. Admitted(t)
  BY <1>9, <1>10 DEF Admitted, Assigns, Detaches
<1> QED  BY <1>9, <1>10, <1>11, <1>12, StartKeeps

-----------------------------------------------------------------------------
(* Hiring: each request ends *)

\* The offer goes, and nobody whose requests did not cross holds it.
LEMMA DetachEnds ==
    ASSUME HiringInv, NEW k \in Clerks, CommitDetach(k)
    PROVE  HiringInv'
<1>1. PICK t : t = clerk[k]
  OBVIOUS
<1>2. t \in Detachment /\ t.post \in Posts /\ t.cat \in Categories /\ t.pc = "detach"
  BY <1>1, KindOf DEF CommitDetach, HiringInv, Detachment
<1>3. PICK p \in Posts, c \in Categories : p = t.post /\ c = t.cat
  BY <1>2
<1>4. /\ posts' = [posts EXCEPT ![p].offers[c] = Nobody] /\ clerk' = [clerk EXCEPT ![k] = CIdle]
      /\ UNCHANGED <<today, staff, terms, crossed, asked>>
  BY <1>1, <1>3 DEF CommitDetach, Finish
<1>5. \A q \in Posts : /\ posts[q] \in Position /\ posts[q].offers \in [Categories -> Wages \cup {Nobody}]
                       /\ posts[q].listed \in BOOLEAN /\ posts[q].perks \in SUBSET Perks
  <2>1. \A q \in Posts : posts[q] \in Position
    BY DEF HiringInv, HiringTyped
  <2> QED  BY <2>1 DEF Position
<1>6. /\ posts' \in [Posts -> Position]
      /\ \A q \in Posts, d \in Categories : <<q, d>> # <<p, c>> => posts'[q].offers[d] = posts[q].offers[d]
  <2>1. PICK o \in [Categories -> Wages \cup {Nobody}] : o = [posts[p].offers EXCEPT ![c] = Nobody]
    BY <1>5
  <2>2. PICK r : r = [posts[p] EXCEPT !.offers = o]
    OBVIOUS
  <2>3. r \in Position /\ r.offers = o
    BY <1>5, <2>2 DEF Position
  <2>4. posts' = [posts EXCEPT ![p] = r]
    BY <1>4, <2>1, <2>2
  <2>5. posts \in [Posts -> Position]
    BY DEF HiringInv, HiringTyped
  <2> QED  BY <1>5, <2>1, <2>3, <2>4, <2>5
<1>7. clerk'[k] = CIdle /\ \A j \in Clerks : j # k => clerk'[j] = clerk[j]
  BY <1>4 DEF HiringInv, HiringTyped
<1>8. HiringTyped'
  BY <1>4, <1>6 DEF HiringInv, HiringTyped
<1>9. RequestsHold'
  <2> SUFFICES ASSUME NEW j \in Clerks PROVE OwnTerms(clerk[j])' /\ ReadIsCurrent(clerk[j])'
    BY DEF RequestsHold
  <2>1. CASE j = k
    BY <1>7, <2>1 DEF OwnTerms, ReadIsCurrent, Changes, CIdle
  <2>2. CASE j # k
    BY <1>4, <1>7, <2>2 DEF HiringInv, RequestsHold, OwnTerms, ReadIsCurrent, Open
  <2> QED  BY <2>1, <2>2
<1>10. OffersHold'
  <2> SUFFICES ASSUME NEW q \in Posts, NEW d \in Categories, <<q, d>> \notin crossed
               PROVE  /\ \A j \in Clerks : Assigning(j, q, d)' => posts'[q].offers[d] # Nobody
                      /\ \A x \in People : Holds(x, q, d)' => posts'[q].offers[d] # Nobody
                      /\ \A h \in Clerks : Detaching(h, q, d)' =>
                           (\A j \in Clerks : ~Assigning(j, q, d)') /\ (\A x \in People : ~Holds(x, q, d)')
    BY <1>4 DEF OffersHold
  <2>1. \A x \in People : Holds(x, q, d)' <=> Holds(x, q, d)
    BY <1>4 DEF Holds
  <2>2. \A j \in Clerks : (Assigning(j, q, d)' => Assigning(j, q, d)) /\ (Detaching(j, q, d)' => Detaching(j, q, d))
    BY <1>7 DEF Assigning, Detaching, CIdle
  <2>3. CASE <<q, d>> = <<p, c>>
    <3>1. Detaching(k, q, d)
      BY <1>1, <1>2, <1>3, <2>3 DEF Detaching
    <3> QED  BY <2>1, <2>2, <3>1 DEF HiringInv, OffersHold
  <2>4. CASE <<q, d>> # <<p, c>>
    BY <1>6, <2>1, <2>2, <2>4 DEF HiringInv, OffersHold
  <2> QED  BY <2>3, <2>4
<1>11. KeysDiffer' /\ TermsHold'
  BY <1>4 DEF HiringInv, KeysDiffer, TermsHold, PersonHolds, Open
<1> QED  BY <1>8, <1>9, <1>10, <1>11 DEF HiringInv

\* A request that is refused in its transaction changes nothing.
LEMMA RefusedEnds ==
    ASSUME HiringInv, NEW k \in Clerks, clerk' = [clerk EXCEPT ![k] = CIdle],
           UNCHANGED <<today, posts, staff, terms, asked, crossed>>
    PROVE  HiringInv'
<1>1. clerk'[k] = CIdle /\ \A j \in Clerks : j # k => clerk'[j] = clerk[j]
  BY DEF HiringInv, HiringTyped
<1>2. HiringTyped'
  BY DEF HiringInv, HiringTyped
<1>3. RequestsHold'
  <2> SUFFICES ASSUME NEW j \in Clerks PROVE OwnTerms(clerk[j])' /\ ReadIsCurrent(clerk[j])'
    BY DEF RequestsHold
  <2>1. CASE j = k
    BY <1>1, <2>1 DEF OwnTerms, ReadIsCurrent, Changes, CIdle
  <2>2. CASE j # k
    BY <1>1, <2>2 DEF HiringInv, RequestsHold, OwnTerms, ReadIsCurrent, Open
  <2> QED  BY <2>1, <2>2
<1>4. OffersHold'
  <2>1. \A x \in People, q \in Posts, d \in Categories : Holds(x, q, d)' <=> Holds(x, q, d)
    BY DEF Holds
  <2>2. \A j \in Clerks, q \in Posts, d \in Categories :
           (Assigning(j, q, d)' => Assigning(j, q, d)) /\ (Detaching(j, q, d)' => Detaching(j, q, d))
    BY <1>1 DEF Assigning, Detaching, CIdle
  <2> QED  BY <2>1, <2>2 DEF HiringInv, OffersHold
<1>5. KeysDiffer' /\ TermsHold'
  BY DEF HiringInv, KeysDiffer, TermsHold, PersonHolds, Open
<1> QED  BY <1>2, <1>3, <1>4, <1>5 DEF HiringInv

\* Somebody hired had no structure before, so the first one is the only one.
LEMMA HireEnds ==
    ASSUME HiringInv, NEW k \in Clerks, NEW key \in Keys, CommitHire(k, key)
    PROVE  HiringInv'
<1>1. PICK t : t = clerk[k]
  OBVIOUS
<1>2. t \in Hire /\ t.pc = "hire"
  BY <1>1, KindOf DEF CommitHire, HiringInv
<1>3. /\ t.emp \in People /\ t.post \in Posts \cup {Nobody} /\ t.cat \in Categories \cup {Nobody}
      /\ t.rate \in Wages \cup {Nobody} /\ t.start \in {0, Nobody} /\ t.end \in Days \cup {Nobody}
      /\ (t.post = Nobody <=> t.cat = Nobody)
  <2>1. OwnTerms(t)
    BY <1>1 DEF HiringInv, RequestsHold
  <2> QED  BY <1>2, <2>1 DEF Hire, OwnTerms
<1>4. PICK x \in People : x = t.emp
  BY <1>3
<1>5. clerk' = [clerk EXCEPT ![k] = CIdle] /\ UNCHANGED <<today, posts, asked, crossed>>
  BY DEF CommitHire, Finish
<1>6. CASE staff[x] # Nobody \/ Taken(key)
  <2>1. UNCHANGED <<staff, terms>>
    BY <1>1, <1>4, <1>6 DEF CommitHire
  <2> QED  BY <1>5, <2>1, RefusedEnds
<1>7. CASE staff[x] = Nobody /\ ~Taken(key)
  <2>1. PICK e : e = [key |-> key, post |-> t.post, cat |-> t.cat, start |-> t.start, end |-> t.end,
                      perks |-> Inherited(t), mixed |-> FALSE]
    OBVIOUS
  <2>2. staff' = [staff EXCEPT ![x] = e]
    BY <1>1, <1>4, <1>7, <2>1 DEF CommitHire
  <2>3. Inherited(t) \in SUBSET Perks
    <3>1. \A q \in Posts : posts[q] \in Position
      BY DEF HiringInv, HiringTyped
    <3>2. \A q \in Posts : posts[q].perks \in SUBSET Perks
      BY <3>1 DEF Position
    <3> QED  BY <1>3, <3>2 DEF Inherited
  <2>4. e \in Employee /\ e.key = key /\ e.post = t.post /\ e.cat = t.cat /\ e.start = t.start /\ e.end = t.end
        /\ e.mixed = FALSE
    BY <1>3, <2>1, <2>3 DEF Employee
  <2>5. \A i \in DOMAIN terms : terms[i].emp # x
    BY <1>7 DEF HiringInv, TermsHold, PersonHolds
  <2>6. Assigning(k, e.post, e.cat)
    BY <1>1, <1>2, <2>4 DEF Assigning
  <2>7. \A j \in Clerks \ {k} : Changes(clerk[j]) => clerk[j].emp # x
    BY <1>7 DEF HiringInv, RequestsHold, OwnTerms
  <2>8. \A y \in People \ {x} : staff[y] # Nobody => staff[y].key # e.key
    BY <1>7, <2>4 DEF Taken
  <2>9. staff'[x] = e /\ e # Nobody
    BY <2>2, <2>4, NobodyAssumption DEF HiringInv, HiringTyped
  <2>10. PersonHolds(x) /\ HiringTyped
    BY DEF HiringInv, TermsHold
  <2>11. CASE t.post = Nobody \/ t.rate = Nobody
    <3>1. terms' = terms
      BY <1>1, <1>4, <1>7, <2>11 DEF CommitHire
    <3>2. OthersKept(x) /\ Open(x)' = Open(x)
      BY <2>10, <3>1, LeftAlone
    <3>3. Open(x)' = {}
      BY <2>5, <3>2 DEF Open
    <3>4. Committed(k, x, e)
      BY <1>5, <2>2, <2>4, <2>6, <2>7, <2>8, <3>2 DEF Committed
    <3>5. PersonHolds(x)'
      BY <2>9, <3>3 DEF PersonHolds
    <3> QED  BY <3>4, <3>5, CommitKeeps
  <2>12. CASE t.post # Nobody /\ t.rate # Nobody
    <3>1. t.cat \in Categories /\ t.rate \in Nat /\ today \in Days
      BY <1>3, <2>12, HiringAssumption DEF HiringInv, HiringTyped
    <3>2. PICK day \in Days, f \in Categories, r \in Nat : day = today /\ f = t.cat /\ r = t.rate
      BY <3>1
    <3>3. PICK s \in Term : /\ s = Structure(x, f, r, BasicSalary(f, r, t.start, t.end, 0), day, FALSE)
                            /\ s.emp = x /\ s.freq = f /\ s.to = Nobody
                            /\ f = "CUSTOM" /\ t.start # Nobody /\ t.end # Nobody =>
                                  s.salary = s.rate * ContractDays(t.start, t.end)
      <4>1. PICK a \in {0, Nobody}, b \in Days \cup {Nobody}, n \in Nat, page \in BOOLEAN :
               a = t.start /\ b = t.end /\ n = 0 /\ page = FALSE
        BY <1>3
      <4>2. PICK salary \in Nat : salary = BasicSalary(f, r, a, b, n)
        BY SalaryIsNat
      <4>3. f = "CUSTOM" /\ a # Nobody /\ b # Nobody => BasicSalary(f, r, a, b, n) = r * ContractDays(a, b)
        BY ContractValue
      <4>4. PICK q : q = Structure(x, f, r, salary, day, page)
        OBVIOUS
      <4>5. q \in Term /\ q.emp = x /\ q.freq = f /\ q.to = Nobody /\ q.rate = r /\ q.salary = salary
        BY <4>4, StructureIsTerm
      <4> QED  BY <4>1, <4>2, <4>3, <4>4, <4>5
    <3>4. terms' = Append(terms, s)
      BY <1>1, <1>4, <1>7, <2>12, <3>2, <3>3 DEF CommitHire
    <3>5. CloseOpen(terms, x, today) = terms
      <4>1. \A i \in DOMAIN terms : (IF terms[i].emp = x /\ terms[i].to = Nobody THEN [terms[i] EXCEPT !.to = today]
                                     ELSE terms[i]) = terms[i]
        BY <2>5
      <4>2. terms = [i \in DOMAIN terms |-> terms[i]]
        BY DEF HiringInv, HiringTyped
      <4> QED  BY <4>1, <4>2 DEF CloseOpen
    <3>7. OthersKept(x) /\ \A i \in Open(x)' : terms'[i] = s
      BY <2>10, <3>2, <3>3, <3>4, <3>5, BegunAnew
    <3>8. Committed(k, x, e)
      BY <1>5, <2>2, <2>4, <2>6, <2>7, <2>8, <3>7 DEF Committed
    <3>9. s.freq = "CUSTOM" /\ e.start # Nobody /\ e.end # Nobody =>
            s.salary = s.rate * ContractDays(e.start, e.end)
      BY <2>4, <3>3
    <3>10. PersonHolds(x)'
      <4>1. \A i, j \in Open(x)' : i = j
        BY <3>7 DEF OthersKept
      <4> QED  BY <2>4, <2>9, <3>2, <3>3, <3>7, <3>9, <4>1 DEF PersonHolds
    <3> QED  BY <3>8, <3>10, CommitKeeps
  <2> QED  BY <2>11, <2>12
<1> QED  BY <1>6, <1>7

\* The rate of the next structure.
LEMMA NextRateIsNat ==
    ASSUME NEW t \in Update, t.cat # Nobody
    PROVE  NextRate(t) \in Nat
<1>1. t.rate \in Wages \cup {Nobody} /\ t.read \in Term \cup {Nobody} /\ t.default \in Wages \cup {Nobody}
  BY DEF Update
<1>2. t.rate # Nobody => t.rate \in Nat
  BY <1>1, HiringAssumption
<1>3. Given(t.default, FallbackRate) \in Nat
  BY <1>1, HiringAssumption DEF Given, FallbackRate
<1>4. t.read # Nobody => t.read.salary \in Nat /\ t.read.rate \in Nat
  BY <1>1 DEF Term
<1>5. t.read # Nobody => t.read.salary \div MonthDays \in Nat
  BY <1>4 DEF MonthDays
<1> QED  BY <1>2, <1>3, <1>4, <1>5 DEF NextRate

\* An update writes over what it read, or closes it and begins anew.
LEMMA UpdateEnds ==
    ASSUME HiringInv, NEW k \in Clerks, CommitUpdate(k)
    PROVE  HiringInv'
<1>1. PICK t : t = clerk[k]
  OBVIOUS
<1>2. t \in Update /\ t.pc = "update"
  BY <1>1, KindOf DEF CommitUpdate, HiringInv
<1>3. /\ t.emp \in People /\ t.post \in Posts \cup {Nobody} /\ t.cat \in Categories \cup {Nobody}
      /\ t.p \in Posts \cup {Nobody} /\ t.c \in Categories \cup {Nobody} /\ t.end \in Days \cup {Nobody}
      /\ t.cur \in Nat \cup {Nobody} /\ t.read \in Term \cup {Nobody}
  BY <1>2 DEF Update
<1>4. OwnTerms(t) /\ ReadIsCurrent(t)
  BY <1>1 DEF HiringInv, RequestsHold
<1>5. PICK x \in People : x = t.emp
  BY <1>3
<1>6. PICK old \in Employee : old = staff[x]
  BY <1>2, <1>4, <1>5 DEF OwnTerms, Changes, HiringInv, HiringTyped
<1>7. /\ old.key \in Keys /\ old.post \in Posts \cup {Nobody} /\ old.cat \in Categories \cup {Nobody}
      /\ old.start \in {0, Nobody} /\ old.end \in Days \cup {Nobody} /\ old.perks \in SUBSET Perks
      /\ old.mixed \in BOOLEAN
  BY DEF Employee
<1>8. PICK post \in Posts \cup {Nobody}, cat \in Categories \cup {Nobody}, end \in Days \cup {Nobody},
           mixed \in BOOLEAN :
         /\ post = Given(t.p, old.post) /\ cat = Given(t.c, old.cat) /\ end = Given(t.end, old.end)
         /\ mixed = (old.mixed \/ Mixed(k))
  <2>1. /\ Given(t.p, old.post) \in Posts \cup {Nobody} /\ Given(t.c, old.cat) \in Categories \cup {Nobody}
        /\ Given(t.end, old.end) \in Days \cup {Nobody}
    BY <1>3, <1>7 DEF Given
  <2>2. (old.mixed \/ Mixed(k)) \in BOOLEAN
    OBVIOUS
  <2> QED  BY <2>1, <2>2, Zenon
<1>9. PICK e : e = [old EXCEPT !.post = post, !.cat = cat, !.end = end, !.mixed = mixed]
  OBVIOUS
<1>10. /\ e \in Employee /\ e.key = old.key /\ e.post = post /\ e.cat = cat /\ e.start = old.start /\ e.end = end
       /\ e.mixed = mixed
  BY <1>7, <1>9 DEF Employee
<1>11. staff' = [staff EXCEPT ![x] = e]
  BY <1>1, <1>5, <1>6, <1>8, <1>9 DEF CommitUpdate, HiringInv, HiringTyped
<1>12. /\ clerk' = [clerk EXCEPT ![k] = CIdle] /\ UNCHANGED <<today, posts, asked, crossed>>
       /\ terms' = IF t.post = Nobody \/ t.cat = Nobody THEN terms ELSE NextTerms(t, old.start, end)
  BY <1>1, <1>5, <1>6, <1>8 DEF CommitUpdate, Finish
<1>13. \A j \in Clerks \ {k} : Changes(clerk[j]) /\ clerk[j].emp = x => e.mixed
  BY <1>1, <1>5, <1>8, <1>10 DEF Mixed, Changes
<1>14. ~e.mixed => /\ ~old.mixed /\ e.post = t.post /\ e.cat = t.cat
                   /\ IF t.cur = Nobody THEN Open(x) = {} ELSE t.cur \in Open(x) /\ t.read = terms[t.cur]
  BY <1>2, <1>4, <1>5, <1>6, <1>8, <1>10 DEF ReadIsCurrent
<1>15. ~e.mixed => Assigning(k, e.post, e.cat)
  BY <1>1, <1>2, <1>14 DEF Assigning
<1>16. \A y \in People \ {x} : staff[y] # Nobody => staff[y].key # e.key
  BY <1>6, <1>10, NobodyAssumption DEF HiringInv, KeysDiffer
<1>17. staff'[x] = e /\ e # Nobody
  BY <1>10, <1>11, NobodyAssumption DEF HiringInv, HiringTyped
<1>18. PersonHolds(x) /\ HiringTyped
  BY DEF HiringInv, TermsHold
<1>19. SUFFICES OthersKept(x) /\ PersonHolds(x)'
  <2>1. Committed(k, x, e)
    BY <1>10, <1>11, <1>12, <1>13, <1>15, <1>16, <1>19 DEF Committed
  <2> QED  BY <1>19, <2>1, CommitKeeps
<1>20. CASE t.post = Nobody \/ t.cat = Nobody
  <2>1. terms' = terms
    BY <1>12, <1>20
  <2>2. OthersKept(x) /\ Open(x)' = Open(x)
    BY <1>18, <2>1, LeftAlone
  <2>3. ~e.mixed => e.post = Nobody \/ e.cat = Nobody
    BY <1>14, <1>20
  <2>4. PersonHolds(x)'
    BY <1>17, <2>2, <2>3 DEF PersonHolds, OthersKept
  <2> QED  BY <2>2, <2>4
<1>21. CASE t.post # Nobody /\ t.cat # Nobody
  <2>1. PICK f \in Categories, r \in Nat, n \in Nat :
           f = t.cat /\ r = NextRate(t) /\ n = IF t.read = Nobody THEN 0 ELSE t.read.salary
    <3>1. t.read # Nobody => t.read.salary \in Nat
      BY <1>3 DEF Term
    <3> QED  BY <1>2, <1>3, <1>21, <3>1, NextRateIsNat
  <2>2. PICK salary \in Nat : /\ salary = BasicSalary(f, r, old.start, end, n)
                              /\ f = "CUSTOM" /\ old.start # Nobody /\ end # Nobody =>
                                    salary = r * ContractDays(old.start, end)
    <3>1. PICK a \in {0, Nobody} : a = old.start
      BY <1>7
    <3>2. BasicSalary(f, r, a, end, n) \in Nat
      BY SalaryIsNat
    <3>3. f = "CUSTOM" /\ a # Nobody /\ end # Nobody => BasicSalary(f, r, a, end, n) = r * ContractDays(a, end)
      BY ContractValue
    <3> QED  BY <3>1, <3>2, <3>3
  <2>3. terms' = IF InPlace(t)
                 THEN [terms EXCEPT ![t.cur].freq = f, ![t.cur].rate = r, ![t.cur].salary = salary]
                 ELSE Append(CloseOpen(terms, x, today), Structure(x, f, r, salary, today, FALSE))
    BY <1>5, <1>12, <1>21, <2>1, <2>2 DEF NextTerms
  <2>4. SUFFICES /\ OthersKept(x)
                 /\ \A i \in Open(x)' : ~e.mixed => terms'[i].freq = f /\ terms'[i].rate = r /\ terms'[i].salary = salary
    <3>1. ~e.mixed => e.cat = f
      BY <1>14, <2>1
    <3>2. \A i, j \in Open(x)' : i = j
      BY <2>4 DEF OthersKept
    <3>3. PersonHolds(x)'
      BY <1>10, <1>17, <2>2, <2>4, <3>1, <3>2 DEF PersonHolds
    <3> QED  BY <2>4, <3>3
  <2>5. CASE InPlace(t)
    <3>1. t.cur # Nobody /\ t.cur \in DOMAIN terms /\ terms[t.cur].emp = x
      BY <1>2, <1>4, <1>5, <2>5 DEF InPlace, OwnTerms
    <3>2. PICK i \in DOMAIN terms : i = t.cur
      BY <3>1
    <3>3. PICK q \in Term : q = terms[i] /\ q.emp = x
      BY <1>18, <3>1, <3>2, TermOf DEF HiringTyped
    <3>4. PICK s : s = [q EXCEPT !.freq = f, !.rate = r, !.salary = salary]
      OBVIOUS
    <3>5. s \in Term /\ s.emp = x /\ s.to = q.to /\ s.freq = f /\ s.rate = r /\ s.salary = salary
      BY <3>3, <3>4 DEF Term
    <3>6. terms' = [terms EXCEPT ![i] = s]
      BY <1>18, <2>3, <2>5, <3>2, <3>3, <3>4 DEF HiringTyped
    <3>7. OthersKept(x) /\ Open(x)' \subseteq Open(x) /\ terms'[i] = s
      BY <1>18, <3>3, <3>5, <3>6, WrittenOver
    <3>8. ASSUME NEW j \in Open(x)', ~e.mixed PROVE j = i
      BY <1>14, <1>18, <3>1, <3>2, <3>7, <3>8 DEF PersonHolds
    <3> QED  BY <3>5, <3>7, <3>8
  <2>6. CASE ~InPlace(t)
    <3>1. PICK day \in Days, page \in BOOLEAN : day = today /\ page = FALSE
      BY <1>18 DEF HiringTyped
    <3>2. PICK s : s = Structure(x, f, r, salary, day, page)
      OBVIOUS
    <3>3. s \in Term /\ s.emp = x /\ s.freq = f /\ s.rate = r /\ s.salary = salary /\ s.to = Nobody
      BY <3>2, StructureIsTerm
    <3>4. terms' = Append(CloseOpen(terms, x, day), s)
      BY <2>3, <2>6, <3>1, <3>2
    <3>5. OthersKept(x) /\ \A i \in Open(x)' : terms'[i] = s
      BY <1>18, <3>3, <3>4, BegunAnew
    <3> QED  BY <3>3, <3>5
  <2> QED  BY <2>5, <2>6
<1> QED  BY <1>20, <1>21

\* A request of the structures page marks the employee, if others are under way.
Marks(k, x, old, e) ==
    /\ clerk' = [clerk EXCEPT ![k] = CIdle] /\ UNCHANGED <<today, posts, asked, crossed>>
    /\ old \in Employee /\ old = staff[x]
    /\ e = [old EXCEPT !.mixed = (old.mixed \/ Mixed(k))] /\ staff' = [staff EXCEPT ![x] = e]
    /\ clerk[k].emp = x /\ clerk[k].pc \in {"terms", "amend"}

\* Apart from the mark the employee stays as it was.
LEMMA MarkedEmployee ==
    ASSUME HiringInv, NEW k \in Clerks, NEW x \in People, NEW old, NEW e, Marks(k, x, old, e)
    PROVE  /\ e \in Employee /\ e # Nobody /\ staff'[x] = e
           /\ e.key = old.key /\ e.post = old.post /\ e.cat = old.cat /\ e.start = old.start /\ e.end = old.end
           /\ ~e.mixed => ~old.mixed
           /\ OthersKept(x) => Committed(k, x, e)
<1>1. PICK mixed \in BOOLEAN : mixed = (old.mixed \/ Mixed(k))
  OBVIOUS
<1>2. old \in Employee /\ e = [old EXCEPT !.mixed = mixed]
  BY <1>1 DEF Marks
<1>3. /\ e \in Employee /\ e.mixed = mixed
      /\ e.key = old.key /\ e.post = old.post /\ e.cat = old.cat /\ e.start = old.start /\ e.end = old.end
  BY <1>2 DEF Employee
<1>4. e # Nobody /\ staff'[x] = e
  BY <1>3, NobodyAssumption DEF Marks, HiringInv, HiringTyped
<1>5. \A j \in Clerks \ {k} : Changes(clerk[j]) /\ clerk[j].emp = x => e.mixed
  BY <1>1, <1>3 DEF Marks, Mixed, Changes
<1>6. ~e.mixed => Holds(x, e.post, e.cat) /\ ~old.mixed
  BY <1>1, <1>2, <1>3, NobodyAssumption DEF Holds, Marks
<1>7. \A y \in People \ {x} : staff[y] # Nobody => staff[y].key # e.key
  BY <1>2, <1>3, NobodyAssumption DEF HiringInv, KeysDiffer, Marks
<1>8. OthersKept(x) => Committed(k, x, e)
  BY <1>3, <1>5, <1>6, <1>7 DEF Committed, Marks
<1> QED  BY <1>3, <1>4, <1>6, <1>8

\* A structure of the structures page replaces the one that was open.
LEMMA TermsEnd ==
    ASSUME HiringInv, NEW k \in Clerks, CommitTerms(k)
    PROVE  HiringInv'
<1>1. PICK t : t = clerk[k]
  OBVIOUS
<1>2. t \in NewTerms /\ t.pc = "terms" /\ OwnTerms(t)
  BY <1>1, KindOf DEF CommitTerms, HiringInv, RequestsHold
<1>3. PICK x \in People, f \in Categories, r \in Nat, day \in Days, salary \in Nat, page \in BOOLEAN :
         x = t.emp /\ f = t.freq /\ r = t.rate /\ day = t.from /\ salary = t.salary /\ page = TRUE
  <2>1. t.emp \in People /\ t.freq \in Categories /\ t.rate \in Nat /\ t.from \in Days /\ t.salary \in Nat
    BY <1>2, HiringAssumption DEF NewTerms
  <2> QED  BY <2>1
<1>4. PICK old \in Employee : old = staff[x]
  BY <1>2, <1>3 DEF OwnTerms, Changes, HiringInv, HiringTyped
<1>5. PICK e : e = [old EXCEPT !.mixed = (old.mixed \/ Mixed(k))]
  OBVIOUS
<1>6. PICK s : s = Structure(x, f, r, salary, day, page)
  OBVIOUS
<1>7. s \in Term /\ s.emp = x /\ s.to = Nobody /\ s.page = TRUE
  <2>1. s \in Term /\ s.emp = x /\ s.to = Nobody /\ s.page = page
    BY <1>6, StructureIsTerm
  <2> QED  BY <1>3, <2>1
<1>8. terms' = Append(CloseOpen(terms, x, day), s)
  BY <1>1, <1>3, <1>6 DEF CommitTerms
<1>9. OthersKept(x) /\ \A i \in Open(x)' : terms'[i] = s
  BY <1>7, <1>8, BegunAnew DEF HiringInv
<1>10. Marks(k, x, old, e)
  BY <1>1, <1>2, <1>3, <1>4, <1>5 DEF CommitTerms, Finish, Marks
<1>11. staff'[x] = e /\ e # Nobody /\ Committed(k, x, e)
  BY <1>9, <1>10, MarkedEmployee
<1>12. PersonHolds(x)'
  <2>1. \A i, j \in Open(x)' : i = j
    BY <1>9 DEF OthersKept
  <2> QED  BY <1>7, <1>9, <1>11, <2>1 DEF PersonHolds
<1> QED  BY <1>11, <1>12, CommitKeeps

\* Amending may close a structure, never open one that was closed.
LEMMA AmendEnds ==
    ASSUME HiringInv, NEW k \in Clerks, CommitAmend(k)
    PROVE  HiringInv'
<1>1. PICK t : t = clerk[k]
  OBVIOUS
<1>2. t \in Amendment /\ t.pc = "amend" /\ OwnTerms(t)
  BY <1>1, KindOf DEF CommitAmend, HiringInv, RequestsHold
<1>3. /\ t.emp \in People /\ t.cur \in Nat /\ t.freq \in Categories /\ t.to \in Days \cup {Nobody}
      /\ t.rate \in Nat /\ t.salary \in Nat
  BY <1>2 DEF Amendment
<1>4. PICK x \in People : x = t.emp
  BY <1>3
<1>5. PICK old \in Employee : old = staff[x]
  BY <1>2, <1>4 DEF OwnTerms, Changes, HiringInv, HiringTyped
<1>6. PICK e : e = [old EXCEPT !.mixed = (old.mixed \/ Mixed(k))]
  OBVIOUS
<1>7. PICK i \in DOMAIN terms : i = t.cur /\ terms[i].emp = x
  BY <1>2, <1>3, <1>4, NobodyAssumption DEF OwnTerms
<1>8. PersonHolds(x) /\ HiringTyped
  BY DEF HiringInv, TermsHold
<1>9. PICK q \in Term : q = terms[i] /\ q.emp = x /\ q.to \in Days \cup {Nobody}
  BY <1>7, <1>8, TermOf DEF HiringTyped
<1>10. PICK to \in Days \cup {Nobody} : to = Given(t.to, q.to)
  BY <1>3, <1>9 DEF Given
<1>11. PICK s : s = [q EXCEPT !.freq = t.freq, !.rate = t.rate, !.salary = t.salary, !.to = to, !.page = TRUE]
  OBVIOUS
<1>12. s \in Term /\ s.emp = x /\ s.to = to /\ s.page = TRUE
  BY <1>3, <1>9, <1>11 DEF Term
<1>13. s.to = Nobody => terms[i].to = Nobody
  BY <1>9, <1>10, <1>12 DEF Given
<1>14. terms' = [terms EXCEPT ![i] = s]
  BY <1>1, <1>7, <1>8, <1>9, <1>10, <1>11 DEF CommitAmend, HiringTyped
<1>15. /\ OthersKept(x) /\ Open(x)' \subseteq Open(x) /\ terms'[i] = s
       /\ \A j \in DOMAIN terms : j # i => terms'[j] = terms[j]
  BY <1>7, <1>8, <1>12, <1>13, <1>14, WrittenOver
<1>16. Marks(k, x, old, e)
  BY <1>1, <1>2, <1>4, <1>5, <1>6 DEF CommitAmend, Finish, Marks
<1>17. /\ staff'[x] = e /\ e # Nobody /\ Committed(k, x, e) /\ (~e.mixed => ~old.mixed)
       /\ e.post = old.post /\ e.cat = old.cat /\ e.start = old.start /\ e.end = old.end
  BY <1>15, <1>16, MarkedEmployee
<1>18. PersonHolds(x)'
  <2>1. \A j, l \in Open(x)' : j = l
    BY <1>15 DEF OthersKept
  <2>2. \A j \in Open(x)' : terms'[j].page = TRUE \/ (j \in Open(x) /\ terms'[j] = terms[j])
    BY <1>12, <1>15 DEF Open
  <2> QED  BY <1>5, <1>8, <1>17, <2>1, <2>2 DEF PersonHolds
<1> QED  BY <1>17, <1>18, CommitKeeps

-----------------------------------------------------------------------------
(* Hiring: positions, and the theorems *)

\* Positions are listed, archived and offer more; what they offered they still offer.
LEMMA PostsKeep ==
    ASSUME HiringInv, PostStep
    PROVE  HiringInv'
<1>1. asked' \in 0..MaxAsked
  BY HiringAssumption DEF PostStep, HiringInv, HiringTyped
<1>2. PICK p \in Posts : \/ \E c \in Categories, r \in Wages : OfferCategory(p, c, r)
                         \/ ListPosition(p)
                         \/ \E perks \in SUBSET Perks : SetPerks(p, perks)
  BY DEF PostStep
<1>3. UNCHANGED <<today, staff, terms, clerk, crossed>>
  BY <1>2 DEF OfferCategory, ListPosition, SetPerks
<1>4. PICK old \in Position : old = posts[p]
  BY DEF HiringInv, HiringTyped
<1>5. /\ old.listed \in BOOLEAN /\ old.offers \in [Categories -> Wages \cup {Nobody}] /\ old.perks \in SUBSET Perks
  BY DEF Position
<1>6. PICK r \in Position : /\ posts' = [posts EXCEPT ![p] = r]
                            /\ \A c \in Categories : old.offers[c] # Nobody => r.offers[c] # Nobody
  <2>1. ASSUME NEW c \in Categories, NEW w \in Wages, OfferCategory(p, c, w)
        PROVE  \E r \in Position : /\ posts' = [posts EXCEPT ![p] = r]
                                   /\ \A d \in Categories : old.offers[d] # Nobody => r.offers[d] # Nobody
    <3>0. PICK o : o = [old.offers EXCEPT ![c] = w]
      OBVIOUS
    <3>1. /\ o \in [Categories -> Wages \cup {Nobody}]
          /\ \A d \in Categories : old.offers[d] # Nobody => o[d] # Nobody
      <4>1. w # Nobody
        BY HiringAssumption, NobodyAssumption
      <4> QED  BY <1>5, <3>0, <4>1
    <3>2. PICK r : r = [old EXCEPT !.offers = o]
      OBVIOUS
    <3>3. r \in Position /\ r.offers = o
      BY <1>5, <3>1, <3>2 DEF Position
    <3>4. posts' = [posts EXCEPT ![p] = r]
      BY <1>4, <2>1, <3>0, <3>2 DEF OfferCategory
    <3> QED  BY <3>1, <3>3, <3>4
  <2>2. ASSUME ListPosition(p)
        PROVE  \E r \in Position : posts' = [posts EXCEPT ![p] = r] /\ r.offers = old.offers
    <3>1. PICK l \in BOOLEAN : l = ~old.listed
      OBVIOUS
    <3>2. PICK r : r = [old EXCEPT !.listed = l]
      OBVIOUS
    <3>3. r \in Position /\ r.offers = old.offers
      BY <1>5, <3>2 DEF Position
    <3>4. posts' = [posts EXCEPT ![p] = r]
      BY <1>4, <2>2, <3>1, <3>2 DEF ListPosition
    <3> QED  BY <3>3, <3>4
  <2>3. ASSUME NEW perks \in SUBSET Perks, SetPerks(p, perks)
        PROVE  \E r \in Position : posts' = [posts EXCEPT ![p] = r] /\ r.offers = old.offers
    <3>1. PICK r : r = [old EXCEPT !.perks = perks]
      OBVIOUS
    <3>2. r \in Position /\ r.offers = old.offers
      BY <1>5, <3>1 DEF Position
    <3>3. posts' = [posts EXCEPT ![p] = r]
      BY <1>4, <2>3, <3>1 DEF SetPerks
    <3> QED  BY <3>2, <3>3
  <2> QED  BY <1>2, <2>1, <2>2, <2>3
<1>7. /\ posts' \in [Posts -> Position]
      /\ \A q \in Posts, c \in Categories : posts[q].offers[c] # Nobody => posts'[q].offers[c] # Nobody
  BY <1>4, <1>6 DEF HiringInv, HiringTyped
<1>8. HiringTyped'
  BY <1>1, <1>3, <1>7 DEF HiringInv, HiringTyped
<1>9. RequestsHold' /\ KeysDiffer' /\ TermsHold'
  BY <1>3 DEF HiringInv, RequestsHold, OwnTerms, ReadIsCurrent, KeysDiffer, TermsHold, PersonHolds, Open
<1>10. OffersHold'
  BY <1>3, <1>7 DEF HiringInv, OffersHold, Assigning, Detaching, Holds
<1> QED  BY <1>8, <1>9, <1>10 DEF HiringInv

\* Time passes, or nothing happens.
LEMMA DayKeeps ==
    ASSUME HiringInv, NextDay \/ UNCHANGED hiringVars
    PROVE  HiringInv'
<1>1. UNCHANGED <<posts, staff, terms, clerk, asked, crossed>>
  BY DEF NextDay, hiringVars
<1>2. today' \in Days
  BY HiringAssumption DEF NextDay, hiringVars, HiringInv, HiringTyped, Days
<1>3. HiringTyped'
  BY <1>1, <1>2 DEF HiringInv, HiringTyped
<1>4. RequestsHold' /\ KeysDiffer' /\ TermsHold'
  BY <1>1 DEF HiringInv, RequestsHold, OwnTerms, ReadIsCurrent, KeysDiffer, TermsHold, PersonHolds, Open
<1>5. OffersHold'
  BY <1>1 DEF HiringInv, OffersHold, Assigning, Detaching, Holds
<1> QED  BY <1>3, <1>4, <1>5 DEF HiringInv

\* Nobody is employed, nothing offered.
LEMMA HiringStarts == HiringInit => HiringInv
<1> SUFFICES ASSUME HiringInit PROVE HiringInv
  OBVIOUS
<1>1. posts \in [Posts -> Position]
  <2>1. PICK o \in [Categories -> Wages \cup {Nobody}] : o = [c \in Categories |-> Nobody]
    OBVIOUS
  <2>2. PICK q : q = [listed |-> TRUE, offers |-> o, perks |-> {}]
    OBVIOUS
  <2>3. q \in Position
    BY <2>2 DEF Position
  <2>4. posts = [p \in Posts |-> q]
    BY <2>1, <2>2 DEF HiringInit
  <2> QED  BY <2>3, <2>4
<1>2. HiringTyped
  <2>1. today \in Days /\ asked \in 0..MaxAsked
    BY HiringAssumption DEF HiringInit, Days
  <2>2. staff \in [People -> Employee \cup {Nobody}] /\ terms \in Seq(Term)
    BY DEF HiringInit
  <2>3. clerk \in [Clerks -> {CIdle} \cup Detachment \cup Hire \cup Update \cup NewTerms \cup Amendment]
    BY DEF HiringInit
  <2> QED  BY <1>1, <2>1, <2>2, <2>3 DEF HiringTyped
<1>3. /\ \A k \in Clerks : clerk[k] = CIdle /\ CIdle.pc = "idle"
      /\ \A x \in People : staff[x] = Nobody
      /\ DOMAIN terms = {}
  BY DEF HiringInit, CIdle
<1>4. RequestsHold /\ OffersHold
  BY <1>3 DEF RequestsHold, OwnTerms, ReadIsCurrent, Changes, OffersHold, Assigning, Detaching, Holds
<1>5. KeysDiffer /\ TermsHold
  BY <1>3 DEF KeysDiffer, TermsHold, PersonHolds, Open
<1> QED  BY <1>2, <1>4, <1>5 DEF HiringInv

\* Every step keeps the invariant.
LEMMA HiringKeeps == HiringInv /\ [HiringNext]_hiringVars => HiringInv'
<1> SUFFICES ASSUME HiringInv, [HiringNext]_hiringVars PROVE HiringInv'
  OBVIOUS
<1>1. CASE PostStep
  BY <1>1, PostsKeep
<1>2. CASE HireStep
  <2>1. PICK k \in Clerks :
          \/ \E p \in Posts, c \in Categories : BeginDetach(k, p, c)
          \/ \E x \in People, p \in Posts \cup {Nobody}, c \in Categories \cup {Nobody},
                r \in Wages \cup {Nobody}, start \in {0, Nobody}, end \in Days \cup {Nobody}, imported \in BOOLEAN :
                   BeginHire(k, x, p, c, r, start, end, imported)
          \/ CommitDetach(k)
          \/ \E key \in Keys : CommitHire(k, key)
    <3>1. \A end : (IF end = Nobody THEN Nobody ELSE 0) \in {0, Nobody}
      OBVIOUS
    <3> QED  BY <1>2, <3>1, Zenon DEF HireStep
  <2>2. CASE \E x \in People, p \in Posts \cup {Nobody}, c \in Categories \cup {Nobody},
                r \in Wages \cup {Nobody}, start \in {0, Nobody}, end \in Days \cup {Nobody}, imported \in BOOLEAN :
                   BeginHire(k, x, p, c, r, start, end, imported)
    <3>1. PICK x \in People, p \in Posts \cup {Nobody}, c \in Categories \cup {Nobody},
               r \in Wages \cup {Nobody}, start \in {0, Nobody}, end \in Days \cup {Nobody}, imported \in BOOLEAN :
                  BeginHire(k, x, p, c, r, start, end, imported)
      BY <2>2
    <3> QED  BY <3>1, HireBegins
  <2>3. CASE \E p \in Posts, c \in Categories : BeginDetach(k, p, c)
    BY <2>3, DetachBegins
  <2>4. CASE \E key \in Keys : CommitHire(k, key)
    BY <2>4, HireEnds
  <2>5. CASE CommitDetach(k)
    BY <2>5, DetachEnds
  <2> QED  BY <2>1, <2>2, <2>3, <2>4, <2>5
<1>3. CASE UpdateStep
  <2>1. PICK k \in Clerks :
          \/ \E x \in People :
                \/ \E p \in Posts \cup {Nobody}, c \in Categories \cup {Nobody}, r \in Wages \cup {Nobody} :
                      BeginUpdate(k, x, p, c, r, Nobody)
                \/ \E end \in Days : BeginUpdate(k, x, Nobody, Nobody, Nobody, end)
          \/ CommitUpdate(k)
    BY <1>3 DEF UpdateStep
  <2> QED  BY <2>1, UpdateBegins, UpdateEnds
<1>4. CASE TermsStep
  <2>1. PICK k \in Clerks :
          \/ \E x \in People, f \in Categories, r \in Wages, from \in Days : BeginTerms(k, x, f, r, from)
          \/ \E i \in DOMAIN terms :
                \/ \E f \in Categories : BeginAmend(k, i, f, Nobody, Nobody)
                \/ \E r \in Wages : BeginAmend(k, i, Nobody, r, Nobody)
                \/ \E to \in Days : BeginAmend(k, i, Nobody, Nobody, to)
          \/ CommitTerms(k) \/ CommitAmend(k)
    BY <1>4 DEF TermsStep
  <2> QED  BY <2>1, TermsBegin, AmendBegins, TermsEnd, AmendEnds
<1>5. CASE NextDay \/ UNCHANGED hiringVars
  BY <1>5, DayKeeps
<1> QED  BY <1>1, <1>2, <1>3, <1>4, <1>5 DEF HiringNext

\* The invariant implies what is claimed.
LEMMA HiringInvSound == HiringInv => HiringSound
<1> SUFFICES ASSUME HiringInv PROVE HiringSound
  OBVIOUS
<1>1. HiringTypeOK
  BY DEF HiringInv, HiringTyped, KeysDiffer, HiringTypeOK
<1>2. CategoryIsOffered
  <2> SUFFICES ASSUME NEW x \in People, staff[x] # Nobody, staff[x].post # Nobody, staff[x].cat # Nobody,
                      ~staff[x].mixed, <<staff[x].post, staff[x].cat>> \notin crossed
               PROVE  posts[staff[x].post].offers[staff[x].cat] # Nobody
    BY DEF CategoryIsOffered
  <2>1. PICK e \in Employee : e = staff[x]
    BY DEF HiringInv, HiringTyped
  <2>2. PICK p \in Posts, c \in Categories : p = e.post /\ c = e.cat
    BY <2>1 DEF Employee
  <2>3. Holds(x, p, c)
    BY <2>1, <2>2 DEF Holds
  <2> QED  BY <2>1, <2>2, <2>3 DEF HiringInv, OffersHold
<1>3. OneOpenStructure
  <2> SUFFICES ASSUME NEW x \in People PROVE Cardinality(Open(x)) <= 1
    BY DEF OneOpenStructure
  <2>1. \A i, j \in Open(x) : i = j
    BY DEF HiringInv, TermsHold, PersonHolds
  <2>2. CASE Open(x) = {}
    BY <2>2, FS_EmptySet
  <2>3. CASE Open(x) # {}
    <3>1. PICK i \in Open(x) : Open(x) = {i}
      BY <2>1, <2>3
    <3>2. Cardinality({i}) = 1
      BY FS_Singleton
    <3> QED  BY <3>1, <3>2
  <2> QED  BY <2>2, <2>3
<1>4. PaidByCategory /\ ContractValueOnFile
  BY DEF HiringInv, TermsHold, PersonHolds, PaidByCategory, ContractValueOnFile
<1> QED  BY <1>1, <1>2, <1>3, <1>4 DEF HiringSound

\* However hires, imports, detachments, changes of post, category, rate and contract, and
\* requests of the structures page interleave, for any positions, people, wages, days and
\* number of requests in flight: a category that is offered, one open structure each, of
\* that category's frequency, and for a fixed term worth the contract as it stands.
THEOREM EmploymentFits == HiringSpec => []HiringSound
<1>1. HiringSpec => []HiringInv
  BY HiringStarts, HiringKeeps, PTL DEF HiringSpec
<1> QED  BY <1>1, HiringInvSound, PTL

\* What is open is closed on the day on which the new structure begins.
Begun ==
    \E x, freq, rate, salary, page : \E day \in Days :
        terms' = Append(CloseOpen(terms, x, day), Structure(x, freq, rate, salary, day, page))

\* Writing over one structure, or over some of it, adds none.
LEMMA WritingAddsNone ==
    ASSUME NEW i, NEW s, NEW n \in Nat, Len(terms) = n, DOMAIN terms = 1..n, terms' = [terms EXCEPT ![i] = s]
    PROVE  Len(terms') = n
<1>1. terms' = [j \in 1..n |-> terms'[j]]
  OBVIOUS
<1>2. Len([j \in 1..n |-> terms'[j]]) = n
  OBVIOUS
<1> QED  BY <1>1, <1>2

\* A structure is added by a hire, a change of category or the structures page, and by each of them so.
LEMMA TermsGrow ==
    ASSUME HiringInv, HiringNext, Len(terms') > Len(terms)
    PROVE  Begun
<1>1. PICK n \in Nat : Len(terms) = n /\ DOMAIN terms = 1..n /\ terms \in Seq(Term) /\ today \in Days
  BY DEF HiringInv, HiringTyped
<1>2. terms' # terms
  BY <1>1
<1>3. PICK k \in Clerks : CommitUpdate(k) \/ CommitTerms(k) \/ CommitAmend(k) \/ \E key \in Keys : CommitHire(k, key)
  <2>1. ~PostStep /\ ~NextDay
    BY <1>2 DEF PostStep, NextDay, OfferCategory, ListPosition, SetPerks
  <2>2. CASE HireStep
    <3>1. \A k \in Clerks : /\ CommitDetach(k) => terms' = terms
                            /\ \A p, c : BeginDetach(k, p, c) => terms' = terms
                            /\ \A x, p, c, r, start, end, imported :
                                  BeginHire(k, x, p, c, r, start, end, imported) => terms' = terms
      BY DEF BeginDetach, BeginHire, CommitDetach, Start
    <3> QED  BY <1>2, <2>2, <3>1 DEF HireStep
  <2>3. CASE UpdateStep
    BY <1>2, <2>3 DEF UpdateStep, BeginUpdate, Start
  <2>4. CASE TermsStep
    BY <1>2, <2>4 DEF TermsStep, BeginTerms, BeginAmend, Start
  <2> QED  BY <2>1, <2>2, <2>3, <2>4 DEF HiringNext
<1>4. PICK t : t = clerk[k]
  OBVIOUS
<1>5. CASE CommitTerms(k)
  <2>1. t.pc = "terms" /\ terms' = Append(CloseOpen(terms, t.emp, t.from),
                                          Structure(t.emp, t.freq, t.rate, t.salary, t.from, TRUE))
    BY <1>4, <1>5 DEF CommitTerms
  <2>2. t.from \in Days
    BY <1>4, <2>1, KindOf DEF HiringInv, NewTerms
  <2> QED  BY <2>1, <2>2 DEF Begun
<1>6. CASE CommitAmend(k)
  <2>1. PICK s : terms' = [terms EXCEPT ![t.cur] = s]
    BY <1>4, <1>6 DEF CommitAmend
  <2> QED  BY <1>1, <2>1, WritingAddsNone
<1>7. CASE CommitUpdate(k)
  <2>1. PICK start, end : terms' = NextTerms(t, start, end)
    BY <1>2, <1>4, <1>7 DEF CommitUpdate
  <2>2. CASE InPlace(t)
    <3>1. PICK s : terms' = [terms EXCEPT ![t.cur] = s]
      BY <2>1, <2>2 DEF NextTerms
    <3> QED  BY <1>1, <3>1, WritingAddsNone
  <2>3. CASE ~InPlace(t)
    BY <1>1, <2>1, <2>3 DEF NextTerms, Begun
  <2> QED  BY <2>2, <2>3
<1>8. ASSUME NEW key \in Keys, CommitHire(k, key) PROVE Begun
  <2>1. PICK x \in People : x = t.emp
    BY <1>4, <1>8, KindOf DEF CommitHire, HiringInv, Hire
  <2>2. staff[x] = Nobody /\ \E salary : terms' = Append(terms, Structure(x, t.cat, t.rate, salary, today, FALSE))
    BY <1>2, <1>4, <1>8, <2>1 DEF CommitHire
  <2>3. \A i \in DOMAIN terms : terms[i].emp # x
    BY <2>2 DEF HiringInv, TermsHold, PersonHolds
  <2>4. CloseOpen(terms, x, today) = terms
    <3>1. \A i \in DOMAIN terms : (IF terms[i].emp = x /\ terms[i].to = Nobody THEN [terms[i] EXCEPT !.to = today]
                                   ELSE terms[i]) = terms[i]
      BY <2>3
    <3>2. terms = [i \in DOMAIN terms |-> terms[i]]
      BY <1>1
    <3> QED  BY <3>1, <3>2 DEF CloseOpen
  <2> QED  BY <1>1, <2>2, <2>4 DEF Begun
<1> QED  BY <1>3, <1>5, <1>6, <1>7, <1>8

\* Payrolls of periods that end before the day take x's structures at the rates they had.
RatesKept(x, day) ==
    \A b \in 0..(day - 1) : \A a \in 0..b :
        {terms'[i].rate : i \in Picks(terms', x, a, b)} = {terms[i].rate : i \in Picks(terms, x, a, b)}

\* So a period that ends before that day has the candidates it had: one closed on the day still reaches it.
LEMMA EarlierKept ==
    ASSUME terms \in Seq(Term), NEW x, NEW freq, NEW rate, NEW salary, NEW page, NEW day \in Days,
           terms' = Append(CloseOpen(terms, x, day), Structure(x, freq, rate, salary, day, page))
    PROVE  /\ terms'[Len(terms')].emp = x /\ terms'[Len(terms')].from = day
           /\ RatesKept(x, day)
<1>1. PICK s : s = Structure(x, freq, rate, salary, day, page)
  OBVIOUS
<1>2. s.emp = x /\ s.from = day
  BY <1>1 DEF Structure
<1>3. PICK c : c = CloseOpen(terms, x, day)
  OBVIOUS
<1>4. PICK n \in Nat : n = Len(terms) /\ DOMAIN terms = 1..n
  OBVIOUS
<1>5. c = [i \in 1..n |-> c[i]] /\ DOMAIN c = 1..n
  BY <1>3, <1>4 DEF CloseOpen
<1>6. day \in Nat /\ day # Nobody
  BY HiringAssumption, NobodyAssumption DEF Days
<1>7. ASSUME NEW i \in 1..n
      PROVE  /\ c[i].emp = terms[i].emp /\ c[i].from = terms[i].from /\ c[i].rate = terms[i].rate
             /\ c[i].to = terms[i].to \/ (terms[i].to = Nobody /\ c[i].to = day)
  <2>1. PICK r \in Term : r = terms[i]
    BY <1>4, TermOf
  <2>2. PICK q : q = [r EXCEPT !.to = day]
    OBVIOUS
  <2>3. q.emp = r.emp /\ q.from = r.from /\ q.rate = r.rate /\ q.to = day
    BY <2>2 DEF Term
  <2>4. c[i] = IF r.emp = x /\ r.to = Nobody THEN q ELSE r
    BY <1>3, <1>4, <2>1, <2>2 DEF CloseOpen
  <2> QED  BY <2>1, <2>3, <2>4
<1>8. /\ Len(terms') = n + 1 /\ DOMAIN terms' = 1..(n + 1) /\ terms'[n + 1] = s
      /\ \A i \in 1..n : terms'[i] = c[i]
  <2>1. PICK S : \A i \in 1..n : c[i] \in S
    <3>1. \A i \in 1..n : c[i] \in {c[j] : j \in 1..n}
      OBVIOUS
    <3> QED  BY <3>1
  <2>2. PICK T : T = S \cup {s}
    OBVIOUS
  <2>3. c \in Seq(T) /\ s \in T /\ Len(c) = n
    <3>1. c \in [1..n -> T]
      BY <1>5, <2>1, <2>2
    <3> QED  BY <2>2, <3>1
  <2> QED  BY <1>1, <1>3, <1>5, <2>3
<1>9. \A i \in 1..(n + 1) : i \in 1..n \/ i = n + 1
  OBVIOUS
<1>10. ASSUME NEW b \in 0..(day - 1), NEW a \in 0..b
       PROVE  {terms'[i].rate : i \in Picks(terms', x, a, b)} = {terms[i].rate : i \in Picks(terms, x, a, b)}
  <2>1. a \in Nat /\ b \in Nat /\ a <= b /\ b < day
    BY <1>6
  <2>2. Candidates(terms', x, a, b) = Candidates(terms, x, a, b)
    <3>1. n + 1 \notin Candidates(terms', x, a, b)
      BY <1>2, <1>6, <1>8, <2>1 DEF Candidates
    <3>2. ASSUME NEW i \in 1..n PROVE i \in Candidates(terms', x, a, b) <=> i \in Candidates(terms, x, a, b)
      <4>1. i \in DOMAIN terms /\ i \in DOMAIN terms' /\ terms'[i] = c[i]
        BY <1>4, <1>8, <1>9
      <4>2. (terms'[i].to = Nobody \/ terms'[i].to >= a) <=> (terms[i].to = Nobody \/ terms[i].to >= a)
        BY <1>6, <1>7, <2>1, <4>1
      <4> QED  BY <1>7, <4>1, <4>2 DEF Candidates
    <3>3. \A i \in Candidates(terms', x, a, b) : i \in 1..n
      BY <1>8, <1>9, <3>1 DEF Candidates
    <3>4. \A i \in Candidates(terms, x, a, b) : i \in 1..n
      BY <1>4 DEF Candidates
    <3> QED  BY <3>2, <3>3, <3>4
  <2>3. \A i \in Candidates(terms, x, a, b) : terms'[i].from = terms[i].from /\ terms'[i].rate = terms[i].rate
    BY <1>4, <1>7, <1>8 DEF Candidates
  <2>4. Picks(terms', x, a, b) = Picks(terms, x, a, b)
    BY <2>2, <2>3 DEF Picks
  <2>5. \A i \in Picks(terms, x, a, b) : terms'[i].rate = terms[i].rate
    BY <2>3 DEF Picks
  <2> QED  BY <2>4, <2>5
<1>11. terms'[Len(terms')].emp = x /\ terms'[Len(terms')].from = day
  BY <1>2, <1>8
<1> QED  BY <1>10, <1>11 DEF RatesKept

\* Whatever adds a structure that begins on some day, payrolls of periods that end before
\* it take the structures they took, at the rates they had.
THEOREM PastPayrollsKept == HiringSpec => EarlierPeriodsKept
<1> DEFINE Kept == Len(terms') > Len(terms) =>
          LET new == terms'[Len(terms')] IN
          \A b \in 0..(new.from - 1) : \A a \in 0..b :
              {terms'[i].rate : i \in Picks(terms', new.emp, a, b)} =
                  {terms[i].rate : i \in Picks(terms, new.emp, a, b)}
<1>1. ASSUME HiringInv, [HiringNext]_hiringVars PROVE [Kept]_terms
  <2> SUFFICES ASSUME terms' # terms, Len(terms') > Len(terms) PROVE Kept
    OBVIOUS
  <2>1. HiringNext
    BY <1>1 DEF hiringVars
  <2>2. PICK x, freq, rate, salary, page : \E day \in Days :
           terms' = Append(CloseOpen(terms, x, day), Structure(x, freq, rate, salary, day, page))
    BY <1>1, <2>1, TermsGrow DEF Begun
  <2>3. PICK day \in Days :
           terms' = Append(CloseOpen(terms, x, day), Structure(x, freq, rate, salary, day, page))
    BY <2>2
  <2>4. terms \in Seq(Term)
    BY <1>1 DEF HiringInv, HiringTyped
  <2>5. PICK new : new = terms'[Len(terms')]
    OBVIOUS
  <2>6. new.emp = x /\ new.from = day /\ RatesKept(x, day)
    BY <2>3, <2>4, <2>5, EarlierKept
  <2> QED  BY <2>5, <2>6 DEF RatesKept
<1>2. HiringSpec => []HiringInv
  BY HiringStarts, HiringKeeps, PTL DEF HiringSpec
<1> QED  BY <1>1, <1>2, PTL DEF HiringSpec, EarlierPeriodsKept

=============================================================================
