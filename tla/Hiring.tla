------------------------------- MODULE Hiring -------------------------------
(***************************************************************************)
(* Positions with the employment categories and benefits they offer, the   *)
(* employees hired into them, and the payment structures that say what     *)
(* they earn from which day on (positions.service.ts, employees.service.ts *)
(* and the structures of payment-structures.service.ts).                   *)
(*                                                                         *)
(* A request that reads before its transaction, or whose transaction keeps *)
(* the snapshot of its first read, is two steps of a clerk.  An employment *)
(* category is named by its payroll frequency.  Fields marked ghost are    *)
(* history for the properties only.                                        *)
(***************************************************************************)
EXTENDS Integers, Sequences, FiniteSets

CONSTANTS
    Posts, People, Keys,  \* positions, employees, values of a unique column
    Wages,                \* daily rates that are entered
    LastDay,              \* the days are 0..LastDay
    Perks,                \* allowance templates and deduction types
    Nobody,               \* null
    Clerks,               \* requests in flight
    MaxAsked              \* bound on the requests

ASSUME HiringAssumption == Wages \subseteq Nat \ {0} /\ LastDay \in Nat /\ MaxAsked \in Nat

VARIABLES
    today,
    posts,   \* positions: listed or archived, default rate of each category offered, perks
    staff,   \* employees, or Nobody
    terms,   \* payment_structures, in order of creation
    clerk,   \* requests in flight
    asked,   \* requests so far
    crossed  \* ghost: pairs of position and category being detached while they were assigned

hiringVars == <<today, posts, staff, terms, clerk, asked, crossed>>

Categories == {"MONTHLY", "DAILY", "CUSTOM"}
Days == 0..LastDay
MonthDays == 22
FallbackRate == 3        \* '3000' a day, or '150000' a month, where nothing is configured

Position == [listed: BOOLEAN, offers: [Categories -> Wages \cup {Nobody}], perks: SUBSET Perks]
Employee == [key: Keys, post: Posts \cup {Nobody}, cat: Categories \cup {Nobody}, start: {0, Nobody},
             end: Days \cup {Nobody}, perks: SUBSET Perks, mixed: BOOLEAN]
Term == [emp: People, freq: Categories, rate: Nat, salary: Nat, from: Days, to: Days \cup {Nobody}, page: BOOLEAN]

ASSUME NobodyAssumption ==
    Nobody \notin Nat /\ Nobody \notin Posts /\ Nobody \notin Categories /\ Nobody \notin Employee /\ Nobody \notin Term

CIdle == [pc |-> "idle"]
Given(v, old) == IF v = Nobody THEN old ELSE v

HiringInit ==
    /\ today = 0
    /\ posts = [p \in Posts |-> [listed |-> TRUE, offers |-> [c \in Categories |-> Nobody], perks |-> {}]]
    /\ staff = [x \in People |-> Nobody]
    /\ terms = <<>>
    /\ clerk = [k \in Clerks |-> CIdle]
    /\ asked = 0
    /\ crossed = {}

Start(k, task) ==
    /\ clerk[k].pc = "idle" /\ asked < MaxAsked
    /\ clerk' = [clerk EXCEPT ![k] = task]
    /\ asked' = asked + 1
    /\ UNCHANGED <<today, posts, staff, terms>>

Finish(k) == clerk' = [clerk EXCEPT ![k] = CIdle] /\ UNCHANGED asked

(***************************************************************************)
(* Positions                                                               *)
(***************************************************************************)
Assigning(k, p, c) ==
    clerk[k].pc \in {"hire", "update"} /\ clerk[k].post = p /\ clerk[k].cat = c
Detaching(k, p, c) == clerk[k].pc = "detach" /\ clerk[k].post = p /\ clerk[k].cat = c

\* attachEmploymentCategory and updateEmploymentCategory: a default rate, or none.
OfferCategory(p, c, rate) ==
    /\ posts' = [posts EXCEPT ![p].offers[c] = rate]
    /\ UNCHANGED <<today, staff, terms, clerk, crossed>>

\* archivePosition, reactivatePosition; nothing else looks at the status.
ListPosition(p) ==
    /\ posts' = [posts EXCEPT ![p].listed = ~@]
    /\ UNCHANGED <<today, staff, terms, clerk, crossed>>

\* Allowance templates and deduction types of the position.
SetPerks(p, perks) ==
    /\ posts' = [posts EXCEPT ![p].perks = perks]
    /\ UNCHANGED <<today, staff, terms, clerk, crossed>>

InUse(p, c) == \E x \in People : staff[x] # Nobody /\ staff[x].post = p /\ staff[x].cat = c

\* detachEmploymentCategory counts the employees, and then deletes.
BeginDetach(k, p, c) ==
    /\ posts[p].offers[c] # Nobody /\ ~InUse(p, c)
    /\ Start(k, [pc |-> "detach", post |-> p, cat |-> c])
    /\ crossed' = IF \E j \in Clerks : Assigning(j, p, c) THEN crossed \cup {<<p, c>>} ELSE crossed

CommitDetach(k) ==
    /\ clerk[k].pc = "detach"
    /\ posts' = [posts EXCEPT ![clerk[k].post].offers[clerk[k].cat] = Nobody]
    /\ Finish(k)
    /\ UNCHANGED <<today, staff, terms, crossed>>

(***************************************************************************)
(* What somebody earns                                                     *)
(***************************************************************************)
Open(x) == {i \in DOMAIN terms : terms[i].emp = x /\ terms[i].to = Nobody}

ContractDays(start, end) == end - start + 1

\* basic_salary: the month's salary, the value of the whole contract when its dates are
\* known (resolveCustomBasicSalary), nothing for daily pay.
BasicSalary(freq, rate, start, end, fallback) ==
    CASE freq = "MONTHLY" -> MonthDays * rate
      [] freq = "CUSTOM" -> IF start # Nobody /\ end # Nobody THEN rate * ContractDays(start, end) ELSE fallback
      [] OTHER -> 0

\* The structure a payroll of the days a..b takes: any of those that began last.
Candidates(ts, x, a, b) ==
    {i \in DOMAIN ts : ts[i].emp = x /\ ts[i].from <= b /\ (ts[i].to = Nobody \/ ts[i].to >= a)}
Picks(ts, x, a, b) ==
    {i \in Candidates(ts, x, a, b) : \A j \in Candidates(ts, x, a, b) : ts[j].from <= ts[i].from}

CloseOpen_Start(ts, x, day) ==  \* mutant
    [i \in DOMAIN ts |-> IF ts[i].emp = x /\ ts[i].to = Nobody THEN [ts[i] EXCEPT !.to = ts[i].from] ELSE ts[i]]
\* updateMany: every structure of the employee that is open ends on the day.
CloseOpen(ts, x, day) ==
    [i \in DOMAIN ts |-> IF ts[i].emp = x /\ ts[i].to = Nobody THEN [ts[i] EXCEPT !.to = day] ELSE ts[i]]

Structure(x, freq, rate, salary, from, page) ==
    [emp |-> x, freq |-> freq, rate |-> rate, salary |-> salary, from |-> from, to |-> Nobody, page |-> page]

(***************************************************************************)
(* Employees                                                               *)
(***************************************************************************)
\* create and each row of bulkImport: the contract must end after it starts, and position
\* and category come together and must be offered.  Archived positions are not refused.
ContractValid(start, end) == start # Nobody /\ end # Nobody => end > start
Offered(p, c) == p # Nobody /\ c # Nobody /\ posts[p].offers[c] # Nobody

BeginHire(k, x, p, c, rate, start, end, imported) ==
    /\ staff[x] = Nobody
    /\ ContractValid(start, end)
    /\ (p = Nobody /\ c = Nobody) \/ Offered(p, c)
    /\ Start(k, [pc |-> "hire", emp |-> x, post |-> p, cat |-> c, rate |-> rate,
                 start |-> start, end |-> end, imported |-> imported])
    /\ crossed' = IF \E j \in Clerks : Detaching(j, p, c) THEN crossed \cup {<<p, c>>} ELSE crossed

\* The benefits come from the position's templates, for one employee, not for an import.
Inherited(t) == IF t.post = Nobody \/ t.imported THEN {} ELSE posts[t.post].perks

Taken(key) == \E y \in People : staff[y] # Nobody /\ staff[y].key = key

\* A value of a unique column that is taken refuses the request, in the transaction.
CommitHire(k, key) ==
    LET t == clerk[k] IN
    /\ t.pc = "hire"
    /\ IF staff[t.emp] # Nobody \/ Taken(key)
       THEN UNCHANGED <<staff, terms>>
       ELSE /\ staff' = [staff EXCEPT ![t.emp] =
                   [key |-> key, post |-> t.post, cat |-> t.cat, start |-> t.start, end |-> t.end,
                    perks |-> Inherited(t), mixed |-> FALSE]]
            /\ terms' = IF t.post = Nobody \/ t.rate = Nobody THEN terms
                        ELSE Append(terms, Structure(t.emp, t.cat, t.rate,
                                     BasicSalary(t.cat, t.rate, t.start, t.end, 0), today, FALSE))
    /\ Finish(k)
    /\ UNCHANGED <<today, posts, crossed>>

\* update reads the employee, and in its transaction the offer and the open structure; end
\* is the only contract date changed here (Contracts has the rest).
BeginUpdate(k, x, p, c, rate, end) ==
    LET e == staff[x]
        post == Given(p, e.post)
        cat == Given(c, e.cat)
    IN
    /\ e # Nobody
    /\ ContractValid(e.start, Given(end, e.end))
    /\ p \notin {Nobody, e.post} => c # Nobody
    /\ p # Nobody \/ c # Nobody \/ rate # Nobody \/ end # Nobody
    /\ (post # Nobody /\ cat # Nobody) => Offered(post, cat)
    /\ \E cur \in IF Open(x) = {} THEN {Nobody} ELSE Open(x) :
          Start(k, [pc |-> "update", emp |-> x, post |-> post, cat |-> cat, p |-> p, c |-> c, rate |-> rate,
                    end |-> end, cur |-> cur, read |-> IF cur = Nobody THEN Nobody ELSE terms[cur],
                    default |-> IF post = Nobody \/ cat = Nobody THEN Nobody ELSE posts[post].offers[cat]])
    /\ crossed' = IF \E j \in Clerks : Detaching(j, post, cat) THEN crossed \cup {<<post, cat>>} ELSE crossed

\* Daily rate: the one given, the one of the open structure, the position's, 3000.  A monthly
\* salary likewise; a daily structure has none to go by.
NextRate(t) ==
    CASE t.rate # Nobody -> t.rate
      [] t.rate = Nobody /\ t.read # Nobody /\ (t.cat = "MONTHLY" => t.read.salary # 0) ->
             IF t.cat = "MONTHLY" THEN t.read.salary \div MonthDays ELSE t.read.rate
      [] OTHER -> Given(t.default, FallbackRate)

\* Same frequency: the open structure is overwritten; otherwise it is closed today and a
\* new one begins today.
InPlace(t) == t.read # Nobody /\ t.read.freq = t.cat

NextTerms_RateOnly(t, start, end) ==  \* mutant
    IF t.rate = Nobody \/ ~InPlace(t) THEN terms ELSE [terms EXCEPT ![t.cur].rate = t.rate]
NextTerms(t, start, end) ==
    LET rate == NextRate(t)
        salary == BasicSalary(t.cat, rate, start, end, IF t.read = Nobody THEN 0 ELSE t.read.salary)
    IN
    IF InPlace(t)
    THEN [terms EXCEPT ![t.cur].freq = t.cat, ![t.cur].rate = rate, ![t.cur].salary = salary]
    ELSE Append(CloseOpen(terms, t.emp, today), Structure(t.emp, t.cat, rate, salary, today, FALSE))

\* ghost: the employee was changed by another request since this one read it.
Mixed(k) == \E j \in Clerks \ {k} : clerk[j].pc \in {"update", "terms", "amend"} /\ clerk[j].emp = clerk[k].emp

CommitUpdate(k) ==
    LET t == clerk[k]
        end == Given(t.end, staff[t.emp].end)
    IN
    /\ t.pc = "update"
    /\ staff' = [staff EXCEPT ![t.emp].post = Given(t.p, @), ![t.emp].cat = Given(t.c, @), ![t.emp].end = end,
                              ![t.emp].mixed = @ \/ Mixed(k)]
    /\ terms' = IF t.post = Nobody \/ t.cat = Nobody THEN terms
                ELSE NextTerms(t, staff[t.emp].start, end)
    /\ Finish(k)
    /\ UNCHANGED <<today, posts, crossed>>

(***************************************************************************)
(* The payment-structures page                                             *)
(***************************************************************************)
\* create: no closed period may contain the day, no open one begin after it.
Overlapping(x, from) ==
    \E i \in DOMAIN terms :
        /\ terms[i].emp = x
        /\ IF terms[i].to = Nobody THEN terms[i].from > from
           ELSE terms[i].from <= from /\ terms[i].to >= from

BeginTerms(k, x, freq, rate, from) ==
    /\ staff[x] # Nobody /\ ~Overlapping(x, from)
    /\ Start(k, [pc |-> "terms", emp |-> x, freq |-> freq, rate |-> rate, from |-> from,
                 salary |-> BasicSalary(freq, rate, staff[x].start, staff[x].end, 0)])
    /\ UNCHANGED crossed

CommitTerms(k) ==
    LET t == clerk[k] IN
    /\ t.pc = "terms"
    /\ terms' = Append(CloseOpen(terms, t.emp, t.from), Structure(t.emp, t.freq, t.rate, t.salary, t.from, TRUE))
    /\ staff' = [staff EXCEPT ![t.emp].mixed = @ \/ Mixed(k)]
    /\ Finish(k)
    /\ UNCHANGED <<today, posts, crossed>>

\* update overwrites any structure, frequency and end included.
BeginAmend(k, i, freq, rate, to) ==
    LET s == terms[i]
        e == staff[s.emp]
        f == Given(freq, s.freq)
        r == Given(rate, IF f = "MONTHLY" THEN s.salary \div MonthDays ELSE s.rate)
    IN
    /\ i \in DOMAIN terms
    /\ freq # Nobody \/ rate # Nobody \/ to # Nobody
    /\ Start(k, [pc |-> "amend", emp |-> s.emp, cur |-> i, freq |-> f, to |-> to, rate |-> r,
                 salary |-> IF f = "DAILY" THEN s.salary ELSE BasicSalary(f, r, e.start, e.end, s.salary)])
    /\ UNCHANGED crossed

CommitAmend(k) ==
    LET t == clerk[k] IN
    /\ t.pc = "amend"
    /\ terms' = [terms EXCEPT ![t.cur].freq = t.freq, ![t.cur].rate = t.rate, ![t.cur].salary = t.salary,
                              ![t.cur].to = Given(t.to, @), ![t.cur].page = TRUE]
    /\ staff' = [staff EXCEPT ![t.emp].mixed = @ \/ Mixed(k)]
    /\ Finish(k)
    /\ UNCHANGED <<today, posts, crossed>>

NextDay ==
    /\ today < LastDay
    /\ today' = today + 1
    /\ UNCHANGED <<posts, staff, terms, clerk, asked, crossed>>

PostStep ==
    /\ asked < MaxAsked /\ asked' = asked + 1
    /\ \E p \in Posts :
          \/ \E c \in Categories, r \in Wages : OfferCategory(p, c, r)
          \/ ListPosition(p)
          \/ \E perks \in SUBSET Perks : SetPerks(p, perks)

HireStep ==
    \/ \E k \in Clerks :
          \/ \E p \in Posts, c \in Categories : BeginDetach(k, p, c)
          \/ \E x \in People, p \in Posts \cup {Nobody}, c \in Categories \cup {Nobody},
                r \in Wages \cup {Nobody}, end \in Days \cup {Nobody}, imported \in BOOLEAN :
                   BeginHire(k, x, p, c, r, IF end = Nobody THEN Nobody ELSE 0, end, imported)
          \/ CommitDetach(k)
          \/ \E key \in Keys : CommitHire(k, key)

\* One request changes the post, the category and the rate, or prolongs the contract.
UpdateStep ==
    \E k \in Clerks :
          \/ \E x \in People :
                \/ \E p \in Posts \cup {Nobody}, c \in Categories \cup {Nobody}, r \in Wages \cup {Nobody} :
                      BeginUpdate(k, x, p, c, r, Nobody)
                \/ \E end \in Days : BeginUpdate(k, x, Nobody, Nobody, Nobody, end)
          \/ CommitUpdate(k)

\* One request amends one thing.
TermsStep ==
    \E k \in Clerks :
          \/ \E x \in People, f \in Categories, r \in Wages, from \in Days : BeginTerms(k, x, f, r, from)
          \/ \E i \in DOMAIN terms :
                \/ \E f \in Categories : BeginAmend(k, i, f, Nobody, Nobody)
                \/ \E r \in Wages : BeginAmend(k, i, Nobody, r, Nobody)
                \/ \E to \in Days : BeginAmend(k, i, Nobody, Nobody, to)
          \/ CommitTerms(k) \/ CommitAmend(k)

HiringNext == PostStep \/ HireStep \/ UpdateStep \/ TermsStep \/ NextDay
HiringSpec == HiringInit /\ [][HiringNext]_hiringVars

(***************************************************************************)
(* Properties                                                              *)
(***************************************************************************)
\* Every variable stays in its range; two employees never share a unique column's value.
HiringTypeOK ==
    /\ today \in Days /\ asked \in 0..MaxAsked
    /\ posts \in [Posts -> Position]
    /\ staff \in [People -> Employee \cup {Nobody}]
    /\ terms \in Seq(Term)
    /\ \A x, y \in People :
          x # y /\ staff[x] # Nobody /\ staff[y] # Nobody => staff[x].key # staff[y].key

\* Nobody works in a category the position does not offer, whatever hires, imports, changes
\* of post and detachments there were.  The exceptions are pairs that were being detached
\* while somebody was being assigned them, and employees whose updates crossed: a change of
\* category checked against one post and a move to another both go through.
CategoryIsOffered ==
    \A x \in People :
        (staff[x] # Nobody /\ staff[x].post # Nobody /\ staff[x].cat # Nobody /\ ~staff[x].mixed
         /\ <<staff[x].post, staff[x].cat>> \notin crossed)
            => posts[staff[x].post].offers[staff[x].cat] # Nobody

\* An employee has at most one structure without an end, however requests of the employees
\* page and of the structures page interleave: payroll takes the newest and forgets others.
OneOpenStructure == \A x \in People : Cardinality(Open(x)) <= 1

\* An employee with a position is paid on the basis of the employment category: the open
\* structure has its frequency, also after the category changed and changed back.  A
\* structure set on the structures page, or requests that crossed, may differ.
PaidByCategory ==
    \A x \in People : \A i \in Open(x) :
        (staff[x].post # Nobody /\ staff[x].cat # Nobody /\ ~terms[i].page /\ ~staff[x].mixed)
            => terms[i].freq = staff[x].cat

\* The salary on file of a fixed-term employee is the value of the contract as it stands,
\* also after the contract was prolonged or the rate changed.
ContractValueOnFile ==
    \A x \in People : \A i \in Open(x) :
        LET e == staff[x] IN
        (terms[i].freq = "CUSTOM" /\ e.post # Nobody /\ e.cat # Nobody /\ e.start # Nobody /\ e.end # Nobody
         /\ ~e.mixed /\ ~terms[i].page)
            => terms[i].salary = terms[i].rate * ContractDays(e.start, e.end)

\* A structure that begins on some day changes nothing about the payrolls of periods that
\* end before it: they take the structures they took, at the rates they had.
EarlierPeriodsKept ==
    [][ Len(terms') > Len(terms) =>
          LET new == terms'[Len(terms')] IN
          \A b \in 0..(new.from - 1) : \A a \in 0..b :
              {terms'[i].rate : i \in Picks(terms', new.emp, a, b)} =
                  {terms[i].rate : i \in Picks(terms, new.emp, a, b)} ]_terms

\* The terms of employment fit together however hires, changes and new
\* structures interleave: an offered category, one open structure, of that
\* category's frequency, and for a fixed term worth the contract as it stands.
HiringSound ==
    HiringTypeOK /\ CategoryIsOffered /\ OneOpenStructure /\ PaidByCategory /\ ContractValueOnFile

=============================================================================
