SPECIFICATION Spec
CONSTANTS
  Employees = {e1, e2}
  LastDate = 2
  Hours = {0, 1}
  Absence = absence
  Rows <- SomeRows
  Writers = {w1, w2}
  MaxEdits = 2
  Posts = {p1}
  People = {x1, x2}
  Keys = {k1, k2}
  Wages = {2}
  LastDay = 2
  Perks = {perk}
  Nobody = nobody
  Clerks = {c1, c2}
  MaxAsked = 3
  Workers = {a1}
  Names = {"pit", "levy"}
  Percents = {10, 20}
  LastMonth = 2
  Never = never
  MaxRequests = 3
  Entered <- SomeEntered
  Slips <- SomeSlips
  Grosses <- SomeGrosses
  MaxPresent = 27
  NoValue = noValue
  Monthly = {e1}
  Contracted = {}
  Amounts = {1, 2}
  Batches = {b1, b2}
  MRequests = {m1, m2}
  Requests = {r1}
  MaxJoins = 2
  Serial = FALSE
SYMMETRY InTurn
CHECK_DEADLOCK FALSE
INVARIANT ReuploadSendsNothing
