SPECIFICATION FairSpec
CONSTANTS
  q1 = q1
  q2 = q2
  q3 = q3
  q4 = q4
  u1 = u1
  Guest = Guest
  Quotes = {q1, q2, q3, q4}
  Users = {u1}
  Prices = {"low", "high"}
  Reasons = {"caro"}
  Orders = {"o1"}
  Codes = {"A", "B", "C"}
  Stamps = {"T"}
  Term = 1
  MaxNow = 3
  InitQuotes <- MCInitQuotes
  Calls <- EveryCall
  Requests = {r1, r2}
  MaxAttempts = 2
  Serial = FALSE
  MayFail = FALSE
CHECK_DEADLOCK FALSE
INVARIANTS TypeOK AnsweredPriced UniqueReferences
PROPERTY OverdueResolved
