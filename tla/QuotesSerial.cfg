SPECIFICATION Spec
CONSTANTS
  q1 = q1
  q2 = q2
  q3 = q3
  q4 = q4
  u1 = u1
  Guest = Guest
  Quotes = {q1, q2, q3, q4}
  Users = {u1}
  Prices = {"low", "high"}
  Reasons = {"caro"}
  Orders = {"o1"}
  Codes = {"A", "B", "C"}
  Stamps = {"T"}
  Term = 1
  MaxNow = 2
  InitQuotes <- MCInitQuotes
  Calls <- EveryCall
  Requests = {r1, r2, r3}
  MaxAttempts = 2
  Serial = TRUE
  MayFail = TRUE
CHECK_DEADLOCK FALSE
SYMMETRY Symmetry
PROPERTY ImplementsLifecycle
