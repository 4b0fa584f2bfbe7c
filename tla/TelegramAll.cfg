SPECIFICATION MCSpec
CONSTANTS
  o1 = o1
  v1 = v1
  u1 = u1
  Guest = Guest
  Orders = {o1}
  Variants = {v1}
  Users = {u1}
  Owner <- MCOwner
  Qty <- MCQty
  InitStock <- MCStock
  Urls = {"file1"}
  Methods = {"sinpe"}
  Reasons = {"admin"}
  Calls <- MCCalls
  RouteCalls <- MCRouteCalls
  Requests = {1, 2, 3}
  Presses = {1, 2}
  Serial = FALSE
  MayAbort = FALSE
CHECK_DEADLOCK FALSE
PROPERTIES PressActsOnce ButtonMovesShown
