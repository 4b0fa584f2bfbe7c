SPECIFICATION Spec
CONSTANTS
  o1 = o1
  o2 = o2
  v1 = v1
  v2 = v2
  u1 = u1
  Guest = Guest
  Orders = {o1}
  Variants = {v1, v2}
  Users = {u1}
  Owner <- MCOwner
  Qty <- MCQty
  InitStock <- MCStock
  Urls = {"file1", "file2"}
  Methods = {"sinpe", "onvopay", "other"}
  Reasons = {"admin", "sinpe"}
  Calls <- CancelCalls
  Requests = {r1, r2}
  Serial = FALSE
  MayAbort = FALSE
CHECK_DEADLOCK FALSE
PROPERTY NoReturnOnceCancelled
