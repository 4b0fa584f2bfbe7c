SPECIFICATION FairPaymentsSpec
CONSTANTS
  o1 = o1
  o2 = o2
  v1 = v1
  u1 = u1
  r1 = r1
  Guest = Guest
  Orders = {o1}
  Variants = {v1}
  Users = {u1}
  Owner <- MCOwner
  Qty <- MCQty
  InitStock <- MCStock
  Urls = {"file1"}
  Methods = {"sinpe", "onvopay"}
  Reasons = {"gateway", "sinpe"}
  Calls <- MCCalls
  PeopleCalls <- MCPeopleCalls
  Attempts = {a1}
  Kinds = {"failed", "captured", "capturedNoId"}
  Copies <- MCCopies
  People = {r1}
  Requests <- MCRequests
  Serial = FALSE
  MayAbort = FALSE
CHECK_DEADLOCK FALSE
INVARIANT PaymentsTypeOK
PROPERTIES PaidByCapture CapturePays CaptureVerifies CancelCompletes
