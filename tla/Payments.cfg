SPECIFICATION Spec
CONSTANTS
  o1 = o1
  o2 = o2
  Orders = {o1,o2}
  Handlers = {1, 2}
  Sweeps = {1,2}
  None = None
  MaxAttempts = 2
  MaxBusy = 3
INVARIANTS
  DeliveredIsPaidUnlessShared
  DebtTracked
  RefundedOnce
PROPERTIES
  EveryPaymentEnds

CHECK_DEADLOCK FALSE
