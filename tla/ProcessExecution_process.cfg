CONSTANTS
  Request = {"here", "any"}
  Key <- MCKey
  Orders <- MCOrders
  Permits <- MCPermits
  MaxAttempts = 3
  MaxMissing = 2
SPECIFICATION Spec
INVARIANTS NoneForgotten PrimaryDecides AttemptsBounded
PROPERTY PermitsComeBack
CHECK_DEADLOCK FALSE
