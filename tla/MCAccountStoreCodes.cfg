\* Self-service and administrator codes of two users, with two requests at once.
\* Deadlock is not an error: the model ends at the bound of its clock.
SPECIFICATION Spec
CONSTANTS
  Users = {u1, u2}
  Codes = {c1, c2, c3}
  RequestIds = {}
  Orders = {}
  Events = {}
  Transactions = {}
  Calls = {k1, k2}
  None = None
  PassDays = 1
  RedeemDays = 2
  Minute = 1
  Credits = 1
  QuotaAdds = {}
  Revokes = FALSE
  Latency = 1
  Horizon = 3
  MaxExpires = 4
  MaxLimit = 2
SYMMETRY Symmetry
INVARIANTS
  OneActiveCode
  PendingIsNewest
  NoSpareCode
  RedeemedWasMailed
CHECK_DEADLOCK FALSE
