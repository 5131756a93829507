\* Entitlements, credits and payments of one user, with one code to redeem.
\* Deadlock is not an error: the model ends at the bound of its clock.
SPECIFICATION Spec
CONSTANTS
  Users = {u1}
  Codes = {c1}
  RequestIds = {r1, r2}
  Orders = {o1, o2}
  Events = {e1, e2}
  Transactions = {t1, t2}
  Calls = {k1}
  None = None
  PassDays = 1
  RedeemDays = 2
  Minute = 1
  Credits = 1
  QuotaAdds = {1}
  Revokes = TRUE
  Latency = 1
  Horizon = 2
  MaxExpires = 3
  MaxLimit = 2
SYMMETRY Symmetry
INVARIANTS
  TypeOK
  CreditsCovered
  SettledOnce
PROPERTIES
  ExpiryOnlyGrows
  RefinesCreditLedger
CHECK_DEADLOCK FALSE
