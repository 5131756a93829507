\* One address that is the administrator's too, two login states, two codes,
\* windows of two and a latency that lets calls overtake each other across them.
\* Deadlock is not an error: the model ends at the bound of its clock.
SPECIFICATION Spec
CONSTANTS
  Emails = {e1}
  AdminEmail = e1
  States = {s1, s2}
  Ips = {i1}
  MaxCodes = 2
  None = None
  MaxAttempts = 2
  CodeLife = 2
  TicketLife = 2
  Minute = 1
  Hour = 2
  EmailPerHour = 1
  IpPerHour = 2
  Latency = 1
  Horizon = 2
SYMMETRY Symmetry
INVARIANTS
  TypeOK
  UsedOnce
  MailsPerHour
  SessionIsOwn
PROPERTY SupersededIsDead
CHECK_DEADLOCK FALSE
