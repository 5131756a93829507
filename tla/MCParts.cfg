\* Several components, each by itself.
\* Deadlock is not an error: the components end at the bounds of their counters.
SPECIFICATION Spec
CONSTANTS
  None = None
  Slots = {v1, v2}
  MaxChanges = 2
  Roots = {r1, r2}
  First = r1
  Files = {v1, v2}
  MaxWrites = 1
  MaxGeneration = 1
  Tasks = {v1, v2}
  MaxChecks = 3
  MaxDownloads = 2
  MaxEvents = 1
  Languages = {zh, en}
  Fallback = en
  MaxChoices = 3
  AsrModels = {v1, v2}
  MaxReads = 2
  Notes = {v1, v2}
  OpenCollections = {c1}
  MaxVisits = 3
  Collections = {c1, c2}
  MaxShelf = 2
  MaxIntents = 2
  MaxSaves = 2
  Profiles = {v1, v2}
  MaxCalls = 2
  MaxEdits = 1
  MaxWire = 2
  MaxDeeds = 2
  Users = {u1, u2}
  Codes = {v1, v2}
  Orders = {o1}
  Events = {e1, e2}
  Transactions = {x1, x2}
  Requests = {q1}
  Credits = 1
  PassDays = 1
  MaxDays = 1
  MaxAccountCalls = 3
  Emails = {v1, v2}
  Logins = {l1}
  EmailPerHour = 2
  PlacePerHour = 3
  MaxGuesses = 2
  CodeLength = 2
  TicketLength = 1
  MinuteLength = 1
  HourLength = 2
  MaxMinutes = 2
  MaxAuthCalls = 4
  Ops = {v1, v2}
  MaxBoots = 2
  MaxCrashes = 1
  ApiKeys = {g1}
  Secrets = {z1}
  MaxForms = 2
  Checkouts = {h1}
  MaxCredits = 1
  MaxStarts = 2
  Tabs = {v1, v2}
  MaxPosts = 2
  MaxLogins = 2
  MaxServing = 2
INVARIANTS
  TypeOK
  NothingLost
  NothingStuck
  AllOrNothing
  UpdatesAndMoves
  NoStaleView
  Acceptable
PROPERTIES
  NothingOlder
SYMMETRY Symmetry
CHECK_DEADLOCK FALSE
