\* The imports of web pages by themselves, without a crash of the desktop.
\* Deadlock is not an error: identifiers and starts are bounded.
CONSTANTS
  Ops = {v1, v2}
  MaxBoots = 2
  MaxCrashes = 0
  None = None
SPECIFICATION Spec
INVARIANT ReceiptsRevalidate
CHECK_DEADLOCK FALSE
