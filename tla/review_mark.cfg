\* Two drafts on two screens, and nothing fails.
SPECIFICATION Spec
CONSTANTS
  Clients = {c1, c2}
  MaxDrafts = 2
  MaxScreens = 2
  MaxLaunches = 1
  MaxMails = 1
  Faults = {}
INVARIANT SentMeansMailed
CHECK_DEADLOCK FALSE
