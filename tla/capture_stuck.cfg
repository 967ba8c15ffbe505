\* One hold, no faults: leaving the tab is enough.
SPECIFICATION Spec
CONSTANTS
  Clients = {c1}
  NoClient = NoClient
  MaxHolds = 1
  Faults = {}
INVARIANT SelectionEnablesRecording
