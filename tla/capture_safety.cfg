\* Three holds for two clients, with every fault and the other tab.
SPECIFICATION Spec
CONSTANTS
  Clients = {c1, c2}
  NoClient = NoClient
  MaxHolds = 3
  Faults = {"microphone", "network"}
SYMMETRY Symmetry
INVARIANTS TypeOK HoldIsFiledRight RecordingStoredOnce ButtonShowsUpload
