\* A worker process stops in the middle of a message.
SPECIFICATION FairSpec
CONSTANTS
  Clients = {c1}
  Workers = {w1}
  Publishers = {p1}
  Unsteady = {w1}
  Faults = {"halt"}
  MaxMessages = 2
PROPERTY AtLeastOnceDelivery
CHECK_DEADLOCK FALSE
