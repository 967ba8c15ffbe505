\* Two clients, whom a repeated scheduler run may give a second message, and all
\* faults, but worker w1's process and its reads from Redis hold.
SPECIFICATION FairSpec
CONSTANTS
  Clients = {c1, c2}
  Workers = {w1, w2}
  Publishers = {p1}
  Unsteady = {w2}
  Faults = {"halt", "redis", "db", "llm"}
  MaxMessages = 2
INVARIANTS
  TypeOK
  ExclusiveHandling
  AckedIsServed
  OneDraftPerMessage
  OnePendingDraft
  RowsReferToClients
  FailureLeavesTrace
PROPERTIES
  EveryMessageConcludes
  ImplementsReviewInbox
  ImplementsMessageQueue
\* With the stream at its bound and the clients removed the system is idle.
CHECK_DEADLOCK FALSE
