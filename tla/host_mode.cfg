SPECIFICATION FairSpec
CONSTANTS
  c1 = c1
  c2 = c2
  c3 = c3
  a1 = a1
  a2 = a2
  Clients <- MCClients
  Advisors = {a1, a2}
  AdvisorOf <- MCAdvisorOf
  Window = 0
  MaxDay = 1
  NoDate = NoDate
  Runs = {job}
  Job = job
  Faults = {"db", "crash"}
  MaxMessages = 1
INVARIANTS
  TypeOK
  OnlyOwnClientsSkipAdvisor
  NothingLostWhileUp
PROPERTIES
  SuccessCoversDueClients
  QueuedIsHandled
  ImplementsMessageQueue
CHECK_DEADLOCK FALSE
