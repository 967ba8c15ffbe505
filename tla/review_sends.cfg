\* Two clients with a draft each, two detail screens, one mail, every fault.
SPECIFICATION FairSpec
CONSTANTS
  Clients = {c1, c2}
  MaxDrafts = 2
  MaxScreens = 2
  MaxLaunches = 1
  MaxMails = 1
  Faults = {"network", "mail"}
INVARIANTS TypeOK NoMailCountsTwice OneSendAtATime
PROPERTY MailedSendEnds
\* When every screen has been used, the inbox may be gone.
CHECK_DEADLOCK FALSE
