\* Two uploads of known and unknown types, two requests at a time, a repeated
\* notification or a /process call, all faults.
SPECIFICATION FairSpec
CONSTANTS
  Clients = {c1}
  Ids = {i1, i2}
  Exts = {"audio", "other"}
  Requests = {r1, r2}
  MaxExtra = 1
  Faults = {"notify", "storage", "whisper", "llm", "db", "crash"}
INVARIANTS
  TypeOK
  ExtractsOwnRow
  NoRowWithoutCall
  NoStrayFile
PROPERTY EveryUploadIsIngested
\* When every recording is handled and the client is gone, all is quiet.
CHECK_DEADLOCK FALSE
