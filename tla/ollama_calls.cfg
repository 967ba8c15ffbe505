\* One extraction and one generation at a time, on the deployed factor of 2.
SPECIFICATION FairCallsSpec
CONSTANTS
  Callers = {extraction, worker}
  Extractors = {extraction}
  Audited = {worker}
  MaxCalls = 2
  MaxRetries = 2
  BackoffFactor = 2
INVARIANTS
  CallsTypeOK
  WaitsAreExponential
  AuditsAgreeWithCounters
  SuccessNeedsUsableAnswer
PROPERTY EveryRunEnds
\* With the calls at their bound the system is idle.
CHECK_DEADLOCK FALSE
