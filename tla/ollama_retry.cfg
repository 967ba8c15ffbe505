\* One caller, one retry: an attempt fails, the next one is answered.
SPECIFICATION Spec
CONSTANTS
  Callers = {k1}
  MaxRetries = 1
  BackoffFactor = 2
INVARIANT RaisesOnlyUnanswered
