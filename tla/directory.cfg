SPECIFICATION Spec
CONSTANTS
  AdvisorIds = {a1}
  ClientIds = {c1, c2}
  InteractionIds = {i1}
  Emails = {e1}
  Names = {n1, n2}
  Dates = {d1}
  Unset = Unset
  Requests = {r1, r2}
  Faults = {"db"}
SYMMETRY Symmetry
INVARIANTS
  TypeOK
  RowsReferToParents
  NamesClashOnlyByRaceOrRename
  ErrorsNeedAnotherWriter
  PatchTookEffect
PROPERTIES
  ReviewDateStays
CHECK_DEADLOCK FALSE
