CONSTANTS
  Parts = {p, q}
  MaxEdits = 1
SPECIFICATION Spec
INVARIANTS TypeOK NeverTruncated SourceKept
PROPERTY FileOpSpec
CHECK_DEADLOCK FALSE
