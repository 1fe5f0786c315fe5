CONSTANTS
  Digit = {0, 2, 5, 6}
  Dot = Dot
  Other = Other
  Last = 2
SPECIFICATION Spec
INVARIANTS TypeOK AcceptsExactly
CHECK_DEADLOCK FALSE
