CONSTANTS
  Half = 4
  Text = {s1, s2}
  Path <- Paths
  Walk <- Walks
SPECIFICATION ParseSpec
INVARIANTS HitIsParse IndexIsSubscript
CHECK_DEADLOCK FALSE
