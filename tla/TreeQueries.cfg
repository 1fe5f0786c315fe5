CONSTANTS
  V4Bits = 2
  Padding = 2
  Word = 64
  Data <- Records
  Country <- Countries
  Continent <- Continents
  US = "US"
  Unknown = "Unknown"
  None = None
  Limit = 2
  MaxLeaves = 5
SPECIFICATION Spec
INVARIANTS PrefixIsLeaf ExactBelowLimit PrintsFirst StatisticsAddUp SearchAgreesWithGet
CHECK_DEADLOCK FALSE
