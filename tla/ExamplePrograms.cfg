CONSTANT Networks = 3
SPECIFICATION FairSpec
INVARIANTS NothingLeftMapped ReportsAreTrue ExpectedErrorsAreHandled
PROPERTY Terminates
CHECK_DEADLOCK FALSE
