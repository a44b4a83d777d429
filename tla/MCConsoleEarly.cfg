SPECIFICATION ConsoleSpec
CONSTANTS
  Buffer = 1
  MaxFlight = 2
INVARIANTS EnabledMenuAppears
CHECK_DEADLOCK FALSE
