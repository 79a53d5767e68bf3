\* One empty line is enough.
CONSTANTS
  MaxLines = 2
  MaxClock = 0
SPECIFICATION Spec
PROPERTY ImplementsICollector
