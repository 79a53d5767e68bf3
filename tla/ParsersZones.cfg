\* Two devices of one name are enough.
CONSTANTS
  a = a
  b = b
  g = g
  NoClock = NoClock
  NoNumber = NoNumber
  MaxPortLines = 0
  Error = Error
  NoName = NoName
  Thrown = Thrown
  Keys <- ProcKeys
  Digits = {"1", "2", "3"}
  Blank = Blank
  NL = NL
  Capacity = 8
  NoStats = NoStats
SPECIFICATION ParsersSpec
INVARIANT EveryMatchingZone
CHECK_DEADLOCK FALSE
