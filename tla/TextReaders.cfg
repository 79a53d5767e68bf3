\* Every output of up to four PORT_DATA_SET lines (two ports with a state) and
\* up to two lines of the others; every line of the programs, whole and with
\* one damage; up to three hwmon devices; three /proc lines around the end of
\* an eight-cell buffer; every set of failing calls of the resolver.
\* Two ports and two masters, up to four changes of ptp4l.
CONSTANTS
  a = a
  b = b
  g = g
  NoClock = NoClock
  NoNumber = NoNumber
  MaxPortLines = 4
  Error = Error
  NoName = NoName
  Thrown = Thrown
  Keys <- ProcKeys
  Digits = {"1", "2", "3"}
  Blank = Blank
  NL = NL
  Capacity = 8
  NoStats = NoStats
  Local = Local
  m1 = m1
  m2 = m2
  Masters = {m1, m2}
  NumPorts = 2
  MaxChanges = 4
SPECIFICATION ReadersSpec
INVARIANTS
  FieldsWereTrue
  QuietEdgeObserved
  PortsAsListed
  ChildIsFirstSlave
  ScalarsAreLast
  FieldsAreLabelled
  OneMeaning
  ZonesOfSensors
  NumbersOfThisReading
  ResolverReleases
PROPERTY LastSnapshotIsCurrent
