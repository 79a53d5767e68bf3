\* Up to two entries of the past and up to six in all; empty lines at any
\* place, and a sudo that may leave the program behind.
CONSTANTS
  MaxOld = 2
  MaxEntries = 6
  MaxLines = 3
  MaxClock = 1
SPECIFICATION TimingSpec
INVARIANTS
  JournalTypeOK
  EveryEntryOnce
  TypeOK
  EofDrains
  StampsOfTheirCalls
PROPERTIES
  JournalContract
  JournalStopUnblocks
  KeepsContract
  StopUnblocks
