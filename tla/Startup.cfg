\* Every kind of configuration file, and two signals at any moment.
CONSTANTS
  None = None
  Files <- MCFiles
  MaxSignals = 2
SPECIFICATION FairSpec
INVARIANTS
  TypeOK
  NoServiceLostToAnother
  NoChildLeft
 
