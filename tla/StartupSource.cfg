\* A service of each kind of source.
CONSTANTS
  None = None
  Files <- MCFiles
  MaxSignals = 0
SPECIFICATION Spec
INVARIANT DocumentedSourceStarts
