\* A configuration file that names a device for each service.
CONSTANTS
  None = None
  Files <- MCFiles
  MaxSignals = 0
SPECIFICATION Spec
INVARIANT DeviceReachesCommand
