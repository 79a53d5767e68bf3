CONSTANTS
  eth0 = eth0
  eth1 = eth1
  none = none
  minus1 = minus1
  free = free
  other = other
  Interfaces = {eth0, eth1}
  NoInterface = none
  NumMetrics = 2
  NumFds = 4
  NoFd = minus1
  Free = free
  Other = other
  MaxCollects = 2
SPECIFICATION Spec
INVARIANT SnapshotOfOneInterface
