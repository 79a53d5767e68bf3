\* One reader and the system thread, two lines against a queue of one, every
\* thread scheduled and an analyzer that keeps taking messages: what is sent
\* before and after a stop request, and that run() returns.
CONSTANTS
  ptp4l = ptp4l
  phc2sys = phc2sys
  gpsd = gpsd
  eth0 = eth0
  eth1 = eth1
  uds = uds
  sys = sys
  free = free
  none = none
  Collectors = {ptp4l}
  Handled = {ptp4l}
  Ptp4l = ptp4l
  Interfaces = {eth0, eth1}
  UdsPort = uds
  NoInterface = none
  TopologyOn = TRUE
  SysThread = sys
  NoThread = free
  QueueSize = 1
  MaxLines = 2
  MaxSnapshots = 1
  MaxSignals = 1
SPECIFICATION FairSpec
INVARIANTS
  Accounted
  SnapshotInterfaceAnnounced
PROPERTIES
  ForwardsInOrder
  RunReturns
