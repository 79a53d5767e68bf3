\* Two readers, a collector without a handler, one interface and a socket
\* port, a queue of one message, a signal at any moment.
CONSTANTS
  ptp4l = ptp4l
  phc2sys = phc2sys
  gpsd = gpsd
  eth0 = eth0
  eth1 = eth1
  uds = uds
  sys = sys
  free = free
  none = none
  Collectors = {ptp4l, phc2sys, gpsd}
  Handled = {ptp4l, phc2sys}
  Ptp4l = ptp4l
  Interfaces = {eth0}
  UdsPort = uds
  NoInterface = none
  TopologyOn = TRUE
  SysThread = sys
  NoThread = free
  QueueSize = 1
  MaxLines = 1
  MaxSnapshots = 1
  MaxSignals = 1
SPECIFICATION Spec
INVARIANTS
  TypeOK
  SendExclusive
  NoThreadOutlivesRun
  RunsUntilDoneOrStopped
