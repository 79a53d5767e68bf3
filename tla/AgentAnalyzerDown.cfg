\* The same agent with an analyzer that may stop taking messages.
CONSTANTS
  ptp4l = ptp4l
  phc2sys = phc2sys
  gpsd = gpsd
  eth0 = eth0
  eth1 = eth1
  uds = uds
  sys = sys
  free = free
  none = none
  Collectors = {ptp4l}
  Handled = {ptp4l}
  Ptp4l = ptp4l
  Interfaces = {eth0}
  UdsPort = uds
  NoInterface = none
  TopologyOn = TRUE
  SysThread = sys
  NoThread = free
  QueueSize = 1
  MaxLines = 2
  MaxSnapshots = 1
  MaxSignals = 1
SPECIFICATION LocalSpec
PROPERTY RunReturns
