\* Two statistics files and four descriptors, two calls of collect().  Two
\* counters up to 5 show every order of growing, lowering, reading and failing;
\* a modulus of 12 makes the differences wrap.
CONSTANTS
  eth0 = eth0
  eth1 = eth1
  none = none
  minus1 = minus1
  free = free
  other = other
  Interfaces = {eth0, eth1}
  NoInterface = none
  NumMetrics = 2
  NumFds = 4
  NoFd = minus1
  Free = free
  Other = other
  MaxCollects = 2
  Modulus = 12
  MaxJiffies = 5
SPECIFICATION MetricsSpec
INVARIANTS
  TypeOK
  FdOwnership
  NothingLeftOpen
  QuietSnapshotConsistent
  CpuTypeOK
  UsageIsPercentage
  TotalsTile
