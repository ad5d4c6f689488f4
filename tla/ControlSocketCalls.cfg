\* Every function, on devices that come and go; everything may fail.
SPECIFICATION Spec
CONSTANTS
  Procs = {p1}
  Devs = {"eth0"}
  Names = {"eth0", "eth1", "long"}
  IfName <- CutNames
  NULL = NULL
  None = None
  Junk = Junk
  Fns <- AllFns
  Numbers <- SomeNumbers
  Dicts <- SomeDicts
  Fields = {"rx_usecs", "tx_usecs"}
  Mod = 1024
  LongMax = 511
  Fds = {3}
  Faults = {"socket", "ioctl"}
  Stab <- OnePcCard
  Configs <- EveryKind
INVARIANT TypeOK
INVARIANT NeverOutOfDescriptors
INVARIANT ResultContract
INVARIANT Restorable
INVARIANT BytesIntact
PROPERTY RaisingChangesNothing
