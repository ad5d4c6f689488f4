\* Nothing fails; addresses and hardware addresses change at any time.
SPECIFICATION FairSpec
CONSTANTS
  Objs = {o1, o2}
  Socks = {s1}
  NULL = NULL
  None = None
  Junk = Junk
  Args <- LoArgs
  UIntMax = 3
  FreshTags = {FALSE}
  Faults = {}
  Names = {"lo", "eth0"}
  Indexes = {1, 2}
  Macs = {"m1", "m2"}
  AddrLists <- FewAddrLists
  Kernels <- TwoDevices
  Churn = {"setmac", "setaddrs"}
INVARIANT ResultContract
INVARIANT CachesFreed
PROPERTY AddressesOfNamedDevice
PROPERTY NamedAsAsked
PROPERTY CallReturns
