\* Every external call may fail, links come, go and change names.
SPECIFICATION Spec
CONSTANTS
  Objs = {o1, o2}
  Socks = {s1}
  NULL = NULL
  None = None
  Junk = Junk
  Args <- EthArgs
  UIntMax = 3
  FreshTags = {TRUE, FALSE}
  Faults = {"alloc", "connect", "dump", "rtalloc"}
  Names = {"eth0", "eth1"}
  Indexes = {1}
  Macs = {"m1"}
  AddrLists <- FewAddrLists
  Kernels <- OneDevice
  Churn = {"remove", "add", "rename"}
INVARIANT TypeOK
INVARIANT ConnectionWhenQuerying
INVARIANT AddressContract
PROPERTY NetlinkSpec
