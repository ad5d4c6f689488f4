\* The device may be removed.
SPECIFICATION Spec
CONSTANTS
  Objs = {o1, o2}
  Socks = {s1}
  NULL = NULL
  None = None
  Junk = Junk
  Args <- EthArgs
  UIntMax = 3
  FreshTags = {FALSE}
  Faults = {}
  Names = {"eth0", "eth1"}
  Indexes = {1}
  Macs = {"m1"}
  AddrLists <- FewAddrLists
  Kernels <- OneDevice
  Churn = {"remove"}
INVARIANT MacIsStringOrNone
