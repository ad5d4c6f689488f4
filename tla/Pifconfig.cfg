\* Interfaces come and go, are renamed and go up and down; calls fail.  The
\* program ends.
SPECIFICATION FairSpec
CONSTANTS
  NULL = NULL
  Rest = Rest
  MaxIndex = 3
  Names = {"lo", "eth0", "ppp0", "eth9"}
  Label <- Labels
  Kernels <- Running
  ArgLists <- CommandLines
  Width = 8
  MaxChanges = 3
  Churn = {"remove", "rename", "updown"}
  Faults = {"getifaddrs", "ioctl", "netlink"}
CHECK_DEADLOCK FALSE
INVARIANT TypeOK
INVARIANT OneInterface
INVARIANT TruthfulWhenCalm
INVARIANT CompleteWhenStill
INVARIANT ExitStatus
PROPERTY Terminates
