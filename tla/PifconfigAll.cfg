\* Without arguments, with nothing changing and nothing failing: not all
\* interfaces are displayed.
SPECIFICATION FairSpec
CONSTANTS
  NULL = NULL
  Rest = Rest
  MaxIndex = 3
  Names = {"lo", "eth0", "ppp0", "eth9"}
  Label <- Labels
  Kernels <- Running
  ArgLists <- NoArguments
  Width = 8
  MaxChanges = 0
  Churn = {}
  Faults = {}
CHECK_DEADLOCK FALSE
INVARIANT AllDisplayed
