\* The interface is mistyped and a value is missing.  Each run ends.
SPECIFICATION Spec
CONSTANTS
  Procs = {p1}
  Devices <- ThreeDevices
  Targets = {"eth0", "etho"}
  Long = {}
  Rest = Rest
  Lines <- Incomplete
  Shows = {}
  Kernels <- AtWork
  NULL = NULL
  On = On
  Off = Off
  Number <- Numerals
  Fields = {"rx_coalesce_usecs", "use_adaptive_rx_coalesce"}
  Mod = 1024
  LongMax = 511
  Faults = {}
CHECK_DEADLOCK FALSE
PROPERTY OperatesOnInterface
