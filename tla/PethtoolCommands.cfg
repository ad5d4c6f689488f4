\* Two users, all commands, calls that fail.  Each run ends.
SPECIFICATION Spec
CONSTANTS
  Procs = {p1, p2}
  Devices <- ThreeDevices
  Targets = {NULL, "eth0", "etho"}
  Long = {"eth0"}
  Rest = Rest
  Lines <- CommandLines
  Shows = {"c", "g", "i", "k"}
  Kernels <- AtWork
  NULL = NULL
  On = On
  Off = Off
  Number <- Numerals
  Fields = {"rx_coalesce_usecs", "tx_coalesce_usecs", "use_adaptive_rx_coalesce", "rx_pending"}
  Mod = 1024
  LongMax = 511
  Faults = {"ioctl", "lists"}
SYMMETRY Alike
CHECK_DEADLOCK FALSE
INVARIANT TypeOK
INVARIANT OnlyAskedValues
INVARIANT TakesEffect
INVARIANT ShowsSettings
PROPERTY OnlyNamedDevice
