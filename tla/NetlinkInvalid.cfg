\* nl_connect() may fail and fresh memory reads as zero.
SPECIFICATION Spec
CONSTANTS
  Objs = {o1, o2, o3}
  Socks = {s1, s2}
  NULL = NULL
  UIntMax = 7
  FreshTags = {FALSE}
  Faults = {"connect"}

PROPERTY ValidWhenOpened
