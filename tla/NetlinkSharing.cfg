\* Both external calls may fail.
SPECIFICATION Spec
CONSTANTS
  Objs = {o1, o2, o3}
  Socks = {s1, s2}
  NULL = NULL
  UIntMax = 7
  FreshTags = {TRUE, FALSE}
  Faults = {"alloc", "connect"}
SYMMETRY Interchangeable
INVARIANT TypeOK
INVARIANT OneSocketAtATime
INVARIANT NoUsersWithoutConnection
INVARIANT CounterWithinTags
PROPERTY HandleSpec
