------------------------------ MODULE DeviceLists ------------------------------
(***************************************************************************)
(* The functions of src/python-ethtool/ethtool.c that list the devices,    *)
(* get_active_devices() and get_devices(), and the interface flags.        *)
(***************************************************************************)
EXTENDS Integers, Sequences, SequencesExt

CONSTANT
  Rest       (* what a line of /proc/net/dev holds beyond the buffer        *)

\* The bit of each flag that the extension module exports (linux/if.h).
Bit ==
  [IFF_UP |-> 0, IFF_BROADCAST |-> 1, IFF_DEBUG |-> 2, IFF_LOOPBACK |-> 3,
   IFF_POINTOPOINT |-> 4, IFF_NOTRAILERS |-> 5, IFF_RUNNING |-> 6,
   IFF_NOARP |-> 7, IFF_PROMISC |-> 8, IFF_ALLMULTI |-> 9, IFF_MASTER |-> 10,
   IFF_SLAVE |-> 11, IFF_MULTICAST |-> 12, IFF_PORTSEL |-> 13,
   IFF_AUTOMEDIA |-> 14, IFF_DYNAMIC |-> 15]

\* n & flag; a negative number is taken in two's complement, as in Python.
Has(n, flag) == (n \div 2^Bit[flag]) % 2 = 1

\* The elements of s that are in S, in their order.
Those(s, S) ==
  FlattenSeq([n \in DOMAIN s |-> IF s[n] \in S THEN <<s[n]>> ELSE <<>>])

\* An entry before the n-th one has put its name into the list.
InList(ifaddrs, n) ==
  \E j \in 1..(n - 1) :
    ifaddrs[j].name = ifaddrs[n].name /\ Has(ifaddrs[j].flags, "IFF_UP")

\* Faulty variant: each entry of the interface is listed.
ListActive_Repeats(ifaddrs, n) ==
  IF Has(ifaddrs[n].flags, "IFF_UP") THEN <<ifaddrs[n].name>> ELSE <<>>

\* What the n-th entry adds to the list: its name, if the interface is up and
\* the name is new.
ListActive(ifaddrs, n) ==
  IF ~InList(ifaddrs, n) /\ Has(ifaddrs[n].flags, "IFF_UP")
  THEN <<ifaddrs[n].name>> ELSE <<>>

\* get_active_devices(): getifaddrs() has an entry for the interface and one
\* for each of its addresses; a name is listed when it comes up first.
ActiveDevices(ifaddrs) ==
  FlattenSeq([n \in DOMAIN ifaddrs |-> ListActive(ifaddrs, n)])

\* get_devices(): a line of /proc/net/dev gives its name, the text before the
\* colon.  fgets() takes at most 255 characters: what is left of a longer line
\* is read as a line of its own, without a colon, and taken for a name.
GetDevices(lines) ==
  FlattenSeq([n \in DOMAIN lines |->
    IF lines[n].long THEN <<lines[n].name, Rest>> ELSE <<lines[n].name>>])

=============================================================================
