--------------------------- MODULE MCControlSocket ---------------------------
(***************************************************************************)
(* Small instances of ControlSocket for TLC.  Mod = 1024 stands for 2^32   *)
(* and a C long is as wide as a uint32_t, as on 32-bit machines, so that   *)
(* half of the unsigned values do not fit into it.                         *)
(***************************************************************************)
EXTENDS ControlSocket

CONSTANT Junk    (* a Python object that is no number *)

\* "long" has more than IFNAMSIZ - 1 characters and is cut to "eth0".
CutNames == [n \in Names |-> IF n = "long" THEN "eth0" ELSE n]

\* Only eth1 is in the PCMCIA table.
OnePcCard == [n \in Names |-> IF n = "eth1" THEN "pcnet_cs" ELSE NULL]

Coalesce(rx, tx) == [rx_usecs |-> rx, tx_usecs |-> tx]

\* An Ethernet device, a loopback device that supports little, and a wireless
\* device.
Ethernet ==
  [hwaddr |-> 200, ipaddr |-> 10, netmask |-> 255, broadcast |-> 128,
   flags |-> 32769, wireless |-> NULL, driver |-> "e1000", businfo |-> "pci0",
   tso |-> 1, ufo |-> 0, gso |-> 1, gro |-> 1, sg |-> 1,
   coalesce |-> Coalesce(3, 0), ringparam |-> Coalesce(256, 256)]

Loopback ==
  [hwaddr |-> 0, ipaddr |-> 127, netmask |-> 255, broadcast |-> NULL,
   flags |-> 73, wireless |-> NULL, driver |-> NULL, businfo |-> NULL,
   tso |-> 1, ufo |-> NULL, gso |-> 1, gro |-> 1, sg |-> 1,
   coalesce |-> NULL, ringparam |-> NULL]

Wireless == [Loopback EXCEPT !.ipaddr = 192, !.broadcast = 255, !.flags = 4163,
                             !.wireless = "IEEE 802.11", !.driver = "iwlwifi"]

EveryKind == {Ethernet, Loopback, Wireless}

AllFns == DOMAIN Attr

\* Numbers that are negative, beyond an int, or no numbers.
SomeNumbers == {0, 5, -1, Mod, Junk}

\* Entries that are negative, beyond a uint32_t or no numbers, a dict with an
\* entry missing, and an object that is no dict.
SomeDicts ==
  {Coalesce(7, 0), Coalesce(-2, 511), Coalesce(0, Mod), Coalesce(Junk, 1),
   [rx_usecs |-> 9], <<>>}

=============================================================================
