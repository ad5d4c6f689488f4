------------------------------ MODULE MCPifconfig ------------------------------
(***************************************************************************)
(* A small instance of Pifconfig for TLC.                                  *)
(***************************************************************************)
EXTENDS Pifconfig

Inet(address, bits, broadcast) ==
  [family |-> "AF_INET", address |-> address, bits |-> bits, broadcast |-> broadcast]
Inet6(address) ==
  [family |-> "AF_INET6", address |-> address, bits |-> 64, broadcast |-> NULL]

\* lo is up, and so is eth0, a dialup device with two IPv4 addresses, one of
\* them a host address without broadcast; ppp0 is down.
Loopback == [name |-> "lo", flags |-> 73, mac |-> 0, aliases |-> {},
             addrs |-> <<Inet("a1", 2, NULL), Inet6("b1")>>]
Ethernet == [name |-> "eth0", flags |-> 2^15 + 4163, mac |-> 2, aliases |-> {},
             addrs |-> <<Inet("a2", 5, "c2"), Inet("a3", 8, NULL), Inet6("b2")>>]
PointToPoint == [name |-> "ppp0", flags |-> 2^15 + 144, mac |-> 3, aliases |-> {},
                 addrs |-> <<Inet("a4", 0, NULL), Inet6("b3")>>]

\* The second address of eth0 may be an alias.
Running ==
  {<<Loopback, [Ethernet EXCEPT !.aliases = aliases], PointToPoint>> : aliases \in {{}, {2}}}

\* All active interfaces; two by name, one of them twice or unknown; an alias.
CommandLines == {<<>>, <<"eth0", "ppp0", "eth0">>, <<"lo", "eth9">>, <<"eth0:1">>}

NoArguments == {<<>>}

Labels == [lo |-> "lo:1", eth0 |-> "eth0:1", ppp0 |-> "ppp0:1", eth9 |-> "eth9:1"]

=============================================================================
