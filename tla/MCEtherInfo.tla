----------------------------- MODULE MCEtherInfo -----------------------------
(***************************************************************************)
(* Small instances of EtherInfo for TLC.  Addresses and names are          *)
(* abbreviated; a link has no address, or addresses of both families of    *)
(* which the last has no broadcast address.                                *)
(***************************************************************************)
EXTENDS EtherInfo

CONSTANT Junk    (* a Python object that is no string *)

Arg(kind, items) == [kind |-> kind, items |-> items]

\* A name, two names around an object that is no string, no argument, and an
\* argument of a type that is not accepted.
SomeArgs(a, several) ==
  {Arg("str", <<a>>), several, Arg("none", <<>>), Arg("other", <<>>)}

EthArgs == SomeArgs("eth0", Arg("tuple", <<"eth1", Junk, "eth0">>))
LoArgs == SomeArgs("lo", Arg("list", <<"eth0", Junk, "lo">>))

Addr4(local, broadcast) ==
  [family |-> "AF_INET", local |-> local, prefixlen |-> 24,
   broadcast |-> broadcast]

Addr6 ==
  [family |-> "AF_INET6", local |-> "fe80::1", prefixlen |-> 64,
   broadcast |-> NULL]

TwoFamilies == <<Addr4("10.0.0.1", "10.0.0.255"), Addr6,
                 Addr4("10.0.0.2", NULL)>>

FewAddrLists == {<<>>, TwoFamilies}

\* One device, with an address or without.
OneDevice ==
  {[i \in Indexes |-> IF i = 1 THEN [name |-> "eth0", mac |-> "m1", addrs |-> l]
                      ELSE NULL] : l \in AddrLists}

\* The loopback device has an address, eth0 has none.
TwoDevices ==
  {[i \in Indexes |->
      IF i = 1 THEN [name |-> "lo", mac |-> "m1", addrs |-> TwoFamilies]
               ELSE [name |-> "eth0", mac |-> "m2", addrs |-> <<>>]]}

=============================================================================
