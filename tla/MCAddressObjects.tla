--------------------------- MODULE MCAddressObjects ---------------------------
(***************************************************************************)
(* A small instance of AddressObjects for TLC.                             *)
(***************************************************************************)
EXTENDS AddressObjects

Addr(family, peer, broadcast) ==
  [family |-> family, peer |-> peer, broadcast |-> broadcast]

\* No address; one with a peer; two, of which the last, the one that the
\* attributes are about, has a broadcast address.
FewDumps ==
  [AF_INET |-> {<<>>, <<Addr("AF_INET", TRUE, FALSE)>>,
                <<Addr("AF_INET", FALSE, FALSE), Addr("AF_INET", FALSE, TRUE)>>},
   AF_INET6 |-> {<<>>, <<Addr("AF_INET6", FALSE, FALSE)>>}]

=============================================================================
