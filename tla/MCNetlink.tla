------------------------------ MODULE MCNetlink ------------------------------
(***************************************************************************)
(* Small instances of Netlink for TLC.  Objects and sockets are            *)
(* interchangeable.                                                        *)
(***************************************************************************)
EXTENDS Netlink, TLC

Interchangeable == Permutations(Objs) \cup Permutations(Socks)

=============================================================================
