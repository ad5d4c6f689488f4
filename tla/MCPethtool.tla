------------------------------ MODULE MCPethtool ------------------------------
(***************************************************************************)
(* Small instances of Pethtool for TLC.  Of the tables' entries the ones   *)
(* that the command lines name, and one that none names, are kept.         *)
(***************************************************************************)
EXTENDS Pethtool

ThreeDevices == <<"lo", "eth0", "eth1">>

\* The loopback device supports no coalescing and no ring parameters.
Settings(d) ==
  [coalesce  |-> IF d = "lo" THEN NULL ELSE [f \in Fields |-> 1],
   ringparam |-> IF d = "lo" THEN NULL ELSE [f \in Fields |-> 2],
   offload   |-> [f \in {"tso", "gso"} |-> 1],
   info      |-> IF d = "lo" THEN NULL ELSE [driver |-> 7, businfo |-> 8]]

AtWork == {[d \in Devs |-> Settings(d)]}

Numerals == ("1" :> 1) @@ ("3" :> 3) @@ ("4" :> 4) @@ ("5" :> 5) @@ ("6" :> 6) @@
            ("-2" :> -2) @@ ("huge" :> LongMax + 1)

\* Two users change different settings, or the same one; a pair with an
\* unknown option and one with a malformed value are skipped, a negative
\* number and one beyond a C long are not.  A value, or all of them, may be
\* missing.
CommandLines ==
  [C |-> {<<"rx-usecs", "5", "adaptive-rx", Off>>,
          <<"tx-usecs", "huge">>,
          <<"rx-usecs", "-2", "bogus", "3", "rx-usecs", "1", "tx-usecs", "-2",
            "tx-usecs", "much">>,
          <<"adaptive-rx", "tx-usecs", "4">>},
   G |-> {<<"rx", "6", "tx", On>>, <<>>},
   K |-> {<<"tso", Off>>, <<"tso", Off, "gso">>}]

\* The users are all alike.
Alike == Permutations(Procs)

\* A value is missing.
Incomplete == [C |-> {<<"adaptive-rx", "rx-usecs", "5">>}]

=============================================================================
