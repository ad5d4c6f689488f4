------------------------------ MODULE StructDesc ------------------------------
(***************************************************************************)
(* The struct_desc tables of src/python-ethtool/ethtool.c: how a struct of *)
(* uint32_t members becomes a Python dict and a dict a struct.             *)
(* ethtool_coalesce_desc and ethtool_ringparam_desc differ only in their   *)
(* entries.                                                                *)
(***************************************************************************)
EXTENDS Integers

CONSTANTS
  NULL,     (* the C null pointer                                           *)
  Fields,   (* the entries of a struct_desc table, all of them uint32_t     *)
  Mod,      (* the number of values of an unsigned int or uint32_t          *)
  LongMax   (* largest value of a C long, the smallest is -LongMax - 1      *)

\* A long is at least as wide as a uint32_t.
ASSUME WidthAssumption ==
  Mod \in Nat \ {0} /\ LongMax \in Nat /\ Mod <= 2 * (LongMax + 1)

UInt32 == 0..(Mod - 1)

\* PyLong_FromLong() of a uint32_t: it may be too large for a long.
FromUInt32(v) == IF v <= LongMax THEN v ELSE v - Mod

IsLong(x) == x \in (-LongMax - 1)..LongMax

\* Faulty variant: the number is stored as it is.
ToUInt32_Wide(x) == IF IsLong(x) THEN x ELSE Mod - 1

\* Faulty variant: a negative number is stored as 0.
ToUInt32_Clamped(x) == IF IsLong(x) THEN (IF x < 0 THEN 0 ELSE x % Mod)
                                    ELSE Mod - 1

\* The assignment of PyLong_AsLong() to a uint32_t: the number is cut to its
\* width, and what is no long becomes (uint32_t)-1 with an exception set.
ToUInt32(x) == IF IsLong(x) THEN x % Mod ELSE Mod - 1

\* __struct_desc_create_dict()
CreateDict(struct) == [f \in Fields |-> FromUInt32(struct[f])]

\* Faulty variant: a missing entry is skipped.
FromDict_Skips(dict) ==
  [ok |-> TRUE,
   buf |-> [f \in Fields |-> IF f \in DOMAIN dict THEN ToUInt32(dict[f]) ELSE 0],
   exc |-> IF Fields \subseteq DOMAIN dict THEN NULL ELSE "IOError"]

\* __struct_desc_from_dict(): a missing entry is an error and -1 is returned;
\* an exception of PyLong_AsLong(), a TypeError or an OverflowError, is not
\* looked at.
FromDict(dict) ==
  IF Fields \subseteq DOMAIN dict
  THEN [ok |-> TRUE, buf |-> [f \in Fields |-> ToUInt32(dict[f])],
        exc |-> IF \A f \in Fields : IsLong(dict[f]) THEN NULL
                ELSE "TypeError"]
  ELSE [ok |-> FALSE, buf |-> NULL, exc |-> "IOError"]

=============================================================================
