--------------------------- MODULE StructDescProofs ---------------------------
(***************************************************************************)
(* What the conversions of StructDesc do, for any table and any widths.    *)
(***************************************************************************)
EXTENDS StructDesc, TLAPS

\* What an unsigned member becomes is a long, whatever its value.
LEMMA FromUInt32IsLong ==
  ASSUME NEW v \in UInt32
  PROVE  IsLong(FromUInt32(v)) /\ FromUInt32(v) \in Int
BY WidthAssumption DEF UInt32, FromUInt32, IsLong

\* Arithmetic modulo the width of a member.
LEMMA ModuloWidth ==
  ASSUME NEW M \in Nat \ {0}, NEW v \in 0..(M - 1)
  PROVE  v % M = v /\ (v - M) % M = v
OBVIOUS

\* A member survives the way to Python and back.
LEMMA MemberRoundTrip ==
  ASSUME NEW v \in UInt32
  PROVE  ToUInt32(FromUInt32(v)) = v
<1>1. v % Mod = v /\ (v - Mod) % Mod = v
  BY WidthAssumption, ModuloWidth DEF UInt32
<1>2. QED
  BY <1>1, FromUInt32IsLong DEF ToUInt32, FromUInt32

\* Whatever Python number is passed, a value of the member's width is stored.
LEMMA ToUInt32Width ==
  ASSUME NEW x
  PROVE  ToUInt32(x) \in UInt32
<1>1. CASE IsLong(x)
  <2>1. x \in Int /\ Mod \in Nat \ {0}
    BY <1>1, WidthAssumption DEF IsLong
  <2>2. x % Mod \in 0..(Mod - 1)
    BY <2>1
  <2>3. QED BY <1>1, <2>2 DEF ToUInt32, UInt32
<1>2. CASE ~IsLong(x)
  BY <1>2, WidthAssumption DEF ToUInt32, UInt32
<1>3. QED BY <1>1, <1>2

\* The dict that __struct_desc_create_dict() makes of a struct is accepted by
\* __struct_desc_from_dict(), which makes the same struct of it again without
\* raising an exception.
THEOREM DictRoundTrip ==
  ASSUME NEW struct \in [Fields -> UInt32]
  PROVE  FromDict(CreateDict(struct)) = [ok |-> TRUE, buf |-> struct, exc |-> NULL]
<1> DEFINE dict == CreateDict(struct)
<1>1. /\ DOMAIN dict = Fields
      /\ \A f \in Fields : dict[f] = FromUInt32(struct[f])
  BY DEF CreateDict
<1>2. \A f \in Fields : IsLong(dict[f]) /\ ToUInt32(dict[f]) = struct[f]
  BY <1>1, FromUInt32IsLong, MemberRoundTrip
<1>3. [f \in Fields |-> ToUInt32(dict[f])] = struct
  BY <1>2
<1> HIDE DEF dict
<1>4. FromDict(dict) = [ok |-> TRUE, buf |-> struct, exc |-> NULL]
  BY <1>1, <1>2, <1>3 DEF FromDict
<1>5. QED BY <1>4 DEF dict

\* What __struct_desc_from_dict() sends to the device is a struct.
THEOREM RequestIsStruct ==
  ASSUME NEW dict, FromDict(dict).ok
  PROVE  FromDict(dict).buf \in [Fields -> UInt32]
<1>1. CASE Fields \subseteq DOMAIN dict
  BY <1>1, ToUInt32Width DEF FromDict
<1>2. CASE ~(Fields \subseteq DOMAIN dict)
  BY <1>2 DEF FromDict
<1>3. QED BY <1>1, <1>2

=============================================================================
