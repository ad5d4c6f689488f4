------------------------- MODULE AddressObjectsProofs -------------------------
(***************************************************************************)
(* References are counted right: theorems about AddressObjects.            *)
(***************************************************************************)
EXTENDS AddressObjects, FiniteSetTheorems, TLAPS

Pointers == {"local", "peer", "ipv4_broadcast", "scope"}

\* The objects in the heap h, and how many slots of theirs refer to one.
LiveIn(h) == {i \in Ids : h[i] # NULL}
Uses(h, i) == Cardinality(Slots(h, LiveIn(h), i))

IsIn(h, i, type) == i \in LiveIn(h) /\ h[i].type = type

\* A pointer is null, uninitialised, or leads to a string.
PointerOK(h, x) == x = NULL \/ x = Junk \/ IsIn(h, x, "str")

ObjectOK(h, o) ==
  /\ o \in Objects /\ o.refs > 0
  /\ o.type = "list" =>
       o.slots \in Seq(Ids) /\ \A k \in DOMAIN o.slots : IsIn(h, o.slots[k], "address")
  /\ o.type = "address" =>
       /\ o.slots \in [Pointers -> Ids \cup {NULL, Junk}]
       /\ \A k \in Pointers : PointerOK(h, o.slots[k])
  /\ o.type = "str" => o.slots = <<>>

HeapOK(h) == DOMAIN h = Ids /\ \A i \in LiveIn(h) : ObjectOK(h, h[i])

\* With m[i] references to i from outside of the heap, no object is counted
\* short, and nobody refers to what has been freed.
Covered(h, m) ==
  \A i \in Ids : IF h[i] # NULL THEN h[i].refs >= Uses(h, i) + m[i]
                 ELSE Uses(h, i) + m[i] = 0

\* The references that are counted and that nobody holds.
Surplus(h, m, i) == h[i].refs - Uses(h, i) - m[i]

\* The fields that new_netlink_address sets.
LEMMA PointerNames == DOMAIN Uninitialised = Pointers
BY DEF Uninitialised, Pointers

\* What the parts of an object say of it.
LEMMA ObjectParts ==
  ASSUME NEW o, NEW type, NEW refs, NEW slots,
         o = [type |-> type, refs |-> refs, slots |-> slots],
         type \in {"list", "address", "str"}, refs \in Nat,
         slots \in Seq(Ids) \/ slots \in [Pointers -> Ids \cup {NULL, Junk}]
  PROVE  o \in Objects /\ o # NULL /\ o.type = type /\ o.refs = refs /\ o.slots = slots
BY PointerNames, ObjectsAssumption DEF Objects

\* And an object is made of its parts.
LEMMA ObjectHasParts ==
  ASSUME NEW o \in Objects
  PROVE  /\ o = [type |-> o.type, refs |-> o.refs, slots |-> o.slots] /\ o # NULL
         /\ o.type \in {"list", "address", "str"} /\ o.refs \in Nat
         /\ o.slots \in Seq(Ids) \/ o.slots \in [Pointers -> Ids \cup {NULL, Junk}]
BY PointerNames, ObjectsAssumption DEF Objects

-----------------------------------------------------------------------------
(***************************************************************************)
(* Slots and their number.                                                 *)
(***************************************************************************)
LEMMA InSlots ==
  ASSUME NEW h, NEW js, NEW i, NEW s
  PROVE  s \in Slots(h, js, i) <=>
           \E j \in js : \E k \in DOMAIN h[j].slots : s = <<j, k>> /\ h[j].slots[k] = i
BY DEF Slots

\* An object has finitely many slots.
LEMMA FiniteDomain ==
  ASSUME NEW h, HeapOK(h), NEW j \in LiveIn(h)
  PROVE  IsFiniteSet(DOMAIN h[j].slots)
<1>1. CASE h[j].type = "address"
  <2>1. DOMAIN h[j].slots = Pointers
    BY <1>1 DEF HeapOK, ObjectOK
  <2>2. IsFiniteSet({"local"}) /\ IsFiniteSet({"local"} \cup {"peer"})
    BY FS_Singleton, FS_AddElement
  <2>3. IsFiniteSet({"local"} \cup {"peer"} \cup {"ipv4_broadcast"})
    BY <2>2, FS_AddElement
  <2>4. IsFiniteSet({"local"} \cup {"peer"} \cup {"ipv4_broadcast"} \cup {"scope"})
    BY <2>3, FS_AddElement
  <2>5. Pointers = {"local"} \cup {"peer"} \cup {"ipv4_broadcast"} \cup {"scope"}
    BY DEF Pointers
  <2>6. QED BY <2>1, <2>4, <2>5
<1>2. CASE h[j].type \in {"list", "str"}
  <2>1. h[j].slots \in Seq(Ids) \/ h[j].slots = <<>>
    BY <1>2 DEF HeapOK, ObjectOK
  <2>2. DOMAIN h[j].slots = 1..Len(h[j].slots) /\ Len(h[j].slots) \in Nat
    BY <2>1
  <2>3. QED BY <2>2, FS_Interval
<1>3. QED BY <1>1, <1>2, ObjectHasParts DEF HeapOK, ObjectOK

\* Finitely many slots refer to an object.
LEMMA FiniteSlots ==
  ASSUME NEW h, HeapOK(h), NEW js, js \subseteq LiveIn(h), NEW i
  PROVE  IsFiniteSet(Slots(h, js, i)) /\ Cardinality(Slots(h, js, i)) \in Nat
<1> DEFINE One(j) == {<<j, k>> : k \in {k \in DOMAIN h[j].slots : h[j].slots[k] = i}}
           All == {One(j) : j \in js}
<1>1. IsFiniteSet(js)
  BY IdsAssumption, FS_Subset DEF LiveIn
<1>2. ASSUME NEW j \in js PROVE IsFiniteSet(One(j))
  <2> DEFINE ks == {k \in DOMAIN h[j].slots : h[j].slots[k] = i}
             f == [k \in ks |-> <<j, k>>]
  <2>1. IsFiniteSet(ks)
    BY FiniteDomain, FS_Subset
  <2>2. f \in [ks -> One(j)] /\ \A s \in One(j) : \E k \in ks : f[k] = s
    OBVIOUS
  <2> HIDE DEF ks, f, One
  <2>3. f \in Surjection(ks, One(j))
    BY <2>2 DEF Surjection
  <2>4. QED BY <2>1, <2>3, FS_Surjection
<1>3. IsFiniteSet(All)
  <2> DEFINE g == [j \in js |-> One(j)]
  <2> HIDE DEF One
  <2>1. g \in [js -> All] /\ \A s \in All : \E j \in js : g[j] = s
    OBVIOUS
  <2> HIDE DEF g, All
  <2>2. g \in Surjection(js, All)
    BY <2>1 DEF Surjection
  <2>3. QED BY <1>1, <2>2, FS_Surjection
<1>4. IsFiniteSet(UNION All)
  <2> HIDE DEF One
  <2>1. \A T \in All : IsFiniteSet(T)
    BY <1>2
  <2> HIDE DEF All
  <2>2. QED BY <1>3, <2>1, FS_UNION
<1>5. Slots(h, js, i) = UNION All
  BY DEF Slots
<1>6. QED BY <1>4, <1>5, FS_CardinalityType

\* The uses of an object are a number, zero when no slot refers to it.
LEMMA UsesNat ==
  ASSUME NEW h, HeapOK(h), NEW i
  PROVE  Uses(h, i) \in Nat /\ (Uses(h, i) = 0 <=> Slots(h, LiveIn(h), i) = {})
<1>1. IsFiniteSet(Slots(h, LiveIn(h), i)) /\ Cardinality(Slots(h, LiveIn(h), i)) \in Nat
  BY FiniteSlots
<1>2. QED BY <1>1, FS_EmptySet DEF Uses

\* A new object refers to nothing.
Fresh(o) ==
  /\ o # NULL /\ o.refs = 1
  /\ \A k \in DOMAIN o.slots : o.slots[k] \notin Ids
  /\ \A g : ObjectOK(g, o)

\* With a new object o in p all others are used as before, and o not at all.
Grown(h, g, p, o) ==
  /\ LiveIn(g) = LiveIn(h) \cup {p} /\ g[p] = o /\ Uses(g, p) = 0
  /\ \A i \in Ids : Uses(g, i) = Uses(h, i)
  /\ \A i \in Ids \ {p} : g[i] = h[i]

\* An allocation disturbs no object and no count.
LEMMA NewObject ==
  ASSUME NEW h, NEW m, HeapOK(h), m \in [Ids -> Nat], Covered(h, m),
         NEW p \in Ids \ LiveIn(h), NEW o, Fresh(o)
  PROVE  LET g == [h EXCEPT ![p] = o]
         IN  HeapOK(g) /\ Grown(h, g, p, o) /\ m[p] = 0
<1> DEFINE g == [h EXCEPT ![p] = o]
<1>1. DOMAIN g = Ids /\ g[p] = o /\ \A i \in Ids \ {p} : g[i] = h[i]
  BY DEF HeapOK
<1> HIDE DEF g
<1>2. LiveIn(g) = LiveIn(h) \cup {p}
  BY <1>1 DEF LiveIn, Fresh
<1>3. ASSUME NEW i \in Ids PROVE Slots(g, LiveIn(g), i) = Slots(h, LiveIn(h), i)
  <2>1. \A j \in LiveIn(h) : g[j] = h[j]
    BY <1>1 DEF LiveIn
  <2>2. \A k \in DOMAIN o.slots : o.slots[k] \notin Ids
    BY DEF Fresh
  <2>3. QED BY <1>1, <1>2, <2>1, <2>2 DEF Slots
<1>4. \A i \in Ids : Uses(g, i) = Uses(h, i)
  BY <1>3 DEF Uses
<1>5. m[p] = 0 /\ Uses(h, p) = 0
  BY UsesNat DEF Covered, LiveIn
<1>6. HeapOK(g)
  <2>1. ASSUME NEW j \in LiveIn(h) PROVE ObjectOK(g, g[j])
    <3>1. g[j] = h[j] /\ ObjectOK(h, h[j])
      BY <1>1 DEF LiveIn, HeapOK
    <3>2. \A x, t : IsIn(h, x, t) => IsIn(g, x, t)
      BY <1>1, <1>2 DEF IsIn, LiveIn
    <3>3. QED BY <3>1, <3>2 DEF ObjectOK, PointerOK
  <2>2. ObjectOK(g, g[p])
    BY <1>1 DEF Fresh
  <2>3. QED BY <1>1, <1>2, <2>1, <2>2 DEF HeapOK
<1>7. QED BY <1>1, <1>2, <1>4, <1>5, <1>6 DEF g, Grown

\* 1 for a reference to i, 0 for anything else.
Ref(x, i) == IF x = i THEN 1 ELSE 0

\* A set changes by the element s alone.
LEMMA OneElement ==
  ASSUME NEW A, NEW B, NEW s, IsFiniteSet(A), IsFiniteSet(B), A \ {s} = B \ {s}
  PROVE  /\ Cardinality(A) \in Nat /\ Cardinality(B) \in Nat
         /\ Cardinality(B) = Cardinality(A) + (IF s \in B THEN 1 ELSE 0)
                                            - (IF s \in A THEN 1 ELSE 0)
<1>1. Cardinality(A) \in Nat /\ Cardinality(B) \in Nat
  BY FS_CardinalityType
<1>2. Cardinality(A \ {s}) = IF s \in A THEN Cardinality(A) - 1 ELSE Cardinality(A)
  BY FS_RemoveElement
<1>3. Cardinality(B \ {s}) = IF s \in B THEN Cardinality(B) - 1 ELSE Cardinality(B)
  BY FS_RemoveElement
<1>4. QED BY <1>1, <1>2, <1>3

\* The pointer f of the address a is assigned x.
Repointed(h, g, a, f, x) ==
  /\ LiveIn(g) = LiveIn(h) /\ g[a].slots[f] = x
  /\ \A k \in Pointers \ {f} : g[a].slots[k] = h[a].slots[k]
  /\ \A i \in LiveIn(h) : g[i].type = h[i].type /\ g[i].refs = h[i].refs
  /\ \A i \in Ids \ {a} : g[i] = h[i]
  /\ \A i \in Ids : Uses(g, i) = Uses(h, i) + Ref(x, i) - Ref(h[a].slots[f], i)

\* An assignment to a pointer of an address moves one use.
LEMMA SetPointer ==
  ASSUME NEW h, HeapOK(h), NEW a, IsIn(h, a, "address"), NEW f \in Pointers, NEW x,
         PointerOK(h, x)
  PROVE  LET g == [h EXCEPT ![a].slots[f] = x]
         IN  HeapOK(g) /\ Repointed(h, g, a, f, x)
<1> DEFINE g == [h EXCEPT ![a].slots[f] = x]
<1>1. /\ a \in Ids /\ a \in LiveIn(h) /\ h[a].type = "address" /\ DOMAIN h = Ids
      /\ h[a].slots \in [Pointers -> Ids \cup {NULL, Junk}] /\ h[a] \in Objects
      /\ h[a].refs > 0 /\ \A k \in Pointers : PointerOK(h, h[a].slots[k])
  BY DEF IsIn, LiveIn, HeapOK, ObjectOK
<1> DEFINE s == [h[a].slots EXCEPT ![f] = x]
<1>2. /\ DOMAIN g = Ids /\ \A i \in Ids \ {a} : g[i] = h[i]
      /\ g[a] = [h[a] EXCEPT !.slots = s]
  BY <1>1
<1>3. /\ s \in [Pointers -> Ids \cup {NULL, Junk}] /\ s[f] = x
      /\ \A k \in Pointers \ {f} : s[k] = h[a].slots[k]
  BY <1>1 DEF PointerOK, IsIn, LiveIn
<1> HIDE DEF g, s
<1>4. /\ g[a] \in Objects /\ g[a] # NULL /\ g[a].type = "address"
      /\ g[a].refs = h[a].refs /\ g[a].slots = s
  <2>1. g[a] = [type |-> "address", refs |-> h[a].refs, slots |-> s] /\ h[a].refs \in Nat
    BY <1>1, <1>2, ObjectHasParts
  <2>2. QED BY <1>3, <2>1, ObjectParts
<1>5. LiveIn(g) = LiveIn(h)
  BY <1>1, <1>2, <1>4 DEF LiveIn
<1>6. \A y, t : IsIn(h, y, t) => IsIn(g, y, t)
  BY <1>1, <1>2, <1>4, <1>5 DEF IsIn, LiveIn
<1>7. HeapOK(g)
  <2>1. ASSUME NEW j \in LiveIn(h), j # a PROVE ObjectOK(g, g[j])
    <3>1. g[j] = h[j] /\ ObjectOK(h, h[j])
      BY <1>2, <2>1 DEF LiveIn, HeapOK
    <3>2. QED BY <1>6, <3>1 DEF ObjectOK, PointerOK
  <2>2. ObjectOK(g, g[a])
    <3>1. \A k \in Pointers : PointerOK(g, s[k])
      BY <1>1, <1>3, <1>6 DEF PointerOK
    <3>2. QED BY <1>1, <1>3, <1>4, <3>1 DEF ObjectOK
  <2>3. QED BY <1>2, <1>5, <2>1, <2>2 DEF HeapOK
<1>8. ASSUME NEW i \in Ids
      PROVE  Uses(g, i) = Uses(h, i) + Ref(x, i) - Ref(h[a].slots[f], i)
  <2> DEFINE A == Slots(h, LiveIn(h), i)
             B == Slots(g, LiveIn(g), i)
             t == <<a, f>>
  <2>1. IsFiniteSet(A) /\ IsFiniteSet(B)
    BY <1>7, FiniteSlots
  <2>2. A \ {t} = B \ {t}
    <3>1. ASSUME NEW j \in LiveIn(h), NEW k
          PROVE  <<j, k>> # t => (/\ k \in DOMAIN h[j].slots /\ h[j].slots[k] = i
                                  <=> k \in DOMAIN g[j].slots /\ g[j].slots[k] = i)
      <4>1. CASE j = a
        BY <1>1, <1>3, <1>4, <4>1
      <4>2. CASE j # a
        BY <1>2, <4>2 DEF LiveIn
      <4>3. QED BY <4>1, <4>2
    <3>2. \A u : u # t => (u \in A <=> u \in B)
      BY <1>5, <3>1, InSlots
    <3> HIDE DEF A, B, t
    <3>3. QED BY <3>2
  <2>3. (t \in A <=> h[a].slots[f] = i) /\ (t \in B <=> x = i)
    BY <1>1, <1>3, <1>4, <1>5, InSlots
  <2> HIDE DEF A, B, t
  <2>4. /\ Cardinality(A) \in Nat
        /\ Cardinality(B) = Cardinality(A) + (IF t \in B THEN 1 ELSE 0)
                                           - (IF t \in A THEN 1 ELSE 0)
    BY <2>1, <2>2, OneElement
  <2>5. QED BY <2>3, <2>4 DEF A, B, Uses, Ref
<1>9. ASSUME NEW i \in LiveIn(h) PROVE g[i].type = h[i].type /\ g[i].refs = h[i].refs
  BY <1>1, <1>2, <1>4 DEF LiveIn
<1>10. QED BY <1>2, <1>3, <1>4, <1>5, <1>7, <1>8, <1>9 DEF g, Repointed

\* The address a is appended to the list l.
Extended(h, g, l, a) ==
  /\ LiveIn(g) = LiveIn(h) /\ g[l].slots = Append(h[l].slots, a)
  /\ \A i \in LiveIn(h) : g[i].type = h[i].type /\ g[i].refs = h[i].refs
  /\ \A i \in Ids \ {l} : g[i] = h[i]
  /\ \A i \in Ids : Uses(g, i) = Uses(h, i) + Ref(a, i)

\* PyList_Append adds one use, of the address.
LEMMA AddItem ==
  ASSUME NEW h, HeapOK(h), NEW l, IsIn(h, l, "list"), NEW a, IsIn(h, a, "address")
  PROVE  LET g == [h EXCEPT ![l].slots = Append(@, a)]
         IN  HeapOK(g) /\ Extended(h, g, l, a)
<1> DEFINE g == [h EXCEPT ![l].slots = Append(@, a)]
           n == Len(h[l].slots)
           s == Append(h[l].slots, a)
<1>1. /\ l \in Ids /\ l \in LiveIn(h) /\ h[l].type = "list" /\ DOMAIN h = Ids /\ a \in Ids
      /\ h[l].slots \in Seq(Ids) /\ h[l] \in Objects /\ h[l].refs > 0
      /\ \A k \in DOMAIN h[l].slots : IsIn(h, h[l].slots[k], "address")
  BY DEF IsIn, LiveIn, HeapOK, ObjectOK
<1>2. /\ DOMAIN g = Ids /\ \A i \in Ids \ {l} : g[i] = h[i]
      /\ g[l] = [h[l] EXCEPT !.slots = s]
  BY <1>1
<1>3. /\ s \in Seq(Ids) /\ n \in Nat /\ DOMAIN h[l].slots = 1..n /\ DOMAIN s = 1..(n + 1)
      /\ s[n + 1] = a /\ \A k \in 1..n : s[k] = h[l].slots[k]
  BY <1>1
<1> HIDE DEF g, s, n
<1>4. /\ g[l] \in Objects /\ g[l] # NULL /\ g[l].type = "list"
      /\ g[l].refs = h[l].refs /\ g[l].slots = s
  <2>1. g[l] = [type |-> "list", refs |-> h[l].refs, slots |-> s] /\ h[l].refs \in Nat
    BY <1>1, <1>2, ObjectHasParts
  <2>2. QED BY <1>3, <2>1, ObjectParts
<1>5. LiveIn(g) = LiveIn(h)
  BY <1>1, <1>2, <1>4 DEF LiveIn
<1>6. \A y, t : IsIn(h, y, t) => IsIn(g, y, t)
  BY <1>1, <1>2, <1>4, <1>5 DEF IsIn, LiveIn
<1>7. HeapOK(g)
  <2>1. ASSUME NEW j \in LiveIn(h), j # l PROVE ObjectOK(g, g[j])
    <3>1. g[j] = h[j] /\ ObjectOK(h, h[j])
      BY <1>2, <2>1 DEF LiveIn, HeapOK
    <3>2. QED BY <1>6, <3>1 DEF ObjectOK, PointerOK
  <2>2. ObjectOK(g, g[l])
    <3>1. \A k \in 1..(n + 1) : k \in 1..n \/ k = n + 1
      BY <1>3
    <3>2. \A k \in DOMAIN s : IsIn(g, s[k], "address")
      BY <1>1, <1>3, <1>6, <3>1
    <3>3. QED BY <1>1, <1>3, <1>4, <3>2 DEF ObjectOK
  <2>3. QED BY <1>2, <1>5, <2>1, <2>2 DEF HeapOK
<1>8. ASSUME NEW i \in Ids PROVE Uses(g, i) = Uses(h, i) + Ref(a, i)
  <2> DEFINE A == Slots(h, LiveIn(h), i)
             B == Slots(g, LiveIn(g), i)
             t == <<l, n + 1>>
  <2>1. IsFiniteSet(A) /\ IsFiniteSet(B)
    BY <1>7, FiniteSlots
  <2>2. A \ {t} = B \ {t}
    <3>1. ASSUME NEW j \in LiveIn(h), NEW k
          PROVE  <<j, k>> # t => (/\ k \in DOMAIN h[j].slots /\ h[j].slots[k] = i
                                  <=> k \in DOMAIN g[j].slots /\ g[j].slots[k] = i)
      <4>1. CASE j = l
        BY <1>3, <1>4, <4>1
      <4>2. CASE j # l
        BY <1>2, <4>2 DEF LiveIn
      <4>3. QED BY <4>1, <4>2
    <3>2. \A u : u # t => (u \in A <=> u \in B)
      BY <1>5, <3>1, InSlots
    <3> HIDE DEF A, B, t
    <3>3. QED BY <3>2
  <2>3. t \notin A
    BY <1>3, InSlots
  <2>4. t \in B <=> a = i
    BY <1>1, <1>3, <1>4, <1>5, InSlots
  <2> HIDE DEF A, B, t
  <2>5. /\ Cardinality(A) \in Nat
        /\ Cardinality(B) = Cardinality(A) + (IF t \in B THEN 1 ELSE 0)
                                           - (IF t \in A THEN 1 ELSE 0)
    BY <2>1, <2>2, OneElement
  <2>6. QED BY <2>3, <2>4, <2>5 DEF A, B, Uses, Ref
<1>9. ASSUME NEW i \in LiveIn(h) PROVE g[i].type = h[i].type /\ g[i].refs = h[i].refs
  BY <1>1, <1>2, <1>4 DEF LiveIn
<1>10. QED BY <1>2, <1>4, <1>5, <1>7, <1>8, <1>9 DEF g, s, Extended

\* Py_INCREF() changes the count of one object and nothing else.
Counted(h, g, a) ==
  /\ LiveIn(g) = LiveIn(h) /\ g[a].refs = h[a].refs + 1
  /\ \A i \in LiveIn(h) : g[i].type = h[i].type /\ g[i].slots = h[i].slots
  /\ \A i \in Ids \ {a} : g[i] = h[i]
  /\ \A i \in Ids : Uses(g, i) = Uses(h, i)

\* Py_INCREF counts one reference more and moves none.
LEMMA IncrefOK ==
  ASSUME NEW h, HeapOK(h), NEW a \in LiveIn(h)
  PROVE  HeapOK(Incref(h, a)) /\ Counted(h, Incref(h, a), a)
<1> DEFINE g == Incref(h, a)
<1>1. a \in Ids /\ DOMAIN h = Ids /\ h[a] \in Objects /\ ObjectOK(h, h[a])
  BY DEF LiveIn, HeapOK, ObjectOK
<1>2. /\ DOMAIN g = Ids /\ \A i \in Ids \ {a} : g[i] = h[i]
      /\ g[a] = [h[a] EXCEPT !.refs = h[a].refs + 1]
  BY <1>1 DEF Incref
<1> HIDE DEF g
<1>3. /\ g[a] \in Objects /\ g[a] # NULL /\ g[a].type = h[a].type
      /\ g[a].refs = h[a].refs + 1 /\ g[a].slots = h[a].slots /\ h[a].refs \in Nat
  <2>1. /\ g[a] = [type |-> h[a].type, refs |-> h[a].refs + 1, slots |-> h[a].slots]
        /\ h[a].refs \in Nat /\ h[a].refs + 1 \in Nat
        /\ h[a].type \in {"list", "address", "str"}
        /\ h[a].slots \in Seq(Ids) \/ h[a].slots \in [Pointers -> Ids \cup {NULL, Junk}]
    BY <1>1, <1>2, ObjectHasParts
  <2>2. QED BY <2>1, ObjectParts
<1>4. LiveIn(g) = LiveIn(h)
  BY <1>1, <1>2, <1>3 DEF LiveIn
<1>5. \A i \in LiveIn(h) : g[i].type = h[i].type /\ g[i].slots = h[i].slots
  BY <1>2, <1>3 DEF LiveIn
<1>6. \A y, t : IsIn(h, y, t) => IsIn(g, y, t)
  BY <1>4, <1>5 DEF IsIn
<1>7. HeapOK(g)
  <2>1. ASSUME NEW j \in LiveIn(h), j # a PROVE ObjectOK(g, g[j])
    <3>1. g[j] = h[j] /\ ObjectOK(h, h[j])
      BY <1>2, <2>1 DEF LiveIn, HeapOK
    <3>2. QED BY <1>6, <3>1 DEF ObjectOK, PointerOK
  <2>2. ObjectOK(g, g[a])
    BY <1>1, <1>3, <1>6 DEF ObjectOK, PointerOK
  <2>3. QED BY <1>2, <1>4, <2>1, <2>2 DEF HeapOK
<1>8. ASSUME NEW i \in Ids PROVE Uses(g, i) = Uses(h, i)
  <2>1. Slots(g, LiveIn(g), i) = Slots(h, LiveIn(h), i)
    BY <1>4, <1>5 DEF Slots
  <2>2. QED BY <2>1 DEF Uses
<1>9. QED BY <1>2, <1>3, <1>4, <1>5, <1>7, <1>8 DEF g, Counted

-----------------------------------------------------------------------------
(***************************************************************************)
(* Py_DECREF(): the objects that go, and what is left of the others.       *)
(***************************************************************************)

\* A slot of a larger set of objects.
LEMMA MoreSlots ==
  ASSUME NEW h, HeapOK(h), NEW A, NEW B, A \subseteq B, B \subseteq LiveIn(h), NEW j
  PROVE  /\ Slots(h, A, j) \subseteq Slots(h, B, j)
         /\ IsFiniteSet(Slots(h, A, j)) /\ Cardinality(Slots(h, A, j)) \in Nat
         /\ IsFiniteSet(Slots(h, B, j)) /\ Cardinality(Slots(h, B, j)) \in Nat
         /\ Cardinality(Slots(h, A, j)) <= Cardinality(Slots(h, B, j))
         /\ Cardinality(Slots(h, A, j)) = Cardinality(Slots(h, B, j))
              => Slots(h, A, j) = Slots(h, B, j)
<1>1. Slots(h, A, j) \subseteq Slots(h, B, j)
  BY DEF Slots
<1>2. /\ IsFiniteSet(Slots(h, A, j)) /\ Cardinality(Slots(h, A, j)) \in Nat
      /\ IsFiniteSet(Slots(h, B, j)) /\ Cardinality(Slots(h, B, j)) \in Nat
  BY FiniteSlots
<1>3. QED BY <1>1, <1>2, FS_Subset

\* With() keeps the objects it is given, and adds live ones.
LEMMA WithMembers ==
  ASSUME NEW h, NEW js, js \subseteq LiveIn(h)
  PROVE  /\ js \subseteq With(h, js) /\ With(h, js) \subseteq LiveIn(h)
         /\ \A j \in LiveIn(h) : j \in With(h, js) <=>
              j \in js \/ h[j].refs <= Cardinality(Slots(h, js, j))
BY DEF With, LiveIn

\* Only a list refers to an address, only an address to a string, and nothing
\* to a list.
LEMMA Referrer ==
  ASSUME NEW h, HeapOK(h), NEW js, js \subseteq LiveIn(h), NEW j \in LiveIn(h),
         NEW x, NEW k, <<x, k>> \in Slots(h, js, j)
  PROVE  /\ x \in js /\ k \in DOMAIN h[x].slots /\ h[x].slots[k] = j
         /\ \/ h[x].type = "list" /\ h[j].type = "address"
            \/ h[x].type = "address" /\ h[j].type = "str"
<1>1. x \in js /\ k \in DOMAIN h[x].slots /\ h[x].slots[k] = j /\ ObjectOK(h, h[x])
  BY InSlots DEF HeapOK
<1>2. h[x].type \in {"list", "address", "str"}
  BY <1>1, ObjectHasParts DEF ObjectOK
<1>3. j # NULL /\ j # Junk
  BY IdsAssumption DEF LiveIn
<1>4. CASE h[x].type = "list"
  BY <1>1, <1>4 DEF ObjectOK, IsIn
<1>5. CASE h[x].type = "address"
  BY <1>1, <1>3, <1>5 DEF ObjectOK, PointerOK, IsIn
<1>6. CASE h[x].type = "str"
  BY <1>1, <1>6 DEF ObjectOK
<1>7. QED BY <1>1, <1>2, <1>4, <1>5, <1>6

\* Two rounds are enough: what the objects of the second round refer to goes
\* with them, or was counted in the first round.
LEMMA TwoRounds ==
  ASSUME NEW h, HeapOK(h), NEW i \in LiveIn(h), NEW j \in LiveIn(h)
  PROVE  LET V == With(h, {i}) IN
           Slots(h, With(h, V), j) = Slots(h, V, j)
<1> DEFINE V == With(h, {i})
           W == With(h, V)
<1>1. /\ i \in V /\ V \subseteq LiveIn(h)
      /\ \A y \in LiveIn(h) : y \in V <=>
           y \in {i} \/ h[y].refs <= Cardinality(Slots(h, {i}, y))
  BY WithMembers
<1> HIDE DEF V
<1>2. /\ V \subseteq W /\ W \subseteq LiveIn(h)
      /\ \A y \in LiveIn(h) : y \in W <=>
           y \in V \/ h[y].refs <= Cardinality(Slots(h, V, y))
  BY <1>1, WithMembers
<1> HIDE DEF W
<1>3. \A y \in LiveIn(h) : h[y].refs \in Nat /\ h[y].refs > 0
  BY ObjectHasParts DEF HeapOK, ObjectOK
<1>4. ASSUME NEW y \in LiveIn(h), h[y].type = "list", NEW js, js \subseteq LiveIn(h)
      PROVE  Slots(h, js, y) = {}
  <2>1. \A s \in Slots(h, js, y) : \E x \in js : \E k \in DOMAIN h[x].slots : s = <<x, k>>
    BY InSlots
  <2>2. QED BY <1>4, <2>1, Referrer
<1>5. ASSUME NEW y \in V, h[y].type = "list" PROVE y = i
  <2>1. y \in {i} \/ h[y].refs <= Cardinality(Slots(h, {i}, y))
    BY <1>1
  <2>2. Cardinality(Slots(h, {i}, y)) = 0
    BY <1>1, <1>4, <1>5, FS_EmptySet
  <2>3. QED BY <1>1, <1>3, <2>1, <2>2
<1>6. ASSUME NEW y \in W \ V PROVE h[y].type = "str"
  <2>1. y \in LiveIn(h) /\ h[y].refs <= Cardinality(Slots(h, V, y))
    BY <1>2
  <2>2. h[y].type # "list"
    <3>1. ASSUME h[y].type = "list" PROVE Cardinality(Slots(h, V, y)) = 0
      BY <1>1, <1>4, <2>1, <3>1, FS_EmptySet
    <3>2. QED BY <1>3, <2>1, <3>1
  <2>3. h[y].type # "address"
    <3> SUFFICES ASSUME h[y].type = "address" PROVE FALSE
      OBVIOUS
    <3>1. \A s \in Slots(h, V, y) : \E x \in V : \E k \in DOMAIN h[x].slots : s = <<x, k>>
      BY InSlots
    <3>2. ASSUME NEW x, NEW k, <<x, k>> \in Slots(h, V, y) PROVE <<x, k>> \in Slots(h, {i}, y)
      <4>1. x = i
        BY <1>1, <1>5, <2>1, <3>2, Referrer
      <4>2. QED BY <1>1, <2>1, <3>2, <4>1, Referrer, InSlots
    <3>3. Slots(h, V, y) \subseteq Slots(h, {i}, y)
      BY <3>1, <3>2
    <3>4. Slots(h, V, y) = Slots(h, {i}, y)
      <4>1. {i} \subseteq V /\ V \subseteq LiveIn(h)
        BY <1>1
      <4>2. Slots(h, {i}, y) \subseteq Slots(h, V, y)
        BY <4>1, MoreSlots
      <4>3. QED BY <3>3, <4>2
    <3>5. QED BY <1>1, <2>1, <3>4
  <2>4. QED BY <2>1, <2>2, <2>3, ObjectHasParts DEF HeapOK, ObjectOK
<1>7. Slots(h, W, j) \subseteq Slots(h, V, j)
  <2>1. \A s \in Slots(h, W, j) : \E x \in W : \E k \in DOMAIN h[x].slots : s = <<x, k>>
    BY InSlots
  <2>2. ASSUME NEW x, NEW k, <<x, k>> \in Slots(h, W, j) PROVE <<x, k>> \in Slots(h, V, j)
    <3>1. x \in W /\ k \in DOMAIN h[x].slots /\ h[x].slots[k] = j /\ h[x].type # "str"
      BY <1>2, <2>2, Referrer
    <3>2. x \in V
      BY <1>6, <3>1
    <3>3. QED BY <3>1, <3>2, InSlots
  <2>3. QED BY <2>1, <2>2
<1>8. Slots(h, V, j) \subseteq Slots(h, W, j)
  BY <1>2, MoreSlots
<1>9. QED BY <1>7, <1>8 DEF V, W

\* A reference to i from outside of the heap is given up.  What goes is no
\* longer held by anything that stays; the counts of what stays are positive,
\* and nothing is lost or counted short.
Released(h, m, g, n, i) ==
  /\ LiveIn(g) = LiveIn(h) \ Dying(h, i)
  /\ n \in [Ids -> Nat] /\ n[i] = m[i] - 1 /\ \A j \in Ids \ {i} : n[j] = m[j]
  /\ Covered(g, n) /\ \A j \in Dying(h, i) : n[j] = 0
  /\ \A j \in LiveIn(g) :
       /\ g[j].type = h[j].type /\ g[j].slots = h[j].slots /\ g[j].refs <= h[j].refs
       /\ Surplus(g, n, j) = Surplus(h, m, j)

\* Py_DECREF with everything that it frees keeps the heap in order and takes
\* away exactly the reference that is given up.
LEMMA DecrefOK ==
  ASSUME NEW h, NEW m, HeapOK(h), m \in [Ids -> Nat], Covered(h, m),
         NEW i \in LiveIn(h), m[i] > 0
  PROVE  LET g == Decref(h, i)
             n == [m EXCEPT ![i] = @ - 1]
         IN  HeapOK(g) /\ Released(h, m, g, n, i)
<1> DEFINE g == Decref(h, i)
           n == [m EXCEPT ![i] = @ - 1]
           D == Dying(h, i)
           Own(j) == Slots(h, D, j)
           All(j) == Slots(h, LiveIn(h), j)
<1>1. i \in Ids /\ DOMAIN h = Ids /\ LiveIn(h) \subseteq Ids
  BY DEF LiveIn, HeapOK
<1>2. \A j \in LiveIn(h) : h[j] \in Objects /\ ObjectOK(h, h[j]) /\ h[j].refs \in Nat /\ h[j].refs > 0
  BY ObjectHasParts DEF HeapOK, ObjectOK
<1>3. n \in [Ids -> Nat] /\ n[i] = m[i] - 1 /\ \A j \in Ids \ {i} : n[j] = m[j]
  BY <1>1
<1> HIDE DEF n
<1>4. \A j \in LiveIn(h) :
        /\ m[j] \in Nat /\ Cardinality(All(j)) \in Nat
        /\ Cardinality(All(j)) + m[j] <= h[j].refs
  BY <1>1, <1>2, UsesNat DEF Covered, LiveIn, Uses, All
<1>5. \A j \in Ids \ LiveIn(h) : All(j) = {} /\ m[j] = 0
  <2> SUFFICES ASSUME NEW j \in Ids \ LiveIn(h) PROVE All(j) = {} /\ m[j] = 0
    OBVIOUS
  <2>1. Uses(h, j) \in Nat /\ m[j] \in Nat /\ Uses(h, j) + m[j] = 0
    BY UsesNat DEF Covered, LiveIn
  <2>2. Uses(h, j) = 0 /\ m[j] = 0
    BY <2>1
  <2>3. QED BY <2>2, UsesNat
<1>6. D \subseteq LiveIn(h)
  <2>1. With(h, {i}) \subseteq LiveIn(h)
    BY WithMembers
  <2>2. With(h, With(h, {i})) \subseteq LiveIn(h)
    BY <2>1, WithMembers
  <2>3. QED BY <2>2 DEF Dying
<1>7. \A j :
        /\ Own(j) \subseteq All(j) /\ IsFiniteSet(Own(j)) /\ Cardinality(Own(j)) \in Nat
        /\ IsFiniteSet(All(j)) /\ Cardinality(All(j)) \in Nat
        /\ Cardinality(Own(j)) <= Cardinality(All(j))
        /\ Cardinality(Own(j)) = Cardinality(All(j)) => Own(j) = All(j)
  BY <1>6, MoreSlots
<1> HIDE DEF Own, All
<1>8. D # {} => i \in D /\ h[i].refs = 1
  <2>1. {i} \subseteq With(h, {i}) /\ With(h, {i}) \subseteq LiveIn(h)
    BY WithMembers
  <2>2. With(h, {i}) \subseteq With(h, With(h, {i}))
    BY <2>1, WithMembers
  <2>3. D # {} => D = With(h, With(h, {i})) /\ ~(h[i].refs > 1)
    BY DEF Dying
  <2> HIDE DEF D
  <2>4. h[i].refs \in Nat /\ h[i].refs > 0
    BY <1>2
  <2>5. D # {} => h[i].refs = 1
    BY <2>3, <2>4
  <2>6. D # {} => i \in D
    BY <2>1, <2>2, <2>3
  <2>7. QED BY <2>5, <2>6
<1>9. ASSUME NEW j \in D PROVE Own(j) = All(j) /\ n[j] = 0
  <2>1. CASE j = i
    <3>1. h[i].refs = 1 /\ Cardinality(All(i)) + m[i] <= 1
      BY <1>2, <1>4, <1>8
    <3>2. Cardinality(All(i)) = 0 /\ m[i] = 1
      BY <1>4, <3>1
    <3>3. Cardinality(Own(i)) = 0
      BY <1>7, <3>2
    <3>4. QED BY <1>3, <1>7, <2>1, <3>2, <3>3
  <2>2. CASE j # i
    <3>1. h[j].refs <= Cardinality(Own(j))
      <4> DEFINE V == With(h, {i})
      <4>1. /\ {i} \subseteq V /\ V \subseteq LiveIn(h)
            /\ \A y \in LiveIn(h) : y \in V <=> y \in {i} \/ h[y].refs <= Cardinality(Slots(h, {i}, y))
        BY WithMembers
      <4>2. D = With(h, V)
        BY <1>9 DEF Dying
      <4> HIDE DEF V, D
      <4>3. /\ V \subseteq D
            /\ \A y \in LiveIn(h) : y \in D <=> y \in V \/ h[y].refs <= Cardinality(Slots(h, V, y))
        BY <4>1, <4>2, WithMembers
      <4>4. \/ h[j].refs <= Cardinality(Slots(h, {i}, j))
            \/ h[j].refs <= Cardinality(Slots(h, V, j))
        BY <1>6, <2>2, <4>1, <4>3
      <4>5. /\ Cardinality(Slots(h, {i}, j)) \in Nat /\ Cardinality(Slots(h, V, j)) \in Nat
            /\ Cardinality(Slots(h, {i}, j)) <= Cardinality(Slots(h, V, j))
        BY <4>1, MoreSlots
      <4>6. Cardinality(Slots(h, V, j)) <= Cardinality(Own(j))
        BY <1>6, <4>3, MoreSlots DEF Own
      <4>7. QED BY <1>2, <1>6, <1>7, <4>4, <4>5, <4>6
    <3>2. Cardinality(Own(j)) <= Cardinality(All(j)) /\ Cardinality(All(j)) + m[j] <= h[j].refs
      BY <1>4, <1>6, <1>7
    <3>3. Cardinality(Own(j)) = Cardinality(All(j)) /\ m[j] = 0
      BY <1>2, <1>4, <1>6, <1>7, <3>1, <3>2
    <3>4. QED BY <1>1, <1>3, <1>6, <1>7, <2>2, <3>3
  <2>3. QED BY <2>1, <2>2
<1>10. ASSUME NEW j \in LiveIn(h) \ D PROVE h[j].refs - Cardinality(Own(j)) - Ref(i, j) \in Nat \ {0}
  <2>1. CASE D = {}
    <3>1. Own(j) = {}
      BY <2>1 DEF Slots, Own
    <3>2. Cardinality(Own(j)) = 0
      BY <3>1, FS_EmptySet
    <3>3. j = i => h[j].refs > 1
      <4>1. i \in With(h, {i}) /\ With(h, {i}) \subseteq With(h, With(h, {i}))
        <5>1. i \in With(h, {i}) /\ With(h, {i}) \subseteq LiveIn(h)
          BY WithMembers
        <5>2. QED BY <5>1, WithMembers
      <4>2. QED BY <2>1, <4>1 DEF Dying
    <3>4. QED BY <1>2, <3>2, <3>3 DEF Ref
  <2>2. CASE D # {}
    <3> DEFINE V == With(h, {i})
    <3>1. V \subseteq LiveIn(h) /\ D = With(h, V)
      BY <2>2, WithMembers DEF Dying
    <3>2. Own(j) = Slots(h, V, j)
      <4>1. Slots(h, With(h, V), j) = Slots(h, V, j)
        BY TwoRounds
      <4>2. QED BY <3>1, <4>1 DEF Own
    <3> HIDE DEF V, D
    <3>3. ~(h[j].refs <= Cardinality(Slots(h, V, j)))
      BY <3>1, WithMembers
    <3>4. j # i
      BY <1>8, <2>2
    <3>5. QED BY <1>2, <1>7, <3>2, <3>3, <3>4 DEF Ref
  <2>3. QED BY <2>1, <2>2
<1>11. /\ DOMAIN g = Ids /\ \A j \in Ids : j \notin LiveIn(h) \ D => g[j] = NULL
       /\ \A j \in LiveIn(h) \ D :
            g[j] = [h[j] EXCEPT !.refs = h[j].refs - Cardinality(Own(j)) - Ref(i, j)]
  <2>1. ASSUME NEW j \in LiveIn(h) \ D
        PROVE  g[j] = [h[j] EXCEPT !.refs = h[j].refs - Cardinality(Own(j)) - (IF j = i THEN 1 ELSE 0)]
    <3>1. j \in Ids /\ ~(h[j] = NULL \/ j \in D)
      BY DEF LiveIn
    <3> HIDE DEF D
    <3>2. QED BY <3>1 DEF Decref, D, Own
  <2>2. \A j : Ref(i, j) = IF j = i THEN 1 ELSE 0
    BY DEF Ref
  <2>3. DOMAIN g = Ids
    BY DEF Decref
  <2>4. ASSUME NEW j \in Ids, j \notin LiveIn(h) \ D PROVE g[j] = NULL
    <3>1. h[j] = NULL \/ j \in D
      BY <2>4 DEF LiveIn
    <3>2. QED BY <3>1 DEF Decref
  <2> HIDE DEF g, D
  <2>5. QED BY <2>1, <2>2, <2>3, <2>4
<1> HIDE DEF g, n, D
<1>12. ASSUME NEW j \in LiveIn(h) \ D
       PROVE  /\ g[j] \in Objects /\ g[j] # NULL /\ g[j].type = h[j].type
              /\ g[j].slots = h[j].slots
              /\ g[j].refs = h[j].refs - Cardinality(Own(j)) - Ref(i, j)
  <2> DEFINE r == h[j].refs - Cardinality(Own(j)) - Ref(i, j)
  <2>1. r \in Nat
    BY <1>10
  <2> HIDE DEF r
  <2>2. g[j] = [h[j] EXCEPT !.refs = r]
    BY <1>11 DEF r
  <2>3. /\ g[j] = [type |-> h[j].type, refs |-> r, slots |-> h[j].slots]
        /\ h[j].type \in {"list", "address", "str"}
        /\ h[j].slots \in Seq(Ids) \/ h[j].slots \in [Pointers -> Ids \cup {NULL, Junk}]
    BY <1>2, <2>2, ObjectHasParts
  <2>4. QED BY <2>1, <2>3, ObjectParts DEF r
<1>13. LiveIn(g) = LiveIn(h) \ D
  BY <1>1, <1>11, <1>12 DEF LiveIn
<1>14. ASSUME NEW j \in Ids PROVE Slots(g, LiveIn(g), j) = All(j) \ Own(j)
  <2>1. ASSUME NEW s PROVE s \in Slots(g, LiveIn(g), j) <=> s \in All(j) /\ s \notin Own(j)
    <3>1. s \in Slots(g, LiveIn(h) \ D, j) <=>
            \E x \in LiveIn(h) \ D : \E k \in DOMAIN h[x].slots : s = <<x, k>> /\ h[x].slots[k] = j
      BY <1>12, InSlots
    <3>2. QED BY <1>6, <1>13, <3>1, InSlots DEF Own, All
  <2>2. QED BY <2>1
<1>15. ASSUME NEW j \in Ids PROVE Uses(g, j) = Cardinality(All(j)) - Cardinality(Own(j))
  <2>1. All(j) \cap Own(j) = Own(j)
    BY <1>7
  <2>2. Cardinality(All(j) \ Own(j)) = Cardinality(All(j)) - Cardinality(All(j) \cap Own(j))
    BY <1>7, FS_Difference
  <2>3. QED BY <1>14, <2>1, <2>2 DEF Uses
<1>16. HeapOK(g)
  <2>1. ASSUME NEW x \in LiveIn(h) \ D, NEW k \in DOMAIN h[x].slots, NEW t, IsIn(h, h[x].slots[k], t)
        PROVE  IsIn(g, h[x].slots[k], t)
    <3> DEFINE j == h[x].slots[k]
    <3>1. <<x, k>> \in All(j)
      BY InSlots DEF All
    <3>2. <<x, k>> \notin Own(j)
      BY InSlots DEF Own
    <3>3. j \in LiveIn(h) \ D
      BY <1>9, <2>1, <3>1, <3>2 DEF IsIn
    <3>4. QED BY <1>12, <1>13, <2>1, <3>3 DEF IsIn
  <2>2. ASSUME NEW x \in LiveIn(h) \ D PROVE ObjectOK(g, g[x])
    <3>1. ObjectOK(h, h[x]) /\ g[x].refs > 0
      BY <1>2, <1>10, <1>12
    <3>2. QED BY <1>12, <2>1, <3>1 DEF ObjectOK, PointerOK
  <2>3. QED BY <1>11, <1>13, <2>2 DEF HeapOK
<1>17. Covered(g, n)
  <2> SUFFICES ASSUME NEW j \in Ids
               PROVE  IF g[j] # NULL THEN g[j].refs >= Uses(g, j) + n[j]
                      ELSE Uses(g, j) + n[j] = 0
    BY DEF Covered
  <2>1. CASE j \in LiveIn(h) \ D
    <3>1. n[j] = m[j] - Ref(i, j)
      BY <1>3, <2>1 DEF Ref
    <3>2. /\ Cardinality(All(j)) \in Nat /\ Cardinality(Own(j)) \in Nat /\ m[j] \in Nat
          /\ h[j].refs \in Nat /\ Cardinality(All(j)) + m[j] <= h[j].refs
          /\ Ref(i, j) \in {0, 1}
      BY <1>2, <1>4, <1>7, <2>1 DEF Ref
    <3>3. QED BY <1>12, <1>15, <2>1, <3>1, <3>2
  <2>2. CASE j \in D
    <3>1. g[j] = NULL /\ n[j] = 0 /\ Own(j) = All(j)
      BY <1>9, <1>11, <2>2
    <3>2. QED BY <1>7, <1>15, <3>1
  <2>3. CASE j \notin LiveIn(h)
    <3>1. g[j] = NULL /\ n[j] = 0 /\ All(j) = {}
      BY <1>3, <1>5, <1>11, <2>3
    <3>2. QED BY <1>14, <3>1, FS_EmptySet DEF Uses
  <2>4. QED BY <2>1, <2>2, <2>3
<1>18. ASSUME NEW j \in LiveIn(h) \ D
       PROVE  g[j].refs <= h[j].refs /\ Surplus(g, n, j) = Surplus(h, m, j)
  <2>1. n[j] = m[j] - Ref(i, j) /\ j \in Ids
    BY <1>1, <1>3 DEF Ref
  <2>2. /\ Cardinality(All(j)) \in Nat /\ Cardinality(Own(j)) \in Nat /\ m[j] \in Nat
        /\ h[j].refs \in Nat /\ Ref(i, j) \in {0, 1}
    BY <1>2, <1>4, <1>7 DEF Ref
  <2>3. Uses(h, j) = Cardinality(All(j))
    BY DEF Uses, All
  <2>4. QED BY <1>12, <1>15, <2>1, <2>2, <2>3 DEF Surplus
<1>19. QED BY <1>3, <1>9, <1>12, <1>13, <1>16, <1>17, <1>18 DEF g, n, D, Released

-----------------------------------------------------------------------------
(***************************************************************************)
(* References from outside of the heap.                                    *)
(***************************************************************************)
Items(s, i) == Cardinality({k \in DOMAIN s : s[k] = i})
CallRefs(c, i) == Ref(c.list, i) + Ref(c.addr, i) + Items(c.lists, i)

\* The references that the program and the running call have to each object.
Outer(hd, c) == [i \in Ids |-> hd[i] + CallRefs(c, i)]

\* How often a sequence mentions an object is a number.
LEMMA ItemsNat ==
  ASSUME NEW S, NEW s \in Seq(S), NEW i
  PROVE  Items(s, i) \in Nat
<1>1. IsFiniteSet(DOMAIN s)
  <2>1. DOMAIN s = 1..Len(s) /\ Len(s) \in Nat
    OBVIOUS
  <2>2. QED BY <2>1, FS_Interval
<1>2. IsFiniteSet({k \in DOMAIN s : s[k] = i})
  BY <1>1, FS_Subset
<1>3. QED BY <1>2, FS_CardinalityType DEF Items

\* The empty sequence mentions nothing.
LEMMA ItemsEmpty == \A i : Items(<<>>, i) = 0
<1>1. \A i : {k \in DOMAIN <<>> : <<>>[k] = i} = {}
  OBVIOUS
<1>2. QED BY <1>1, FS_EmptySet DEF Items

\* Append mentions one object once more.
LEMMA ItemsAppend ==
  ASSUME NEW S, NEW s \in Seq(S), NEW x \in S, NEW i
  PROVE  Items(Append(s, x), i) = Items(s, i) + Ref(x, i)
<1> DEFINE n == Len(s)
           u == Append(s, x)
           A == {k \in DOMAIN s : s[k] = i}
           B == {k \in DOMAIN u : u[k] = i}
<1>1. /\ u \in Seq(S) /\ n \in Nat /\ DOMAIN s = 1..n /\ DOMAIN u = 1..(n + 1)
      /\ u[n + 1] = x /\ \A k \in 1..n : u[k] = s[k]
  OBVIOUS
<1> HIDE DEF u, n
<1>2. IsFiniteSet(A) /\ IsFiniteSet(B)
  <2>1. IsFiniteSet(1..n) /\ IsFiniteSet(1..(n + 1))
    BY <1>1, FS_Interval
  <2>2. A \subseteq 1..n /\ B \subseteq 1..(n + 1)
    BY <1>1
  <2>3. QED BY <2>1, <2>2, FS_Subset
<1>3. n + 1 \notin A /\ (n + 1 \in B <=> x = i)
  BY <1>1
<1>4. A \ {n + 1} = B \ {n + 1}
  BY <1>1
<1> HIDE DEF A, B
<1>5. /\ Cardinality(A) \in Nat
      /\ Cardinality(B) = Cardinality(A) + (IF n + 1 \in B THEN 1 ELSE 0)
                                         - (IF n + 1 \in A THEN 1 ELSE 0)
  BY <1>2, <1>4, OneElement
<1>6. Cardinality(B) = Cardinality(A) + Ref(x, i)
  BY <1>3, <1>5 DEF Ref
<1>7. QED BY <1>6 DEF A, B, u, Items

\* An item that is there is counted.
LEMMA ItemsPositive ==
  ASSUME NEW S, NEW s \in Seq(S), NEW k \in DOMAIN s
  PROVE  Items(s, s[k]) > 0
<1> DEFINE A == {l \in DOMAIN s : s[l] = s[k]}
<1>1. IsFiniteSet(DOMAIN s)
  <2>1. DOMAIN s = 1..Len(s) /\ Len(s) \in Nat
    OBVIOUS
  <2>2. QED BY <2>1, FS_Interval
<1>2. IsFiniteSet(A) /\ A # {}
  BY <1>1, FS_Subset
<1> HIDE DEF A
<1>3. Cardinality(A) \in Nat /\ Cardinality(A) # 0
  BY <1>2, FS_CardinalityType, FS_EmptySet
<1>4. QED BY <1>3 DEF A, Items

\* The two pointers of a call hold at most one reference each.
LEMMA FieldRefs ==
  ASSUME NEW c, NEW i
  PROVE  Cardinality({f \in {"list", "addr"} : c[f] = i}) = Ref(c.list, i) + Ref(c.addr, i)
<1> DEFINE A == {f \in {"list", "addr"} : c[f] = i}
<1>1. A = (IF c.list = i THEN {"list"} ELSE {}) \cup (IF c.addr = i THEN {"addr"} ELSE {})
  OBVIOUS
<1> HIDE DEF A
<1>2. /\ Cardinality({}) = 0 /\ Cardinality({"list"}) = 1 /\ Cardinality({"addr"}) = 1
      /\ Cardinality({"list"} \cup {"addr"}) = 2
  <2>1. IsFiniteSet({"list"}) /\ Cardinality({"list"}) = 1 /\ Cardinality({"addr"}) = 1
    BY FS_Singleton
  <2>2. Cardinality({"list"} \cup {"addr"}) = 2
    BY <2>1, FS_AddElement
  <2>3. QED BY <2>1, <2>2, FS_EmptySet
<1>3. CASE c.list = i /\ c.addr = i
  <2>1. A = {"list"} \cup {"addr"}
    BY <1>1, <1>3
  <2>2. QED BY <1>2, <1>3, <2>1 DEF A, Ref
<1>4. CASE c.list = i /\ c.addr # i
  <2>1. A = {"list"}
    BY <1>1, <1>4
  <2>2. QED BY <1>2, <1>4, <2>1 DEF A, Ref
<1>5. CASE c.list # i /\ c.addr = i
  <2>1. A = {"addr"}
    BY <1>1, <1>5
  <2>2. QED BY <1>2, <1>5, <2>1 DEF A, Ref
<1>6. CASE c.list # i /\ c.addr # i
  <2>1. A = {}
    BY <1>1, <1>6
  <2>2. QED BY <1>2, <1>6, <2>1 DEF A, Ref
<1>7. QED BY <1>3, <1>4, <1>5, <1>6

\* No object is lost on the way from h, with m references from outside, to g,
\* with n.
Lossless(h, m, g, n) ==
  \A i \in LiveIn(g) :
    Surplus(g, n, i) = IF i \in LiveIn(h) THEN Surplus(h, m, i) ELSE 0

\* What was covered is covered if references and holders change together.
LEMMA Balanced ==
  ASSUME NEW h, NEW m, NEW g, NEW n, HeapOK(h), HeapOK(g), m \in [Ids -> Nat],
         n \in [Ids -> Nat], Covered(h, m), LiveIn(h) \subseteq LiveIn(g),
         \A i \in LiveIn(h) : g[i].refs + Uses(h, i) + m[i] = h[i].refs + Uses(g, i) + n[i],
         \A i \in LiveIn(g) \ LiveIn(h) : g[i].refs = Uses(g, i) + n[i],
         \A i \in Ids \ LiveIn(g) : Uses(g, i) + n[i] = Uses(h, i) + m[i]
  PROVE  Covered(g, n) /\ Lossless(h, m, g, n)
<1>1. \A i \in LiveIn(h) : h[i].refs \in Nat
  BY ObjectHasParts DEF HeapOK, ObjectOK
<1>2. \A i \in LiveIn(g) : g[i].refs \in Nat
  BY ObjectHasParts DEF HeapOK, ObjectOK
<1>3. \A i \in Ids : Uses(h, i) \in Nat /\ Uses(g, i) \in Nat /\ m[i] \in Nat /\ n[i] \in Nat
  BY UsesNat
<1>4. \A i \in LiveIn(h) : i \in Ids /\ i \in LiveIn(g) /\ h[i].refs >= Uses(h, i) + m[i]
  BY DEF LiveIn, Covered
<1>5. \A i \in LiveIn(h) : g[i].refs >= Uses(g, i) + n[i]
  BY <1>1, <1>2, <1>3, <1>4
<1>6. \A i \in LiveIn(g) : i \in Ids /\ g[i].refs >= Uses(g, i) + n[i]
  BY <1>2, <1>3, <1>5 DEF LiveIn
<1>7. \A i \in Ids \ LiveIn(g) : Uses(g, i) + n[i] = 0
  BY <1>4 DEF Covered, LiveIn
<1>8. Covered(g, n)
  BY <1>6, <1>7 DEF Covered, LiveIn
<1>9. ASSUME NEW i \in LiveIn(g)
      PROVE  Surplus(g, n, i) = IF i \in LiveIn(h) THEN Surplus(h, m, i) ELSE 0
  <2>1. CASE i \in LiveIn(h)
    <3>1. /\ g[i].refs + Uses(h, i) + m[i] = h[i].refs + Uses(g, i) + n[i]
          /\ g[i].refs \in Nat /\ h[i].refs \in Nat /\ i \in Ids
      BY <1>1, <1>2, <1>4, <2>1
    <3>2. Uses(h, i) \in Nat /\ Uses(g, i) \in Nat /\ m[i] \in Nat /\ n[i] \in Nat
      BY <1>3, <3>1
    <3>3. g[i].refs - Uses(g, i) - n[i] = h[i].refs - Uses(h, i) - m[i]
      BY <3>1, <3>2
    <3>4. QED BY <2>1, <3>3 DEF Surplus
  <2>2. CASE i \notin LiveIn(h)
    BY <1>2, <1>3, <1>6, <2>2 DEF Surplus
  <2>3. QED BY <2>1, <2>2
<1>10. QED BY <1>8, <1>9 DEF Lossless

\* Fewer references from outside are covered too.
LEMMA FewerCovered ==
  ASSUME NEW h, NEW m, NEW n, HeapOK(h), m \in [Ids -> Nat], n \in [Ids -> Nat],
         Covered(h, m), \A i \in Ids : n[i] <= m[i]
  PROVE  Covered(h, n)
<1>1. \A i \in LiveIn(h) : h[i].refs \in Nat
  BY ObjectHasParts DEF HeapOK, ObjectOK
<1>2. \A i \in Ids : Uses(h, i) \in Nat /\ m[i] \in Nat /\ n[i] \in Nat
  BY UsesNat
<1>3. ASSUME NEW i \in Ids, h[i] # NULL PROVE h[i].refs >= Uses(h, i) + n[i]
  BY <1>1, <1>2, <1>3 DEF Covered, LiveIn
<1>4. ASSUME NEW i \in Ids, h[i] = NULL PROVE Uses(h, i) + n[i] = 0
  BY <1>2, <1>4 DEF Covered
<1>5. QED BY <1>3, <1>4 DEF Covered

-----------------------------------------------------------------------------
(***************************************************************************)
(* The call in progress.                                                   *)
(***************************************************************************)
CallFields == {"pc", "op", "todo", "dump", "list", "addr", "lists", "exc"}
Converting == {"local", "peer", "broadcast", "scope", "append", "error"}
Building == Converting \cup {"next"}
Resting == {"idle", "crashed"}

\* The pointers that have been assigned when the conversion is at a step.
Assigned ==
  [local |-> {}, peer |-> {"local"}, broadcast |-> {"local", "peer"},
   scope |-> {"local", "peer", "ipv4_broadcast"}, append |-> Pointers]

\* The address under construction has just these, the local address among
\* them; if it lacks its scope in the end an exception is set.
StageOK(h, c) ==
  c.pc \in Converting \ {"error"} =>
    LET p == h[c.addr].slots IN
      /\ \A k \in Pointers : p[k] = Junk <=> k \notin Assigned[c.pc]
      /\ c.pc # "local" => IsIn(h, p.local, "str")
      /\ c.pc = "append" => IsIn(h, p.scope, "str") \/ c.exc = TRUE

\* All other addresses are complete.
NoJunk(h, c) ==
  c.pc # "crashed" => \A a \in LiveIn(h) \ {c.addr} : h[a].type = "address" =>
    \A k \in Pointers : h[a].slots[k] # Junk

\* All but __str__() ask for one list.
OneList(c) ==
  c.op # "__str__" =>
    /\ c.pc = "list" => c.lists = <<>> /\ Tail(c.todo) = <<>>
    /\ c.pc \in Building => c.lists = <<>> /\ c.todo = <<>>
    /\ c.pc = "return" => Len(c.lists) = 1

FieldsOK(c) ==
  /\ DOMAIN c = CallFields /\ c.exc \in BOOLEAN
  /\ c.pc \in Resting \cup Building \cup {"list", "return"}
  /\ c.pc \in Resting => c.lists = <<>>
  /\ c.pc \notin Resting => c.op \in Ops
  /\ c.lists \in Seq(Ids \cup {NULL})
  /\ IF c.pc \in Building THEN c.list \in Ids ELSE c.list = NULL
  /\ IF c.pc \in Converting THEN c.addr \in Ids ELSE c.addr = NULL
  /\ OneList(c)

\* The objects that the call works on.
RefsOK(h, c) ==
  /\ \A k \in DOMAIN c.lists : c.lists[k] # NULL => IsIn(h, c.lists[k], "list")
  /\ c.pc \in Building => IsIn(h, c.list, "list")
  /\ c.pc \in Converting => IsIn(h, c.addr, "address") /\ h[c.addr].refs = 1

CallOK(h, c) == FieldsOK(c) /\ RefsOK(h, c) /\ StageOK(h, c) /\ NoJunk(h, c)

Good(h, hd, c) ==
  HeapOK(h) /\ hd \in [Ids -> Nat] /\ CallOK(h, c) /\ Covered(h, Outer(hd, c))

Inv == Good(heap, held, call)

\* The references from outside of the heap are numbers.
LEMMA OuterOK ==
  ASSUME NEW hd, NEW c, hd \in [Ids -> Nat], FieldsOK(c)
  PROVE  /\ Outer(hd, c) \in [Ids -> Nat]
         /\ \A i \in Ids : /\ Outer(hd, c)[i] = hd[i] + CallRefs(c, i)
                           /\ CallRefs(c, i) \in Nat /\ Items(c.lists, i) \in Nat
<1>1. \A i : Items(c.lists, i) \in Nat
  BY ItemsNat DEF FieldsOK
<1>2. \A i : CallRefs(c, i) \in Nat
  BY <1>1 DEF CallRefs, Ref
<1>3. QED BY <1>1, <1>2 DEF Outer

\* A call that has come to its end holds nothing.
LEMMA RestingRefs ==
  ASSUME NEW c, FieldsOK(c), c.pc \in Resting
  PROVE  \A i \in Ids : CallRefs(c, i) = 0
<1>1. c.list = NULL /\ c.addr = NULL /\ c.lists = <<>>
  BY DEF FieldsOK, Resting, Building, Converting
<1>2. \A i \in Ids : Ref(NULL, i) = 0
  BY IdsAssumption DEF Ref
<1>3. QED BY <1>1, <1>2, ItemsEmpty DEF CallRefs

\* A call that has not begun is in order.
LEMMA IdleFields == FieldsOK(Idle) /\ Idle.pc = "idle" /\ Idle.lists = <<>>
BY DEF Idle, FieldsOK, CallFields, Resting, Building, Converting, OneList

\* And so is one that has ended in a crash.
LEMMA CrashFields ==
  LET c == [Idle EXCEPT !.pc = "crashed"]
  IN  FieldsOK(c) /\ c.pc = "crashed" /\ c.lists = <<>>
BY DEF Idle, FieldsOK, CallFields, Resting, Building, Converting, OneList

\* A crash leaves the heap as it is.
LEMMA CrashOK ==
  ASSUME NEW hd \in [Ids -> Nat], Inv, Crash, \A i \in Ids : hd[i] <= held[i]
  PROVE  Good(heap', hd, call') /\ call'.pc = "crashed"
<1> DEFINE c == [Idle EXCEPT !.pc = "crashed"]
<1>1. call' = c /\ heap' = heap
  BY DEF Crash
<1>2. FieldsOK(c) /\ c.pc = "crashed" /\ c.lists = <<>>
  BY CrashFields
<1> HIDE DEF c
<1>3. CallOK(heap, c)
  BY <1>2 DEF CallOK, RefsOK, StageOK, NoJunk, Building, Converting
<1>4. Covered(heap, Outer(hd, c))
  <2>1. \A i \in Ids : CallRefs(c, i) = 0
    BY <1>2, RestingRefs DEF Resting
  <2>2. \A i \in Ids : Outer(hd, c)[i] <= Outer(held, call)[i]
    BY <2>1, <1>2, OuterOK DEF Inv, Good, CallOK
  <2>3. QED BY <1>2, <2>2, OuterOK, FewerCovered DEF Inv, Good, CallOK
<1>5. QED BY <1>1, <1>2, <1>3, <1>4 DEF Good, Inv

-----------------------------------------------------------------------------
(***************************************************************************)
(* The steps of a call.                                                    *)
(***************************************************************************)
KeepsAll == Lossless(heap, Outer(held, call), heap', Outer(held', call'))

\* Only the call changes, and holds what it held before.
LEMMA SameRefs ==
  ASSUME Inv, NEW c, heap' = heap, held' = held, call' = c, CallOK(heap, c),
         \A i \in Ids : CallRefs(c, i) = CallRefs(call, i)
  PROVE  Good(heap', held', call') /\ KeepsAll
<1>1. Outer(held, c) = Outer(held, call)
  BY DEF Outer
<1>2. \A i \in LiveIn(heap) : Surplus(heap, Outer(held, c), i) = Surplus(heap, Outer(held, call), i)
  BY <1>1
<1>3. QED BY <1>1, <1>2 DEF Inv, Good, KeepsAll, Lossless

\* A call begins.
LEMMA BeginOK ==
  ASSUME Inv, NEW op \in Ops, Begin(op)
  PROVE  Good(heap', held', call') /\ KeepsAll
<1> DEFINE c == [Idle EXCEPT !.pc = "list", !.op = op, !.todo = Families(op)]
<1>1. call' = c /\ heap' = heap /\ held' = held /\ call.pc = "idle"
  BY DEF Begin, At
<1>2. op # "__str__" => Tail(Families(op)) = <<>>
  BY DEF Families
<1>3. /\ FieldsOK(c) /\ c.pc = "list" /\ c.lists = <<>> /\ c.list = NULL /\ c.addr = NULL
  BY <1>2 DEF Idle, FieldsOK, CallFields, Resting, Building, Converting, OneList
<1> HIDE DEF c
<1>4. CallOK(heap, c)
  <2>1. NoJunk(heap, c)
    BY <1>1, <1>3 DEF Inv, Good, CallOK, FieldsOK, NoJunk, Building, Converting
  <2>2. QED BY <1>3, <2>1 DEF CallOK, RefsOK, StageOK, Building, Converting
<1>5. \A i \in Ids : CallRefs(c, i) = CallRefs(call, i)
  <2>1. call.list = NULL /\ call.addr = NULL /\ call.lists = <<>>
    BY <1>1 DEF Inv, Good, CallOK, FieldsOK, Resting, Building, Converting
  <2>2. QED BY <1>3, <2>1 DEF CallRefs
<1>6. QED BY <1>1, <1>4, <1>5, SameRefs

\* get_etherinfo_address() ends with its list, or with NULL.
LEMMA FinishOK ==
  ASSUME Inv, NEW c, DOMAIN c = CallFields, c.exc \in BOOLEAN, c.op \in Ops,
         c.op # "__str__" => c.todo = <<>> /\ c.lists = <<>>,
         c.lists = call.lists, c.addr = NULL, call.addr = NULL,
         call.pc \in {"list", "next"},
         NEW x, x = call.list, heap' = heap, held' = held, call' = Finish(c, x)
  PROVE  Good(heap', held', call') /\ KeepsAll
<1> DEFINE d == Finish(c, x)
<1>1. /\ DOMAIN d = CallFields /\ d.exc = c.exc /\ d.op = c.op /\ d.todo = c.todo
      /\ d.pc = (IF c.todo = <<>> THEN "return" ELSE "list") /\ d.list = NULL
      /\ d.addr = NULL /\ d.lists = Append(call.lists, x)
  BY DEF Finish, CallFields
<1> HIDE DEF d
<1>2. /\ call.lists \in Seq(Ids \cup {NULL}) /\ x \in Ids \cup {NULL}
      /\ \A k \in DOMAIN call.lists : call.lists[k] # NULL => IsIn(heap, call.lists[k], "list")
      /\ x # NULL => IsIn(heap, x, "list")
  BY DEF Inv, Good, CallOK, FieldsOK, RefsOK, Building
<1>3. /\ d.lists \in Seq(Ids \cup {NULL}) /\ Len(d.lists) = Len(call.lists) + 1
      /\ \A k \in DOMAIN d.lists : d.lists[k] # NULL => IsIn(heap, d.lists[k], "list")
  <2>1. /\ d.lists \in Seq(Ids \cup {NULL}) /\ Len(d.lists) = Len(call.lists) + 1
        /\ \A k \in DOMAIN d.lists : (k \in DOMAIN call.lists /\ d.lists[k] = call.lists[k])
                                      \/ d.lists[k] = x
    BY <1>1, <1>2
  <2>2. QED BY <1>2, <2>1
<1>4. OneList(d)
  <2>1. c.op # "__str__" => d.pc = "return" /\ Len(call.lists) = 0
    BY <1>1
  <2>2. QED BY <1>1, <1>3, <2>1 DEF OneList, Building, Converting
<1>5. FieldsOK(d)
  BY <1>1, <1>3, <1>4 DEF FieldsOK, Resting, Building, Converting
<1>6. CallOK(heap, d)
  <2>1. NoJunk(heap, d)
    BY <1>1 DEF Inv, Good, CallOK, NoJunk
  <2>2. d.pc \notin Building
    BY <1>1 DEF Building, Converting
  <2>3. QED BY <1>3, <1>5, <2>1, <2>2 DEF CallOK, RefsOK, StageOK, Building
<1>7. \A i \in Ids : CallRefs(d, i) = CallRefs(call, i)
  <2> SUFFICES ASSUME NEW i \in Ids PROVE CallRefs(d, i) = CallRefs(call, i)
    OBVIOUS
  <2>1. Items(d.lists, i) = Items(call.lists, i) + Ref(x, i) /\ Items(call.lists, i) \in Nat
    BY <1>1, <1>2, ItemsAppend, ItemsNat
  <2>2. Ref(NULL, i) = 0 /\ Ref(x, i) \in Nat
    BY IdsAssumption DEF Ref
  <2>3. QED BY <1>1, <2>1, <2>2 DEF CallRefs
<1>8. QED BY <1>6, <1>7, SameRefs DEF d

\* PyList_New fails.
LEMMA ListFailsOK ==
  ASSUME Inv, ListFails
  PROVE  Good(heap', held', call') /\ (call'.pc = "crashed" \/ KeepsAll)
<1> DEFINE c == [call EXCEPT !.todo = Tail(@), !.exc = TRUE]
<1>1. call.pc = "list" /\ held' = held
  BY DEF ListFails, At
<1>2. /\ DOMAIN call = CallFields /\ call.op \in Ops /\ call.list = NULL /\ call.addr = NULL
      /\ call.op # "__str__" => call.lists = <<>> /\ Tail(call.todo) = <<>>
      /\ held \in [Ids -> Nat]
  BY <1>1 DEF Inv, Good, CallOK, FieldsOK, OneList, Resting, Building, Converting
<1>3. /\ DOMAIN c = CallFields /\ c.exc \in BOOLEAN /\ c.op = call.op
      /\ c.todo = Tail(call.todo) /\ c.lists = call.lists /\ c.addr = NULL
  BY <1>2 DEF CallFields
<1> HIDE DEF c
<1>4. CASE Crash
  <2>1. \A i \in Ids : held[i] <= held[i]
    BY <1>2
  <2>2. QED BY <1>1, <1>2, <1>4, <2>1, CrashOK
<1>5. CASE call' = Finish(c, NULL) /\ heap' = heap
  BY <1>1, <1>2, <1>3, <1>5, FinishOK
<1>6. QED BY <1>4, <1>5 DEF ListFails, c

\* A list is complete.
LEMMA EndListOK ==
  ASSUME Inv, EndList
  PROVE  Good(heap', held', call') /\ KeepsAll
<1>1. /\ call.pc = "next" /\ held' = held /\ heap' = heap /\ call' = Finish(call, call.list)
  BY DEF EndList, At
<1>2. /\ DOMAIN call = CallFields /\ call.op \in Ops /\ call.addr = NULL /\ call.exc \in BOOLEAN
      /\ call.op # "__str__" => call.lists = <<>> /\ call.todo = <<>>
  BY <1>1 DEF Inv, Good, CallOK, FieldsOK, OneList, Resting, Building, Converting
<1>3. QED BY <1>1, <1>2, FinishOK

\* The callback is done with an address: what becomes of the call.
LEMMA NextFields ==
  ASSUME Inv, call.pc \in Building, NEW c, DOMAIN c = CallFields, c.exc \in BOOLEAN,
         c.op = call.op, c.todo = call.todo, c.list = call.list, c.lists = call.lists
  PROVE  LET d == NextAddress(c) IN
           /\ FieldsOK(d) /\ d.pc = "next" /\ d.list = call.list /\ d.lists = call.lists
           /\ d.addr = NULL /\ d.exc = c.exc /\ d.op = call.op
           /\ \A i \in Ids : CallRefs(call, i) = CallRefs(d, i) + Ref(call.addr, i)
<1> DEFINE d == NextAddress(c)
<1>1. /\ DOMAIN d = CallFields /\ d.exc = c.exc /\ d.op = call.op /\ d.todo = call.todo
      /\ d.pc = "next" /\ d.list = call.list /\ d.addr = NULL /\ d.lists = call.lists
  BY DEF NextAddress, CallFields
<1> HIDE DEF d
<1>2. FieldsOK(d)
  BY <1>1 DEF Inv, Good, CallOK, FieldsOK, OneList, Resting, Building, Converting
<1>3. \A i \in Ids : CallRefs(call, i) = CallRefs(d, i) + Ref(call.addr, i)
  <2>1. \A i \in Ids : Ref(NULL, i) = 0 /\ Ref(call.addr, i) \in Nat /\ Ref(call.list, i) \in Nat
    BY IdsAssumption DEF Ref
  <2>2. \A i \in Ids : Items(call.lists, i) \in Nat
    BY OuterOK DEF Inv, Good, CallOK
  <2>3. QED BY <1>1, <2>1, <2>2 DEF CallRefs
<1>4. QED BY <1>1, <1>2, <1>3 DEF d

\* PyObject_New fails.
LEMMA NewAddressFailsOK ==
  ASSUME Inv, NewAddressFails
  PROVE  Good(heap', held', call') /\ KeepsAll
<1> DEFINE c == [call EXCEPT !.exc = TRUE]
           d == NextAddress(c)
<1>1. call.pc = "next" /\ held' = held /\ heap' = heap /\ call' = d
  BY DEF NewAddressFails, At
<1>2. call.addr = NULL /\ DOMAIN call = CallFields /\ RefsOK(heap, call) /\ NoJunk(heap, call)
  BY <1>1 DEF Inv, Good, CallOK, FieldsOK, Building, Converting
<1>3. /\ DOMAIN c = CallFields /\ c.exc \in BOOLEAN /\ c.op = call.op /\ c.todo = call.todo
      /\ c.list = call.list /\ c.lists = call.lists
  BY <1>2 DEF CallFields
<1> HIDE DEF c
<1>4. /\ FieldsOK(d) /\ d.pc = "next" /\ d.list = call.list /\ d.lists = call.lists
      /\ d.addr = NULL
      /\ \A i \in Ids : CallRefs(call, i) = CallRefs(d, i) + Ref(call.addr, i)
  BY <1>1, <1>3, NextFields DEF Building
<1> HIDE DEF d
<1>5. CallOK(heap, d)
  BY <1>1, <1>2, <1>4 DEF CallOK, RefsOK, NoJunk, StageOK, Building, Converting
<1>6. \A i \in Ids : CallRefs(d, i) = CallRefs(call, i)
  <2>1. \A i \in Ids : Ref(call.addr, i) = 0 /\ CallRefs(d, i) \in Nat
    BY <1>2, <1>4, IdsAssumption, OuterOK DEF Ref, Inv, Good
  <2>2. QED BY <1>4, <2>1
<1>7. QED BY <1>1, <1>5, <1>6, SameRefs

\* Where a new object goes.
LEMMA PlaceOK ==
  ASSUME Free # {}
  PROVE  Place \in Ids /\ Place \notin LiveIn(heap) /\ Live = LiveIn(heap)
BY DEF Place, Free, Live, LiveIn

\* New objects of each type.
LEMMA FreshObjects ==
  ASSUME NEW type, NEW slots,
         \/ type \in {"list", "str"} /\ slots = <<>>
         \/ type = "address" /\ slots = Uninitialised
  PROVE  LET o == Object(type, slots) IN
           Fresh(o) /\ o.type = type /\ o.refs = 1 /\ o.slots = slots
<1> DEFINE o == Object(type, slots)
<1>1. slots = <<>> \/ (DOMAIN slots = Pointers /\ \A k \in Pointers : slots[k] = Junk)
  BY DEF Uninitialised, Pointers
<1>2. slots \in Seq(Ids) \/ slots \in [Pointers -> Ids \cup {NULL, Junk}]
  <2>1. Uninitialised \in [Pointers -> Ids \cup {NULL, Junk}]
    BY DEF Uninitialised, Pointers
  <2>2. <<>> \in Seq(Ids)
    OBVIOUS
  <2>3. QED BY <2>1, <2>2
<1>3. /\ o \in Objects /\ o # NULL /\ o.type = type /\ o.refs = 1 /\ o.slots = slots
  BY <1>2, ObjectParts DEF Object
<1> HIDE DEF o
<1>4. \A k \in DOMAIN o.slots : o.slots[k] \notin Ids
  BY <1>1, <1>3, IdsAssumption
<1>5. \A g : ObjectOK(g, o)
  <2>1. type = "address" => slots \in [Pointers -> Ids \cup {NULL, Junk}]
                            /\ \A k \in Pointers : slots[k] = Junk
    BY DEF Uninitialised, Pointers
  <2>2. CASE type = "address"
    BY <1>3, <2>1, <2>2 DEF ObjectOK, PointerOK
  <2>3. CASE type # "address"
    <3>1. slots = <<>> /\ <<>> \in Seq(Ids) /\ \A k \in DOMAIN <<>> : FALSE
      BY <2>3
    <3>2. QED BY <1>3, <2>3, <3>1 DEF ObjectOK
  <2>4. QED BY <2>2, <2>3
<1>6. QED BY <1>3, <1>4, <1>5 DEF o, Fresh

\* An object is made, and somebody, in the call or in the program, has it.
LEMMA Allocated ==
  ASSUME Inv, Free # {}, NEW type, NEW slots,
         \/ type \in {"list", "str"} /\ slots = <<>>
         \/ type = "address" /\ slots = Uninitialised,
         NEW hd \in [Ids -> Nat], NEW c, FieldsOK(c),
         \A i \in Ids : hd[i] + CallRefs(c, i) = held[i] + CallRefs(call, i) + Ref(Place, i)
  PROVE  LET g == [heap EXCEPT ![Place] = Object(type, slots)] IN
           /\ HeapOK(g) /\ Grown(heap, g, Place, Object(type, slots))
           /\ Covered(g, Outer(hd, c))
           /\ Lossless(heap, Outer(held, call), g, Outer(hd, c))
<1> DEFINE o == Object(type, slots)
           g == [heap EXCEPT ![Place] = o]
           m == Outer(held, call)
           n == Outer(hd, c)
<1>1. Fresh(o) /\ o.refs = 1
  BY FreshObjects
<1> HIDE DEF o
<1>2. /\ HeapOK(heap) /\ m \in [Ids -> Nat] /\ n \in [Ids -> Nat] /\ Covered(heap, m)
      /\ \A i \in Ids : n[i] = m[i] + Ref(Place, i)
  BY OuterOK DEF Inv, Good, CallOK
<1>3. Place \in Ids \ LiveIn(heap)
  BY PlaceOK
<1> HIDE DEF m, n
<1>g. HeapOK(g) /\ Grown(heap, g, Place, o) /\ m[Place] = 0
  BY <1>1, <1>2, <1>3, NewObject
<1> HIDE DEF g
<1>4. /\ HeapOK(g) /\ LiveIn(g) = LiveIn(heap) \cup {Place}
      /\ g[Place] = o /\ m[Place] = 0 /\ Uses(g, Place) = 0
      /\ \A i \in Ids : Uses(g, i) = Uses(heap, i)
      /\ \A i \in Ids \ {Place} : g[i] = heap[i]
  BY <1>g DEF Grown
<1>5. Covered(g, n) /\ Lossless(heap, m, g, n)
  <2>1. ASSUME NEW i \in LiveIn(heap)
        PROVE  g[i].refs + Uses(heap, i) + m[i] = heap[i].refs + Uses(g, i) + n[i]
    <3>1. i \in Ids /\ i # Place
      BY <1>3 DEF LiveIn
    <3>2. g[i] = heap[i] /\ Uses(g, i) = Uses(heap, i) /\ n[i] = m[i] + Ref(Place, i)
      BY <1>2, <1>4, <3>1
    <3>3. Ref(Place, i) = 0 /\ m[i] \in Nat
      BY <1>2, <3>1 DEF Ref
    <3>4. QED BY <3>2, <3>3
  <2>2. ASSUME NEW i \in LiveIn(g) \ LiveIn(heap) PROVE g[i].refs = Uses(g, i) + n[i]
    <3>1. i = Place
      BY <1>4
    <3>2. n[Place] = 1
      BY <1>2, <1>3, <1>4 DEF Ref
    <3>3. QED BY <1>1, <1>4, <3>1, <3>2
  <2>3. ASSUME NEW i \in Ids \ LiveIn(g) PROVE Uses(g, i) + n[i] = Uses(heap, i) + m[i]
    <3>1. i # Place /\ m[i] \in Nat
      BY <1>2, <1>4
    <3>2. Ref(Place, i) = 0
      BY <3>1 DEF Ref
    <3>3. QED BY <1>2, <1>4, <3>1, <3>2
  <2>4. QED BY <1>2, <1>4, <2>1, <2>2, <2>3, Balanced
<1>6. QED BY <1>g, <1>5 DEF g, m, n, o

\* PyList_New returns a list.
LEMMA NewListOK ==
  ASSUME Inv, NewList
  PROVE  Good(heap', held', call') /\ KeepsAll
<1>1. PICK dump : call' = [call EXCEPT !.pc = "next", !.todo = Tail(@), !.dump = dump,
                                        !.list = Place]
  BY DEF NewList
<1> DEFINE c == [call EXCEPT !.pc = "next", !.todo = Tail(@), !.dump = dump, !.list = Place]
           g == [heap EXCEPT ![Place] = Object("list", <<>>)]
<1>2. call' = c /\ heap' = g /\ held' = held /\ call.pc = "list" /\ Free # {}
  BY <1>1 DEF NewList, At
<1>3. /\ FieldsOK(call) /\ RefsOK(heap, call) /\ NoJunk(heap, call)
      /\ call.list = NULL /\ call.addr = NULL /\ held \in [Ids -> Nat]
  BY <1>2 DEF Inv, Good, CallOK, FieldsOK, Building, Converting
<1>4. /\ DOMAIN c = CallFields /\ c.pc = "next" /\ c.todo = Tail(call.todo)
      /\ c.list = Place /\ c.addr = NULL /\ c.lists = call.lists /\ c.op = call.op
      /\ c.exc = call.exc
  BY <1>3 DEF FieldsOK, CallFields
<1>5. Place \in Ids /\ Place \notin LiveIn(heap)
  BY <1>2, PlaceOK
<1> HIDE DEF c
<1>6. FieldsOK(c)
  BY <1>2, <1>3, <1>4, <1>5 DEF FieldsOK, OneList, Resting, Building, Converting
<1>7. \A i \in Ids : held[i] + CallRefs(c, i) = held[i] + CallRefs(call, i) + Ref(Place, i)
  <2>1. \A i \in Ids : Ref(NULL, i) = 0 /\ Ref(Place, i) \in Nat
    BY IdsAssumption DEF Ref
  <2>2. \A i \in Ids : Items(call.lists, i) \in Nat /\ held[i] \in Nat
    BY <1>3, OuterOK
  <2>3. QED BY <1>3, <1>4, <2>1, <2>2 DEF CallRefs
<1>g. /\ HeapOK(g) /\ Grown(heap, g, Place, Object("list", <<>>))
      /\ Covered(g, Outer(held, c))
      /\ Lossless(heap, Outer(held, call), g, Outer(held, c))
  BY <1>2, <1>3, <1>6, <1>7, Allocated
<1>8. /\ LiveIn(g) = LiveIn(heap) \cup {Place}
      /\ g[Place] = Object("list", <<>>) /\ \A i \in Ids \ {Place} : g[i] = heap[i]
  BY <1>g DEF Grown
<1>9. g[Place].type = "list"
  BY <1>8 DEF Object
<1> HIDE DEF g
<1>10. \A x \in LiveIn(heap) : x \in LiveIn(g) /\ g[x] = heap[x]
  BY <1>5, <1>8 DEF LiveIn
<1>11. CallOK(g, c)
  <2>1. RefsOK(g, c)
    <3>1. \A k \in DOMAIN call.lists : call.lists[k] # NULL => IsIn(g, call.lists[k], "list")
      BY <1>3, <1>10 DEF RefsOK, IsIn
    <3>2. IsIn(g, Place, "list")
      BY <1>8, <1>9 DEF IsIn
    <3>3. QED BY <1>4, <3>1, <3>2 DEF RefsOK, Building, Converting
  <2>2. NoJunk(g, c)
    BY <1>2, <1>3, <1>4, <1>8, <1>9, <1>10 DEF NoJunk
  <2>3. QED BY <1>4, <1>6, <2>1, <2>2 DEF CallOK, StageOK, Converting
<1>12. QED BY <1>2, <1>3, <1>g, <1>11 DEF Good, KeepsAll

\* PyObject_New returns an address whose pointers are uninitialised.
LEMMA NewAddressOK ==
  ASSUME Inv, NewAddress
  PROVE  Good(heap', held', call') /\ KeepsAll
<1> DEFINE c == [call EXCEPT !.pc = "local", !.addr = Place]
           g == [heap EXCEPT ![Place] = Object("address", Uninitialised)]
<1>1. call' = c /\ heap' = g /\ held' = held /\ call.pc = "next" /\ Free # {}
  BY DEF NewAddress, At
<1>2. /\ FieldsOK(call) /\ RefsOK(heap, call) /\ NoJunk(heap, call)
      /\ call.addr = NULL /\ held \in [Ids -> Nat]
  BY <1>1 DEF Inv, Good, CallOK, FieldsOK, Building, Converting
<1>3. /\ DOMAIN c = CallFields /\ c.pc = "local" /\ c.todo = call.todo
      /\ c.list = call.list /\ c.addr = Place /\ c.lists = call.lists /\ c.op = call.op
      /\ c.exc = call.exc
  BY <1>2 DEF FieldsOK, CallFields
<1>4. Place \in Ids /\ Place \notin LiveIn(heap)
  BY <1>1, PlaceOK
<1> HIDE DEF c
<1>5. FieldsOK(c)
  BY <1>1, <1>2, <1>3, <1>4 DEF FieldsOK, OneList, Resting, Building, Converting
<1>6. \A i \in Ids : held[i] + CallRefs(c, i) = held[i] + CallRefs(call, i) + Ref(Place, i)
  <2>1. \A i \in Ids : Ref(NULL, i) = 0 /\ Ref(Place, i) \in Nat /\ Ref(call.list, i) \in Nat
    BY IdsAssumption DEF Ref
  <2>2. \A i \in Ids : Items(call.lists, i) \in Nat /\ held[i] \in Nat
    BY <1>2, OuterOK
  <2>3. QED BY <1>2, <1>3, <2>1, <2>2 DEF CallRefs
<1>g. /\ HeapOK(g) /\ Grown(heap, g, Place, Object("address", Uninitialised))
      /\ Covered(g, Outer(held, c))
      /\ Lossless(heap, Outer(held, call), g, Outer(held, c))
  BY <1>1, <1>2, <1>5, <1>6, Allocated
<1>7. /\ LiveIn(g) = LiveIn(heap) \cup {Place}
      /\ g[Place] = Object("address", Uninitialised) /\ \A i \in Ids \ {Place} : g[i] = heap[i]
  BY <1>g DEF Grown
<1>8. g[Place].type = "address" /\ g[Place].refs = 1 /\ g[Place].slots = Uninitialised
  BY <1>7 DEF Object
<1> HIDE DEF g
<1>9. \A x \in LiveIn(heap) : x \in LiveIn(g) /\ g[x] = heap[x]
  BY <1>4, <1>7 DEF LiveIn
<1>10. CallOK(g, c)
  <2>1. RefsOK(g, c)
    <3>1. \A k \in DOMAIN call.lists : call.lists[k] # NULL => IsIn(g, call.lists[k], "list")
      BY <1>2, <1>9 DEF RefsOK, IsIn
    <3>2. IsIn(g, Place, "address") /\ IsIn(g, call.list, "list")
      BY <1>1, <1>2, <1>7, <1>8, <1>9 DEF IsIn, RefsOK, Building
    <3>3. QED BY <1>3, <1>8, <3>1, <3>2 DEF RefsOK
  <2>2. NoJunk(g, c)
    <3>1. \A a \in LiveIn(heap) : heap[a].type = "address" =>
            \A k \in Pointers : heap[a].slots[k] # Junk
      BY <1>1, <1>2, IdsAssumption DEF NoJunk, LiveIn
    <3>2. \A a \in LiveIn(g) \ {Place} : a \in LiveIn(heap) /\ g[a] = heap[a]
      BY <1>7, <1>9
    <3>3. QED BY <1>3, <3>1, <3>2 DEF NoJunk
  <2>3. StageOK(g, c)
    BY <1>3, <1>8 DEF StageOK, Assigned, Uninitialised, Pointers
  <2>4. QED BY <1>5, <2>1, <2>2, <2>3 DEF CallOK
<1>11. QED BY <1>1, <1>2, <1>g, <1>10 DEF Good, KeepsAll

-----------------------------------------------------------------------------
(***************************************************************************)
(* The conversion.                                                         *)
(***************************************************************************)

\* The address under construction belongs to the callback alone.
LEMMA Ours ==
  ASSUME NEW h, NEW hd, NEW c, Good(h, hd, c), c.pc \in Converting
  PROVE  /\ c.addr \in Ids /\ IsIn(h, c.addr, "address")
         /\ h[c.addr].refs = 1 /\ Uses(h, c.addr) = 0
         /\ hd[c.addr] = 0 /\ Outer(hd, c)[c.addr] = 1
<1> DEFINE a == c.addr
<1>1. a \in Ids /\ IsIn(h, a, "address") /\ h[a].refs = 1 /\ h[a] # NULL
  BY DEF Good, CallOK, FieldsOK, RefsOK, IsIn, LiveIn
<1>2. h[a].refs >= Uses(h, a) + Outer(hd, c)[a]
  BY <1>1 DEF Good, Covered
<1>3. Outer(hd, c)[a] = hd[a] + CallRefs(c, a) /\ hd[a] \in Nat
  BY <1>1, OuterOK DEF Good, CallOK
<1>4. CallRefs(c, a) = Ref(c.list, a) + 1 + Items(c.lists, a)
  BY DEF CallRefs, Ref
<1>5. Items(c.lists, a) \in Nat /\ Ref(c.list, a) \in Nat /\ Uses(h, a) \in Nat
  BY <1>1, OuterOK, UsesNat DEF Good, CallOK, Ref
<1>6. QED BY <1>1, <1>2, <1>3, <1>4, <1>5

\* The address that is being built is known to the call alone.
LEMMA OnlyOurs ==
  ASSUME Inv, call.pc \in Converting
  PROVE  /\ call.addr \in Ids /\ IsIn(heap, call.addr, "address")
         /\ heap[call.addr].refs = 1 /\ Uses(heap, call.addr) = 0
         /\ held[call.addr] = 0 /\ Outer(held, call)[call.addr] = 1
BY Ours DEF Inv

\* The call goes on as c when the pointer f has been assigned x: the steps of
\* the conversion.
Onwards(c, f, x) ==
  /\ call.pc \in Converting \ {"append", "error"} /\ c.pc \in Converting
  /\ f \in Pointers \ Assigned[call.pc] /\ (call.pc = "local" => f = "local")
  /\ DOMAIN c = CallFields /\ c.exc \in BOOLEAN /\ c.op = call.op /\ c.todo = call.todo
  /\ c.list = call.list /\ c.addr = call.addr /\ c.lists = call.lists
  /\ call.exc = TRUE => c.exc = TRUE
  /\ c.pc # "error" =>
       /\ c.pc # "local" /\ Assigned[c.pc] = Assigned[call.pc] \cup {f}
       /\ f = "local" => x # NULL
  /\ c.pc = "append" => f = "scope" /\ (x # NULL \/ c.exc = TRUE)

\* New strings are all that is new in g.
MoreStrings(h, g) ==
  /\ \A y \in LiveIn(h) : y \in LiveIn(g) /\ g[y] = h[y]
  /\ \A y \in LiveIn(g) \ LiveIn(h) : g[y].type = "str"

\* The pointer f is assigned x, in a heap g that may hold new strings.
LEMMA Converted ==
  ASSUME Inv, NEW g, HeapOK(g), MoreStrings(heap, g),
         NEW f, NEW x, x # Junk, PointerOK(g, x), NEW c, Onwards(c, f, x)
  PROVE  LET k == [g EXCEPT ![call.addr].slots[f] = x] IN
           /\ HeapOK(k) /\ Repointed(g, k, call.addr, f, x) /\ CallOK(k, c)
           /\ heap[call.addr].slots[f] = Junk
           /\ \A i \in Ids : CallRefs(c, i) = CallRefs(call, i)
<1> DEFINE a == call.addr
           k == [g EXCEPT ![a].slots[f] = x]
<1>o. /\ call.pc \in Converting \ {"append", "error"} /\ c.pc \in Converting
      /\ f \in Pointers \ Assigned[call.pc] /\ (call.pc = "local" => f = "local")
      /\ DOMAIN c = CallFields /\ c.exc \in BOOLEAN /\ c.op = call.op /\ c.todo = call.todo
      /\ c.list = call.list /\ c.addr = a /\ c.lists = call.lists
      /\ c.pc # "error" =>
           /\ c.pc # "local" /\ Assigned[c.pc] = Assigned[call.pc] \cup {f}
           /\ f = "local" => x # NULL
      /\ c.pc = "append" => f = "scope" /\ (x # NULL \/ c.exc = TRUE)
      /\ x # NULL => IsIn(g, x, "str")
      /\ \A y \in LiveIn(heap) : y \in LiveIn(g) /\ g[y] = heap[y]
      /\ \A y \in LiveIn(g) \ LiveIn(heap) : g[y].type = "str"
  BY DEF Onwards, PointerOK, MoreStrings
<1>1. /\ FieldsOK(call) /\ RefsOK(heap, call) /\ StageOK(heap, call) /\ NoJunk(heap, call)
      /\ a \in Ids /\ IsIn(heap, a, "address") /\ heap[a].refs = 1 /\ call.pc # "crashed"
  BY <1>o, OnlyOurs DEF Inv, Good, CallOK, Converting
<1>2. IsIn(g, a, "address") /\ g[a] = heap[a]
  BY <1>o, <1>1 DEF IsIn
<1>3. HeapOK(k) /\ Repointed(g, k, a, f, x)
  BY <1>o, <1>2, SetPointer
<1>4. /\ LiveIn(k) = LiveIn(g) /\ k[a].slots[f] = x
      /\ \A j \in Pointers \ {f} : k[a].slots[j] = heap[a].slots[j]
      /\ \A i \in LiveIn(g) : k[i].type = g[i].type /\ k[i].refs = g[i].refs
      /\ \A i \in Ids \ {a} : k[i] = g[i]
  BY <1>o, <1>2, <1>3 DEF Repointed
<1> HIDE DEF k
<1>5. FieldsOK(c)
  BY <1>o, <1>1 DEF FieldsOK, OneList, Resting, Building, Converting
<1>6. /\ \A y, t : IsIn(heap, y, t) => IsIn(k, y, t)
      /\ \A y, t : IsIn(g, y, t) => IsIn(k, y, t)
  BY <1>o, <1>4 DEF IsIn
<1>7. RefsOK(k, c)
  <2>1. k[a].refs = 1
    BY <1>1, <1>2, <1>4 DEF IsIn
  <2>2. QED BY <1>o, <1>1, <1>6, <2>1 DEF RefsOK, Building
<1>8. /\ \A j \in Pointers : heap[a].slots[j] = Junk <=> j \notin Assigned[call.pc]
      /\ call.pc # "local" => IsIn(heap, heap[a].slots.local, "str")
  BY <1>o, <1>1 DEF StageOK
<1>9. StageOK(k, c)
  <2> SUFFICES ASSUME c.pc # "error"
               PROVE  /\ \A j \in Pointers : k[a].slots[j] = Junk <=> j \notin Assigned[c.pc]
                      /\ IsIn(k, k[a].slots.local, "str")
                      /\ c.pc = "append" => IsIn(k, k[a].slots.scope, "str") \/ c.exc = TRUE
    BY <1>o DEF StageOK
  <2>1. \A j \in Pointers : k[a].slots[j] = Junk <=> j \notin Assigned[c.pc]
    BY <1>o, <1>4, <1>8
  <2>2. IsIn(k, k[a].slots.local, "str")
    <3>1. CASE f = "local"
      BY <1>o, <1>4, <1>6, <3>1
    <3>2. CASE f # "local"
      BY <1>o, <1>4, <1>6, <1>8, <3>2 DEF Pointers
    <3>3. QED BY <3>1, <3>2
  <2>3. c.pc = "append" => IsIn(k, k[a].slots.scope, "str") \/ c.exc = TRUE
    BY <1>o, <1>4, <1>6
  <2>4. QED BY <2>1, <2>2, <2>3
<1>10. NoJunk(k, c)
  <2>1. ASSUME NEW y \in LiveIn(k) \ {a}, k[y].type = "address"
        PROVE  y \in LiveIn(heap) /\ k[y] = heap[y]
    <3>1. k[y] = g[y] /\ y \in LiveIn(g)
      BY <1>4 DEF LiveIn
    <3>2. QED BY <1>o, <2>1, <3>1
  <2>2. QED BY <1>o, <1>1, <2>1 DEF NoJunk
<1>11. heap[a].slots[f] = Junk
  BY <1>o, <1>8
<1>12. \A i \in Ids : CallRefs(c, i) = CallRefs(call, i)
  BY <1>o DEF CallRefs
<1>13. CallOK(k, c)
  BY <1>5, <1>7, <1>9, <1>10 DEF CallOK
<1>14. QED BY <1>3, <1>11, <1>12, <1>13 DEF k

\* Only the address under construction changes.
Converts ==
  /\ held' = held /\ call'.pc \in Converting /\ call'.addr = call.addr
  /\ call'.list = call.list /\ call'.lists = call.lists /\ call.pc \in Converting
  /\ call.exc = TRUE => call'.exc = TRUE
  /\ \A y \in LiveIn(heap') \ {call.addr} :
       heap'[y].type = "str" \/ (y \in LiveIn(heap) /\ heap'[y] = heap[y])

\* The pointer is null.
LEMMA AssignedNull ==
  ASSUME Inv, NEW f, NEW c, Onwards(c, f, NULL), held' = held, call' = c,
         heap' = [heap EXCEPT ![call.addr].slots[f] = NULL]
  PROVE  Good(heap', held', call') /\ KeepsAll /\ Converts
<1> DEFINE k == [heap EXCEPT ![call.addr].slots[f] = NULL]
           m == Outer(held, call)
<1>1. HeapOK(heap) /\ m \in [Ids -> Nat] /\ Covered(heap, m) /\ held \in [Ids -> Nat]
  BY OuterOK DEF Inv, Good, CallOK
<1>2. PointerOK(heap, NULL) /\ NULL # Junk /\ MoreStrings(heap, heap)
  BY IdsAssumption DEF PointerOK, MoreStrings
<1>3. /\ HeapOK(k) /\ Repointed(heap, k, call.addr, f, NULL) /\ CallOK(k, c)
      /\ heap[call.addr].slots[f] = Junk
      /\ \A i \in Ids : CallRefs(c, i) = CallRefs(call, i)
  BY <1>1, <1>2, Converted
<1>4. Outer(held, c) = m
  BY <1>3 DEF Outer
<1> HIDE DEF k, m
<1>5. /\ LiveIn(k) = LiveIn(heap) /\ \A i \in LiveIn(heap) : k[i].refs = heap[i].refs
      /\ \A i \in Ids : Uses(k, i) = Uses(heap, i) + Ref(NULL, i) - Ref(Junk, i)
  BY <1>3 DEF Repointed
<1>6. \A i \in Ids : Uses(k, i) = Uses(heap, i)
  <2>1. \A i \in Ids : Ref(NULL, i) = 0 /\ Ref(Junk, i) = 0 /\ Uses(heap, i) \in Nat
    BY <1>1, IdsAssumption, UsesNat DEF Ref
  <2>2. QED BY <1>5, <2>1
<1>7. Covered(k, m) /\ Lossless(heap, m, k, m)
  <2>1. \A i \in LiveIn(heap) : i \in Ids
    BY DEF LiveIn
  <2>2. QED BY <1>1, <1>3, <1>5, <1>6, <2>1, Balanced
<1>8. Converts
  <2>1. \A y \in LiveIn(k) \ {call.addr} : y \in LiveIn(heap) /\ k[y] = heap[y]
    BY <1>3, <1>5 DEF Repointed, LiveIn
  <2>2. heap' = k
    BY DEF k
  <2>3. QED BY <2>1, <2>2 DEF Converts, Onwards
<1>9. QED BY <1>1, <1>3, <1>4, <1>7, <1>8 DEF Good, KeepsAll, k, m

\* The pointer leads to a new string.
LEMMA AssignedNew ==
  ASSUME Inv, Free # {}, NEW f, NEW c, Onwards(c, f, Place), held' = held, call' = c,
         heap' = [heap EXCEPT ![Place] = Object("str", <<>>),
                              ![call.addr].slots[f] = Place]
  PROVE  Good(heap', held', call') /\ KeepsAll /\ Converts
<1> DEFINE o == Object("str", <<>>)
           g == [heap EXCEPT ![Place] = o]
           k == [g EXCEPT ![call.addr].slots[f] = Place]
           m == Outer(held, call)
<1>1. HeapOK(heap) /\ m \in [Ids -> Nat] /\ Covered(heap, m) /\ held \in [Ids -> Nat]
  BY OuterOK DEF Inv, Good, CallOK
<1>2. Place \in Ids \ LiveIn(heap) /\ Place # NULL /\ Place # Junk
  BY PlaceOK, IdsAssumption
<1>3. Fresh(o) /\ o.refs = 1 /\ o.type = "str"
  BY FreshObjects
<1>4. heap' = k
  OBVIOUS
<1> HIDE DEF o, m
<1>5. HeapOK(g) /\ Grown(heap, g, Place, o) /\ m[Place] = 0
  BY <1>1, <1>2, <1>3, NewObject
<1> HIDE DEF g
<1>6. /\ LiveIn(g) = LiveIn(heap) \cup {Place} /\ g[Place] = o /\ Uses(g, Place) = 0
      /\ \A i \in Ids : Uses(g, i) = Uses(heap, i)
      /\ \A i \in Ids \ {Place} : g[i] = heap[i]
  BY <1>5 DEF Grown
<1>7. PointerOK(g, Place)
  BY <1>3, <1>6 DEF PointerOK, IsIn
<1>8. /\ \A y \in LiveIn(heap) : y \in LiveIn(g) /\ g[y] = heap[y]
      /\ \A y \in LiveIn(g) \ LiveIn(heap) : g[y].type = "str"
  BY <1>2, <1>3, <1>6 DEF LiveIn
<1>m. MoreStrings(heap, g)
  BY <1>8 DEF MoreStrings
<1>9. /\ HeapOK(k) /\ Repointed(g, k, call.addr, f, Place) /\ CallOK(k, c)
      /\ heap[call.addr].slots[f] = Junk
      /\ \A i \in Ids : CallRefs(c, i) = CallRefs(call, i)
  BY <1>2, <1>5, <1>7, <1>m, Converted
<1>10. Outer(held, c) = m
  BY <1>9 DEF Outer, m
<1>11. g[call.addr] = heap[call.addr]
  BY <1>8, OnlyOurs DEF Onwards, IsIn
<1> HIDE DEF k
<1>12. /\ LiveIn(k) = LiveIn(g) /\ \A i \in LiveIn(g) : k[i].refs = g[i].refs
       /\ \A i \in Ids : Uses(k, i) = Uses(g, i) + Ref(Place, i) - Ref(Junk, i)
  BY <1>9, <1>11 DEF Repointed
<1>13. \A i \in Ids : Uses(k, i) = Uses(heap, i) + Ref(Place, i)
  <2>1. \A i \in Ids : Ref(Junk, i) = 0 /\ Uses(heap, i) \in Nat /\ Ref(Place, i) \in Nat
    BY <1>1, IdsAssumption, UsesNat DEF Ref
  <2>2. QED BY <1>6, <1>12, <2>1
<1>14. Covered(k, m) /\ Lossless(heap, m, k, m)
  <2>1. ASSUME NEW i \in LiveIn(heap)
        PROVE  k[i].refs + Uses(heap, i) + m[i] = heap[i].refs + Uses(k, i) + m[i]
    <3>1. i \in Ids /\ i # Place
      BY <1>2 DEF LiveIn
    <3>2. Ref(Place, i) = 0 /\ Uses(heap, i) \in Nat
      BY <1>1, <3>1, UsesNat DEF Ref
    <3>3. QED BY <1>8, <1>12, <1>13, <3>1, <3>2
  <2>2. ASSUME NEW i \in LiveIn(k) \ LiveIn(heap) PROVE k[i].refs = Uses(k, i) + m[i]
    <3>1. i = Place /\ k[i].refs = 1
      BY <1>3, <1>6, <1>12
    <3>2. Uses(k, i) = 1 /\ m[i] = 0
      BY <1>2, <1>5, <1>6, <1>13, <3>1 DEF Ref
    <3>3. QED BY <3>1, <3>2
  <2>3. ASSUME NEW i \in Ids \ LiveIn(k) PROVE Uses(k, i) + m[i] = Uses(heap, i) + m[i]
    <3>1. Ref(Place, i) = 0 /\ Uses(heap, i) \in Nat
      BY <1>1, <1>6, <1>12, UsesNat DEF Ref
    <3>2. QED BY <1>13, <3>1
  <2>4. LiveIn(heap) \subseteq LiveIn(k)
    BY <1>6, <1>12
  <2>5. QED BY <1>1, <1>9, <2>1, <2>2, <2>3, <2>4, Balanced
<1>15. Converts
  <2>1. \A y \in LiveIn(k) \ {call.addr} : y \in LiveIn(g) /\ k[y] = g[y]
    BY <1>9, <1>12 DEF Repointed, LiveIn
  <2>2. \A y \in LiveIn(k) \ {call.addr} :
          k[y].type = "str" \/ (y \in LiveIn(heap) /\ k[y] = heap[y])
    BY <1>8, <2>1
  <2>3. QED BY <1>4, <2>2 DEF Converts, Onwards
<1>16. QED BY <1>1, <1>4, <1>9, <1>10, <1>14, <1>15 DEF Good, KeepsAll, m

\* The pointers in the order in which they are assigned.
Follows(f, pc) ==
  \/ call.pc = "local" /\ f = "local" /\ pc \in {"peer", "error"}
  \/ call.pc = "peer" /\ f = "peer" /\ pc = "broadcast"
  \/ call.pc = "broadcast" /\ f = "ipv4_broadcast" /\ pc \in {"scope", "error"}
  \/ call.pc = "scope" /\ f = "scope" /\ pc = "append"

\* The call is in order after an assignment.
LEMMA FollowsOn ==
  ASSUME Inv, NEW f, NEW pc, Follows(f, pc), NEW c, NEW x,
         DOMAIN c = CallFields, c.pc = pc, c.exc \in BOOLEAN, c.op = call.op,
         c.todo = call.todo, c.list = call.list, c.addr = call.addr, c.lists = call.lists,
         call.exc = TRUE => c.exc = TRUE,
         x # NULL \/ pc = "error" \/ f \notin {"local", "scope"} \/ (f = "scope" /\ c.exc = TRUE)
  PROVE  Onwards(c, f, x)
<1>1. /\ Assigned.local = {} /\ Assigned.peer = {"local"}
      /\ Assigned.broadcast = {"local", "peer"}
      /\ Assigned.scope = {"local", "peer", "ipv4_broadcast"}
      /\ Assigned.append = {"local", "peer", "ipv4_broadcast", "scope"}
  BY DEF Assigned, Pointers
<1>2. CASE call.pc = "local"
  BY <1>1, <1>2 DEF Follows, Onwards, Converting, Pointers
<1>3. CASE call.pc = "peer"
  BY <1>1, <1>3 DEF Follows, Onwards, Converting, Pointers
<1>4. CASE call.pc = "broadcast"
  BY <1>1, <1>4 DEF Follows, Onwards, Converting, Pointers
<1>5. CASE call.pc = "scope"
  BY <1>1, <1>5 DEF Follows, Onwards, Converting, Pointers
<1>6. QED BY <1>2, <1>3, <1>4, <1>5 DEF Follows

\* An assignment that may leave a null pointer behind.
LEMMA AssignOK ==
  ASSUME Inv, NEW f, NEW pc, Follows(f, pc), Assign(f, pc)
  PROVE  Good(heap', held', call') /\ KeepsAll /\ Converts
<1> DEFINE c == [call EXCEPT !.pc = pc]
<1>1. /\ Free # {} /\ held' = held /\ call' = c
      /\ heap' = [heap EXCEPT ![Place] = Object("str", <<>>),
                              ![call.addr].slots[f] = Place]
  BY DEF Assign
<1>2. DOMAIN call = CallFields /\ call.exc \in BOOLEAN
  BY DEF Inv, Good, CallOK, FieldsOK
<1>3. /\ DOMAIN c = CallFields /\ c.pc = pc /\ c.exc = call.exc /\ c.op = call.op
      /\ c.todo = call.todo /\ c.list = call.list /\ c.addr = call.addr
      /\ c.lists = call.lists
  BY <1>2 DEF CallFields
<1> HIDE DEF c
<1>4. Place # NULL
  BY <1>1, PlaceOK, IdsAssumption
<1>5. Onwards(c, f, Place)
  BY <1>2, <1>3, <1>4, FollowsOn
<1>6. QED BY <1>1, <1>5, AssignedNew

\* Without a string the local address ends the conversion; the scope does not,
\* but an exception is set then.
LEMMA NoStringOK ==
  ASSUME Inv, NEW f, NEW pc, Follows(f, pc),
         \/ AssignNull(f, pc) /\ f \in {"peer", "ipv4_broadcast"}
         \/ AssignFails(f, pc) /\ (f = "local" => pc = "error")
  PROVE  Good(heap', held', call') /\ KeepsAll /\ Converts
<1>1. DOMAIN call = CallFields /\ call.exc \in BOOLEAN
  BY DEF Inv, Good, CallOK, FieldsOK
<1>2. CASE AssignNull(f, pc) /\ f \in {"peer", "ipv4_broadcast"}
  <2> DEFINE c == [call EXCEPT !.pc = pc]
  <2>1. /\ held' = held /\ call' = c
        /\ heap' = [heap EXCEPT ![call.addr].slots[f] = NULL]
    BY <1>2 DEF AssignNull
  <2>2. /\ DOMAIN c = CallFields /\ c.pc = pc /\ c.exc = call.exc /\ c.op = call.op
        /\ c.todo = call.todo /\ c.list = call.list /\ c.addr = call.addr
        /\ c.lists = call.lists
    BY <1>1 DEF CallFields
  <2> HIDE DEF c
  <2>3. Onwards(c, f, NULL)
    BY <1>1, <1>2, <2>2, FollowsOn
  <2>4. QED BY <2>1, <2>3, AssignedNull
<1>3. CASE AssignFails(f, pc) /\ (f = "local" => pc = "error")
  <2> DEFINE c == [call EXCEPT !.pc = pc, !.exc = TRUE]
  <2>1. /\ held' = held /\ call' = c
        /\ heap' = [heap EXCEPT ![call.addr].slots[f] = NULL]
    BY <1>3 DEF AssignFails
  <2>2. /\ DOMAIN c = CallFields /\ c.pc = pc /\ c.exc = TRUE /\ c.op = call.op
        /\ c.todo = call.todo /\ c.list = call.list /\ c.addr = call.addr
        /\ c.lists = call.lists
    BY <1>1 DEF CallFields
  <2> HIDE DEF c
  <2>3. Onwards(c, f, NULL)
    BY <1>3, <2>2, FollowsOn DEF Follows
  <2>4. QED BY <2>1, <2>3, AssignedNull
<1>4. QED BY <1>2, <1>3

\* Every conversion keeps the invariant and touches only its own address.
LEMMA ConversionOK ==
  ASSUME Inv, SetLocal \/ SetPeer \/ SetBroadcast \/ SetScope
  PROVE  Good(heap', held', call') /\ KeepsAll /\ Converts
<1>1. CASE SetLocal
  <2>1. Follows("local", "peer") /\ Follows("local", "error")
    BY <1>1 DEF SetLocal, At, Follows
  <2>2. QED BY <1>1, <2>1, AssignOK, NoStringOK DEF SetLocal
<1>2. CASE SetPeer
  <2>1. Follows("peer", "broadcast")
    BY <1>2 DEF SetPeer, At, Follows
  <2>2. Assign("peer", "broadcast") \/ AssignFails("peer", "broadcast") \/ AssignNull("peer", "broadcast")
    BY <1>2 DEF SetPeer
  <2>3. QED BY <2>1, <2>2, AssignOK, NoStringOK
<1>3. CASE SetBroadcast
  <2>1. Follows("ipv4_broadcast", "scope") /\ Follows("ipv4_broadcast", "error")
    BY <1>3 DEF SetBroadcast, At, Follows
  <2>2. \/ Assign("ipv4_broadcast", "scope") \/ AssignFails("ipv4_broadcast", "error")
        \/ AssignNull("ipv4_broadcast", "scope")
    BY <1>3 DEF SetBroadcast
  <2>3. QED BY <2>1, <2>2, AssignOK, NoStringOK
<1>4. CASE SetScope
  <2>1. Follows("scope", "append")
    BY <1>4 DEF SetScope, At, Follows
  <2>2. QED BY <1>4, <2>1, AssignOK, NoStringOK DEF SetScope
<1>5. QED BY <1>1, <1>2, <1>3, <1>4

-----------------------------------------------------------------------------
(***************************************************************************)
(* A reference is given up.                                                *)
(***************************************************************************)

\* Of the references m to the objects, one to i has been given up; the rest is
\* with the program and the call.
OneLess(m, hd, c, i) == \A j \in Ids : m[j] = hd[j] + CallRefs(c, j) + Ref(i, j)

\* The addresses that stay when a reference to i is given up are complete.
Initialised(h, i) ==
  \A a \in LiveIn(h) \ Dying(h, i) : h[a].type = "address" =>
    \A k \in Pointers : h[a].slots[k] # Junk

\* Giving up a reference to something initialised keeps the invariant.
LEMMA GivenUp ==
  ASSUME NEW h, HeapOK(h), NEW m \in [Ids -> Nat], Covered(h, m), NEW i \in LiveIn(h),
         NEW hd \in [Ids -> Nat], NEW c, FieldsOK(c), RefsOK(h, c), c.pc \notin Converting,
         OneLess(m, hd, c, i), Initialised(h, i)
  PROVE  /\ Good(Decref(h, i), hd, c)
         /\ Lossless(h, m, Decref(h, i), Outer(hd, c))
         /\ Released(h, m, Decref(h, i), Outer(hd, c), i)
<1> DEFINE g == Decref(h, i)
           n == [m EXCEPT ![i] = @ - 1]
<1>1. i \in Ids
  BY DEF LiveIn
<1>2. /\ Outer(hd, c) \in [Ids -> Nat]
      /\ \A j \in Ids : /\ m[j] = Outer(hd, c)[j] + Ref(i, j)
                        /\ hd[j] \in Nat /\ CallRefs(c, j) \in Nat /\ Items(c.lists, j) \in Nat
                        /\ Outer(hd, c)[j] = hd[j] + CallRefs(c, j)
  BY OuterOK DEF OneLess
<1>3. m[i] > 0 /\ Outer(hd, c)[i] = m[i] - 1 /\ \A j \in Ids \ {i} : Outer(hd, c)[j] = m[j]
  BY <1>1, <1>2 DEF Ref
<1>4. n = Outer(hd, c)
  BY <1>1, <1>2, <1>3
<1>5. HeapOK(g) /\ Released(h, m, g, n, i)
  BY <1>3, DecrefOK
<1> HIDE DEF g, n
<1>6. /\ LiveIn(g) = LiveIn(h) \ Dying(h, i) /\ Covered(g, n)
      /\ \A j \in Dying(h, i) : n[j] = 0
      /\ \A j \in LiveIn(g) :
           /\ g[j].type = h[j].type /\ g[j].slots = h[j].slots
           /\ Surplus(g, n, j) = Surplus(h, m, j)
  BY <1>5 DEF Released
<1>7. RefsOK(g, c)
  <2>1. ASSUME NEW y \in Ids, IsIn(h, y, "list"), CallRefs(c, y) > 0 PROVE IsIn(g, y, "list")
    <3>1. n[y] > 0
      BY <1>2, <1>4, <2>1
    <3>2. QED BY <1>6, <2>1, <3>1 DEF IsIn
  <2>2. ASSUME NEW k \in DOMAIN c.lists, c.lists[k] # NULL PROVE IsIn(g, c.lists[k], "list")
    <3>1. c.lists \in Seq(Ids \cup {NULL}) /\ c.lists[k] \in Ids /\ IsIn(h, c.lists[k], "list")
      BY <2>2 DEF FieldsOK, RefsOK, IsIn, LiveIn
    <3>2. Items(c.lists, c.lists[k]) > 0
      BY <3>1, ItemsPositive
    <3>3. /\ Items(c.lists, c.lists[k]) \in Nat
          /\ Ref(c.list, c.lists[k]) \in Nat /\ Ref(c.addr, c.lists[k]) \in Nat
      BY <1>2, <3>1 DEF Ref
    <3>4. CallRefs(c, c.lists[k]) > 0
      BY <3>2, <3>3 DEF CallRefs
    <3>5. QED BY <2>1, <3>1, <3>4
  <2>3. ASSUME c.pc \in Building PROVE IsIn(g, c.list, "list")
    <3>1. c.list \in Ids /\ IsIn(h, c.list, "list")
      BY <2>3 DEF FieldsOK, RefsOK
    <3>2. Ref(c.list, c.list) = 1 /\ Ref(c.addr, c.list) \in Nat /\ Items(c.lists, c.list) \in Nat
      BY <1>2, <3>1 DEF Ref
    <3>3. CallRefs(c, c.list) > 0
      BY <3>2 DEF CallRefs
    <3>4. QED BY <2>1, <3>1, <3>3
  <2>4. QED BY <2>2, <2>3 DEF RefsOK
<1>8. NoJunk(g, c)
  BY <1>6 DEF NoJunk, Initialised
<1>9. CallOK(g, c)
  BY <1>7, <1>8 DEF CallOK, StageOK
<1>10. Lossless(h, m, g, n)
  BY <1>6 DEF Lossless
<1>11. QED BY <1>4, <1>5, <1>6, <1>9, <1>10 DEF Good, g

\* Py_DECREF() in the code, which may end the process.
LEMMA ReleaseOK ==
  ASSUME Inv, NEW i \in LiveIn(heap), NEW hd \in [Ids -> Nat], NEW c, FieldsOK(c),
         RefsOK(heap, c), c.pc \notin Converting, Initialised(heap, i),
         OneLess(Outer(held, call), hd, c, i), \A j \in Ids : hd[j] <= held[j],
         Release(heap, i, c), held' = hd
  PROVE  /\ Good(heap', held', call')
         /\ call'.pc = "crashed" \/ KeepsAll
         /\ \/ call'.pc = "crashed" /\ heap' = heap
            \/ call' = c /\ Released(heap, Outer(held, call), heap', Outer(held', call'), i)
<1>1. CASE Crash
  <2>1. heap' = heap
    BY <1>1 DEF Crash
  <2>2. QED BY <1>1, <2>1, CrashOK
<1>2. CASE heap' = Decref(heap, i) /\ call' = c
  <2>1. HeapOK(heap) /\ Outer(held, call) \in [Ids -> Nat] /\ Covered(heap, Outer(held, call))
    BY OuterOK DEF Inv, Good, CallOK
  <2>2. /\ Good(Decref(heap, i), hd, c)
        /\ Lossless(heap, Outer(held, call), Decref(heap, i), Outer(hd, c))
        /\ Released(heap, Outer(held, call), Decref(heap, i), Outer(hd, c), i)
    BY <2>1, GivenUp
  <2>3. QED BY <1>2, <2>2 DEF KeepsAll
<1>3. QED BY <1>1, <1>2 DEF Release

\* With its last reference an object goes.
LEMMA LastReference ==
  ASSUME NEW h, NEW i \in LiveIn(h), h[i].refs = 1
  PROVE  i \in Dying(h, i)
<1>1. {i} \subseteq With(h, {i}) /\ With(h, {i}) \subseteq LiveIn(h)
  BY WithMembers
<1>2. With(h, {i}) \subseteq With(h, With(h, {i}))
  BY <1>1, WithMembers
<1>3. Dying(h, i) = With(h, With(h, {i}))
  BY DEF Dying
<1>4. QED BY <1>1, <1>2, <1>3

\* The callback gives up an address that it cannot convert or append.
Drops ==
  /\ held' = held
  /\ \/ call'.pc = "crashed" /\ heap' = heap
     \/ /\ call.pc \in Converting /\ call'.pc = "next" /\ call'.list = call.list
        /\ call'.lists = call.lists /\ (call.exc = TRUE => call'.exc = TRUE)
        /\ Released(heap, Outer(held, call), heap', Outer(held', call'), call.addr)

\* The error path of new_netlink_address drops the address.
LEMMA DroppedAddress ==
  ASSUME Inv, call.pc \in Converting, NEW c, DOMAIN c = CallFields, c.exc \in BOOLEAN,
         c.op = call.op, c.todo = call.todo, c.list = call.list, c.lists = call.lists,
         call.exc = TRUE => c.exc = TRUE,
         Release(heap, call.addr, NextAddress(c)), held' = held
  PROVE  Good(heap', held', call') /\ (call'.pc = "crashed" \/ KeepsAll) /\ Drops
<1> DEFINE d == NextAddress(c)
           a == call.addr
<1>1. /\ FieldsOK(d) /\ d.pc = "next" /\ d.list = call.list /\ d.lists = call.lists
      /\ d.exc = c.exc
      /\ \A i \in Ids : CallRefs(call, i) = CallRefs(d, i) + Ref(a, i)
  BY NextFields DEF Building
<1>2. /\ RefsOK(heap, call) /\ NoJunk(heap, call) /\ call.pc # "crashed" /\ FieldsOK(call)
      /\ held \in [Ids -> Nat] /\ \A j \in Ids : held[j] <= held[j]
  BY DEF Inv, Good, CallOK, Converting
<1>3. a \in LiveIn(heap) /\ heap[a].refs = 1
  BY OnlyOurs DEF IsIn
<1>4. Initialised(heap, a)
  <2>1. a \in Dying(heap, a)
    BY <1>3, LastReference
  <2>2. QED BY <1>2, <2>1 DEF Initialised, NoJunk
<1> HIDE DEF d
<1>5. RefsOK(heap, d) /\ d.pc \notin Converting
  BY <1>1, <1>2 DEF RefsOK, Building, Converting
<1>6. OneLess(Outer(held, call), held, d, a)
  <2>1. ASSUME NEW j \in Ids PROVE Outer(held, call)[j] = held[j] + CallRefs(d, j) + Ref(a, j)
    <3>1. /\ Outer(held, call)[j] = held[j] + CallRefs(call, j) /\ held[j] \in Nat
          /\ CallRefs(call, j) = CallRefs(d, j) + Ref(a, j)
      BY <1>1, <1>2, OuterOK
    <3>2. CallRefs(d, j) \in Nat /\ Ref(a, j) \in Nat
      BY <1>1, <1>2, OuterOK DEF Ref
    <3>3. QED BY <3>1, <3>2
  <2>2. QED BY <2>1 DEF OneLess
<1>7. Release(heap, a, d)
  BY DEF d
<1> HIDE DEF a
<1>8. /\ Good(heap', held', call') /\ (call'.pc = "crashed" \/ KeepsAll)
      /\ \/ call'.pc = "crashed" /\ heap' = heap
         \/ call' = d /\ Released(heap, Outer(held, call), heap', Outer(held', call'), a)
  BY <1>1, <1>2, <1>3, <1>4, <1>5, <1>6, <1>7, ReleaseOK
<1>9. QED BY <1>1, <1>8 DEF Drops, a

\* A conversion fails.
LEMMA ConversionFailsOK ==
  ASSUME Inv, ConversionFails
  PROVE  Good(heap', held', call') /\ (call'.pc = "crashed" \/ KeepsAll) /\ Drops
<1>1. /\ call.pc \in Converting /\ Release(heap, call.addr, NextAddress(call))
      /\ held' = held
  BY DEF ConversionFails, At, Converting
<1>2. DOMAIN call = CallFields /\ call.exc \in BOOLEAN
  BY DEF Inv, Good, CallOK, FieldsOK
<1>3. QED BY <1>1, <1>2, DroppedAddress

\* PyList_Append fails.
LEMMA AppendFailsOK ==
  ASSUME Inv, AppendFails
  PROVE  Good(heap', held', call') /\ (call'.pc = "crashed" \/ KeepsAll) /\ Drops
<1> DEFINE c == [call EXCEPT !.exc = TRUE]
<1>1. call.pc \in Converting /\ Release(heap, call.addr, NextAddress(c)) /\ held' = held
  BY DEF AppendFails, At, Converting
<1>2. DOMAIN call = CallFields
  BY DEF Inv, Good, CallOK, FieldsOK
<1>3. /\ DOMAIN c = CallFields /\ c.exc = TRUE /\ c.op = call.op /\ c.todo = call.todo
      /\ c.list = call.list /\ c.lists = call.lists
  BY <1>2 DEF CallFields
<1> HIDE DEF c
<1>4. QED BY <1>1, <1>3, DroppedAddress

\* PyList_Append() and Py_DECREF(): the list has the address now.
Appended ==
  /\ LiveIn(heap') = LiveIn(heap)
  /\ heap'[call.list].slots = Append(heap[call.list].slots, call.addr)
  /\ \A y \in LiveIn(heap) :
       heap'[y].type = heap[y].type /\ (y # call.list => heap'[y].slots = heap[y].slots)

\* PyList_Append succeeds, and the address is the list's alone.
LEMMA AppendAddressOK ==
  ASSUME Inv, AppendAddress
  PROVE  Good(heap', held', call') /\ KeepsAll /\ Appended
<1> DEFINE a == call.addr
           l == call.list
           k == [heap EXCEPT ![l].slots = Append(@, a)]
           h == Incref(k, a)
           d == NextAddress(call)
           m == Outer(held, call)
<1>1. /\ heap' = Decref([heap EXCEPT ![l].slots = Append(@, a), ![a].refs = @ + 1], a)
      /\ call' = d /\ held' = held /\ call.pc = "append"
  BY DEF AppendAddress, At
<1>2. heap' = Decref(h, a)
  BY <1>1 DEF Incref
<1>3. /\ RefsOK(heap, call) /\ FieldsOK(call) /\ NoJunk(heap, call) /\ StageOK(heap, call)
      /\ HeapOK(heap) /\ Covered(heap, m) /\ held \in [Ids -> Nat] /\ m \in [Ids -> Nat]
      /\ call.pc \in Building /\ call.pc \in Converting
  BY <1>1, OuterOK DEF Inv, Good, CallOK, Building, Converting
<1>4. IsIn(heap, l, "list") /\ IsIn(heap, a, "address") /\ heap[a].refs = 1 /\ a \in Ids /\ l # a
  BY <1>3, OnlyOurs DEF RefsOK, IsIn
<1>5. /\ FieldsOK(d) /\ d.pc = "next" /\ d.list = l /\ d.lists = call.lists
      /\ \A i \in Ids : CallRefs(call, i) = CallRefs(d, i) + Ref(a, i)
  BY <1>3, NextFields DEF FieldsOK
<1>6. HeapOK(k) /\ Extended(heap, k, l, a)
  BY <1>3, <1>4, AddItem
<1> HIDE DEF k
<1>7. /\ LiveIn(k) = LiveIn(heap) /\ k[l].slots = Append(heap[l].slots, a)
      /\ \A i \in LiveIn(heap) : k[i].type = heap[i].type /\ k[i].refs = heap[i].refs
      /\ \A i \in Ids \ {l} : k[i] = heap[i]
      /\ \A i \in Ids : Uses(k, i) = Uses(heap, i) + Ref(a, i)
  BY <1>6 DEF Extended
<1>8. a \in LiveIn(k)
  BY <1>4, <1>7 DEF IsIn
<1>9. HeapOK(h) /\ Counted(k, h, a)
  BY <1>6, <1>8, IncrefOK
<1> HIDE DEF h, m, d
<1>10. /\ LiveIn(h) = LiveIn(heap) /\ h[a].refs = 2
       /\ h[l].slots = Append(heap[l].slots, a)
       /\ \A i \in LiveIn(heap) : h[i].type = heap[i].type
       /\ \A i \in LiveIn(heap) : h[i].refs = heap[i].refs + Ref(a, i)
       /\ \A i \in Ids \ {l} : h[i].slots = heap[i].slots \/ i \notin LiveIn(heap)
       /\ \A i \in Ids : Uses(h, i) = Uses(heap, i) + Ref(a, i)
  <2>1. /\ LiveIn(h) = LiveIn(k) /\ h[a].refs = k[a].refs + 1
        /\ \A i \in LiveIn(k) : h[i].type = k[i].type /\ h[i].slots = k[i].slots
        /\ \A i \in Ids \ {a} : h[i] = k[i]
        /\ \A i \in Ids : Uses(h, i) = Uses(k, i)
    BY <1>9 DEF Counted
  <2>2. k[a].refs = 1 /\ h[a].refs = 2
    BY <1>4, <1>7, <2>1 DEF IsIn
  <2>3. ASSUME NEW i \in LiveIn(heap) PROVE h[i].refs = heap[i].refs + Ref(a, i)
    <3>1. i \in Ids /\ heap[i].refs \in Nat
      BY <1>3, ObjectHasParts DEF LiveIn, HeapOK, ObjectOK
    <3>2. CASE i = a
      BY <1>4, <2>2, <3>2 DEF Ref
    <3>3. CASE i # a
      BY <1>7, <2>1, <3>1, <3>3 DEF Ref
    <3>4. QED BY <3>2, <3>3
  <2>4. \A i \in Ids \ {l} : h[i].slots = heap[i].slots \/ i \notin LiveIn(heap)
    BY <1>7, <2>1
  <2>5. h[l].slots = Append(heap[l].slots, a)
    BY <1>4, <1>7, <2>1 DEF IsIn
  <2>6. QED BY <1>7, <2>1, <2>2, <2>3, <2>4, <2>5
<1>11. Covered(h, m) /\ Lossless(heap, m, h, m)
  <2>1. ASSUME NEW i \in LiveIn(heap)
        PROVE  h[i].refs + Uses(heap, i) + m[i] = heap[i].refs + Uses(h, i) + m[i]
    <3>1. i \in Ids /\ heap[i].refs \in Nat /\ Uses(heap, i) \in Nat /\ Ref(a, i) \in Nat /\ m[i] \in Nat
      BY <1>3, ObjectHasParts, UsesNat DEF LiveIn, HeapOK, ObjectOK, Ref
    <3>2. h[i].refs = heap[i].refs + Ref(a, i) /\ Uses(h, i) = Uses(heap, i) + Ref(a, i)
      BY <1>10, <3>1
    <3>3. QED BY <3>1, <3>2
  <2>2. ASSUME NEW i \in Ids \ LiveIn(h) PROVE Uses(h, i) + m[i] = Uses(heap, i) + m[i]
    <3>1. Ref(a, i) = 0 /\ Uses(heap, i) \in Nat
      BY <1>3, <1>4, <1>10, UsesNat DEF Ref, IsIn
    <3>2. QED BY <1>10, <3>1
  <2>3. QED BY <1>3, <1>9, <1>10, <2>1, <2>2, Balanced
<1>12. Initialised(h, a)
  <2>1. \A k0 \in Pointers : heap[a].slots[k0] # Junk
    BY <1>1, <1>3 DEF StageOK, Converting, Assigned
  <2>2. ASSUME NEW y \in LiveIn(h), h[y].type = "address"
        PROVE  y # l /\ h[y].slots = heap[y].slots /\ heap[y].type = "address" /\ y \in LiveIn(heap)
    BY <1>4, <1>10, <2>2 DEF IsIn, LiveIn
  <2>3. QED BY <1>1, <1>3, <2>1, <2>2 DEF Initialised, NoJunk
<1>13. RefsOK(h, d) /\ d.pc \notin Converting
  BY <1>3, <1>5, <1>10 DEF RefsOK, IsIn, Building, Converting
<1>14. OneLess(m, held, d, a)
  <2>1. ASSUME NEW j \in Ids PROVE m[j] = held[j] + CallRefs(d, j) + Ref(a, j)
    <3>1. m[j] = held[j] + CallRefs(call, j) /\ CallRefs(call, j) = CallRefs(d, j) + Ref(a, j)
      BY <1>3, <1>5, OuterOK DEF m
    <3>2. held[j] \in Nat /\ CallRefs(d, j) \in Nat /\ Ref(a, j) \in Nat
      BY <1>3, <1>5, OuterOK DEF Ref
    <3>3. QED BY <3>1, <3>2
  <2>2. QED BY <2>1 DEF OneLess
<1>15. a \in LiveIn(h)
  BY <1>4, <1>10 DEF IsIn
<1> HIDE DEF a
<1>16. /\ Good(Decref(h, a), held, d) /\ Lossless(h, m, Decref(h, a), Outer(held, d))
       /\ Released(h, m, Decref(h, a), Outer(held, d), a)
  BY <1>3, <1>5, <1>9, <1>11, <1>12, <1>13, <1>14, <1>15, GivenUp
<1>17. Dying(h, a) = {}
  BY <1>10 DEF Dying
<1>18. Lossless(heap, m, Decref(h, a), Outer(held, d))
  BY <1>10, <1>11, <1>16 DEF Lossless, LiveIn, Decref
<1>19. Appended
  <2>1. /\ LiveIn(heap') = LiveIn(h)
        /\ \A j \in LiveIn(h) : heap'[j].type = h[j].type /\ heap'[j].slots = h[j].slots
    BY <1>2, <1>16, <1>17 DEF Released
  <2>2. l \in LiveIn(h)
    BY <1>4, <1>10 DEF IsIn
  <2>3. \A y \in LiveIn(heap) : y \in Ids
    BY DEF LiveIn
  <2>4. QED BY <1>10, <2>1, <2>2, <2>3 DEF Appended, a
<1>20. QED BY <1>1, <1>2, <1>16, <1>18, <1>19 DEF KeepsAll, m, a

-----------------------------------------------------------------------------
(***************************************************************************)
(* Results.                                                                *)
(***************************************************************************)

\* What the program and the call refer to is in hand: as a state that is good
\* but for the call, which goes on as before.  With pieces new objects may be
\* lost.
Handed(g, hd, pieces) ==
  /\ HeapOK(g) /\ hd \in [Ids -> Nat] /\ Covered(g, Outer(hd, call))
  /\ \A i \in LiveIn(g) :
       \/ Surplus(g, Outer(hd, call), i) =
            IF i \in LiveIn(heap) THEN Surplus(heap, Outer(held, call), i) ELSE 0
       \/ pieces = TRUE /\ i \notin LiveIn(heap)
  /\ \A y \in LiveIn(heap) : /\ y \in LiveIn(g) /\ g[y].type = heap[y].type
                             /\ g[y].slots = heap[y].slots
  /\ \A y \in LiveIn(g) \ LiveIn(heap) : g[y].type = "str"

\* Nothing changes hands.
LEMMA HandedNothing ==
  ASSUME Inv
  PROVE  Handed(heap, held, FALSE)
BY DEF Handed, Inv, Good

\* The program gets one reference.
LEMMA HoldOne ==
  ASSUME NEW x \in Ids, held \in [Ids -> Nat]
  PROVE  LET hd == [held EXCEPT ![x] = @ + 1] IN
           /\ hd \in [Ids -> Nat] /\ \A i \in Ids : hd[i] = held[i] + Ref(x, i)
<1> DEFINE hd == [held EXCEPT ![x] = @ + 1]
<1>1. hd \in [Ids -> Nat] /\ hd[x] = held[x] + 1 /\ \A i \in Ids \ {x} : hd[i] = held[i]
  OBVIOUS
<1> HIDE DEF hd
<1>2. \A i \in Ids : hd[i] = held[i] + Ref(x, i)
  <2>1. \A i \in Ids : held[i] \in Nat
    OBVIOUS
  <2>2. QED BY <1>1, <2>1 DEF Ref
<1>3. QED BY <1>1, <1>2 DEF hd

\* The program gets a reference to an object that is there.
LEMMA HandedOld ==
  ASSUME Inv, NEW x \in LiveIn(heap)
  PROVE  Handed(Incref(heap, x), [held EXCEPT ![x] = @ + 1], FALSE)
<1> DEFINE g == Incref(heap, x)
           hd == [held EXCEPT ![x] = @ + 1]
           m == Outer(held, call)
           n == Outer(hd, call)
<1>1. /\ HeapOK(heap) /\ held \in [Ids -> Nat] /\ FieldsOK(call) /\ m \in [Ids -> Nat]
      /\ Covered(heap, m) /\ x \in Ids
      /\ \A i \in Ids : m[i] = held[i] + CallRefs(call, i) /\ CallRefs(call, i) \in Nat
  BY OuterOK DEF Inv, Good, CallOK, LiveIn
<1>2. hd \in [Ids -> Nat] /\ \A i \in Ids : hd[i] = held[i] + Ref(x, i)
  BY <1>1, HoldOne
<1>3. HeapOK(g) /\ Counted(heap, g, x)
  BY <1>1, IncrefOK
<1> HIDE DEF g, hd
<1>4. n \in [Ids -> Nat] /\ \A i \in Ids : n[i] = hd[i] + CallRefs(call, i)
  BY <1>1, <1>2, OuterOK
<1> HIDE DEF m, n
<1>5. \A i \in Ids : n[i] = m[i] + Ref(x, i)
  <2>1. \A i \in Ids : held[i] \in Nat /\ CallRefs(call, i) \in Nat /\ Ref(x, i) \in Nat
    BY <1>1 DEF Ref
  <2>2. QED BY <1>1, <1>2, <1>4, <2>1
<1>6. /\ LiveIn(g) = LiveIn(heap) /\ g[x].refs = heap[x].refs + 1
      /\ \A i \in LiveIn(heap) : g[i].type = heap[i].type /\ g[i].slots = heap[i].slots
      /\ \A i \in Ids \ {x} : g[i] = heap[i]
      /\ \A i \in Ids : Uses(g, i) = Uses(heap, i)
  BY <1>3 DEF Counted
<1>7. Covered(g, n) /\ Lossless(heap, m, g, n)
  <2>1. ASSUME NEW i \in LiveIn(heap)
        PROVE  g[i].refs + Uses(heap, i) + m[i] = heap[i].refs + Uses(g, i) + n[i]
    <3>1. /\ i \in Ids /\ heap[i].refs \in Nat /\ Uses(heap, i) \in Nat /\ m[i] \in Nat
      BY <1>1, ObjectHasParts, UsesNat DEF LiveIn, HeapOK, ObjectOK
    <3>2. n[i] = m[i] + Ref(x, i) /\ Uses(g, i) = Uses(heap, i)
      BY <1>5, <1>6, <3>1
    <3>3. g[i].refs = heap[i].refs + Ref(x, i) /\ Ref(x, i) \in Nat
      BY <1>6, <3>1 DEF Ref
    <3>4. QED BY <3>1, <3>2, <3>3
  <2>2. ASSUME NEW i \in Ids \ LiveIn(g) PROVE Uses(g, i) + n[i] = Uses(heap, i) + m[i]
    <3>1. Ref(x, i) = 0 /\ m[i] \in Nat
      BY <1>1, <1>6 DEF Ref
    <3>2. QED BY <1>5, <1>6, <3>1
  <2>3. QED BY <1>1, <1>3, <1>4, <1>6, <2>1, <2>2, Balanced
<1>8. QED BY <1>2, <1>3, <1>6, <1>7 DEF Handed, Lossless, g, hd, m, n

\* The program gets a new string.
LEMMA HandedNew ==
  ASSUME Inv, Free # {}
  PROVE  Handed([heap EXCEPT ![Place] = Object("str", <<>>)],
                [held EXCEPT ![Place] = @ + 1], FALSE)
<1> DEFINE o == Object("str", <<>>)
           g == [heap EXCEPT ![Place] = o]
           hd == [held EXCEPT ![Place] = @ + 1]
<1>1. /\ held \in [Ids -> Nat] /\ FieldsOK(call) /\ Place \in Ids /\ Place \notin LiveIn(heap)
      /\ \A i \in Ids : CallRefs(call, i) \in Nat
  BY PlaceOK, OuterOK DEF Inv, Good, CallOK
<1>2. hd \in [Ids -> Nat] /\ \A i \in Ids : hd[i] = held[i] + Ref(Place, i)
  BY <1>1, HoldOne
<1> HIDE DEF hd
<1>3. \A i \in Ids : hd[i] + CallRefs(call, i) = held[i] + CallRefs(call, i) + Ref(Place, i)
  <2>1. \A i \in Ids : held[i] \in Nat /\ CallRefs(call, i) \in Nat /\ Ref(Place, i) \in Nat
    BY <1>1 DEF Ref
  <2>2. QED BY <1>2, <2>1
<1>4. /\ HeapOK(g) /\ Grown(heap, g, Place, o) /\ Covered(g, Outer(hd, call))
      /\ Lossless(heap, Outer(held, call), g, Outer(hd, call))
  BY <1>1, <1>2, <1>3, Allocated
<1> HIDE DEF g
<1>5. /\ LiveIn(g) = LiveIn(heap) \cup {Place} /\ g[Place] = o
      /\ \A i \in Ids \ {Place} : g[i] = heap[i]
  BY <1>4 DEF Grown
<1>6. o.type = "str"
  BY DEF Object
<1>7. \A y \in LiveIn(heap) : y \in LiveIn(g) /\ g[y] = heap[y]
  BY <1>1, <1>5 DEF LiveIn
<1>8. \A y \in LiveIn(g) \ LiveIn(heap) : g[y].type = "str"
  BY <1>5, <1>6
<1>9. QED BY <1>2, <1>4, <1>7, <1>8 DEF Handed, Lossless, g, hd

\* The pieces of a text are left behind.
LEMMA HandedPieces ==
  ASSUME Inv, NEW h, NEW hd, Handed(h, hd, FALSE), NEW p \in Ids \ LiveIn(h)
  PROVE  Handed([h EXCEPT ![p] = Object("str", <<>>)], hd, TRUE)
<1> DEFINE o == Object("str", <<>>)
           g == [h EXCEPT ![p] = o]
           m == Outer(hd, call)
           Before(i) == IF i \in LiveIn(heap) THEN Surplus(heap, Outer(held, call), i) ELSE 0
<1>1. /\ HeapOK(h) /\ hd \in [Ids -> Nat] /\ Covered(h, m)
      /\ \A i \in LiveIn(h) : Surplus(h, m, i) = Before(i)
      /\ \A y \in LiveIn(heap) : /\ y \in LiveIn(h) /\ h[y].type = heap[y].type
                                 /\ h[y].slots = heap[y].slots
      /\ \A y \in LiveIn(h) \ LiveIn(heap) : h[y].type = "str"
  BY DEF Handed
<1>2. FieldsOK(call)
  BY DEF Inv, Good, CallOK
<1>3. m \in [Ids -> Nat]
  BY <1>1, <1>2, OuterOK
<1>4. Fresh(o) /\ o.type = "str" /\ o.refs = 1
  BY FreshObjects
<1> HIDE DEF o, m, Before
<1>g. HeapOK(g) /\ Grown(h, g, p, o) /\ m[p] = 0
  <2>1. HeapOK(h) /\ Covered(h, m) /\ Fresh(o) /\ p \in Ids \ LiveIn(h)
    BY <1>1, <1>4
  <2>2. QED BY <1>3, <2>1, NewObject
<1> HIDE DEF g
<1>5. /\ LiveIn(g) = LiveIn(h) \cup {p} /\ g[p] = o /\ Uses(g, p) = 0
      /\ \A i \in Ids : Uses(g, i) = Uses(h, i)
      /\ \A i \in Ids \ {p} : g[i] = h[i]
  BY <1>g DEF Grown
<1>6. \A i \in LiveIn(h) : i \in Ids /\ i # p /\ g[i] = h[i]
  BY <1>5 DEF LiveIn
<1>7. Covered(g, m)
  <2>1. ASSUME NEW i \in Ids, g[i] # NULL PROVE g[i].refs >= Uses(g, i) + m[i]
    <3>1. CASE i = p
      BY <1>4, <1>5, <1>g, <3>1
    <3>2. CASE i # p
      BY <1>1, <1>5, <2>1, <3>2 DEF Covered
    <3>3. QED BY <3>1, <3>2
  <2>2. ASSUME NEW i \in Ids, g[i] = NULL PROVE Uses(g, i) + m[i] = 0
    <3>1. i # p
      BY <1>4, <1>5, <2>2 DEF Fresh
    <3>2. QED BY <1>1, <1>5, <2>2, <3>1 DEF Covered
  <2>3. QED BY <2>1, <2>2 DEF Covered
<1>8. ASSUME NEW i \in LiveIn(g)
      PROVE  Surplus(g, m, i) = Before(i) \/ i \notin LiveIn(heap)
  <2>1. CASE i \in LiveIn(h)
    <3>1. Surplus(g, m, i) = Surplus(h, m, i)
      BY <1>5, <1>6, <2>1 DEF Surplus
    <3>2. QED BY <1>1, <2>1, <3>1
  <2>2. CASE i \notin LiveIn(h)
    BY <1>1, <2>2
  <2>3. QED BY <2>1, <2>2
<1>9. /\ \A y \in LiveIn(heap) : /\ y \in LiveIn(g) /\ g[y].type = heap[y].type
                                 /\ g[y].slots = heap[y].slots
      /\ \A y \in LiveIn(g) \ LiveIn(heap) : g[y].type = "str"
  BY <1>1, <1>4, <1>5, <1>6
<1>10. QED BY <1>1, <1>g, <1>7, <1>8, <1>9 DEF Handed, g, m, o, Before

\* The call ends; the lists that it still has are lost.
LEMMA EndOfCall ==
  ASSUME Inv, call.pc \in {"return", "idle"}, NEW g, NEW hd,
         NEW pieces, Handed(g, hd, pieces)
  PROVE  /\ Good(g, hd, Idle)
         /\ \A i \in LiveIn(g) :
              \/ Surplus(g, Outer(hd, Idle), i) =
                   IF i \in LiveIn(heap) THEN Surplus(heap, Outer(held, call), i) ELSE 0
              \/ g[i].type = "list" /\ call.pc = "return"
              \/ pieces = TRUE /\ i \notin LiveIn(heap) /\ g[i].type = "str"
<1> DEFINE m == Outer(held, call)
           n == Outer(hd, call)
           e == Outer(hd, Idle)
<1>1. /\ HeapOK(g) /\ hd \in [Ids -> Nat] /\ Covered(g, n)
      /\ \A y \in LiveIn(heap) : /\ y \in LiveIn(g) /\ g[y].type = heap[y].type
                                 /\ g[y].slots = heap[y].slots
      /\ \A y \in LiveIn(g) \ LiveIn(heap) : g[y].type = "str"
  BY DEF Handed
<1>s. \A i \in LiveIn(g) :
        \/ Surplus(g, n, i) = IF i \in LiveIn(heap) THEN Surplus(heap, m, i) ELSE 0
        \/ pieces = TRUE /\ i \notin LiveIn(heap)
  BY DEF Handed
<1>2. /\ FieldsOK(call) /\ RefsOK(heap, call) /\ NoJunk(heap, call) /\ call.pc # "crashed"
      /\ call.list = NULL /\ call.addr = NULL
  BY DEF Inv, Good, CallOK, FieldsOK, Building, Converting
<1>3. FieldsOK(Idle) /\ Idle.pc = "idle" /\ Idle.lists = <<>> /\ Idle.addr = NULL
  BY IdleFields DEF Idle
<1>4. \A i \in Ids : CallRefs(Idle, i) = 0
  BY <1>3, RestingRefs DEF Resting
<1>5. /\ e \in [Ids -> Nat] /\ n \in [Ids -> Nat]
      /\ \A i \in Ids : /\ n[i] = hd[i] + CallRefs(call, i) /\ CallRefs(call, i) \in Nat
                        /\ e[i] = hd[i] + CallRefs(Idle, i) /\ hd[i] \in Nat
  BY <1>1, <1>2, <1>3, OuterOK
<1>6. \A i \in Ids : n[i] = e[i] + CallRefs(call, i) /\ e[i] <= n[i]
  BY <1>4, <1>5
<1> HIDE DEF m, n, e
<1>7. Covered(g, e)
  BY <1>1, <1>5, <1>6, FewerCovered
<1>8. NoJunk(g, Idle)
  <2>1. ASSUME NEW a \in LiveIn(g) \ {NULL}, g[a].type = "address", NEW k \in Pointers
        PROVE  g[a].slots[k] # Junk
    <3>1. a \in LiveIn(heap)
      BY <1>1, <2>1
    <3>2. QED BY <1>1, <1>2, <2>1, <3>1 DEF NoJunk
  <2>2. QED BY <1>3, <2>1 DEF NoJunk
<1>9. CallOK(g, Idle)
  <2>1. RefsOK(g, Idle)
    BY <1>3 DEF RefsOK, Building, Converting
  <2>2. StageOK(g, Idle)
    BY <1>3 DEF StageOK, Converting
  <2>3. QED BY <1>3, <1>8, <2>1, <2>2 DEF CallOK
<1>10. ASSUME NEW i \in LiveIn(g), CallRefs(call, i) # 0 PROVE g[i].type = "list" /\ call.pc = "return"
  <2>1. i \in Ids /\ Ref(NULL, i) = 0
    BY IdsAssumption DEF LiveIn, Ref
  <2>2. call.lists \in Seq(Ids \cup {NULL}) /\ Items(call.lists, i) # 0
    <3>1. Items(call.lists, i) \in Nat
      BY <1>1, <1>2, <2>1, OuterOK
    <3>2. QED BY <1>2, <1>10, <2>1, <3>1 DEF CallRefs, FieldsOK
  <2>3. \E k \in DOMAIN call.lists : call.lists[k] = i
    <3>1. Items(call.lists, i) = Cardinality({k \in DOMAIN call.lists : call.lists[k] = i})
      BY DEF Items
    <3>2. {k \in DOMAIN call.lists : call.lists[k] = i} # {}
      BY <2>2, <3>1, FS_EmptySet
    <3>3. QED BY <3>2
  <2>4. IsIn(heap, i, "list")
    BY <1>2, <2>1, <2>3, IdsAssumption DEF RefsOK
  <2>5. call.pc # "idle"
    BY <1>2, <2>1, <1>10, RestingRefs DEF Resting
  <2>6. QED BY <1>1, <2>4, <2>5 DEF IsIn
<1>11. ASSUME NEW i \in LiveIn(g), CallRefs(call, i) = 0
       PROVE  \/ Surplus(g, e, i) = IF i \in LiveIn(heap) THEN Surplus(heap, m, i) ELSE 0
              \/ pieces = TRUE /\ i \notin LiveIn(heap) /\ g[i].type = "str"
  <2>1. i \in Ids
    BY DEF LiveIn
  <2>2. n[i] = e[i]
    BY <1>5, <1>6, <1>11, <2>1
  <2>3. Surplus(g, e, i) = Surplus(g, n, i)
    BY <2>2 DEF Surplus
  <2>4. QED BY <1>1, <1>s, <2>3
<1>12. QED BY <1>1, <1>7, <1>9, <1>10, <1>11 DEF Good, e, m

\* The pointers of a complete address are null or lead to strings.
LEMMA PointerLeads ==
  ASSUME Inv, call.pc \in {"return", "idle"}, NEW a, IsIn(heap, a, "address"),
         NEW k \in Pointers, heap[a].slots[k] # NULL
  PROVE  IsIn(heap, heap[a].slots[k], "str")
<1>1. call.addr = NULL /\ a # NULL /\ NoJunk(heap, call) /\ ObjectOK(heap, heap[a])
  BY IdsAssumption DEF Inv, Good, CallOK, FieldsOK, Building, Converting, IsIn, LiveIn, HeapOK
<1>2. heap[a].slots[k] # Junk
  BY <1>1 DEF NoJunk, IsIn
<1>3. QED BY <1>1, <1>2 DEF ObjectOK, PointerOK, IsIn

\* All but __str__() have asked for one list.
LEMMA OneResult ==
  ASSUME Inv, call.pc = "return", call.op # "__str__"
  PROVE  /\ call.lists[1] = NULL \/ IsIn(heap, call.lists[1], "list")
         /\ call.lists[1] \in Ids \cup {NULL}
         /\ \A i \in Ids : CallRefs(call, i) = Ref(call.lists[1], i)
<1> DEFINE s == call.lists
           x == call.lists[1]
<1>1. /\ s \in Seq(Ids \cup {NULL}) /\ Len(s) = 1 /\ call.list = NULL /\ call.addr = NULL
      /\ \A k \in DOMAIN s : s[k] # NULL => IsIn(heap, s[k], "list")
  BY DEF Inv, Good, CallOK, FieldsOK, RefsOK, OneList, Building, Converting
<1>2. 1 \in DOMAIN s /\ x \in Ids \cup {NULL} /\ s = Append(<<>>, x)
  BY <1>1
<1>3. ASSUME NEW i \in Ids PROVE CallRefs(call, i) = Ref(x, i)
  <2>1. <<>> \in Seq(Ids \cup {NULL})
    OBVIOUS
  <2> HIDE DEF s, x
  <2>2. Items(Append(<<>>, x), i) = Items(<<>>, i) + Ref(x, i)
    BY <1>2, <2>1, ItemsAppend
  <2>3. Items(<<>>, i) = 0 /\ Ref(x, i) \in Nat /\ Ref(NULL, i) = 0
    BY ItemsEmpty, IdsAssumption DEF Ref
  <2>4. QED BY <1>1, <1>2, <2>2, <2>3 DEF CallRefs, s
<1>4. QED BY <1>1, <1>2, <1>3

\* The list goes to the program; if results are checked, only without an
\* exception.
Returns ==
  /\ call'.pc \in Resting
  /\ \/ heap' = heap /\ held' = held
     \/ /\ held' = held
        /\ Released(heap, Outer(held, call), heap', Outer(held', call'), call.lists[1])
     \/ /\ heap' = heap /\ held' = [held EXCEPT ![call.lists[1]] = @ + 1]
        /\ (Checked = TRUE => call.exc = FALSE) /\ IsIn(heap, call.lists[1], "list")
        /\ 1 \in DOMAIN call.lists

\* A query returns its list.
LEMMA ReturnListOK ==
  ASSUME Inv, ReturnList
  PROVE  Good(heap', held', call') /\ (call'.pc = "crashed" \/ KeepsAll) /\ Returns
<1> DEFINE x == call.lists[1]
<1>1. call.pc = "return" /\ call.op \in Methods
  BY DEF ReturnList, At
<1>2. call.op # "__str__" /\ Methods = {"get_ipv4_addresses", "get_ipv6_addresses"}
  BY <1>1 DEF Methods
<1>3. /\ x = NULL \/ IsIn(heap, x, "list")
      /\ x \in Ids \cup {NULL} /\ \A i \in Ids : CallRefs(call, i) = Ref(x, i)
  BY <1>1, <1>2, OneResult
<1>4. /\ FieldsOK(call) /\ held \in [Ids -> Nat] /\ NoJunk(heap, call) /\ call.addr = NULL
      /\ \A i \in Ids : held[i] <= held[i]
  BY <1>1 DEF Inv, Good, CallOK, FieldsOK, Building, Converting
<1>5. FieldsOK(Idle) /\ Idle.pc = "idle" /\ Idle.lists = <<>> /\ Idle.addr = NULL
  BY IdleFields DEF Idle
<1>6. \A i \in Ids : CallRefs(Idle, i) = 0
  BY <1>5, RestingRefs DEF Resting
<1>7. RefsOK(heap, Idle) /\ Idle.pc \notin Converting
  BY <1>5 DEF RefsOK, Building, Converting
<1>8. CASE x = NULL
  <2>1. call' = Idle /\ heap' = heap /\ held' = held
    BY <1>8 DEF ReturnList
  <2>2. \A i \in Ids : CallRefs(call, i) = 0
    BY <1>3, <1>8, IdsAssumption DEF Ref
  <2>3. CallOK(heap, Idle)
    BY <1>1, <1>4, <1>5, <1>7 DEF CallOK, StageOK, NoJunk
  <2>4. QED BY <1>5, <1>6, <2>1, <2>2, <2>3, SameRefs DEF Returns, Resting
<1>9. CASE x # NULL /\ Refused
  <2>1. Release(heap, x, Idle) /\ held' = held
    BY <1>9 DEF ReturnList
  <2>2. OneLess(Outer(held, call), held, Idle, x)
    <3>1. ASSUME NEW j \in Ids PROVE Outer(held, call)[j] = held[j] + CallRefs(Idle, j) + Ref(x, j)
      <4>1. Outer(held, call)[j] = held[j] + CallRefs(call, j) /\ held[j] \in Nat
        BY <1>4, OuterOK
      <4>2. Ref(x, j) \in Nat
        BY DEF Ref
      <4>3. QED BY <1>3, <1>6, <4>1, <4>2
    <3>2. QED BY <3>1 DEF OneLess
  <2>3. Initialised(heap, x)
    <3>1. NULL \notin LiveIn(heap)
      BY IdsAssumption DEF LiveIn
    <3>2. QED BY <1>1, <1>4, <3>1 DEF Initialised, NoJunk
  <2>4. x \in LiveIn(heap)
    BY <1>3, <1>9 DEF IsIn
  <2> HIDE DEF x
  <2>5. /\ Good(heap', held', call') /\ (call'.pc = "crashed" \/ KeepsAll)
        /\ \/ call'.pc = "crashed" /\ heap' = heap
           \/ call' = Idle /\ Released(heap, Outer(held, call), heap', Outer(held', call'), x)
    BY <1>4, <1>5, <1>7, <2>1, <2>2, <2>3, <2>4, ReleaseOK
  <2>6. QED BY <1>5, <2>1, <2>5 DEF Returns, Resting, x
<1>10. CASE x # NULL /\ ~Refused
  <2> DEFINE hd == [held EXCEPT ![x] = @ + 1]
  <2>1. call' = Idle /\ held' = hd /\ heap' = heap /\ x \in Ids
    BY <1>3, <1>10 DEF ReturnList, Hold
  <2>2. hd \in [Ids -> Nat] /\ \A i \in Ids : hd[i] = held[i] + Ref(x, i)
    BY <1>4, <2>1, HoldOne
  <2> HIDE DEF hd
  <2>3. Outer(hd, Idle) = Outer(held, call)
    <3>1. \A i \in Ids : held[i] \in Nat /\ Ref(x, i) \in Nat
      BY <1>4 DEF Ref
    <3>2. \A i \in Ids : hd[i] + CallRefs(Idle, i) = held[i] + CallRefs(call, i)
      BY <1>3, <1>6, <2>2, <3>1
    <3>3. QED BY <3>2 DEF Outer
  <2>4. CallOK(heap, Idle)
    BY <1>1, <1>4, <1>5, <1>7 DEF CallOK, StageOK, NoJunk
  <2>5. Returns
    <3>1. 1 \in DOMAIN call.lists
      BY <1>1, <1>2, <1>4 DEF FieldsOK, OneList
    <3>2. Checked = TRUE => call.exc = FALSE
      BY <1>4, <1>10 DEF Refused, FieldsOK
    <3>3. QED BY <1>3, <1>5, <1>10, <2>1, <3>1, <3>2 DEF Returns, Resting, hd
  <2>6. QED BY <2>1, <2>2, <2>3, <2>4, <2>5 DEF Inv, Good, KeepsAll, Lossless
<1>11. QED BY <1>8, <1>9, <1>10

\* __str__() is running, or repr() as no call is.
Texts == call.pc = "idle" \/ call.op = "__str__"

\* No object is lost but for lists, by the calls that never release theirs, and
\* new strings, by those that put texts together.
LittleLost ==
  \A i \in LiveIn(heap') :
    \/ Surplus(heap', Outer(held', call'), i) =
         IF i \in LiveIn(heap) THEN Surplus(heap, Outer(held, call), i) ELSE 0
    \/ heap'[i].type = "list" /\ call.op \in Attributes \cup {"__str__"}
    \/ heap'[i].type = "str" /\ i \notin LiveIn(heap) /\ Texts

\* The step ends the call and hands something over to the program.
HandsOver(pieces) ==
  /\ call' = Idle /\ Handed(heap', held', pieces)
  /\ \A y \in LiveIn(heap') : held'[y] = held[y] \/ heap'[y].type = "str"

\* Handing a string over loses at most lists and pieces.
LEMMA HandsOverOK ==
  ASSUME Inv, NEW pieces, HandsOver(pieces), pieces = TRUE => Texts,
         call.pc = "idle" \/ (call.pc = "return" /\ call.op \in Attributes \cup {"__str__"})
  PROVE  Good(heap', held', call') /\ LittleLost
<1>1. call.pc \in {"return", "idle"} /\ Handed(heap', held', pieces) /\ call' = Idle
  BY DEF HandsOver
<1>2. /\ Good(heap', held', Idle)
      /\ \A i \in LiveIn(heap') :
           \/ Surplus(heap', Outer(held', Idle), i) =
                IF i \in LiveIn(heap) THEN Surplus(heap, Outer(held, call), i) ELSE 0
           \/ heap'[i].type = "list" /\ call.pc = "return"
           \/ pieces = TRUE /\ i \notin LiveIn(heap) /\ heap'[i].type = "str"
  BY <1>1, EndOfCall
<1>3. QED BY <1>1, <1>2 DEF LittleLost

\* A new string is handed over.
LEMMA ReturnNewStringOK ==
  ASSUME Inv, ReturnNewString
  PROVE  /\ Handed(heap', held', FALSE)
         /\ \A y \in LiveIn(heap') : held'[y] = held[y] \/ heap'[y].type = "str"
<1>1. /\ Free # {} /\ held' = [held EXCEPT ![Place] = @ + 1]
      /\ heap' = [heap EXCEPT ![Place] = Object("str", <<>>)]
  BY DEF ReturnNewString, Hold
<1>2. Handed(heap', held', FALSE)
  BY <1>1, HandedNew
<1>3. heap'[Place].type = "str"
  BY <1>1, PlaceOK DEF Object, Inv, Good, HeapOK
<1>4. \A y \in LiveIn(heap') : y # Place => held'[y] = held[y]
  BY <1>1, <1>2 DEF Inv, Good, LiveIn
<1>5. QED BY <1>2, <1>3, <1>4

\* An attribute is handed over, or the read crashes.
LEMMA ReturnAttributeOK ==
  ASSUME Inv, ReturnAttribute
  PROVE  HandsOver(FALSE) /\ call.pc = "return" /\ call.op \in Attributes
<1> DEFINE last == LastAddress(call.lists[1])
           slot == [ipv4_address |-> "local", ipv4_broadcast |-> "ipv4_broadcast"]
           value == IF last = NULL \/ call.op = "ipv4_netmask" THEN NULL
                    ELSE heap[last].slots[slot[call.op]]
<1>1. /\ call.pc = "return" /\ call.op \in Attributes /\ call' = Idle
      /\ IF value # NULL THEN heap' = Incref(heap, value) /\ Hold(value)
         ELSE ReturnNewString \/ ReturnNothing
  BY DEF ReturnAttribute, At
<1>2. call.op \in {"ipv4_address", "ipv4_netmask", "ipv4_broadcast"} /\ call.op # "__str__"
  BY <1>1 DEF Attributes
<1>3. call.lists[1] = NULL \/ IsIn(heap, call.lists[1], "list")
  BY <1>1, <1>2, OneResult
<1>4. last = NULL \/ IsIn(heap, last, "address")
  <2>1. CASE call.lists[1] = NULL
    BY <2>1 DEF LastAddress
  <2>2. CASE IsIn(heap, call.lists[1], "list")
    <3> DEFINE items == heap[call.lists[1]].slots
    <3>1. items \in Seq(Ids) /\ \A k \in DOMAIN items : IsIn(heap, items[k], "address")
      BY <2>2 DEF Inv, Good, HeapOK, ObjectOK, IsIn
    <3>2. items # <<>> => Len(items) \in DOMAIN items
      BY <3>1
    <3>3. last = NULL \/ (items # <<>> /\ last = items[Len(items)])
      BY DEF LastAddress
    <3>4. QED BY <3>1, <3>2, <3>3
  <2>3. QED BY <1>3, <2>1, <2>2
<1>5. value # NULL => IsIn(heap, value, "str")
  <2> SUFFICES ASSUME value # NULL PROVE IsIn(heap, value, "str")
    OBVIOUS
  <2>1. last # NULL /\ call.op \in {"ipv4_address", "ipv4_broadcast"} /\ value = heap[last].slots[slot[call.op]]
    BY <1>2
  <2>2. slot[call.op] \in Pointers
    BY <2>1 DEF Pointers
  <2> HIDE DEF slot, last
  <2>3. QED BY <1>1, <1>4, <2>1, <2>2, PointerLeads
<1> HIDE DEF value, last, slot
<1>6. CASE value # NULL
  <2>1. heap' = Incref(heap, value) /\ held' = [held EXCEPT ![value] = @ + 1]
    BY <1>1, <1>6 DEF Hold
  <2>2. Handed(Incref(heap, value), [held EXCEPT ![value] = @ + 1], FALSE)
    BY <1>5, <1>6, HandedOld DEF IsIn
  <2>3. heap'[value].type = "str"
    BY <1>5, <1>6, <2>1, <2>2 DEF Handed, IsIn
  <2>4. \A y \in LiveIn(heap') : y # value => held'[y] = held[y]
    BY <2>1 DEF Inv, Good, LiveIn
  <2>5. QED BY <1>1, <2>1, <2>2, <2>3, <2>4 DEF HandsOver
<1>7. CASE value = NULL /\ ReturnNewString
  BY <1>1, <1>7, ReturnNewStringOK DEF HandsOver
<1>8. CASE value = NULL /\ ReturnNothing
  BY <1>1, <1>8, HandedNothing DEF HandsOver, ReturnNothing
<1>9. QED BY <1>1, <1>6, <1>7, <1>8

\* The pieces are left behind, and nothing is handed over.
LEMMA LeavePiecesOK ==
  ASSUME Inv, LeavePieces, call' = Idle
  PROVE  HandsOver(TRUE)
<1>1. /\ Place \in Ids \ LiveIn(heap) /\ held' = held
      /\ heap' = [heap EXCEPT ![Place] = Object("str", <<>>)]
  BY PlaceOK DEF LeavePieces
<1>2. Handed(heap', held', TRUE)
  BY <1>1, HandedNothing, HandedPieces
<1>3. QED BY <1>1, <1>2 DEF HandsOver

\* The pieces are left behind, and the text is handed over.
LEMMA ReturnConcatOK ==
  ASSUME Inv, ReturnConcat, call' = Idle
  PROVE  HandsOver(TRUE)
<1> DEFINE other == CHOOSE i \in Free \ {Place} : TRUE
           o == Object("str", <<>>)
           g == [heap EXCEPT ![Place] = o]
           hd == [held EXCEPT ![Place] = @ + 1]
<1>1. /\ Free # {} /\ Free \ {Place} # {} /\ held' = hd
      /\ heap' = [heap EXCEPT ![Place] = o, ![other] = o]
  BY DEF ReturnConcat, Hold
<1>2. other \in Free /\ other # Place
  BY <1>1
<1>3. Place \in Ids /\ Place \notin LiveIn(heap) /\ Live = LiveIn(heap)
  BY <1>1, PlaceOK
<1>4. DOMAIN heap = Ids /\ held \in [Ids -> Nat] /\ o # NULL /\ o.type = "str"
  BY FreshObjects DEF Inv, Good, HeapOK, Fresh
<1> HIDE DEF other, o
<1>5. heap' = [g EXCEPT ![other] = o]
  BY <1>1
<1>6. Handed(g, hd, FALSE)
  BY <1>1, HandedNew DEF o
<1>7. LiveIn(g) = LiveIn(heap) \cup {Place}
  BY <1>3, <1>4 DEF LiveIn
<1>8. other \in Ids \ LiveIn(g)
  BY <1>2, <1>3, <1>7 DEF Free
<1>9. heap'[Place].type = "str"
  BY <1>1, <1>2, <1>3, <1>4
<1>10. \A y \in Ids : held'[y] = held[y] \/ heap'[y].type = "str"
  BY <1>1, <1>3, <1>4, <1>9
<1> HIDE DEF g, hd
<1>11. Handed(heap', held', TRUE)
  <2>1. Handed([g EXCEPT ![other] = o], hd, TRUE)
    BY <1>6, <1>8, HandedPieces DEF o
  <2>2. heap' = [g EXCEPT ![other] = o] /\ held' = hd
    BY <1>1, <1>5
  <2>3. QED BY <2>1, <2>2
<1>12. QED BY <1>10, <1>11 DEF HandsOver, LiveIn

\* Pieces may be lost where none are.
LEMMA HandsOverPieces ==
  ASSUME HandsOver(FALSE)
  PROVE  HandsOver(TRUE)
BY DEF HandsOver, Handed

\* A text is handed over.
LEMMA ReturnTextOK ==
  ASSUME Inv, NEW pieces, NEW dropped, ReturnText(pieces, dropped)
  PROVE  HandsOver(TRUE) \/ (Crash /\ held' = held)
<1>1. CASE call' = Idle /\ ReturnNewString
  <2>1. HandsOver(FALSE)
    BY <1>1, ReturnNewStringOK DEF HandsOver
  <2>2. QED BY <2>1, HandsOverPieces
<1>2. CASE call' = Idle /\ ReturnNothing
  <2>1. HandsOver(FALSE)
    BY <1>2, HandedNothing DEF HandsOver, ReturnNothing
  <2>2. QED BY <2>1, HandsOverPieces
<1>3. CASE call' = Idle /\ (LeavePieces \/ ReturnConcat)
  BY <1>3, LeavePiecesOK, ReturnConcatOK
<1>4. CASE Crash /\ held' = held
  BY <1>4
<1>5. QED BY <1>1, <1>2, <1>3, <1>4 DEF ReturnText

\* A call that ends in a string hands it over, or crashes.
LEMMA ReturnStringOK ==
  ASSUME Inv, ReturnString
  PROVE  /\ call.pc = "return" /\ call.op = "__str__"
         /\ HandsOver(TRUE) \/ (Crash /\ held' = held)
<1>1. call.pc = "return" /\ call.op = "__str__"
  BY DEF ReturnString, At
<1>2. (Crash /\ held' = held) \/ \E b \in BOOLEAN : ReturnText(b \/ Listed, Refused)
  BY DEF ReturnString
<1>3. QED BY <1>1, <1>2, ReturnTextOK

-----------------------------------------------------------------------------
(***************************************************************************)
(* The program.                                                            *)
(***************************************************************************)

\* Between two calls a call holds nothing.
LEMMA IdleCall ==
  ASSUME Inv, call.pc = "idle"
  PROVE  /\ FieldsOK(call) /\ call.lists = <<>> /\ call.addr = NULL /\ call.list = NULL
         /\ held \in [Ids -> Nat] /\ HeapOK(heap) /\ Covered(heap, Outer(held, call))
         /\ Outer(held, call) \in [Ids -> Nat]
         /\ \A h : RefsOK(h, call) /\ StageOK(h, call)
         /\ \A i \in Ids : CallRefs(call, i) = 0 /\ Outer(held, call)[i] = held[i]
         /\ \A a \in LiveIn(heap) : heap[a].type = "address" =>
              \A k \in Pointers : heap[a].slots[k] # Junk
<1>1. /\ FieldsOK(call) /\ call.lists = <<>> /\ call.addr = NULL /\ call.list = NULL
      /\ held \in [Ids -> Nat] /\ HeapOK(heap) /\ NoJunk(heap, call)
      /\ Covered(heap, Outer(held, call))
  BY DEF Inv, Good, CallOK, FieldsOK, Resting, Building, Converting
<1>2. \A i \in Ids : CallRefs(call, i) = 0
  BY <1>1, RestingRefs DEF Resting
<1>3. \A i \in Ids : held[i] \in Nat /\ Outer(held, call)[i] = held[i] + CallRefs(call, i)
  BY <1>1, OuterOK
<1>4. \A h : RefsOK(h, call) /\ StageOK(h, call)
  BY <1>1 DEF RefsOK, StageOK, Building, Converting
<1>5. \A a \in LiveIn(heap) : heap[a].type = "address" =>
        \A k \in Pointers : heap[a].slots[k] # Junk
  BY <1>1, IdsAssumption DEF NoJunk, LiveIn
<1>6. QED BY <1>1, <1>2, <1>3, <1>4, <1>5, OuterOK

\* The program gets a reference from what it has.
LEMMA SharedOK ==
  ASSUME Inv, call.pc = "idle", call' = call, NEW x \in LiveIn(heap),
         heap' = Incref(heap, x), held' = [held EXCEPT ![x] = @ + 1]
  PROVE  Good(heap', held', call') /\ KeepsAll /\ Handed(heap', held', FALSE)
<1>1. Handed(heap', held', FALSE)
  BY HandedOld
<1>2. /\ HeapOK(heap') /\ held' \in [Ids -> Nat] /\ Covered(heap', Outer(held', call))
      /\ Lossless(heap, Outer(held, call), heap', Outer(held', call))
      /\ \A y \in LiveIn(heap) : y \in LiveIn(heap') /\ heap'[y].type = heap[y].type
                                 /\ heap'[y].slots = heap[y].slots
      /\ \A y \in LiveIn(heap') \ LiveIn(heap) : heap'[y].type = "str"
  BY <1>1 DEF Handed, Lossless
<1>3. CallOK(heap', call)
  <2>1. NoJunk(heap', call)
    <3>1. ASSUME NEW a \in LiveIn(heap'), heap'[a].type = "address", NEW k \in Pointers
          PROVE  heap'[a].slots[k] # Junk
      <4>1. a \in LiveIn(heap)
        BY <1>2, <3>1
      <4>2. QED BY <1>2, <3>1, <4>1, IdleCall
    <3>2. QED BY <3>1 DEF NoJunk
  <2>2. QED BY <2>1, IdleCall DEF CallOK
<1>4. QED BY <1>1, <1>2, <1>3 DEF Good, KeepsAll

\* A member of an address is one of its pointers.
LEMMA MemberPointers == \A m \in DOMAIN Member : Member[m] \in Pointers
BY DEF Member, Pointers

\* What the program has a reference to is there.
LEMMA HeldIsLive ==
  ASSUME Inv, call.pc = "idle", NEW i \in Ids, held[i] > 0
  PROVE  i \in LiveIn(heap)
<1>1. Covered(heap, Outer(held, call)) /\ Outer(held, call)[i] = held[i] /\ held[i] \in Nat
  BY IdleCall
<1>2. Uses(heap, i) \in Nat
  BY IdleCall, UsesNat
<1>3. QED BY <1>1, <1>2 DEF Covered, LiveIn

\* The program takes an address out of a list.
LEMMA TakeItemOK ==
  ASSUME Inv, NEW list \in Ids, NEW k, TakeItem(list, k)
  PROVE  Good(heap', held', call') /\ KeepsAll
<1> DEFINE x == heap[list].slots[k]
<1>1. /\ call.pc = "idle" /\ held[list] > 0 /\ heap[list].type = "list"
      /\ k \in DOMAIN heap[list].slots /\ call' = call
      /\ heap' = Incref(heap, x) /\ held' = [held EXCEPT ![x] = @ + 1]
  BY DEF TakeItem, Has, At, Hold
<1>2. list \in LiveIn(heap)
  BY <1>1, HeldIsLive
<1>3. x \in LiveIn(heap)
  BY <1>1, <1>2, IdleCall DEF HeapOK, ObjectOK, IsIn
<1> HIDE DEF x
<1>4. QED BY <1>1, <1>3, SharedOK

\* The program reads a member of an address.
LEMMA ReadMemberOK ==
  ASSUME Inv, NEW i \in Ids, NEW m \in DOMAIN Member, ReadMember(i, m)
  PROVE  Good(heap', held', call') /\ KeepsAll
<1> DEFINE x == heap[i].slots[Member[m]]
<1>1. /\ call.pc = "idle" /\ held[i] > 0 /\ heap[i].type = "address" /\ x # NULL
      /\ call' = call /\ heap' = Incref(heap, x) /\ held' = [held EXCEPT ![x] = @ + 1]
  BY DEF ReadMember, Has, At, Hold
<1>2. IsIn(heap, i, "address") /\ Member[m] \in Pointers
  BY <1>1, HeldIsLive, MemberPointers DEF IsIn
<1>3. x \in LiveIn(heap)
  BY <1>1, <1>2, PointerLeads DEF IsIn
<1> HIDE DEF x
<1>4. QED BY <1>1, <1>3, SharedOK

\* repr() of an address only makes a string.
LEMMA ReprOK ==
  ASSUME Inv, NEW i \in Ids, Repr(i)
  PROVE  call.pc = "idle" /\ (HandsOver(TRUE) \/ (Crash /\ held' = held))
<1>1. call.pc = "idle"
  BY DEF Repr, Has, At
<1>2. (Crash /\ held' = held) \/ ReturnText(TRUE, FALSE)
  BY DEF Repr
<1>3. QED BY <1>1, <1>2, ReturnTextOK

\* A pointer of the address i no longer leads to x, which is released.
LEMMA DeleteMemberOK ==
  ASSUME Inv, NEW i \in Ids, NEW m \in DOMAIN Member, DeleteMember(i, m)
  PROVE  /\ Good(heap', held', call') /\ KeepsAll
         /\ \A y \in LiveIn(heap') :
              /\ y \in LiveIn(heap) /\ heap'[y].type = heap[y].type
              /\ y # i => heap'[y].slots = heap[y].slots
              /\ \A p \in Pointers \ {Member[m]} : heap'[i].slots[p] = heap[i].slots[p]
                                                  \/ y # i
<1> DEFINE f == Member[m]
           x == heap[i].slots[f]
           k == [heap EXCEPT ![i].slots[f] = NULL]
           n == Outer(held, call)
           o == [j \in Ids |-> n[j] + Ref(x, j)]
<1>1. /\ call.pc = "idle" /\ held[i] > 0 /\ heap[i].type = "address" /\ x # NULL
      /\ call' = call /\ held' = held /\ heap' = Decref(k, x)
  BY DEF DeleteMember, Has, At
<1>2. IsIn(heap, i, "address") /\ f \in Pointers
  BY <1>1, HeldIsLive, MemberPointers DEF IsIn
<1>3. x \in LiveIn(heap) /\ x \in Ids
  BY <1>1, <1>2, PointerLeads DEF LiveIn, IsIn
<1>4. HeapOK(heap) /\ n \in [Ids -> Nat] /\ Covered(heap, n) /\ held \in [Ids -> Nat]
  BY <1>1, IdleCall
<1>5. HeapOK(k) /\ Repointed(heap, k, i, f, NULL)
  <2>1. PointerOK(heap, NULL)
    BY DEF PointerOK
  <2>2. QED BY <1>2, <1>4, <2>1, SetPointer
<1> HIDE DEF f, k, n
<1>6. /\ LiveIn(k) = LiveIn(heap)
      /\ \A p \in Pointers \ {f} : k[i].slots[p] = heap[i].slots[p]
      /\ \A j \in LiveIn(heap) : k[j].type = heap[j].type /\ k[j].refs = heap[j].refs
      /\ \A j \in Ids \ {i} : k[j] = heap[j]
      /\ \A j \in Ids : Uses(k, j) = Uses(heap, j) + Ref(NULL, j) - Ref(x, j)
      /\ k[i].slots[f] = NULL
  BY <1>5 DEF Repointed
<1> HIDE DEF x
<1>7. o \in [Ids -> Nat] /\ \A j \in Ids : o[j] = n[j] + Ref(x, j)
  BY <1>4 DEF Ref
<1> HIDE DEF o
<1>8. \A j \in Ids : Uses(k, j) + o[j] = Uses(heap, j) + n[j]
  <2>1. \A j \in Ids : /\ Ref(NULL, j) = 0 /\ Uses(heap, j) \in Nat /\ n[j] \in Nat
                       /\ Ref(x, j) \in Nat
    BY <1>4, IdsAssumption, UsesNat DEF Ref
  <2>2. QED BY <1>6, <1>7, <2>1
<1>9. Covered(k, o) /\ Lossless(heap, n, k, o)
  <2>1. ASSUME NEW j \in LiveIn(heap)
        PROVE  k[j].refs + Uses(heap, j) + n[j] = heap[j].refs + Uses(k, j) + o[j]
    <3>1. /\ j \in Ids /\ heap[j].refs \in Nat /\ Uses(heap, j) \in Nat /\ n[j] \in Nat
          /\ Uses(k, j) \in Nat /\ o[j] \in Nat
      BY <1>4, <1>5, <1>7, ObjectHasParts, UsesNat DEF LiveIn, HeapOK, ObjectOK
    <3>2. Uses(k, j) + o[j] = Uses(heap, j) + n[j] /\ k[j].refs = heap[j].refs
      BY <1>6, <1>8, <3>1
    <3>3. QED BY <3>1, <3>2
  <2>2. QED BY <1>4, <1>5, <1>6, <1>7, <1>8, <2>1, Balanced
<1>10. Initialised(k, x)
  <2>1. ASSUME NEW a \in LiveIn(k), k[a].type = "address", NEW p \in Pointers
        PROVE  k[a].slots[p] # Junk
    <3>1. a \in LiveIn(heap) /\ heap[a].type = "address" /\ a \in Ids
      BY <1>6, <2>1 DEF LiveIn
    <3>2. heap[a].slots[p] # Junk
      BY <1>1, <3>1, IdleCall
    <3>3. CASE a = i
      BY <1>6, <3>2, <3>3, IdsAssumption
    <3>4. CASE a # i
      BY <1>6, <3>1, <3>2, <3>4
    <3>5. QED BY <3>3, <3>4
  <2>2. QED BY <2>1 DEF Initialised
<1>11. OneLess(o, held, call, x)
  <2>1. \A j \in Ids : /\ n[j] = held[j] /\ CallRefs(call, j) = 0 /\ held[j] \in Nat
                       /\ Ref(x, j) \in Nat
    BY <1>1, <1>4, IdleCall DEF n, Ref
  <2>2. QED BY <1>7, <2>1 DEF OneLess
<1>12. FieldsOK(call) /\ RefsOK(k, call) /\ call.pc \notin Converting /\ x \in LiveIn(k)
  BY <1>1, <1>3, <1>6, IdleCall DEF Converting
<1>13. /\ Good(Decref(k, x), held, call) /\ Lossless(k, o, Decref(k, x), Outer(held, call))
       /\ Released(k, o, Decref(k, x), Outer(held, call), x)
  BY <1>4, <1>5, <1>7, <1>9, <1>10, <1>11, <1>12, GivenUp
<1> DEFINE g == Decref(k, x)
<1> HIDE DEF g
<1>14. /\ LiveIn(g) = LiveIn(k) \ Dying(k, x)
       /\ \A j \in LiveIn(g) : g[j].type = k[j].type /\ g[j].slots = k[j].slots
  BY <1>13 DEF Released, g
<1>15. Lossless(heap, n, g, Outer(held, call))
  <2>1. \A j \in LiveIn(g) : j \in LiveIn(k) /\ j \in LiveIn(heap)
    BY <1>6, <1>14
  <2>2. QED BY <1>9, <1>13, <2>1 DEF Lossless, g
<1>16. ASSUME NEW y \in LiveIn(g)
       PROVE  /\ y \in LiveIn(heap) /\ g[y].type = heap[y].type
              /\ y # i => g[y].slots = heap[y].slots
              /\ \A p \in Pointers \ {f} : g[i].slots[p] = heap[i].slots[p] \/ y # i
  <2>1. y \in LiveIn(k) /\ y \in LiveIn(heap) /\ y \in Ids
    BY <1>6, <1>14 DEF LiveIn
  <2>2. QED BY <1>6, <1>14, <2>1
<1>17. QED BY <1>1, <1>13, <1>15, <1>16 DEF KeepsAll, n, g, f

\* The program drops a reference.
LEMMA DropReferenceOK ==
  ASSUME Inv, NEW i \in Ids, DropReference(i)
  PROVE  /\ Good(heap', held', call') /\ (call'.pc = "crashed" \/ KeepsAll)
         /\ \/ call'.pc = "crashed" /\ heap' = heap
            \/ /\ call' = Idle
               /\ Released(heap, Outer(held, call), heap', Outer(held', call'), i)
<1> DEFINE hd == [held EXCEPT ![i] = @ - 1]
<1>1. call.pc = "idle" /\ held[i] > 0 /\ held' = hd /\ Release(heap, i, Idle)
  BY DEF DropReference, At
<1>2. i \in LiveIn(heap)
  BY <1>1, HeldIsLive
<1>3. /\ hd \in [Ids -> Nat] /\ \A j \in Ids : hd[j] <= held[j]
      /\ \A j \in Ids : held[j] = hd[j] + Ref(i, j)
  <2>1. held \in [Ids -> Nat]
    BY <1>1, IdleCall
  <2>2. hd \in [Ids -> Nat] /\ hd[i] = held[i] - 1 /\ \A j \in Ids \ {i} : hd[j] = held[j]
    BY <1>1, <2>1
  <2> HIDE DEF hd
  <2>3. \A j \in Ids : held[j] \in Nat
    BY <2>1
  <2>4. QED BY <2>2, <2>3 DEF Ref
<1> HIDE DEF hd
<1>4. FieldsOK(Idle) /\ Idle.pc = "idle" /\ Idle.lists = <<>>
  BY IdleFields
<1>5. RefsOK(heap, Idle) /\ Idle.pc \notin Converting /\ \A j \in Ids : CallRefs(Idle, j) = 0
  BY <1>4, RestingRefs DEF RefsOK, Building, Converting, Resting
<1>6. Initialised(heap, i)
  BY <1>1, IdleCall DEF Initialised
<1>7. OneLess(Outer(held, call), hd, Idle, i)
  <2>1. \A j \in Ids : /\ Outer(held, call)[j] = held[j] /\ hd[j] \in Nat /\ Ref(i, j) \in Nat
    BY <1>1, <1>3, IdleCall DEF Ref
  <2>2. QED BY <1>3, <1>5, <2>1 DEF OneLess
<1>8. QED BY <1>1, <1>2, <1>3, <1>4, <1>5, <1>6, <1>7, ReleaseOK

\* An empty heap.
LEMMA EmptyHeap ==
  LET h == [i \in Ids |-> NULL]
      hd == [i \in Ids |-> 0]
  IN  Good(h, hd, Idle) /\ LiveIn(h) = {}
<1> DEFINE h == [i \in Ids |-> NULL]
           hd == [i \in Ids |-> 0]
<1>1. LiveIn(h) = {} /\ DOMAIN h = Ids /\ \A i \in Ids : h[i] = NULL
  BY DEF LiveIn
<1>2. hd \in [Ids -> Nat] /\ \A i \in Ids : hd[i] = 0
  OBVIOUS
<1> HIDE DEF h, hd
<1>3. \A i : Uses(h, i) = 0
  <2>1. \A i : Slots(h, LiveIn(h), i) = {}
    BY <1>1 DEF Slots
  <2>2. QED BY <2>1, FS_EmptySet DEF Uses
<1>4. FieldsOK(Idle) /\ Idle.pc = "idle" /\ Idle.lists = <<>>
  BY IdleFields
<1>5. \A i \in Ids : CallRefs(Idle, i) = 0 /\ Outer(hd, Idle)[i] = hd[i] + CallRefs(Idle, i)
  BY <1>2, <1>4, RestingRefs, OuterOK DEF Resting
<1>6. Covered(h, Outer(hd, Idle))
  BY <1>1, <1>2, <1>3, <1>5 DEF Covered
<1>7. CallOK(h, Idle)
  BY <1>1, <1>4 DEF CallOK, RefsOK, StageOK, NoJunk, Building, Converting
<1>8. HeapOK(h)
  BY <1>1 DEF HeapOK
<1>9. QED BY <1>1, <1>2, <1>6, <1>7, <1>8 DEF Good, h, hd

-----------------------------------------------------------------------------
(***************************************************************************)
(* Every step keeps the invariant, and loses lists and pieces at most.     *)
(***************************************************************************)
Fine == Good(heap', held', call') /\ (call'.pc = "crashed" \/ LittleLost)

\* A step that loses nothing is fine.
LEMMA KeepsAllIsFine ==
  ASSUME Good(heap', held', call'), call'.pc = "crashed" \/ KeepsAll
  PROVE  Fine
BY DEF Fine, KeepsAll, LittleLost, Lossless

\* A crash keeps the invariant.
LEMMA CrashIsFine ==
  ASSUME Inv, Crash, held' = held
  PROVE  Fine
<1>1. held \in [Ids -> Nat] /\ \A i \in Ids : held[i] <= held[i]
  BY DEF Inv, Good
<1>2. Good(heap', held, call') /\ call'.pc = "crashed"
  BY <1>1, CrashOK
<1>3. QED BY <1>2 DEF Fine

\* Every step keeps the invariant and loses at most lists and pieces.
LEMMA StepIsFine ==
  ASSUME Inv, [Next]_vars
  PROVE  Fine
<1>1. CASE \E op \in Ops : Begin(op)
  BY <1>1, BeginOK, KeepsAllIsFine
<1>2. CASE NewList
  BY <1>2, NewListOK, KeepsAllIsFine
<1>3. CASE ListFails
  BY <1>3, ListFailsOK, KeepsAllIsFine
<1>4. CASE EndList
  BY <1>4, EndListOK, KeepsAllIsFine
<1>5. CASE NewAddress
  BY <1>5, NewAddressOK, KeepsAllIsFine
<1>6. CASE NewAddressFails
  BY <1>6, NewAddressFailsOK, KeepsAllIsFine
<1>7. CASE SetLocal \/ SetPeer \/ SetBroadcast \/ SetScope
  BY <1>7, ConversionOK, KeepsAllIsFine
<1>8. CASE ConversionFails
  BY <1>8, ConversionFailsOK, KeepsAllIsFine
<1>9. CASE AppendAddress
  BY <1>9, AppendAddressOK, KeepsAllIsFine
<1>10. CASE AppendFails
  BY <1>10, AppendFailsOK, KeepsAllIsFine
<1>11. CASE ReturnList
  BY <1>11, ReturnListOK, KeepsAllIsFine
<1>12. CASE ReturnAttribute
  BY <1>12, ReturnAttributeOK, HandsOverOK DEF Fine
<1>13. CASE ReturnString
  BY <1>13, ReturnStringOK, HandsOverOK, CrashIsFine DEF Fine, Texts
<1>14. CASE \E list \in Ids, k \in 1..Cardinality(Ids) : TakeItem(list, k)
  BY <1>14, TakeItemOK, KeepsAllIsFine
<1>15. CASE \E i \in Ids, m \in DOMAIN Member : ReadMember(i, m) \/ DeleteMember(i, m)
  BY <1>15, ReadMemberOK, DeleteMemberOK, KeepsAllIsFine
<1>16. CASE \E i \in Ids : Repr(i)
  BY <1>16, ReprOK, HandsOverOK, CrashIsFine DEF Fine, Texts
<1>17. CASE \E i \in Ids : DropReference(i)
  BY <1>17, DropReferenceOK, KeepsAllIsFine
<1>18. CASE Exit
  <2>1. Good(heap', held', call') /\ LiveIn(heap') = {}
    BY <1>18, EmptyHeap DEF Exit
  <2>2. QED BY <2>1 DEF Fine, LittleLost
<1>19. CASE UNCHANGED vars
  <2>1. heap' = heap /\ held' = held /\ call' = call
    BY <1>19 DEF vars
  <2>2. Good(heap', held', call')
    BY <2>1 DEF Inv
  <2>3. KeepsAll
    BY <2>1 DEF KeepsAll, Lossless
  <2>4. QED BY <2>2, <2>3, KeepsAllIsFine
<1>20. QED
  BY <1>1, <1>2, <1>3, <1>4, <1>5, <1>6, <1>7, <1>8, <1>9, <1>10, <1>11, <1>12, <1>13,
     <1>14, <1>15, <1>16, <1>17, <1>18, <1>19 DEF Next, CallStep

\* The invariant holds at first.
LEMMA InvInit == Init => Inv
BY EmptyHeap DEF Init, Inv

\* Every step keeps it.
LEMMA InvStep == Inv /\ [Next]_vars => Inv'
BY StepIsFine DEF Fine, Inv

-----------------------------------------------------------------------------
(***************************************************************************)
(* Theorems.                                                               *)
(***************************************************************************)

\* Every variable has its type, whatever fails and whatever the program does:
\* a list holds addresses, and only the address that the callback is converting
\* has pointers that netlink-address.c has not assigned.
THEOREM TypeCorrect == Spec => []TypeOK
<1>1. Inv => TypeOK
  <2> SUFFICES ASSUME Inv PROVE TypeOK
    OBVIOUS
  <2>1. /\ held \in [Ids -> Nat] /\ NoJunk(heap, call) /\ FieldsOK(call) /\ Live = LiveIn(heap)
    BY DEF Inv, Good, CallOK, Live, LiveIn
  <2>2. \A i, t : IsIn(heap, i, t) <=> Is(i, t)
    BY <2>1 DEF IsIn, Is
  <2>3. ASSUME NEW i \in Live
        PROVE  LET o == heap[i] IN
                 /\ o.refs \in Nat \ {0}
                 /\ o.type = "list" => \A k \in DOMAIN o.slots : Is(o.slots[k], "address")
                 /\ o.type = "address" => \A k \in DOMAIN Uninitialised :
                      \/ o.slots[k] = NULL \/ Is(o.slots[k], "str")
                      \/ o.slots[k] = Junk /\ (i = call.addr \/ At("crashed"))
    <3>1. ObjectOK(heap, heap[i])
      BY <2>1 DEF Inv, Good, HeapOK
    <3>2. heap[i].refs \in Nat \ {0}
      BY <3>1, ObjectHasParts DEF ObjectOK
    <3>3. heap[i].type = "list" => \A k \in DOMAIN heap[i].slots : Is(heap[i].slots[k], "address")
      BY <2>2, <3>1 DEF ObjectOK
    <3>4. ASSUME heap[i].type = "address", NEW k \in Pointers
          PROVE  \/ heap[i].slots[k] = NULL \/ Is(heap[i].slots[k], "str")
                 \/ heap[i].slots[k] = Junk /\ (i = call.addr \/ At("crashed"))
      <4>1. PointerOK(heap, heap[i].slots[k])
        BY <3>1, <3>4 DEF ObjectOK
      <4>2. heap[i].slots[k] = Junk => i = call.addr \/ call.pc = "crashed"
        BY <2>1, <3>4 DEF NoJunk
      <4>3. QED BY <2>2, <4>1, <4>2 DEF PointerOK, At
    <3>5. QED BY <3>2, <3>3, <3>4, PointerNames
  <2>4. QED BY <2>1, <2>3 DEF TypeOK
<1>2. QED BY <1>1, InvInit, InvStep, PTL DEF Spec

\* What CountsCover counts is what the invariant counts.
LEMMA HoldersOuter ==
  ASSUME Inv, NEW i \in Ids
  PROVE  /\ Holders(i) = Uses(heap, i) + Outer(held, call)[i]
         /\ Holders(i) \in Nat /\ Uses(heap, i) \in Nat /\ Outer(held, call)[i] \in Nat
<1>1. /\ Outer(held, call)[i] = held[i] + CallRefs(call, i) /\ held[i] \in Nat
      /\ Items(call.lists, i) \in Nat /\ Uses(heap, i) \in Nat
      /\ Ref(call.list, i) \in Nat /\ Ref(call.addr, i) \in Nat
  BY OuterOK, UsesNat DEF Inv, Good, CallOK, Ref
<1>2. Live = LiveIn(heap)
  BY DEF Live, LiveIn
<1>3. Holders(i) = Uses(heap, i) + held[i] + (Ref(call.list, i) + Ref(call.addr, i))
                     + Items(call.lists, i)
  BY <1>2, FieldRefs DEF Holders, Uses, Items
<1>4. QED BY <1>1, <1>3 DEF CallRefs

\* It implies that counts cover references.
LEMMA InvCovers == Inv => CountsCover
<1> SUFFICES ASSUME Inv, NEW i \in Ids
             PROVE  IF i \in Live THEN heap[i].refs >= Holders(i) ELSE Holders(i) = 0
  BY DEF CountsCover
<1>1. IF heap[i] # NULL THEN heap[i].refs >= Uses(heap, i) + Outer(held, call)[i]
      ELSE Uses(heap, i) + Outer(held, call)[i] = 0
  BY DEF Inv, Good, Covered
<1>2. QED BY <1>1, HoldersOuter DEF Live

\* However many addresses a dump delivers, whichever allocation fails and in
\* whatever order the program drops things, no object is counted short: nobody
\* ever has a reference to an object that Py_DECREF() has freed.
THEOREM CountsAreRight == Spec => []CountsCover
BY InvInit, InvStep, InvCovers, PTL DEF Spec

\* The objects that are lost are those with a surplus.
LostIsSurplus == Lost = {i \in LiveIn(heap) : Surplus(heap, Outer(held, call), i) > 0}

\* What is lost is what has a reference counted that nobody holds.
LEMMA LostSurplus == Inv => LostIsSurplus
<1> SUFFICES ASSUME Inv PROVE LostIsSurplus
  OBVIOUS
<1>1. Live = LiveIn(heap)
  BY DEF Live, LiveIn
<1>2. ASSUME NEW i \in LiveIn(heap)
      PROVE  heap[i].refs > Holders(i) <=> Surplus(heap, Outer(held, call), i) > 0
  <2>1. i \in Ids /\ heap[i].refs \in Nat
    BY ObjectHasParts DEF LiveIn, Inv, Good, HeapOK, ObjectOK
  <2>2. QED BY <2>1, HoldersOuter DEF Surplus
<1>3. QED BY <1>1, <1>2 DEF Lost, LostIsSurplus

\* Only the ipv4_ attributes and __str__() lose lists, and only __str__() and
\* repr() strings, those that they have just made; no step of the methods and
\* of the conversion in netlink-address.c loses a reference, on any path, and
\* no object that was in use before is lost but a list.
THEOREM ListsAndPiecesAreLost == Spec => OnlyListsAndPiecesLost
<1>1. Inv /\ LostIsSurplus /\ LostIsSurplus' /\ [Next]_vars =>
        [call'.pc # "crashed" => \A i \in Lost' \ Lost :
           \/ heap'[i].type = "list" /\ call.op \in Attributes \cup {"__str__"}
           \/ /\ heap'[i].type = "str" /\ i \notin Live
              /\ At("idle") \/ call.op = "__str__"]_vars
  <2> SUFFICES ASSUME Inv, LostIsSurplus, LostIsSurplus', [Next]_vars,
                      call'.pc # "crashed", NEW i \in Lost' \ Lost
               PROVE  \/ heap'[i].type = "list" /\ call.op \in Attributes \cup {"__str__"}
                      \/ /\ heap'[i].type = "str" /\ i \notin Live
                         /\ At("idle") \/ call.op = "__str__"
    OBVIOUS
  <2>1. LittleLost
    BY StepIsFine DEF Fine
  <2>2. Live = LiveIn(heap)
    BY DEF Live, LiveIn
  <2>3. i \in LiveIn(heap') /\ Surplus(heap', Outer(held', call'), i) > 0
    BY DEF LostIsSurplus
  <2>4. ~(i \in LiveIn(heap) /\ Surplus(heap, Outer(held, call), i) > 0)
    BY DEF LostIsSurplus
  <2>5. QED BY <2>1, <2>2, <2>3, <2>4 DEF LittleLost, Texts, At
<1>2. QED BY <1>1, InvInit, InvStep, LostSurplus, PTL DEF Spec, OnlyListsAndPiecesLost

-----------------------------------------------------------------------------
(***************************************************************************)
(* What the program gets.                                                  *)
(***************************************************************************)

\* An address that has its local address and its scope.
Whole(h, a) ==
  h[a].slots["local"] \notin {NULL, Junk} /\ h[a].slots["scope"] \notin {NULL, Junk}

InCall(c, l) == c.list = l \/ \E k \in DOMAIN c.lists : c.lists[k] = l

\* The program does not have the list l, and will not get it from the call.
Guarded(hd, c, l) == hd[l] = 0 /\ (InCall(c, l) => c.exc = TRUE)

\* An address that is not whole is out of the program's reach.
Withheld(h, hd, c) ==
  \A a \in LiveIn(h) : h[a].type = "address" /\ ~Whole(h, a) =>
    /\ hd[a] = 0
    /\ \A l \in LiveIn(h) :
         h[l].type = "list" /\ (\E k \in DOMAIN h[l].slots : h[l].slots[k] = a)
           => Guarded(hd, c, l)

\* Nobody else has the list that is being made.
Private(hd, c) == c.pc \in Building => hd[c.list] = 0

Apart == Private(held, call) /\ Withheld(heap, held, call)

\* What a step may do to an object y: leave what matters here alone.
Stays(y) ==
  /\ y \in LiveIn(heap) /\ heap'[y].type = heap[y].type
  /\ heap[y].type # "address" => heap'[y].slots = heap[y].slots
  /\ heap[y].type = "address" => /\ heap'[y].slots["local"] = heap[y].slots["local"]
                                 /\ heap'[y].slots["scope"] = heap[y].slots["scope"]

\* The program may have y.
Harmless(y) ==
  /\ heap[y].type = "address" => Whole(heap, y)
  /\ heap[y].type = "list" => \A k \in DOMAIN heap[y].slots : Whole(heap, heap[y].slots[k])

Mild(y) ==
  \/ heap'[y].type = "str"
  \/ heap'[y].type = "address" /\ held'[y] = 0 /\ Uses(heap', y) = 0
  \/ /\ heap'[y].type = "list"
     /\ \/ Guarded(held', call', y)
        \/ \A k \in DOMAIN heap'[y].slots : Whole(heap', heap'[y].slots[k])
  \/ Stays(y) /\ (held'[y] <= held[y] \/ Harmless(y))

AllMild == \A y \in LiveIn(heap') : Mild(y)

\* The lists of the call are its lists of before, or new.
CallMild ==
  \A l \in LiveIn(heap') : InCall(call', l) =>
    \/ InCall(call, l) /\ (call.exc = TRUE => call'.exc = TRUE)
    \/ l \notin LiveIn(heap)

\* Incomplete addresses stay out of the program's reach.
LEMMA WithheldStays ==
  ASSUME Inv, Apart, Good(heap', held', call'), AllMild, CallMild
  PROVE  Withheld(heap', held', call')
<1> SUFFICES ASSUME NEW a \in LiveIn(heap'), heap'[a].type = "address", ~Whole(heap', a)
             PROVE  /\ held'[a] = 0
                    /\ \A l \in LiveIn(heap') :
                         /\ heap'[l].type = "list"
                         /\ \E k \in DOMAIN heap'[l].slots : heap'[l].slots[k] = a
                         => Guarded(held', call', l)
  BY DEF Withheld
<1>1. CASE held'[a] = 0 /\ Uses(heap', a) = 0
  <2>1. Slots(heap', LiveIn(heap'), a) = {}
    BY <1>1, UsesNat DEF Good
  <2>2. \A l \in LiveIn(heap') : ~ \E k \in DOMAIN heap'[l].slots : heap'[l].slots[k] = a
    BY <2>1, InSlots
  <2>3. QED BY <1>1, <2>2
<1>2. CASE Stays(a) /\ (held'[a] <= held[a] \/ Harmless(a))
  <2>1. a \in LiveIn(heap) /\ heap[a].type = "address" /\ ~Whole(heap, a) /\ held'[a] <= held[a]
    BY <1>2 DEF Stays, Harmless, Whole
  <2>2. /\ held[a] = 0
        /\ \A l \in LiveIn(heap) :
             heap[l].type = "list" /\ (\E k \in DOMAIN heap[l].slots : heap[l].slots[k] = a)
               => Guarded(held, call, l)
    BY <2>1 DEF Apart, Withheld
  <2>3. \A y \in LiveIn(heap') : held'[y] \in Nat
    BY DEF Good, LiveIn
  <2>4. ASSUME NEW l \in LiveIn(heap'), heap'[l].type = "list",
               NEW k \in DOMAIN heap'[l].slots, heap'[l].slots[k] = a
        PROVE  Guarded(held', call', l)
    <3>1. \/ Guarded(held', call', l)
          \/ Stays(l) /\ (held'[l] <= held[l] \/ Harmless(l))
      BY <2>4 DEF AllMild, Mild
    <3>2. CASE Stays(l) /\ (held'[l] <= held[l] \/ Harmless(l))
      <4>1. l \in LiveIn(heap) /\ heap[l].type = "list" /\ k \in DOMAIN heap[l].slots /\ heap[l].slots[k] = a
        BY <2>4, <3>2 DEF Stays
      <4>2. Guarded(held, call, l)
        BY <2>2, <4>1
      <4>3. held'[l] <= held[l]
        BY <2>1, <3>2, <4>1 DEF Harmless
      <4>4. held'[l] = 0
        BY <2>3, <4>2, <4>3 DEF Guarded
      <4>5. InCall(call', l) => call'.exc = TRUE
        BY <4>1, <4>2 DEF Guarded, CallMild
      <4>6. QED BY <4>4, <4>5 DEF Guarded
    <3>3. QED BY <3>1, <3>2
  <2>5. QED BY <2>1, <2>2, <2>3, <2>4
<1>3. QED BY <1>1, <1>2 DEF AllMild, Mild

\* A step that leaves the objects alone.
LEMMA SameHeapMild ==
  ASSUME heap' = heap, \A y \in LiveIn(heap) : held'[y] <= held[y]
  PROVE  AllMild
BY DEF AllMild, Mild, Stays

\* A call that is over has no list.
LEMMA RestMild ==
  ASSUME Good(heap', held', call'), call'.pc \in Resting
  PROVE  CallMild /\ Private(held', call')
<1>1. call'.list = NULL /\ call'.lists = <<>> /\ call'.pc \notin Building
  BY DEF Good, CallOK, FieldsOK, Resting, Building, Converting
<1>2. \A l \in LiveIn(heap') : ~InCall(call', l)
  BY <1>1, IdsAssumption DEF InCall, LiveIn
<1>3. QED BY <1>1, <1>2 DEF CallMild, Private

\* The objects that are left when a reference has been given up.
LEMMA ReleasedMild ==
  ASSUME NEW m, NEW n, NEW i, Released(heap, m, heap', n, i),
         \A y \in LiveIn(heap) : held'[y] <= held[y]
  PROVE  AllMild
<1>1. \A y \in LiveIn(heap') : /\ y \in LiveIn(heap) /\ heap'[y].type = heap[y].type
                               /\ heap'[y].slots = heap[y].slots
  BY DEF Released
<1>2. QED BY <1>1 DEF AllMild, Mild, Stays

\* What the program holds is a number of references.
LEMMA HeldNat ==
  ASSUME Inv
  PROVE  \A y \in LiveIn(heap) : held[y] \in Nat /\ held[y] <= held[y]
BY DEF Inv, Good, LiveIn

\* Handing a string over disturbs no address.
LEMMA HandsOverMild ==
  ASSUME Inv, NEW pieces, HandsOver(pieces)
  PROVE  AllMild
<1>1. /\ \A y \in LiveIn(heap) : /\ heap'[y].type = heap[y].type
                                 /\ heap'[y].slots = heap[y].slots
      /\ \A y \in LiveIn(heap') \ LiveIn(heap) : heap'[y].type = "str"
      /\ \A y \in LiveIn(heap') : held'[y] = held[y] \/ heap'[y].type = "str"
  BY DEF HandsOver, Handed
<1>2. ASSUME NEW y \in LiveIn(heap') PROVE Mild(y)
  <2>1. CASE heap'[y].type = "str"
    BY <2>1 DEF Mild
  <2>2. CASE heap'[y].type # "str"
    <3>1. y \in LiveIn(heap) /\ held'[y] = held[y] /\ held[y] \in Nat
      BY <1>1, <2>2, HeldNat
    <3>2. QED BY <1>1, <3>1 DEF Mild, Stays
  <2>3. QED BY <2>1, <2>2
<1>3. QED BY <1>2 DEF AllMild

\* A step is tame if it keeps incomplete addresses from the program.
Tame == AllMild /\ CallMild /\ Private(held', call')

\* Ending a call disturbs no address.
LEMMA CrashTame ==
  ASSUME Inv, Good(heap', held', call'), heap' = heap, call'.pc \in Resting,
         \A y \in LiveIn(heap) : held'[y] <= held[y]
  PROVE  Tame
BY SameHeapMild, RestMild DEF Tame

\* The call keeps its lists.
LEMMA SameLists ==
  ASSUME Apart, held' = held, call.pc \in Building, call'.list = call.list,
         call'.lists = call.lists, call.exc = TRUE => call'.exc = TRUE
  PROVE  CallMild /\ Private(held', call')
BY DEF CallMild, InCall, Apart, Private

\* Beginning a call disturbs none.
LEMMA BeginTame ==
  ASSUME Inv, NEW op \in Ops, Begin(op)
  PROVE  Tame
<1> DEFINE c == [Idle EXCEPT !.pc = "list", !.op = op, !.todo = Families(op)]
<1>1. call' = c /\ heap' = heap /\ held' = held
  BY DEF Begin
<1>2. c.pc = "list" /\ c.list = NULL /\ c.lists = <<>>
  BY DEF Idle
<1> HIDE DEF c
<1>3. AllMild
  BY <1>1, HeldNat, SameHeapMild
<1>4. CallMild
  BY <1>1, <1>2, IdsAssumption DEF CallMild, InCall, LiveIn
<1>5. QED BY <1>1, <1>2, <1>3, <1>4 DEF Tame, Private, Building, Converting

\* Finishing a query hands out a list only when no exception is set.
LEMMA FinishTame ==
  ASSUME Inv, NEW c, DOMAIN c = CallFields, c.lists = call.lists,
         call.exc = TRUE => c.exc = TRUE, NEW x, x = call.list,
         heap' = heap, held' = held, call' = Finish(c, x)
  PROVE  Tame
<1> DEFINE d == Finish(c, x)
<1>1. /\ d.pc \in {"return", "list"} /\ d.list = NULL /\ d.lists = Append(call.lists, x)
      /\ d.exc = c.exc
  BY DEF Finish, CallFields
<1>2. call' = d
  OBVIOUS
<1> HIDE DEF d
<1>3. call.lists \in Seq(Ids \cup {NULL}) /\ x \in Ids \cup {NULL}
  BY DEF Inv, Good, CallOK, FieldsOK
<1>4. \A k \in DOMAIN d.lists : d.lists[k] = x \/ (k \in DOMAIN call.lists /\ d.lists[k] = call.lists[k])
  BY <1>1, <1>3
<1>5. CallMild
  <2>1. ASSUME NEW l \in LiveIn(heap), InCall(d, l) PROVE InCall(call, l)
    <3>1. l # NULL
      BY IdsAssumption DEF LiveIn
    <3>2. QED BY <1>1, <1>4, <2>1, <3>1 DEF InCall
  <2>2. QED BY <1>1, <1>2, <2>1 DEF CallMild
<1>6. AllMild
  BY HeldNat, SameHeapMild
<1>7. QED BY <1>1, <1>2, <1>5, <1>6 DEF Tame, Private, Building, Converting

\* A failed PyList_New sets an exception.
LEMMA ListFailsTame ==
  ASSUME Inv, ListFails, Good(heap', held', call')
  PROVE  Tame
<1> DEFINE c == [call EXCEPT !.todo = Tail(@), !.exc = TRUE]
<1>1. call.pc = "list" /\ held' = held
  BY DEF ListFails, At
<1>2. call.list = NULL /\ DOMAIN call = CallFields
  BY <1>1 DEF Inv, Good, CallOK, FieldsOK, Building, Converting
<1>3. DOMAIN c = CallFields /\ c.lists = call.lists /\ c.exc = TRUE
  BY <1>2 DEF CallFields
<1> HIDE DEF c
<1>4. CASE Crash
  <2>1. heap' = heap /\ call'.pc = "crashed"
    BY <1>4, CrashFields DEF Crash
  <2>2. QED BY <1>1, <2>1, HeldNat, CrashTame DEF Resting
<1>5. CASE call' = Finish(c, NULL) /\ heap' = heap
  BY <1>1, <1>2, <1>3, <1>5, FinishTame
<1>6. QED BY <1>4, <1>5 DEF ListFails, c

\* The next list, or the end of the query.
LEMMA EndListTame ==
  ASSUME Inv, EndList
  PROVE  Tame
<1>1. held' = held /\ heap' = heap /\ call' = Finish(call, call.list)
  BY DEF EndList
<1>2. DOMAIN call = CallFields
  BY DEF Inv, Good, CallOK, FieldsOK
<1>3. QED BY <1>1, <1>2, FinishTame

\* A new list holds no address.
LEMMA NewListTame ==
  ASSUME Inv, NewList
  PROVE  Tame
<1>1. PICK dump : call' = [call EXCEPT !.pc = "next", !.todo = Tail(@), !.dump = dump,
                                        !.list = Place]
  BY DEF NewList
<1>2. /\ heap' = [heap EXCEPT ![Place] = Object("list", <<>>)] /\ held' = held
      /\ call.pc = "list" /\ Free # {}
  BY DEF NewList, At
<1>3. Place \in Ids /\ Place \notin LiveIn(heap) /\ DOMAIN heap = Ids /\ DOMAIN call = CallFields
  BY <1>2, PlaceOK DEF Inv, Good, HeapOK, CallOK, FieldsOK
<1>4. call'.list = Place /\ call'.lists = call.lists /\ call'.exc = call.exc
  BY <1>1, <1>3 DEF CallFields
<1>5. /\ heap'[Place] = Object("list", <<>>)
      /\ \A y \in LiveIn(heap') \ {Place} : y \in LiveIn(heap) /\ heap'[y] = heap[y]
  BY <1>2, <1>3 DEF LiveIn
<1>6. heap'[Place].type = "list" /\ \A k \in DOMAIN heap'[Place].slots : FALSE
  BY <1>5 DEF Object
<1>7. AllMild
  <2>1. Mild(Place)
    BY <1>6 DEF Mild
  <2>2. ASSUME NEW y \in LiveIn(heap') \ {Place} PROVE Mild(y)
    BY <1>2, <1>5, HeldNat DEF Mild, Stays
  <2>3. QED BY <2>1, <2>2 DEF AllMild
<1>8. CallMild
  BY <1>3, <1>4 DEF CallMild, InCall
<1>9. held[Place] = 0
  <2>1. /\ heap[Place] = NULL /\ Covered(heap, Outer(held, call)) /\ Uses(heap, Place) \in Nat
        /\ Outer(held, call)[Place] = held[Place] + CallRefs(call, Place)
        /\ held[Place] \in Nat /\ CallRefs(call, Place) \in Nat
    BY <1>3, OuterOK, UsesNat DEF Inv, Good, CallOK, LiveIn
  <2>2. Uses(heap, Place) + Outer(held, call)[Place] = 0
    BY <1>3, <2>1 DEF Covered
  <2>3. QED BY <2>1, <2>2
<1>10. QED BY <1>2, <1>4, <1>7, <1>8, <1>9 DEF Tame, Private

\* The steps within the callback change the address under construction only.
LEMMA NewAddressTame ==
  ASSUME Inv, Apart, NewAddress, Good(heap', held', call')
  PROVE  Tame
<1>1. /\ heap' = [heap EXCEPT ![Place] = Object("address", Uninitialised)] /\ held' = held
      /\ call' = [call EXCEPT !.pc = "local", !.addr = Place] /\ call.pc = "next" /\ Free # {}
  BY DEF NewAddress, At
<1>2. Place \in Ids /\ Place \notin LiveIn(heap) /\ DOMAIN heap = Ids /\ DOMAIN call = CallFields
  BY <1>1, PlaceOK DEF Inv, Good, HeapOK, CallOK, FieldsOK
<1>3. /\ call'.list = call.list /\ call'.lists = call.lists /\ call'.exc = call.exc
      /\ call'.pc = "local" /\ call'.addr = Place
  BY <1>1, <1>2 DEF CallFields
<1>4. heap'[Place].type = "address" /\ held'[Place] = 0 /\ Uses(heap', Place) = 0
  BY <1>3, Ours DEF Converting, IsIn
<1>5. \A y \in LiveIn(heap') \ {Place} : y \in LiveIn(heap) /\ heap'[y] = heap[y]
  BY <1>1, <1>2 DEF LiveIn
<1>6. AllMild
  <2>1. Mild(Place)
    BY <1>4 DEF Mild
  <2>2. ASSUME NEW y \in LiveIn(heap') \ {Place} PROVE Mild(y)
    BY <1>1, <1>5, HeldNat DEF Mild, Stays
  <2>3. QED BY <2>1, <2>2 DEF AllMild
<1>7. QED BY <1>1, <1>3, <1>6, SameLists DEF Tame, Building

\* A conversion disturbs only the address that is being built.
LEMMA ConvertsTame ==
  ASSUME Inv, Apart, Converts, Good(heap', held', call')
  PROVE  Tame
<1>1. /\ held' = held /\ call'.pc \in Converting /\ call'.addr = call.addr
      /\ call'.list = call.list /\ call'.lists = call.lists /\ call.pc \in Building
      /\ call.exc = TRUE => call'.exc = TRUE
      /\ \A y \in LiveIn(heap') \ {call.addr} :
           heap'[y].type = "str" \/ (y \in LiveIn(heap) /\ heap'[y] = heap[y])
  BY DEF Converts, Building
<1>2. heap'[call.addr].type = "address" /\ held'[call.addr] = 0 /\ Uses(heap', call.addr) = 0
  BY <1>1, Ours DEF IsIn
<1>3. AllMild
  <2>1. Mild(call.addr)
    BY <1>2 DEF Mild
  <2>2. ASSUME NEW y \in LiveIn(heap') \ {call.addr} PROVE Mild(y)
    BY <1>1, HeldNat DEF Mild, Stays
  <2>3. QED BY <2>1, <2>2 DEF AllMild
<1>4. QED BY <1>1, <1>3, SameLists DEF Tame

\* A failed PyObject_New sets an exception.
LEMMA NewAddressFailsTame ==
  ASSUME Inv, Apart, NewAddressFails
  PROVE  Tame
<1> DEFINE c == [call EXCEPT !.exc = TRUE]
           d == NextAddress(c)
<1>1. call.pc = "next" /\ held' = held /\ heap' = heap /\ call' = d
  BY DEF NewAddressFails, At
<1>2. DOMAIN call = CallFields
  BY DEF Inv, Good, CallOK, FieldsOK
<1>3. d.list = call.list /\ d.lists = call.lists /\ d.exc = TRUE
  BY <1>2 DEF CallFields, NextAddress
<1> HIDE DEF c, d
<1>4. QED BY <1>1, <1>3, SameLists, HeldNat, SameHeapMild DEF Tame, Building

\* The error path drops an address that nobody has seen.
LEMMA DropsTame ==
  ASSUME Inv, Apart, Drops, Good(heap', held', call')
  PROVE  Tame
<1>1. CASE call'.pc = "crashed" /\ heap' = heap
  BY <1>1, HeldNat, CrashTame DEF Drops, Resting
<1>2. CASE call'.pc # "crashed"
  <2>1. /\ held' = held /\ call.pc \in Building /\ call'.list = call.list
        /\ call'.lists = call.lists /\ (call.exc = TRUE => call'.exc = TRUE)
        /\ Released(heap, Outer(held, call), heap', Outer(held', call'), call.addr)
    BY <1>2 DEF Drops, Building
  <2>2. AllMild
    BY <2>1, HeldNat, ReleasedMild
  <2>3. QED BY <2>1, <2>2, SameLists DEF Tame
<1>3. QED BY <1>1, <1>2 DEF Drops

\* PyList_Append() of an address without a scope: an exception is set.
LEMMA AppendAddressTame ==
  ASSUME Inv, Apart, AppendAddress, Appended, Good(heap', held', call')
  PROVE  Tame
<1> DEFINE a == call.addr
           l == call.list
<1>1. /\ call.pc = "append" /\ held' = held /\ call' = NextAddress(call)
      /\ call.pc \in Building /\ call.pc \in Converting
  BY DEF AppendAddress, At, Building, Converting
<1>2. /\ DOMAIN call = CallFields /\ call.exc \in BOOLEAN /\ IsIn(heap, l, "list")
      /\ StageOK(heap, call) /\ IsIn(heap, a, "address") /\ HeapOK(heap)
  BY <1>1, OnlyOurs DEF Inv, Good, CallOK, FieldsOK, RefsOK
<1>3. call'.list = l /\ call'.lists = call.lists /\ call'.exc = call.exc
  BY <1>1, <1>2 DEF CallFields, NextAddress
<1>4. /\ LiveIn(heap') = LiveIn(heap) /\ heap'[l].slots = Append(heap[l].slots, a)
      /\ \A y \in LiveIn(heap) :
           heap'[y].type = heap[y].type /\ (y # l => heap'[y].slots = heap[y].slots)
  BY DEF Appended
<1>5. \A y \in LiveIn(heap') \ {l} : Mild(y)
  BY <1>1, <1>4, HeldNat DEF Mild, Stays
<1>6. Mild(l)
  <2>1. held[l] = 0 /\ heap'[l].type = "list"
    BY <1>1, <1>2, <1>4 DEF Apart, Private, IsIn
  <2>2. CASE call.exc = TRUE
    BY <1>1, <1>3, <2>1, <2>2 DEF Mild, Guarded
  <2>3. CASE call.exc = FALSE
    <3>1. Whole(heap, a)
      <4>1. IsIn(heap, heap[a].slots.local, "str") /\ IsIn(heap, heap[a].slots.scope, "str")
        BY <1>1, <1>2, <2>3 DEF StageOK
      <4>2. QED BY <4>1, IdsAssumption DEF Whole, IsIn, LiveIn
    <3>2. /\ heap[l].slots \in Seq(Ids)
          /\ \A k \in DOMAIN heap[l].slots : IsIn(heap, heap[l].slots[k], "address")
      BY <1>2 DEF HeapOK, ObjectOK, IsIn
    <3>3. ~Guarded(held, call, l)
      BY <2>3 DEF Guarded, InCall
    <3>4. ASSUME NEW k \in DOMAIN heap[l].slots PROVE Whole(heap, heap[l].slots[k])
      <4>1. heap[l].slots[k] \in LiveIn(heap) /\ heap[heap[l].slots[k]].type = "address"
        BY <3>2 DEF IsIn
      <4>2. l \in LiveIn(heap) /\ heap[l].type = "list"
        BY <1>2 DEF IsIn
      <4>3. QED BY <3>3, <4>1, <4>2 DEF Apart, Withheld
    <3>5. ASSUME NEW y, IsIn(heap, y, "address"), Whole(heap, y) PROVE Whole(heap', y)
      <4>1. y # l /\ y \in LiveIn(heap)
        BY <1>2, <3>5 DEF IsIn
      <4>2. QED BY <1>4, <3>5, <4>1 DEF Whole
    <3>6. a \in Ids
      BY <1>2 DEF IsIn, LiveIn
    <3>7. \A k \in DOMAIN heap'[l].slots :
            heap'[l].slots[k] = a \/ (k \in DOMAIN heap[l].slots /\ heap'[l].slots[k] = heap[l].slots[k])
      BY <1>4, <3>2, <3>6
    <3>8. \A k \in DOMAIN heap'[l].slots : Whole(heap', heap'[l].slots[k])
      BY <1>2, <3>1, <3>2, <3>4, <3>5, <3>7
    <3>9. QED BY <2>1, <3>8 DEF Mild
  <2>4. QED BY <1>2, <2>2, <2>3
<1>7. QED BY <1>1, <1>3, <1>5, <1>6, SameLists DEF Tame, AllMild

\* The program gets a list from a method: without an exception all its
\* addresses are whole.
LEMMA ReturnListTame ==
  ASSUME Checked = TRUE, Inv, Apart, Returns, Good(heap', held', call')
  PROVE  Tame
<1> DEFINE x == call.lists[1]
<1>1. call'.pc \in Resting
  BY DEF Returns
<1>2. CASE heap' = heap /\ held' = held
  BY <1>1, <1>2, HeldNat, CrashTame
<1>3. CASE held' = held /\ Released(heap, Outer(held, call), heap', Outer(held', call'), x)
  <2>1. AllMild
    BY <1>3, HeldNat, ReleasedMild
  <2>2. QED BY <1>1, <2>1, RestMild DEF Tame
<1>4. CASE /\ heap' = heap /\ held' = [held EXCEPT ![x] = @ + 1]
           /\ call.exc = FALSE /\ IsIn(heap, x, "list") /\ 1 \in DOMAIN call.lists
  <2>1. ~Guarded(held, call, x) /\ x \in LiveIn(heap) /\ heap[x].type = "list"
    BY <1>4 DEF Guarded, InCall, IsIn
  <2>2. ASSUME NEW k \in DOMAIN heap[x].slots PROVE Whole(heap, heap[x].slots[k])
    <3>1. heap[x].slots[k] \in LiveIn(heap) /\ heap[heap[x].slots[k]].type = "address"
      BY <2>1 DEF Inv, Good, HeapOK, ObjectOK, IsIn
    <3>2. QED BY <2>1, <3>1 DEF Apart, Withheld
  <2> HIDE DEF x
  <2>3. Mild(x)
    BY <1>4, <2>1, <2>2 DEF Mild, Stays, Harmless
  <2>4. \A y \in LiveIn(heap') \ {x} : held'[y] = held[y] /\ held[y] \in Nat
    BY <1>4, HeldNat DEF Inv, Good, LiveIn
  <2>5. \A y \in LiveIn(heap') \ {x} : Mild(y)
    BY <1>4, <2>4 DEF Mild, Stays
  <2>6. QED BY <1>1, <2>3, <2>5, RestMild DEF Tame, AllMild
<1>5. QED BY <1>2, <1>3, <1>4 DEF Returns

\* Handing a string over gives no address to the program.
LEMMA HandsOverTame ==
  ASSUME Inv, NEW pieces, HandsOver(pieces), Good(heap', held', call')
  PROVE  Tame
<1>1. call'.pc \in Resting
  BY IdleFields DEF HandsOver, Resting
<1>2. QED BY <1>1, HandsOverMild, RestMild DEF Tame

\* The program takes an address out of a list that it has.
LEMMA TakeItemTame ==
  ASSUME Inv, Apart, NEW list \in Ids, NEW k, TakeItem(list, k), Good(heap', held', call')
  PROVE  Tame
<1> DEFINE x == heap[list].slots[k]
<1>1. /\ call.pc = "idle" /\ held[list] > 0 /\ heap[list].type = "list"
      /\ k \in DOMAIN heap[list].slots /\ call' = call
      /\ heap' = Incref(heap, x) /\ held' = [held EXCEPT ![x] = @ + 1]
  BY DEF TakeItem, Has, At, Hold
<1>2. list \in LiveIn(heap) /\ HeapOK(heap) /\ held \in [Ids -> Nat]
  BY <1>1, HeldIsLive, IdleCall
<1>3. x \in LiveIn(heap) /\ heap[x].type = "address"
  BY <1>1, <1>2 DEF HeapOK, ObjectOK, IsIn
<1>4. Whole(heap, x)
  <2>1. ~Guarded(held, call, list)
    BY <1>1, <1>2 DEF Guarded
  <2>2. QED BY <1>1, <1>2, <1>3, <2>1 DEF Apart, Withheld
<1> HIDE DEF x
<1>5. Counted(heap, heap', x)
  BY <1>1, <1>2, <1>3, IncrefOK
<1>6. \A y \in LiveIn(heap') : Stays(y)
  BY <1>5 DEF Counted, Stays
<1>7. \A y \in LiveIn(heap') \ {x} : held'[y] = held[y] /\ held[y] \in Nat
  BY <1>1, <1>2 DEF LiveIn
<1>8. Mild(x)
  BY <1>3, <1>4, <1>5, <1>6 DEF Mild, Harmless, Counted
<1>9. \A y \in LiveIn(heap') \ {x} : Mild(y)
  BY <1>6, <1>7 DEF Mild
<1>10. call'.pc \in Resting
  BY <1>1 DEF Resting
<1>11. QED BY <1>8, <1>9, <1>10, RestMild DEF Tame, AllMild

\* Neither does reading a member.
LEMMA ReadMemberTame ==
  ASSUME Inv, NEW i \in Ids, NEW m \in DOMAIN Member, ReadMember(i, m),
         Good(heap', held', call')
  PROVE  Tame
<1> DEFINE x == heap[i].slots[Member[m]]
<1>1. /\ call.pc = "idle" /\ held[i] > 0 /\ heap[i].type = "address" /\ x # NULL
      /\ call' = call /\ heap' = Incref(heap, x) /\ held' = [held EXCEPT ![x] = @ + 1]
  BY DEF ReadMember, Has, At, Hold
<1>2. IsIn(heap, i, "address") /\ Member[m] \in Pointers /\ HeapOK(heap) /\ held \in [Ids -> Nat]
  BY <1>1, HeldIsLive, IdleCall, MemberPointers DEF IsIn
<1>3. x \in LiveIn(heap) /\ heap[x].type = "str"
  BY <1>1, <1>2, PointerLeads DEF IsIn
<1> HIDE DEF x
<1>4. Counted(heap, heap', x)
  BY <1>1, <1>2, <1>3, IncrefOK
<1>5. \A y \in LiveIn(heap') : Stays(y)
  BY <1>4 DEF Counted, Stays
<1>6. \A y \in LiveIn(heap') \ {x} : held'[y] = held[y] /\ held[y] \in Nat
  BY <1>1, <1>2 DEF LiveIn
<1>7. Mild(x)
  BY <1>3, <1>4 DEF Mild, Counted
<1>8. \A y \in LiveIn(heap') \ {x} : Mild(y)
  BY <1>5, <1>6 DEF Mild
<1>9. call'.pc \in Resting
  BY <1>1 DEF Resting
<1>10. QED BY <1>7, <1>8, <1>9, RestMild DEF Tame, AllMild

\* The program may delete the peer and broadcast addresses.
LEMMA DeleteMemberTame ==
  ASSUME Deletable \subseteq {"peer_address", "broadcast"},
         Inv, NEW i \in Ids, NEW m \in DOMAIN Member, DeleteMember(i, m),
         Good(heap', held', call')
  PROVE  Tame
<1>1. call.pc = "idle" /\ held' = held /\ call' = call /\ m \in Deletable /\ heap[i].type = "address"
  BY DEF DeleteMember, Has, At
<1>2. Member[m] \notin {"local", "scope"}
  BY <1>1 DEF Member
<1>3. \A y \in LiveIn(heap') :
        /\ y \in LiveIn(heap) /\ heap'[y].type = heap[y].type
        /\ y # i => heap'[y].slots = heap[y].slots
        /\ \A p \in Pointers \ {Member[m]} : heap'[i].slots[p] = heap[i].slots[p] \/ y # i
  BY DeleteMemberOK
<1>4. ASSUME NEW y \in LiveIn(heap') PROVE Stays(y)
  <2>1. CASE y = i
    BY <1>1, <1>2, <1>3, <2>1 DEF Stays, Pointers
  <2>2. CASE y # i
    BY <1>3, <2>2 DEF Stays
  <2>3. QED BY <2>1, <2>2
<1>5. \A y \in LiveIn(heap') : held'[y] <= held[y]
  BY <1>1, <1>3, HeldNat
<1>6. call'.pc \in Resting
  BY <1>1 DEF Resting
<1>7. QED BY <1>4, <1>5, <1>6, RestMild DEF Tame, AllMild, Mild

\* Dropping a reference takes no pointer of an address away.
LEMMA DropReferenceTame ==
  ASSUME Inv, NEW i \in Ids, DropReference(i), Good(heap', held', call')
  PROVE  Tame
<1>1. held' = [held EXCEPT ![i] = @ - 1] /\ held \in [Ids -> Nat] /\ held[i] > 0
  BY DEF DropReference, Inv, Good
<1>2. \A y \in LiveIn(heap) : held'[y] <= held[y]
  BY <1>1 DEF LiveIn
<1>3. \/ call'.pc = "crashed" /\ heap' = heap
      \/ /\ call' = Idle
         /\ Released(heap, Outer(held, call), heap', Outer(held', call'), i)
  BY DropReferenceOK
<1>4. call'.pc \in Resting
  BY <1>3, IdleFields DEF Resting
<1>5. CASE heap' = heap
  BY <1>2, <1>4, <1>5, CrashTame
<1>6. CASE Released(heap, Outer(held, call), heap', Outer(held', call'), i)
  <2>1. AllMild
    BY <1>2, <1>6, ReleasedMild
  <2>2. QED BY <1>4, <2>1, RestMild DEF Tame
<1>7. QED BY <1>3, <1>5, <1>6

\* A crash disturbs no address.
LEMMA CrashStepTame ==
  ASSUME Inv, Crash, held' = held, Good(heap', held', call')
  PROVE  Tame
<1>1. heap' = heap /\ call'.pc \in Resting
  BY CrashFields DEF Crash, Resting
<1>2. QED BY <1>1, HeldNat, CrashTame

\* Every step keeps incomplete addresses out of the program's reach.
LEMMA StepIsTame ==
  ASSUME Deletable \subseteq {"peer_address", "broadcast"}, Checked = TRUE,
         Inv, Apart, [Next]_vars
  PROVE  Tame \/ UNCHANGED vars
<1>0. Good(heap', held', call')
  BY StepIsFine DEF Fine
<1>1. CASE \E op \in Ops : Begin(op)
  BY <1>1, BeginTame
<1>2. CASE NewList
  BY <1>2, NewListTame
<1>3. CASE ListFails
  BY <1>0, <1>3, ListFailsTame
<1>4. CASE EndList
  BY <1>4, EndListTame
<1>5. CASE NewAddress
  BY <1>0, <1>5, NewAddressTame
<1>6. CASE NewAddressFails
  BY <1>6, NewAddressFailsTame
<1>7. CASE SetLocal \/ SetPeer \/ SetBroadcast \/ SetScope
  BY <1>0, <1>7, ConversionOK, ConvertsTame
<1>8. CASE ConversionFails
  BY <1>0, <1>8, ConversionFailsOK, DropsTame
<1>9. CASE AppendAddress
  BY <1>0, <1>9, AppendAddressOK, AppendAddressTame
<1>10. CASE AppendFails
  BY <1>0, <1>10, AppendFailsOK, DropsTame
<1>11. CASE ReturnList
  BY <1>0, <1>11, ReturnListOK, ReturnListTame
<1>12. CASE ReturnAttribute
  BY <1>0, <1>12, ReturnAttributeOK, HandsOverTame
<1>13. CASE ReturnString
  BY <1>0, <1>13, ReturnStringOK, HandsOverTame, CrashStepTame
<1>14. CASE \E list \in Ids, k \in 1..Cardinality(Ids) : TakeItem(list, k)
  BY <1>0, <1>14, TakeItemTame
<1>15. CASE \E i \in Ids, m \in DOMAIN Member : ReadMember(i, m) \/ DeleteMember(i, m)
  BY <1>0, <1>15, ReadMemberTame, DeleteMemberTame
<1>16. CASE \E i \in Ids : Repr(i)
  BY <1>0, <1>16, ReprOK, HandsOverTame, CrashStepTame
<1>17. CASE \E i \in Ids : DropReference(i)
  BY <1>0, <1>17, DropReferenceTame
<1>18. CASE Exit
  <2>1. LiveIn(heap') = {} /\ call'.pc \in Resting
    BY <1>18, EmptyHeap, IdleFields DEF Exit, Resting
  <2>2. QED BY <1>0, <2>1, RestMild DEF Tame, AllMild
<1>19. QED
  BY <1>1, <1>2, <1>3, <1>4, <1>5, <1>6, <1>7, <1>8, <1>9, <1>10, <1>11, <1>12, <1>13,
     <1>14, <1>15, <1>16, <1>17, <1>18 DEF Next, CallStep

\* The program never gets an address without a local address or a scope, so
\* that repr() never ends the process, as long as the program deletes neither
\* and the interpreter checks results against exceptions, as from Python 3.5:
\* the exception that a failed conversion leaves behind keeps the list of
\* get_etherinfo_address() from it.
THEOREM ReprIsSafe ==
  ASSUME Deletable \subseteq {"peer_address", "broadcast"}, Checked = TRUE
  PROVE  Spec => []ReprSafe
<1>1. Init => Inv /\ Apart
  <2> SUFFICES ASSUME Init PROVE Apart
    BY InvInit
  <2>1. LiveIn(heap) = {} /\ call.pc = "idle"
    BY IdleFields DEF Init, LiveIn
  <2>2. QED BY <2>1 DEF Apart, Private, Withheld, Building, Converting
<1>2. Inv /\ Apart /\ [Next]_vars => (Inv /\ Apart)'
  <2> SUFFICES ASSUME Inv, Apart, [Next]_vars PROVE Inv' /\ Apart'
    OBVIOUS
  <2>1. Good(heap', held', call')
    BY StepIsFine DEF Fine
  <2>2. CASE Tame
    <3>1. Withheld(heap', held', call')
      BY <2>1, <2>2, WithheldStays DEF Tame
    <3>2. QED BY <2>1, <2>2, <3>1 DEF Tame, Apart, Inv
  <2>3. CASE UNCHANGED vars
    BY <2>3 DEF vars, Inv, Apart
  <2>4. QED BY <2>2, <2>3, StepIsTame
<1>3. Inv /\ Apart => ReprSafe
  <2> SUFFICES ASSUME Inv, Apart, NEW i \in Reachable
               PROVE  Is(heap[i].slots.local, "str") /\ Is(heap[i].slots.scope, "str")
    BY DEF ReprSafe
  <2>1. Live = LiveIn(heap) /\ \A y, t : IsIn(heap, y, t) <=> Is(y, t)
    BY DEF Live, LiveIn, IsIn, Is
  <2>2. /\ i \in LiveIn(heap) /\ heap[i].type = "address" /\ held[i] \in Nat
        /\ held[i] > 0 \/ \E s \in Slots(heap, LiveIn(heap), i) : held[s[1]] > 0
    BY <2>1, HeldNat DEF Reachable
  <2>3. Whole(heap, i)
    <3>1. CASE held[i] > 0
      BY <2>2, <3>1 DEF Apart, Withheld
    <3>2. CASE \E s \in Slots(heap, LiveIn(heap), i) : held[s[1]] > 0
      <4>1. PICK l \in LiveIn(heap) : \E k \in DOMAIN heap[l].slots :
              heap[l].slots[k] = i /\ held[l] > 0
        BY <3>2, InSlots
      <4>2. PICK k \in DOMAIN heap[l].slots : heap[l].slots[k] = i /\ held[l] > 0
        BY <4>1
      <4>3. <<l, k>> \in Slots(heap, LiveIn(heap), i)
        BY <4>2, InSlots
      <4>4. heap[l].type = "list"
        BY <2>2, <4>3, Referrer DEF Inv, Good
      <4>5. held[l] # 0
        BY <4>2, HeldNat
      <4>6. QED BY <2>2, <4>2, <4>4, <4>5 DEF Apart, Withheld, Guarded
    <3>3. QED BY <2>2, <3>1, <3>2
  <2>4. PointerOK(heap, heap[i].slots.local) /\ PointerOK(heap, heap[i].slots.scope)
    BY <2>2 DEF Inv, Good, HeapOK, ObjectOK, Pointers
  <2>5. QED BY <2>1, <2>3, <2>4 DEF Whole, PointerOK
<1>4. QED BY <1>1, <1>2, <1>3, PTL DEF Spec

=============================================================================
