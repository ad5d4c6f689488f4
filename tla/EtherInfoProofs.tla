--------------------------- MODULE EtherInfoProofs ---------------------------
(***************************************************************************)
(* Machine-checked facts about EtherInfo, for any number of objects, names,*)
(* links and sockets and whatever fails.                                   *)
(***************************************************************************)
EXTENDS EtherInfo, SequenceTheorems, FiniteSetTheorems, WellFoundedInduction, TLAPS

\* The fields a call has in every state.
CallShape == DOMAIN call = {"pc", "self", "op", "todo", "exc", "cache", "out"}

\* What an update of the fields of a call leaves alone, and where it leads.
LEMMA PartEndsShape ==
  ASSUME NEW c, DOMAIN c = {"pc", "self", "op", "todo", "exc", "cache", "out"}
  PROVE  /\ DOMAIN PartEnds(c) = DOMAIN c
         /\ PartEnds(c).pc \in {"return", "open"}
         /\ PartEnds(c).self = c.self
BY DEF PartEnds

\* A part that fails or succeeds leads to the next part or to the end.
LEMMA PartOver ==
  ASSUME CallShape, NEW list, NEW exc, Fail(exc) \/ Succeed(list)
  PROVE  CallShape' /\ call'.pc \in {"return", "open"} /\ call'.self = self
BY PartEndsShape DEF Fail, Succeed, Yield, CallShape, self

\* get_interfaces_info() makes no query.
LEMMA InfoBegins ==
  ASSUME NEW arg, GetInterfacesInfo(arg)
  PROVE  CallShape' /\ call'.pc \in {"idle", "create"}
<1>1. ASSUME NEW names, NEW items,
             call' = [Idle EXCEPT !.pc = "create", !.op = "get_interfaces_info",
                                  !.todo = names, !.cache = items]
      PROVE  CallShape' /\ call'.pc = "create"
  BY <1>1 DEF Idle, CallShape
<1>2. CASE call' = Idle
  BY <1>2 DEF Idle, CallShape
<1>3. QED BY <1>1, <1>2 DEF GetInterfacesInfo

\* get_nlc() always finds a connection.
LEMMA ConnectionStep ==
  ASSUME CallShape, ConnectionWhenQuerying, [Next]_vars
  PROVE  CallShape' /\ ConnectionWhenQuerying'
<1>1. ASSUME NEW o \in Objs, NewEtherInfo(o)
      PROVE  CallShape' /\ ConnectionWhenQuerying'
  BY <1>1 DEF NewEtherInfo, CallShape, ConnectionWhenQuerying
<1>0. ASSUME NEW arg \in Args, GetInterfacesInfo(arg)
      PROVE  CallShape' /\ ConnectionWhenQuerying'
  BY <1>0, InfoBegins DEF ConnectionWhenQuerying
<1>2. ASSUME NEW o \in Objs, Dealloc(o)
      PROVE  CallShape' /\ ConnectionWhenQuerying'
  BY <1>2 DEF Dealloc, GcPoints, CallShape, ConnectionWhenQuerying
<1>3. ASSUME NEW o \in Objs, NEW op \in Ops, Begin(o, op)
      PROVE  CallShape' /\ ConnectionWhenQuerying'
  BY <1>3 DEF Begin, Idle, CallShape, ConnectionWhenQuerying
<1>4. CASE OpenConnection
  <2>1. CASE NL!OpenSucceeds(self) /\ call' = [call EXCEPT !.pc = "index"]
    BY <2>1, NullAssumption DEF NL!OpenSucceeds, NL!OpenReuse, NL!OpenNew,
       NL!sockvars, CallShape, ConnectionWhenQuerying
  <2>2. CASE NL!OpenFails /\ Fail("RuntimeError")
    BY <2>2, PartOver DEF ConnectionWhenQuerying
  <2>3. QED BY <1>4, <2>1, <2>2 DEF OpenConnection
<1>5. CASE SetDeviceIndex
  <2>1. nlconnection' = nlconnection /\ nlconnection # NULL
    BY <1>5 DEF SetDeviceIndex, At, nlvars, ConnectionWhenQuerying
  <2>2. CASE call' = [call EXCEPT !.pc = "dump"]
    BY <2>1, <2>2 DEF CallShape, ConnectionWhenQuerying
  <2>3. CASE Fail("OSError") \/ Fail("IOError")
    BY <2>3, PartOver DEF ConnectionWhenQuerying
  <2>4. QED BY <1>5, <2>2, <2>3 DEF SetDeviceIndex
<1>6. CASE ReadLink \/ LinkDumpFails \/ FilterAllocFails \/ BuildList
  BY <1>6, PartOver DEF ReadLink, LinkDumpFails, FilterAllocFails, BuildList,
     ConnectionWhenQuerying
<1>7. CASE DumpAddresses
  BY <1>7 DEF DumpAddresses, CallShape, ConnectionWhenQuerying
<1>8. CASE AddrDumpFails
  <2>1. CASE Fail("OSError")
    BY <2>1, PartOver DEF ConnectionWhenQuerying
  <2>2. CASE call' = [Idle EXCEPT !.pc = "crashed"]
    BY <2>2 DEF Idle, CallShape, ConnectionWhenQuerying
  <2>3. QED BY <1>8, <2>1, <2>2 DEF AddrDumpFails
<1>9. CASE Return \/ ReturnInfo
  BY <1>9 DEF Return, ReturnInfo, Idle, CallShape, ConnectionWhenQuerying
<1>10. CASE KernelStep
  BY <1>10 DEF KernelStep, LinkRemoved, LinkAdded, LinkRenamed, LinkMacSet,
     LinkAddrsSet, SetLink, nlvars, CallShape, ConnectionWhenQuerying
<1>11. CASE UNCHANGED vars
  BY <1>11 DEF vars, nlvars, CallShape, ConnectionWhenQuerying
<1>12. CASE Crashed
  BY <1>11, <1>12 DEF Crashed
<1>13. QED
  BY <1>0, <1>1, <1>2, <1>3, <1>4, <1>5, <1>6, <1>7, <1>8, <1>9, <1>10, <1>11,
     <1>12 DEF Next, CallStep

\* The assertion in get_nlc() never fails.
THEOREM AssertionHolds == Spec => []ConnectionWhenQuerying
<1>1. Init => CallShape /\ ConnectionWhenQuerying
  BY DEF Init, Idle, CallShape, ConnectionWhenQuerying
<1>2. CallShape /\ ConnectionWhenQuerying /\ [Next]_vars
        => CallShape' /\ ConnectionWhenQuerying'
  BY ConnectionStep
<1>3. QED BY <1>1, <1>2, PTL DEF Spec

-----------------------------------------------------------------------------
(***************************************************************************)
(* The objects use the connection as netlink.c allows.                     *)
(***************************************************************************)

\* The object whose method runs is alive: a caller holds a reference to it.
CallerAlive ==
  /\ CallShape
  /\ live \subseteq Objs
  /\ call.pc \notin {"idle", "create", "crashed"} => call.self \in live

\* Every step is a step of Netlink or leaves its variables alone.
LEMMA NetlinkStep ==
  ASSUME CallerAlive, [Next]_vars
  PROVE  [NL!Next]_nlvars
<1>1. ASSUME NEW o \in Objs, NewEtherInfo(o)
      PROVE  NL!Next
  BY <1>1 DEF NewEtherInfo, NL!Next
<1>2. ASSUME NEW o \in Objs, Dealloc(o)
      PROVE  NL!Next
  BY <1>2 DEF Dealloc, NL!Next
<1>3. CASE OpenConnection
  <2>1. self \in live /\ self \in Objs
    BY <1>3 DEF OpenConnection, At, CallerAlive, self
  <2>2. NL!Open(self)
    BY <1>3, <2>1 DEF OpenConnection, NL!Open
  <2>3. QED BY <2>1, <2>2 DEF NL!Next
<1>4. CASE CallStep /\ ~OpenConnection
  BY <1>4 DEF CallStep, SetDeviceIndex, ReadLink, LinkDumpFails,
     DumpAddresses, AddrDumpFails, FilterAllocFails, BuildList, Return,
     ReturnInfo
<1>0. ASSUME NEW arg \in Args, GetInterfacesInfo(arg)
      PROVE  UNCHANGED nlvars
  BY <1>0 DEF GetInterfacesInfo
<1>5. ASSUME NEW o \in Objs, NEW op \in Ops, Begin(o, op)
      PROVE  UNCHANGED nlvars
  BY <1>5 DEF Begin
<1>6. CASE KernelStep
  BY <1>6 DEF KernelStep, LinkRemoved, LinkAdded, LinkRenamed, LinkMacSet,
     LinkAddrsSet, SetLink
<1>7. CASE Crashed \/ UNCHANGED vars
  BY <1>7 DEF Crashed, vars
<1>8. QED
  BY <1>0, <1>1, <1>2, <1>3, <1>4, <1>5, <1>6, <1>7 DEF Next

\* The object of a call stays alive until the call returns: the collector
\* never takes it.
LEMMA CallerStep ==
  ASSUME CallerAlive, [Next]_vars
  PROVE  CallerAlive'
<1>0. ASSUME NEW arg \in Args, GetInterfacesInfo(arg)
      PROVE  CallerAlive'
  BY <1>0, InfoBegins DEF GetInterfacesInfo, nlvars, CallerAlive
<1>1. ASSUME NEW o \in Objs, NewEtherInfo(o)
      PROVE  CallerAlive'
  BY <1>1 DEF NewEtherInfo, NL!NewObject, CallShape, CallerAlive
<1>2. ASSUME NEW o \in Objs, Dealloc(o)
      PROVE  CallerAlive'
  BY <1>2 DEF Dealloc, NL!Dealloc, CallShape, CallerAlive
<1>3. ASSUME NEW o \in Objs, NEW op \in Ops, Begin(o, op)
      PROVE  CallerAlive'
  BY <1>3 DEF Begin, nlvars, Idle, CallShape, CallerAlive
<1>4. ASSUME live' = live, call.pc \in {"open", "index", "dump", "newlist"},
             NEW list, NEW exc, Fail(exc) \/ Succeed(list)
      PROVE  CallerAlive'
  BY <1>4, PartOver DEF CallerAlive, self
<1>5. ASSUME live' = live, call.pc \in {"open", "index", "dump"},
             NEW pc \in {"index", "dump"}, call' = [call EXCEPT !.pc = pc]
      PROVE  CallerAlive'
  BY <1>5 DEF CallerAlive, CallShape
<1>6. CASE OpenConnection
  <2>1. live' = live
    BY <1>6 DEF OpenConnection, NL!OpenSucceeds, NL!OpenReuse, NL!OpenNew,
       NL!OpenFails, NL!AllocFails, NL!ConnectFails, NL!nlvars
  <2>2. QED BY <1>4, <1>5, <1>6, <2>1 DEF OpenConnection, At
<1>7. CASE SetDeviceIndex
  BY <1>4, <1>5, <1>7 DEF SetDeviceIndex, At, nlvars
<1>8. CASE ReadLink \/ LinkDumpFails \/ FilterAllocFails \/ BuildList
  BY <1>4, <1>8 DEF ReadLink, LinkDumpFails, FilterAllocFails, BuildList, At,
     nlvars
<1>9. CASE DumpAddresses
  BY <1>9 DEF DumpAddresses, At, nlvars, CallShape, CallerAlive
<1>10. CASE AddrDumpFails
  <2>1. CASE call' = [Idle EXCEPT !.pc = "crashed"]
    BY <1>10, <2>1 DEF AddrDumpFails, Idle, nlvars, CallShape, CallerAlive
  <2>2. QED BY <1>4, <1>10, <2>1 DEF AddrDumpFails, At, nlvars
<1>11. CASE Return \/ ReturnInfo
  BY <1>11 DEF Return, ReturnInfo, Idle, nlvars, CallShape, CallerAlive
<1>12. CASE KernelStep
  BY <1>12 DEF KernelStep, LinkRemoved, LinkAdded, LinkRenamed, LinkMacSet,
     LinkAddrsSet, SetLink, nlvars, CallShape, CallerAlive
<1>13. CASE Crashed \/ UNCHANGED vars
  BY <1>13 DEF Crashed, vars, nlvars, CallShape, CallerAlive
<1>14. QED
  BY <1>0, <1>1, <1>2, <1>3, <1>6, <1>7, <1>8, <1>9, <1>10, <1>11, <1>12, <1>13
  DEF Next, CallStep

\* etherinfo.c and etherinfo_obj.c, with the kernel and their own state
\* hidden, implement the specification of netlink.c: what is proved of
\* Netlink holds of the whole.
THEOREM UsesNetlink == Spec => NetlinkSpec
<1>1. Init => CallerAlive /\ NL!Init
  BY DEF Init, NL!Init, Idle, CallShape, CallerAlive
<1>2. CallerAlive /\ [Next]_vars => CallerAlive' /\ [NL!Next]_(NL!nlvars)
  BY CallerStep, NetlinkStep DEF nlvars, NL!nlvars
<1>3. QED BY <1>1, <1>2, PTL DEF Spec, NetlinkSpec, NL!Spec

-----------------------------------------------------------------------------
(***************************************************************************)
(* What netlink.c promises holds of the whole.                             *)
(***************************************************************************)
NLP == INSTANCE NetlinkProofs

\* The connection is never leaked, never overwritten and never closed early
\* or late, whatever the objects ask of it and whichever call fails: the
\* invariants of netlink.c hold while etherinfo.c and etherinfo_obj.c use it.
ConnectionSafe ==
  /\ NL!TypeOK /\ NL!OneSocketAtATime /\ NL!NoUsersWithoutConnection
  /\ NL!CounterWithinTags

\* The two instances of Netlink are the same specification.
LEMMA SameNetlink == NL!Spec <=> NLP!Spec
BY DEF NL!Spec, NLP!Spec, NL!Init, NLP!Init, NL!Next, NLP!Next, NL!nlvars,
  NLP!nlvars, NL!NewObject, NLP!NewObject, NL!Open, NLP!Open, NL!Dealloc,
  NLP!Dealloc, NL!OpenSucceeds, NLP!OpenSucceeds, NL!OpenFails, NLP!OpenFails,
  NL!OpenReuse, NLP!OpenReuse, NL!OpenNew, NLP!OpenNew, NL!AllocFails,
  NLP!AllocFails, NL!ConnectFails, NLP!ConnectFails, NL!close_netlink,
  NLP!close_netlink, NL!CloseNothing, NLP!CloseNothing, NL!CloseShared,
  NLP!CloseShared, NL!CloseLast, NLP!CloseLast, NL!Inc, NLP!Inc, NL!Dec,
  NLP!Dec, NL!sockvars, NLP!sockvars

\* The theorems of NetlinkProofs, carried over the refinement.
THEOREM ConnectionSafety == Spec => []ConnectionSafe
<1>1. NLP!IsFiniteSet(Objs) /\ NLP!Cardinality(Objs) <= UIntMax
  BY ObjsAssumption, UIntAssumption
  DEF NLP!IsFiniteSet, NLP!Cardinality, IsFiniteSet, Cardinality
<1>2. NLP!Spec => [](NLP!OneSocketAtATime /\ NLP!NoUsersWithoutConnection)
  BY <1>1, NLP!SocketSafety, NullAssumption, TagsAssumption, UIntAssumption
<1>3. NLP!Spec => []NLP!TypeOK
  BY <1>1, NLP!TypeCorrect, NullAssumption, TagsAssumption, UIntAssumption
<1>4. NLP!Spec => []NLP!CounterWithinTags
  BY <1>1, NLP!CounterSafety, NullAssumption, TagsAssumption, UIntAssumption
<1>5. NLP!TypeOK /\ NLP!OneSocketAtATime /\ NLP!NoUsersWithoutConnection
        => NL!TypeOK /\ NL!OneSocketAtATime /\ NL!NoUsersWithoutConnection
  BY DEF NLP!TypeOK, NL!TypeOK, NLP!OneSocketAtATime, NL!OneSocketAtATime,
     NLP!NoUsersWithoutConnection, NL!NoUsersWithoutConnection
<1>6. NLP!CounterWithinTags => NL!CounterWithinTags
  <2>1. NL!Active = NLP!Active
    BY DEF NL!Active, NLP!Active
  <2>2. NLP!Cardinality(NLP!Active) = NL!Cardinality(NL!Active)
    BY <2>1 DEF NLP!Cardinality, NL!Cardinality
  <2>3. QED
    BY <2>2 DEF NL!CounterWithinTags, NLP!CounterWithinTags
<1>7. QED
  BY <1>2, <1>3, <1>4, <1>5, <1>6, UsesNetlink, SameNetlink, PTL
  DEF NetlinkSpec, ConnectionSafe

-----------------------------------------------------------------------------
(***************************************************************************)
(* The names in the argument of get_interfaces_info().                     *)
(***************************************************************************)

\* A set of natural numbers has a least element.
LEMMA LeastElement ==
  ASSUME NEW T, T \subseteq Nat, T # {}
  PROVE  \E m \in T : \A y \in T : m <= y
<1> DEFINE R == OpToRel(<, Nat)
<1>1. IsWellFoundedOn(R, Nat)
  BY NatLessThanWellFounded
<1>2. \A y, z \in Nat : y < z => <<y, z>> \in R
  BY DEF OpToRel
<1> HIDE DEF R
<1>3. PICK m \in T : \A y \in T : ~ (<<y, m>> \in R)
  BY <1>1, WFMin
<1>4. \A y \in T : ~ (y < m) /\ y \in Nat /\ m \in Nat
  BY <1>2, <1>3
<1>5. QED BY <1>4

\* Induction along a loop of N rounds, for the set of the rounds that are fine.
LEMMA LoopInduction ==
  ASSUME NEW N \in Nat, NEW S, 0 \in S, \A n \in 1..N : n - 1 \in S => n \in S
  PROVE  0..N \subseteq S
<1> SUFFICES ASSUME NEW x \in 0..N, x \notin S PROVE FALSE
  OBVIOUS
<1> DEFINE T == 0..N \ S
<1>1. T \subseteq Nat /\ T # {}
  OBVIOUS
<1> HIDE DEF T
<1>2. PICK m \in T : \A y \in T : m <= y
  BY <1>1, LeastElement
<1>3. m \in 1..N /\ m - 1 \in 0..N /\ ~ (m <= m - 1)
  BY <1>2 DEF T
<1>4. m - 1 \in S
  BY <1>2, <1>3 DEF T
<1>5. QED BY <1>2, <1>3, <1>4 DEF T

\* What is kept after each of the first m rounds of the loop over items.
Round(s, x) == IF x \in Names THEN Append(s, x) ELSE s
IsKept(f, items, m) ==
  /\ f \in [0..m -> Seq(Names)] /\ f[0] = <<>>
  /\ \A n \in 1..m : f[n] = Round(f[n - 1], items[n])

\* The loop has a history, and each round keeps names only.
LEMMA KeptExists ==
  ASSUME NEW items, NEW N \in Nat
  PROVE  \E f : IsKept(f, items, N)
<1> DEFINE S == {m \in 0..N : \E f : IsKept(f, items, m)}
<1>1. 0 \in S
  <2>1. IsKept([n \in 0..0 |-> <<>>], items, 0)
    BY DEF IsKept
  <2>2. QED BY <2>1
<1>2. ASSUME NEW m \in 1..N, m - 1 \in S PROVE m \in S
  <2>1. PICK f : IsKept(f, items, m - 1)
    BY <1>2
  <2> DEFINE s == Round(f[m - 1], items[m])
             g == [n \in 0..m |-> IF n = m THEN s ELSE f[n]]
  <2>2. f \in [0..(m - 1) -> Seq(Names)] /\ f[m - 1] \in Seq(Names) /\ f[0] = <<>>
    BY <2>1 DEF IsKept
  <2>3. s \in Seq(Names)
    BY <2>2 DEF Round
  <2> HIDE DEF s
  <2>4. g \in [0..m -> Seq(Names)] /\ g[0] = <<>> /\ g[m] = s /\ g[m - 1] = f[m - 1]
    BY <2>2, <2>3
  <2>5. ASSUME NEW n \in 1..m PROVE g[n] = Round(g[n - 1], items[n])
    <3>1. CASE n = m
      BY <2>4, <3>1 DEF s
    <3>2. CASE n # m
      <4>1. n \in 1..(m - 1) /\ n - 1 \in 0..(m - 1) /\ n - 1 # m
        BY <3>2
      <4>2. g[n] = f[n] /\ g[n - 1] = f[n - 1]
        BY <4>1
      <4>3. f[n] = Round(f[n - 1], items[n])
        BY <2>1, <4>1 DEF IsKept
      <4>4. QED BY <4>2, <4>3
    <3>3. QED BY <3>1, <3>2
  <2> HIDE DEF g
  <2>6. IsKept(g, items, m)
    BY <2>4, <2>5 DEF IsKept
  <2>7. QED BY <2>6
<1>3. 0..N \subseteq S
  <2> HIDE DEF S
  <2>1. \A m \in 1..N : m - 1 \in S => m \in S
    BY <1>2
  <2>2. QED BY <1>1, <2>1, LoopInduction
<1>4. QED BY <1>3

\* Strings() goes through these.
LEMMA StringsKept ==
  ASSUME NEW items, Len(items) \in Nat
  PROVE  \E f : IsKept(f, items, Len(items)) /\ Strings(items) = f[Len(items)]
<1> DEFINE N == Len(items)
           Body(g) == [k \in 0..N |-> IF k = 0 THEN <<>>
                         ELSE IF items[k] \in Names THEN Append(g[k - 1], items[k])
                         ELSE g[k - 1]]
           h == CHOOSE g : g = Body(g)
<1>1. PICK f : IsKept(f, items, N)
  BY KeptExists
<1>2. f = Body(f)
  <2>1. f \in [0..N -> Seq(Names)] /\ f[0] = <<>>
    BY <1>1 DEF IsKept
  <2>2. ASSUME NEW k \in 0..N, k # 0
        PROVE  f[k] = IF items[k] \in Names THEN Append(f[k - 1], items[k]) ELSE f[k - 1]
    <3>1. k \in 1..N
      BY <2>2
    <3>2. QED BY <1>1, <3>1 DEF IsKept, Round
  <2>3. QED BY <2>1, <2>2
<1>3. h = Body(h)
  BY <1>2
<1>4. Strings(items) = h[N]
  BY DEF Strings
<1> HIDE DEF h
<1> DEFINE S == {n \in 0..N : h[n] = f[n]}
<1>5. 0 \in S
  <2>1. h[0] = <<>>
    BY <1>3
  <2>2. QED BY <1>1, <2>1 DEF IsKept
<1>6. ASSUME NEW n \in 1..N, n - 1 \in S PROVE n \in S
  <2>1. n \in 0..N /\ n # 0 /\ h[n - 1] = f[n - 1]
    BY <1>6
  <2>2. h[n] = IF items[n] \in Names THEN Append(h[n - 1], items[n]) ELSE h[n - 1]
    BY <1>3, <2>1
  <2>3. h[n] = Round(f[n - 1], items[n])
    BY <2>1, <2>2 DEF Round
  <2>4. f[n] = Round(f[n - 1], items[n])
    BY <1>1 DEF IsKept
  <2>5. QED BY <2>1, <2>3, <2>4
<1>7. 0..N \subseteq S
  <2> HIDE DEF S
  <2>1. \A n \in 1..N : n - 1 \in S => n \in S
    BY <1>6
  <2>2. QED BY <1>5, <2>1, LoopInduction
<1>8. h[N] = f[N]
  BY <1>7
<1>9. QED BY <1>1, <1>4, <1>8

\* s holds the names among the first n items, in their order: p says where
\* each of them comes from.
IsPlaces(p, s, items, n) ==
  /\ p \in [1..Len(s) -> 1..n]
  /\ \A k \in 1..Len(s) : s[k] = items[p[k]]
  /\ \A j, k \in 1..Len(s) : j < k => p[j] < p[k]
  /\ \A i \in 1..n : items[i] \in Names => \E k \in 1..Len(s) : p[k] = i

\* After every round the names that were kept have such places.
LEMMA PlacesExist ==
  ASSUME NEW items, NEW N \in Nat, NEW f, IsKept(f, items, N)
  PROVE  \E p : IsPlaces(p, f[N], items, N)
<1> DEFINE S == {m \in 0..N : \E p : IsPlaces(p, f[m], items, m)}
<1>0. \A m \in 0..N : f[m] \in Seq(Names) /\ Len(f[m]) \in Nat
  BY DEF IsKept
<1>1. 0 \in S
  <2>1. f[0] = <<>> /\ Len(<<>>) = 0
    BY DEF IsKept
  <2>2. IsPlaces([k \in 1..0 |-> 0], <<>>, items, 0)
    BY <2>1 DEF IsPlaces
  <2>3. QED BY <2>1, <2>2
<1>2. ASSUME NEW m \in 1..N, m - 1 \in S PROVE m \in S
  <2> DEFINE s == f[m - 1]
             t == f[m]
             L == Len(s)
  <2>1. PICK p : IsPlaces(p, s, items, m - 1)
    BY <1>2
  <2>2. t = Round(s, items[m]) /\ s \in Seq(Names) /\ L \in Nat /\ m - 1 \in 0..N
    BY <1>0 DEF IsKept
  <2> HIDE DEF s, t, L
  <2>3. /\ p \in [1..L -> 1..(m - 1)]
        /\ \A k \in 1..L : s[k] = items[p[k]]
        /\ \A j, k \in 1..L : j < k => p[j] < p[k]
        /\ \A i \in 1..(m - 1) : items[i] \in Names => \E k \in 1..L : p[k] = i
    BY <2>1 DEF IsPlaces, L
  <2>4. CASE items[m] \notin Names
    <3>1. t = s
      BY <2>2, <2>4 DEF Round
    <3>2. p \in [1..L -> 1..m]
      BY <2>3
    <3>3. ASSUME NEW i \in 1..m, items[i] \in Names PROVE \E k \in 1..L : p[k] = i
      BY <2>3, <2>4, <3>3
    <3>4. IsPlaces(p, t, items, m)
      BY <2>3, <3>1, <3>2, <3>3 DEF IsPlaces, L
    <3>5. QED BY <3>4 DEF t
  <2>5. CASE items[m] \in Names
    <3> DEFINE q == [k \in 1..(L + 1) |-> IF k = L + 1 THEN m ELSE p[k]]
    <3>1. /\ Len(t) = L + 1 /\ t[L + 1] = items[m] /\ \A k \in 1..L : t[k] = s[k]
      BY <2>2, <2>5 DEF Round, L
    <3>2. q \in [1..(L + 1) -> 1..m] /\ q[L + 1] = m /\ \A k \in 1..L : q[k] = p[k]
      BY <2>2, <2>3
    <3> HIDE DEF q
    <3>3. \A k \in 1..L : p[k] < m
      BY <2>2, <2>3
    <3>4. ASSUME NEW k \in 1..(L + 1) PROVE t[k] = items[q[k]]
      <4>1. CASE k = L + 1
        BY <3>1, <3>2, <4>1
      <4>2. CASE k \in 1..L
        BY <2>3, <3>1, <3>2, <4>2
      <4>3. QED BY <2>2, <4>1, <4>2
    <3>5. ASSUME NEW j \in 1..(L + 1), NEW k \in 1..(L + 1), j < k PROVE q[j] < q[k]
      <4>1. j \in 1..L
        BY <2>2, <3>5
      <4>2. CASE k = L + 1
        BY <3>2, <3>3, <4>1, <4>2
      <4>3. CASE k \in 1..L
        BY <2>3, <3>2, <3>5, <4>1, <4>3
      <4>4. QED BY <2>2, <4>2, <4>3
    <3>6. ASSUME NEW i \in 1..m, items[i] \in Names PROVE \E k \in 1..(L + 1) : q[k] = i
      <4>1. CASE i = m
        BY <2>2, <3>2, <4>1
      <4>2. CASE i # m
        <5>1. i \in 1..(m - 1)
          BY <4>2
        <5>2. PICK k \in 1..L : p[k] = i
          BY <2>3, <3>6, <5>1
        <5>3. QED BY <2>2, <3>2, <5>2
      <4>3. QED BY <4>1, <4>2
    <3>7. IsPlaces(q, t, items, m)
      BY <3>1, <3>2, <3>4, <3>5, <3>6 DEF IsPlaces
    <3>8. QED BY <3>7 DEF t
  <2>6. QED BY <2>4, <2>5
<1>3. 0..N \subseteq S
  <2> HIDE DEF S
  <2>1. \A m \in 1..N : m - 1 \in S => m \in S
    BY <1>2
  <2>2. QED BY <1>1, <2>1, LoopInduction
<1>4. QED BY <1>3

\* The names that move up are those in the argument, in its order.
LEMMA StringsOK ==
  ASSUME NEW items, NEW T, items \in Seq(T)
  PROVE  /\ Strings(items) \in Seq(Names)
         /\ \E p : IsPlaces(p, Strings(items), items, Len(items))
<1>1. Len(items) \in Nat
  OBVIOUS
<1>2. PICK f : IsKept(f, items, Len(items)) /\ Strings(items) = f[Len(items)]
  BY <1>1, StringsKept
<1>3. Strings(items) \in Seq(Names)
  BY <1>1, <1>2 DEF IsKept
<1>4. QED BY <1>1, <1>2, <1>3, PlacesExist

\* So each name is there as often as in the argument.
LEMMA SameNumber ==
  ASSUME NEW s, s \in Seq(Names), NEW T, NEW items \in Seq(T), NEW p,
         IsPlaces(p, s, items, Len(items)), NEW name \in Names
  PROVE  Cardinality({k \in DOMAIN s : s[k] = name})
           = Cardinality({k \in DOMAIN items : items[k] = name})
<1> DEFINE A == {k \in DOMAIN s : s[k] = name}
           B == {k \in DOMAIN items : items[k] = name}
           f == [k \in A |-> p[k]]
<1>1. /\ DOMAIN s = 1..Len(s) /\ Len(s) \in Nat
      /\ DOMAIN items = 1..Len(items) /\ Len(items) \in Nat
  OBVIOUS
<1>2. IsFiniteSet(A)
  <2>1. IsFiniteSet(DOMAIN s)
    BY <1>1, FS_Interval
  <2>2. QED BY <2>1, FS_Subset
<1>3. f \in [A -> B]
  BY <1>1 DEF IsPlaces
<1>4. ASSUME NEW j \in A, NEW k \in A, f[j] = f[k] PROVE j = k
  <2>1. j \in Nat /\ k \in Nat /\ p[j] = p[k] /\ p[j] \in Nat
    BY <1>1, <1>4 DEF IsPlaces
  <2>2. ~(j < k) /\ ~(k < j)
    BY <1>1, <2>1 DEF IsPlaces
  <2>3. QED BY <2>1, <2>2
<1>5. ASSUME NEW i \in B PROVE \E k \in A : f[k] = i
  <2>1. PICK k \in 1..Len(s) : p[k] = i
    BY <1>1 DEF IsPlaces
  <2>2. s[k] = name
    BY <2>1 DEF IsPlaces
  <2>3. QED BY <1>1, <2>1, <2>2
<1> HIDE DEF A, B, f
<1>6. f \in Bijection(A, B)
  BY <1>3, <1>4, <1>5 DEF Bijection, Injection, IsInjective, Surjection
<1>7. ExistsBijection(A, B)
  BY <1>6 DEF ExistsBijection
<1>8. Cardinality(B) = Cardinality(A)
  BY <1>2, <1>7, FS_Bijection
<1>9. QED BY <1>8 DEF A, B

\* A sequence without duplicates has as many elements as places.
LEMMA DistinctNumber ==
  ASSUME NEW T, NEW s \in Seq(T), \A j, k \in 1..Len(s) : s[j] = s[k] => j = k
  PROVE  Cardinality({s[k] : k \in DOMAIN s}) = Len(s)
<1> DEFINE A == 1..Len(s)
           B == {s[k] : k \in DOMAIN s}
<1>1. DOMAIN s = A /\ Len(s) \in Nat
  OBVIOUS
<1>2. /\ s \in [A -> B] /\ \A j, k \in A : s[j] = s[k] => j = k
      /\ \A b \in B : \E k \in A : s[k] = b
  BY <1>1
<1>3. IsFiniteSet(A) /\ Cardinality(A) = Len(s)
  BY <1>1, FS_Interval
<1> HIDE DEF A, B
<1>4. s \in Bijection(A, B)
  BY <1>2 DEF Bijection, Injection, IsInjective, Surjection
<1>5. ExistsBijection(A, B)
  BY <1>4 DEF ExistsBijection
<1>6. QED BY <1>3, <1>5, FS_Bijection DEF B

-----------------------------------------------------------------------------
(***************************************************************************)
(* The objects and the call in progress, whatever fails.                   *)
(***************************************************************************)
Running == {"open", "index", "dump", "newlist"}
AddressOps == Ops \ {"device", "mac_address", "__str__"}
Raised == {"RuntimeError", "OSError", "IOError", "LookupError"}

\* What an address part hands over.
ListOrNull == AddressLists \cup {NULL}

\* How far a method or attribute has come: which parts are left to run, what
\* the address parts have handed over, and, where the contract depends on it,
\* whether an exception is set.
Stage(c) ==
  \/ /\ c.op = "device" /\ c.pc = "return" /\ c.exc = NULL
  \/ /\ c.op = "mac_address"
     /\ \/ c.pc \in Running /\ c.todo = <<"link">>
        \/ c.pc = "return"
  \/ /\ c.op \in AddressOps
     /\ \/ /\ c.pc \in Running /\ c.todo \in {<<"addr4">>, <<"addr6">>}
           /\ c.exc = NULL /\ c.out = <<>>
        \/ /\ c.pc = "return"
           /\ \E list \in ListOrNull : c.out = <<list>> /\ (list = NULL <=> c.exc # NULL)
  \/ /\ c.op = "__str__"
     /\ \/ /\ c.pc \in Running /\ c.out = <<>>
           /\ c.todo \in {<<"link", "addr4", "addr6">>, <<"addr4", "addr6">>}
        \/ /\ c.pc \in Running /\ c.todo = <<"addr6">>
           /\ \E list \in ListOrNull : c.out = <<list>>
        \/ /\ c.pc = "return"
           /\ \E ipv4, ipv6 \in ListOrNull : c.out = <<ipv4, ipv6>>

\* A call outside of its methods: none, or get_interfaces_info().
Outside(c) ==
  \/ c.pc \in {"idle", "crashed"}
  \/ /\ c.pc = "create" /\ c.op = "get_interfaces_info"
     /\ c.todo \in Seq(Names) /\ c.out \in Seq(Objs)

CallOK(c) ==
  /\ Outside(c) \/ Stage(c)
  /\ c.pc = "newlist" => AddressList(c.cache) \in AddressLists

\* The objects: what TypeOK says of them, and a live object has a name.
ObjectsOK ==
  /\ device \in [Objs -> Names \cup {NULL}]
  /\ index \in [Objs -> Indexes \cup {-1}]
  /\ hwaddress \in [Objs -> Macs \cup {NULL}]
  /\ kernel \in [Indexes -> Links \cup {NULL}]
  /\ caches \subseteq {"link_cache", "addr_cache"}
  /\ \A o \in Objs \ live : device[o] = NULL /\ hwaddress[o] = NULL
  /\ \A o \in live : device[o] \in Names
  /\ call.pc = "dump" => index[call.self] \in Indexes

Inv == CallerAlive /\ ObjectsOK /\ CallOK(call)

\* The lists of parts shrink from the front.
LEMMA PartLists ==
  ASSUME NEW p, NEW q, NEW r
  PROVE  /\ Tail(<<p>>) = <<>> /\ Len(<<p>>) = 1 /\ Head(<<p>>) = p
         /\ Tail(<<p, q>>) = <<q>> /\ Len(<<p, q>>) = 2 /\ Head(<<p, q>>) = p
         /\ Tail(<<p, q, r>>) = <<q, r>> /\ Len(<<p, q, r>>) = 3
         /\ Head(<<p, q, r>>) = p
         /\ Append(<<>>, p) = <<p>> /\ Append(<<p>>, q) = <<p, q>>
<1>1. Tail(<<p>>) = <<>> /\ Len(<<p>>) = 1 /\ Head(<<p>>) = p
  OBVIOUS
<1>2. Tail(<<p, q>>) = <<q>> /\ Len(<<p, q>>) = 2 /\ Head(<<p, q>>) = p
  OBVIOUS
<1>3. Tail(<<p, q, r>>) = <<q, r>> /\ Len(<<p, q, r>>) = 3 /\ Head(<<p, q, r>>) = p
  OBVIOUS
<1>4. Append(<<>>, p) = <<p>>
  OBVIOUS
<1>5. Append(<<p>>, q) = <<p, q>>
  <2> DEFINE s == Append(<<p>>, q)
             t == <<p, q>>
  <2>1. <<p>> \in Seq({p, q}) /\ Len(<<p>>) = 1
    OBVIOUS
  <2>2. s \in Seq({p, q}) /\ Len(s) = 2 /\ s[1] = p /\ s[2] = q
    BY <2>1
  <2>3. t \in Seq({p, q}) /\ Len(t) = 2 /\ t[1] = p /\ t[2] = q
    OBVIOUS
  <2> HIDE DEF s, t
  <2>4. \A i \in 1..Len(s) : s[i] = t[i]
    BY <2>2, <2>3
  <2>5. s = t
    BY <2>2, <2>3, <2>4, SeqEqual
  <2>6. QED BY <2>5 DEF s, t
<1>6. QED BY <1>1, <1>2, <1>3, <1>4, <1>5

\* c is the call in progress with exc for its exception.
WithExc(c, exc) ==
  /\ DOMAIN c = {"pc", "self", "op", "todo", "exc", "cache", "out"}
  /\ c.op = call.op /\ c.self = call.self /\ c.todo = call.todo
  /\ c.out = call.out /\ c.exc = exc

\* The fields of a call when a part ends.
LEMMA PartEndsFields ==
  ASSUME NEW exc, NEW list, NEW d, WithExc(d, exc), NEW c,
         c = PartEnds(Yield(d, list))
  PROVE  /\ c.op = call.op /\ c.self = call.self /\ c.exc = exc
         /\ c.pc = IF Len(call.todo) = 1 THEN "return" ELSE "open"
         /\ c.todo = Tail(call.todo)
         /\ c.out = IF Head(call.todo) = "link" THEN call.out
                    ELSE Append(call.out, list)
<1> DEFINE e == Yield(d, list)
<1>1. /\ DOMAIN e = {"pc", "self", "op", "todo", "exc", "cache", "out"}
      /\ e.op = d.op /\ e.self = d.self /\ e.exc = d.exc /\ e.todo = d.todo
      /\ e.out = IF Head(call.todo) = "link" THEN d.out ELSE Append(d.out, list)
  BY DEF Yield, part, WithExc
<1> HIDE DEF e
<1>2. c = PartEnds(e)
  BY DEF e
<1>3. /\ c.op = e.op /\ c.self = e.self /\ c.exc = e.exc /\ c.todo = Tail(e.todo)
      /\ c.out = e.out /\ c.pc = IF Len(e.todo) = 1 THEN "return" ELSE "open"
  BY <1>1, <1>2 DEF PartEnds
<1>4. QED BY <1>1, <1>3 DEF WithExc

\* A part that ends, with a list or with an exception, keeps the stage right.
LEMMA PartEndsOK ==
  ASSUME CallOK(call), call.pc \in Running,
         NEW exc, NEW d, WithExc(d, exc), NEW list \in ListOrNull,
         \/ exc \in Raised /\ list = NULL
         \/ exc = call.exc /\ (list \in AddressLists \/ part = "link"),
         call' = PartEnds(Yield(d, list))
  PROVE  CallOK(call)'
<1>1. /\ call'.op = call.op /\ call'.exc = exc
      /\ call'.pc = IF Len(call.todo) = 1 THEN "return" ELSE "open"
      /\ call'.todo = Tail(call.todo)
      /\ call'.out = IF Head(call.todo) = "link" THEN call.out
                     ELSE Append(call.out, list)
  BY PartEndsFields
<1>2. Stage(call)
  BY DEF CallOK, Outside, Running
<1>3. exc \in Raised => exc # NULL
  BY ObjectsAssumption DEF Raised
<1>4. NULL \notin AddressLists
  BY ObjectsAssumption
<1>5. CASE call.op = "mac_address"
  BY <1>1, <1>2, <1>5, PartLists DEF Stage, CallOK, Running, AddressOps
<1>6. CASE call.op \in AddressOps
  <2>1. /\ call.todo \in {<<"addr4">>, <<"addr6">>} /\ call.exc = NULL
        /\ call.out = <<>>
    BY <1>2, <1>6 DEF Stage, Running, AddressOps
  <2>2. Head(call.todo) # "link" /\ Len(call.todo) = 1
    BY <2>1, PartLists
  <2>3. call'.pc = "return" /\ call'.out = <<list>>
    BY <1>1, <2>1, <2>2, PartLists
  <2>4. list = NULL <=> exc # NULL
    BY <1>3, <1>4, <2>1, <2>2 DEF part
  <2>5. QED BY <1>1, <1>6, <2>3, <2>4 DEF Stage, CallOK
<1>7. CASE call.op = "__str__"
  <2>1. \/ call.todo = <<"link", "addr4", "addr6">> /\ call.out = <<>>
        \/ call.todo = <<"addr4", "addr6">> /\ call.out = <<>>
        \/ call.todo = <<"addr6">> /\ \E l \in ListOrNull : call.out = <<l>>
    BY <1>2, <1>7 DEF Stage, Running, AddressOps
  <2>2. CASE call.todo = <<"link", "addr4", "addr6">> /\ call.out = <<>>
    <3>1. /\ call'.pc = "open" /\ call'.todo = <<"addr4", "addr6">>
          /\ call'.out = <<>>
      BY <1>1, <2>2, PartLists
    <3>2. QED BY <1>1, <1>7, <3>1 DEF Stage, CallOK, Running
  <2>3. CASE call.todo = <<"addr4", "addr6">> /\ call.out = <<>>
    <3>1. call'.pc = "open" /\ call'.todo = <<"addr6">> /\ call'.out = <<list>>
      BY <1>1, <2>3, PartLists
    <3>2. QED BY <1>1, <1>7, <3>1 DEF Stage, CallOK, Running
  <2>4. ASSUME call.todo = <<"addr6">>, NEW l \in ListOrNull, call.out = <<l>>
        PROVE  CallOK(call)'
    <3>1. Append(<<l>>, list) = <<l, list>> /\ Head(<<"addr6">>) = "addr6"
          /\ Len(<<"addr6">>) = 1
      BY PartLists
    <3>2. call'.pc = "return" /\ call'.out = <<l, list>>
      BY <1>1, <2>4, <3>1
    <3>3. QED BY <1>1, <1>7, <3>2 DEF Stage, CallOK
  <2>5. QED BY <2>1, <2>2, <2>3, <2>4
<1>8. call.op \in {"mac_address", "__str__"} \cup AddressOps
  BY <1>2 DEF Stage, Running
<1>9. QED BY <1>5, <1>6, <1>7, <1>8

\* The same, for the two ways a part ends.
LEMMA FailOK ==
  ASSUME CallShape, CallOK(call), call.pc \in Running, NEW exc \in Raised, Fail(exc)
  PROVE  CallOK(call)'
<1>1. WithExc([call EXCEPT !.exc = exc], exc)
  BY DEF WithExc, CallShape
<1>2. QED BY <1>1, PartEndsOK DEF Fail, ListOrNull

LEMMA SucceedOK ==
  ASSUME CallShape, CallOK(call), call.pc \in Running, NEW list \in ListOrNull,
         list \in AddressLists \/ part = "link", Succeed(list)
  PROVE  CallOK(call)'
<1>1. WithExc(call, call.exc)
  BY DEF WithExc, CallShape
<1>2. QED BY <1>1, PartEndsOK DEF Succeed

\* A call moves on within a part.
LEMMA MovesOK ==
  ASSUME CallShape, CallOK(call), call.pc \in Running,
         NEW pc \in {"index", "dump"}, call' = [call EXCEPT !.pc = pc]
  PROVE  CallOK(call)'
<1>1. /\ call'.op = call.op /\ call'.exc = call.exc /\ call'.pc = pc
      /\ call'.todo = call.todo /\ call'.out = call.out
  BY DEF CallShape
<1>2. Stage(call)
  BY DEF CallOK, Outside, Running
<1>3. Stage(call')
  BY <1>1, <1>2 DEF Stage, Running
<1>4. QED BY <1>1, <1>3 DEF CallOK

\* Every method starts at the first of its parts.
LEMMA BeginOK ==
  ASSUME NEW o \in Objs, NEW op \in Ops, Begin(o, op)
  PROVE  CallOK(call)' /\ call'.pc \in {"return", "open"}
<1>1. /\ call'.op = op /\ call'.exc = NULL /\ call'.out = <<>>
      /\ call'.todo = Parts(op)
      /\ call'.pc = IF Parts(op) = <<>> THEN "return" ELSE "open"
  BY DEF Begin, Idle
<1>2. CASE op = "device"
  BY <1>1, <1>2 DEF CallOK, Stage, Parts
<1>3. CASE op = "mac_address"
  <2>1. Parts(op) = <<"link">>
    BY <1>3 DEF Parts
  <2>2. QED BY <1>1, <1>3, <2>1 DEF CallOK, Stage, Running
<1>4. CASE op = "__str__"
  <2>1. Parts(op) = <<"link", "addr4", "addr6">>
    BY <1>4 DEF Parts
  <2>2. QED BY <1>1, <1>4, <2>1 DEF CallOK, Stage, Running
<1>5. CASE op \in AddressOps
  <2>1. Parts(op) \in {<<"addr4">>, <<"addr6">>}
    BY <1>5 DEF Parts, AddressOps, Ops
  <2>2. Parts(op) # <<>>
    BY <2>1
  <2>3. call'.pc = "open"
    BY <1>1, <2>2
  <2>4. QED BY <1>1, <1>5, <2>1, <2>3 DEF CallOK, Stage, Running
<1>6. QED BY <1>2, <1>3, <1>4, <1>5 DEF AddressOps

\* get_interfaces_info() parses its argument and makes the objects.
LEMMA InfoOK ==
  ASSUME CallShape, CallOK(call),
         \/ \E arg \in Args : GetInterfacesInfo(arg)
         \/ \E o \in Objs : NewEtherInfo(o)
  PROVE  CallOK(call)' /\ call'.pc \in {"idle", "create"}
<1>1. ASSUME NEW arg \in Args, GetInterfacesInfo(arg)
      PROVE  CallOK(call)' /\ call'.pc \in {"idle", "create"}
  <2>1. CASE call' = Idle
    BY <2>1 DEF Idle, CallOK, Outside
  <2>2. CASE call' = [Idle EXCEPT !.pc = "create", !.op = "get_interfaces_info",
                                  !.todo = FetchDevs(arg), !.cache = arg.items]
    <3>1. /\ call'.pc = "create" /\ call'.op = "get_interfaces_info"
          /\ call'.todo = FetchDevs(arg) /\ call'.out = <<>>
      BY <2>2 DEF Idle
    <3>2. FetchDevs(arg) \in Seq(Names)
      BY <1>1, ArgsAssumption, StringsOK DEF FetchDevs
    <3>3. QED BY <3>1, <3>2 DEF CallOK, Outside
  <2>3. QED BY <1>1, <2>1, <2>2 DEF GetInterfacesInfo
<1>2. ASSUME NEW o \in Objs, NewEtherInfo(o)
      PROVE  CallOK(call)' /\ call'.pc \in {"idle", "create"}
  <2>1. /\ call.pc = "create" /\ call.todo # <<>> /\ call.op = "get_interfaces_info"
        /\ call.todo \in Seq(Names) /\ call.out \in Seq(Objs)
    BY <1>2 DEF NewEtherInfo, CallOK, Outside, Stage, Running
  <2>2. /\ call'.pc = "create" /\ call'.op = call.op
        /\ call'.todo = Tail(call.todo) /\ call'.out = Append(call.out, o)
    BY <1>2, <2>1 DEF NewEtherInfo, CallShape
  <2>3. Tail(call.todo) \in Seq(Names) /\ Append(call.out, o) \in Seq(Objs)
    BY <2>1
  <2>4. QED BY <2>1, <2>2, <2>3 DEF CallOK, Outside
<1>3. QED BY <1>1, <1>2

\* The dump of the addresses holds those of a link, of the family asked for.
LEMMA DumpOKStep ==
  ASSUME Inv, DumpAddresses
  PROVE  CallOK(call)'
<1>1. call.pc = "dump" /\ part # "link" /\ index[self] \in Indexes
  BY DEF DumpAddresses, At, Inv, ObjectsOK, self
<1>2. /\ call'.op = call.op /\ call'.exc = call.exc /\ call'.pc = "newlist"
      /\ call'.todo = call.todo /\ call'.out = call.out
      /\ call'.cache = AddrsOf(index[self], part)
  BY DEF DumpAddresses, Inv, CallerAlive, CallShape
<1>3. Stage(call)
  BY <1>1 DEF Inv, CallOK, Outside
<1>4. Stage(call')
  BY <1>1, <1>2, <1>3 DEF Stage, Running
<1>5. part \in {"addr4", "addr6"}
  <2>1. call.todo \in {<<"link">>, <<"addr4">>, <<"addr6">>,
                       <<"link", "addr4", "addr6">>, <<"addr4", "addr6">>}
    BY <1>1, <1>3 DEF Stage, Running, AddressOps
  <2>2. Head(call.todo) \in {"link", "addr4", "addr6"}
    BY <2>1, PartLists
  <2>3. QED BY <1>1, <2>2 DEF part
<1>6. AddressList(AddrsOf(index[self], part)) \in AddressLists
  <2>1. kernel[index[self]] \in Links \cup {NULL}
    BY <1>1 DEF Inv, ObjectsOK
  <2>2. CASE kernel[index[self]] = NULL
    BY <2>2 DEF AddrsOf, AddressLists
  <2>3. CASE kernel[index[self]] # NULL
    <3>1. kernel[index[self]].addrs \in AddrLists
      BY <2>1, <2>3 DEF Links
    <3>2. QED BY <1>5, <2>3, <3>1 DEF AddrsOf, AddressLists
  <2>4. QED BY <2>2, <2>3
<1>7. QED BY <1>2, <1>4, <1>6 DEF CallOK

\* The call in progress stays as CallOK says.
LEMMA CallOKStep ==
  ASSUME Inv, [Next]_vars
  PROVE  CallOK(call)'
<1>0. CallShape /\ CallOK(call)
  BY DEF Inv, CallerAlive
<1>1. CASE (\E arg \in Args : GetInterfacesInfo(arg)) \/ (\E o \in Objs : NewEtherInfo(o))
  BY <1>0, <1>1, InfoOK
<1>2. CASE UNCHANGED call
  BY <1>0, <1>2
<1>3. ASSUME NEW o \in Objs, Dealloc(o) PROVE UNCHANGED call
  BY <1>3 DEF Dealloc
<1>4. ASSUME NEW o \in Objs, NEW op \in Ops, Begin(o, op) PROVE CallOK(call)'
  BY <1>4, BeginOK
<1>5. CASE OpenConnection
  BY <1>0, <1>5, MovesOK, FailOK DEF OpenConnection, At, Running, Raised
<1>6. CASE SetDeviceIndex
  BY <1>0, <1>6, MovesOK, FailOK DEF SetDeviceIndex, At, Running, Raised
<1>7. CASE ReadLink
  <2>1. call.pc \in Running /\ part = "link" /\ Succeed(NULL) /\ NULL \in ListOrNull
    BY <1>7 DEF ReadLink, At, Running, ListOrNull
  <2>2. QED BY <1>0, <2>1, SucceedOK
<1>8. CASE LinkDumpFails \/ FilterAllocFails
  BY <1>0, <1>8, FailOK DEF LinkDumpFails, FilterAllocFails, At, Running, Raised
<1>9. CASE DumpAddresses
  BY <1>9, DumpOKStep
<1>10. CASE AddrDumpFails
  <2>1. CASE Fail("OSError")
    BY <1>0, <1>10, <2>1, FailOK DEF AddrDumpFails, At, Running, Raised
  <2>2. CASE call' = [Idle EXCEPT !.pc = "crashed"]
    BY <2>2 DEF Idle, CallOK, Outside
  <2>3. QED BY <1>10, <2>1, <2>2 DEF AddrDumpFails
<1>11. CASE BuildList
  <2>1. /\ call.pc \in Running /\ AddressList(call.cache) \in AddressLists
        /\ AddressList(call.cache) \in ListOrNull /\ Succeed(AddressList(call.cache))
    BY <1>0, <1>11 DEF BuildList, At, Running, CallOK, ListOrNull
  <2>2. QED BY <1>0, <2>1, SucceedOK
<1>12. CASE Return \/ ReturnInfo
  BY <1>12 DEF Return, ReturnInfo, Idle, CallOK, Outside
<1>13. CASE KernelStep \/ Crashed \/ UNCHANGED vars
  <2>1. UNCHANGED call
    BY <1>13 DEF KernelStep, LinkRemoved, LinkAdded, LinkRenamed, LinkMacSet,
       LinkAddrsSet, SetLink, Crashed, vars
  <2>2. QED BY <1>2, <2>1
<1>14. QED
  BY <1>1, <1>2, <1>3, <1>4, <1>5, <1>6, <1>7, <1>8, <1>9, <1>10, <1>11, <1>12,
     <1>13 DEF Next, CallStep

\* What the actions leave of the objects, the kernel and the collector's rules.
LEMMA ObjectsOKStep ==
  ASSUME Inv, [Next]_vars
  PROVE  ObjectsOK'
<1> USE DEF ObjectsOK
<1>0. ObjectsOK /\ CallShape /\ live \subseteq Objs /\ CallOK(call)
  BY DEF Inv, CallerAlive
<1>1. CASE UNCHANGED <<device, index, hwaddress, kernel, caches, live>> /\ call'.pc # "dump"
  BY <1>0, <1>1
<1>2. ASSUME NEW arg \in Args, GetInterfacesInfo(arg) PROVE ObjectsOK'
  <2>1. call'.pc # "dump"
    BY <1>0, <1>2, InfoOK
  <2>2. QED BY <1>1, <1>2, <2>1 DEF GetInterfacesInfo, nlvars, objvars
<1>3. ASSUME NEW o \in Objs, NewEtherInfo(o) PROVE ObjectsOK'
  <2>1. call'.pc # "dump"
    BY <1>0, <1>3, InfoOK
  <2>2. Head(call.todo) \in Names
    BY <1>0, <1>3 DEF NewEtherInfo, CallOK, Outside, Stage, Running
  <2>3. QED BY <1>0, <1>3, <2>1, <2>2 DEF NewEtherInfo, NL!NewObject
<1>4. ASSUME NEW o \in Objs, Dealloc(o) PROVE ObjectsOK'
  BY <1>0, <1>4 DEF Dealloc, NL!Dealloc, GcPoints
<1>5. ASSUME NEW o \in Objs, NEW op \in Ops, Begin(o, op) PROVE ObjectsOK'
  <2>1. call'.pc # "dump"
    BY <1>5, BeginOK
  <2>2. QED BY <1>1, <1>5, <2>1 DEF Begin, nlvars, objvars
<1>6. ASSUME NEW list, NEW exc, Fail(exc) \/ Succeed(list) PROVE call'.pc # "dump"
  BY <1>0, <1>6, PartOver
<1>7. CASE OpenConnection
  <2>1. live' = live
    BY <1>7 DEF OpenConnection, NL!OpenSucceeds, NL!OpenReuse, NL!OpenNew,
       NL!OpenFails, NL!AllocFails, NL!ConnectFails, NL!nlvars
  <2>2. call'.pc # "dump"
    BY <1>0, <1>6, <1>7 DEF OpenConnection, CallShape
  <2>3. QED BY <1>1, <1>7, <2>1, <2>2 DEF OpenConnection, objvars
<1>8. CASE SetDeviceIndex
  <2>0. /\ self \in live /\ self \in Objs /\ index[self] \in Indexes \cup {-1}
        /\ UNCHANGED <<live, device, hwaddress, kernel, caches>>
    BY <1>0, <1>8 DEF SetDeviceIndex, At, Inv, CallerAlive, self, nlvars
  <2>1. CASE index[self] >= 0 /\ call' = [call EXCEPT !.pc = "dump"] /\ UNCHANGED index
    <3>1. call'.self = self
      BY <1>0, <2>1 DEF CallShape, self
    <3>2. index'[call'.self] \in Indexes
      BY <2>0, <2>1, <3>1
    <3>3. QED BY <1>0, <2>0, <2>1, <3>2
  <2>2. ASSUME NEW exc, Fail(exc), UNCHANGED index PROVE ObjectsOK'
    BY <1>1, <1>6, <2>0, <2>2
  <2>3. ASSUME NEW i \in Named(device[self]), index' = [index EXCEPT ![self] = i],
               call' = [call EXCEPT !.pc = "dump"]
        PROVE  ObjectsOK'
    <3>1. i \in Indexes
      BY <2>3 DEF Named
    <3>2. call'.self = self
      BY <1>0, <2>3 DEF CallShape, self
    <3>3. QED BY <1>0, <2>0, <2>3, <3>1, <3>2
  <2>4. QED BY <1>8, <2>1, <2>2, <2>3 DEF SetDeviceIndex
<1>9. CASE ReadLink
  <2>0. /\ self \in live /\ self \in Objs /\ index[self] \in Indexes
        /\ UNCHANGED <<live, device, index, kernel, caches>> /\ call'.pc # "dump"
    BY <1>0, <1>6, <1>9 DEF ReadLink, At, Inv, CallerAlive, self, nlvars
  <2>1. CASE hwaddress' = hwaddress
    BY <1>1, <2>0, <2>1
  <2>2. CASE /\ kernel[index[self]] # NULL
             /\ hwaddress' = [hwaddress EXCEPT ![self] = kernel[index[self]].mac]
    <3>1. kernel[index[self]].mac \in Macs
      BY <1>0, <2>0, <2>2 DEF Links
    <3>2. QED BY <1>0, <2>0, <2>2, <3>1
  <2>3. QED BY <1>9, <2>1, <2>2 DEF ReadLink
<1>10. CASE LinkDumpFails
  BY <1>1, <1>6, <1>10 DEF LinkDumpFails, nlvars, objvars
<1>11. CASE FilterAllocFails \/ BuildList
  <2>1. /\ UNCHANGED <<device, index, hwaddress, kernel, live>> /\ call'.pc # "dump"
        /\ caches' \subseteq {"link_cache", "addr_cache"}
    BY <1>0, <1>6, <1>11 DEF FilterAllocFails, BuildList, nlvars, objvars
  <2>2. QED BY <1>0, <2>1
<1>12. CASE DumpAddresses
  <2>1. /\ UNCHANGED <<device, index, hwaddress, kernel, live>> /\ call'.pc # "dump"
        /\ caches' \subseteq {"link_cache", "addr_cache"}
    BY <1>0, <1>12 DEF DumpAddresses, nlvars, objvars, CallShape
  <2>2. QED BY <1>0, <2>1
<1>13. CASE AddrDumpFails
  <2>1. call'.pc # "dump"
    BY <1>6, <1>13 DEF AddrDumpFails, Idle
  <2>2. QED BY <1>1, <1>13, <2>1 DEF AddrDumpFails, nlvars, objvars
<1>14. CASE Return \/ ReturnInfo
  <2>1. call'.pc # "dump"
    BY <1>14 DEF Return, ReturnInfo, Idle
  <2>2. QED BY <1>1, <1>14, <2>1 DEF Return, ReturnInfo, nlvars, objvars
<1>15. CASE KernelStep
  <2>1. UNCHANGED <<device, index, hwaddress, caches, live, call>>
    BY <1>15 DEF KernelStep, LinkRemoved, LinkAdded, LinkRenamed, LinkMacSet,
       LinkAddrsSet, SetLink, nlvars, objvars
  <2>2. kernel' \in [Indexes -> Links \cup {NULL}]
    BY <1>0, <1>15 DEF KernelStep, LinkRemoved, LinkAdded, LinkRenamed, LinkMacSet,
       LinkAddrsSet, SetLink, Links
  <2>3. QED BY <1>0, <2>1, <2>2
<1>16. CASE Crashed \/ UNCHANGED vars
  BY <1>0, <1>16 DEF Crashed, vars, nlvars, objvars
<1>17. QED
  BY <1>2, <1>3, <1>4, <1>5, <1>7, <1>8, <1>9, <1>10, <1>11, <1>12, <1>13, <1>14,
     <1>15, <1>16 DEF Next, CallStep

\* Inv is inductive.
LEMMA InvHolds == Spec => []Inv
<1>1. Init => Inv
  BY KernelsAssumption DEF Init, NL!Init, Inv, CallerAlive, CallShape, ObjectsOK,
     CallOK, Outside, Idle
<1>2. Inv /\ [Next]_vars => Inv'
  BY CallerStep, ObjectsOKStep, CallOKStep DEF Inv
<1>3. QED BY <1>1, <1>2, PTL DEF Spec

\* The types of all variables, and what the deallocator has dropped.
THEOREM TypeCorrect == Spec => []TypeOK
<1>1. Inv /\ NL!TypeOK => TypeOK
  BY DEF Inv, CallerAlive, ObjectsOK, TypeOK
<1>2. QED BY <1>1, InvHolds, ConnectionSafety, PTL DEF ConnectionSafe

-----------------------------------------------------------------------------
(***************************************************************************)
(* get_interfaces_info() makes the objects that it is asked for.           *)
(***************************************************************************)

\* The list that get_interfaces_info() has made so far: an object of its own
\* for each of the first names, and the other names are still to do.
ListSoFar(out, todo, names, objs, dev) ==
  /\ Len(names) = Len(out) + Len(todo)
  /\ \A k \in 1..Len(out) : out[k] \in objs /\ dev[out[k]] = names[k]
  /\ \A k \in 1..Len(todo) : todo[k] = names[Len(out) + k]
  /\ \A j, k \in 1..Len(out) : out[j] = out[k] => j = k

IsSequence(items) == items \in Seq({items[k] : k \in DOMAIN items})

InfoInv ==
  call.pc = "create" =>
    /\ IsSequence(call.cache)
    /\ ListSoFar(call.out, call.todo, Strings(call.cache), live, device)

\* Only get_interfaces_info() itself works on its list, and nothing of it dies.
LEMMA CreateAlone ==
  ASSUME Inv, [Next]_vars, call'.pc = "create" \/ call.pc = "create"
  PROVE  \/ \E arg \in Args : GetInterfacesInfo(arg) /\ call.pc = "idle"
         \/ \E o \in Objs : NewEtherInfo(o)
         \/ ReturnInfo
         \/ UNCHANGED <<live, device, call>>
<1>0. CallShape
  BY DEF Inv, CallerAlive
<1>1. ASSUME NEW arg \in Args, GetInterfacesInfo(arg) PROVE call.pc = "idle"
  BY <1>1 DEF GetInterfacesInfo
<1>2. ASSUME NEW o \in Objs, Dealloc(o) PROVE FALSE
  BY <1>2 DEF Dealloc, GcPoints
<1>3. ASSUME NEW o \in Objs, NEW op \in Ops, Begin(o, op) PROVE FALSE
  BY <1>3 DEF Begin, At, Idle
<1>4. ASSUME NEW list, NEW exc, Fail(exc) \/ Succeed(list) PROVE call'.pc # "create"
  BY <1>0, <1>4, PartOver
<1>5. CASE CallStep /\ ~ReturnInfo
  <2>1. call.pc # "create"
    BY <1>5 DEF CallStep, OpenConnection, SetDeviceIndex, ReadLink, LinkDumpFails,
       DumpAddresses, AddrDumpFails, FilterAllocFails, BuildList, Return, At
  <2>2. CASE OpenConnection
    BY <1>0, <1>4, <2>1, <2>2 DEF OpenConnection, CallShape
  <2>3. CASE SetDeviceIndex
    BY <1>0, <1>4, <2>1, <2>3 DEF SetDeviceIndex, CallShape
  <2>4. CASE ReadLink \/ LinkDumpFails \/ FilterAllocFails \/ BuildList
    BY <1>4, <2>1, <2>4 DEF ReadLink, LinkDumpFails, FilterAllocFails, BuildList
  <2>5. CASE DumpAddresses
    BY <1>0, <2>1, <2>5 DEF DumpAddresses, CallShape
  <2>6. CASE AddrDumpFails
    BY <1>4, <2>1, <2>6 DEF AddrDumpFails, Idle
  <2>7. CASE Return
    BY <2>1, <2>7 DEF Return, Idle
  <2>8. QED BY <1>5, <2>2, <2>3, <2>4, <2>5, <2>6, <2>7 DEF CallStep
<1>6. CASE KernelStep
  BY <1>6 DEF KernelStep, LinkRemoved, LinkAdded, LinkRenamed, LinkMacSet,
     LinkAddrsSet, SetLink, nlvars, objvars
<1>7. CASE Crashed \/ UNCHANGED vars
  BY <1>7 DEF Crashed, vars, nlvars, objvars
<1>8. QED BY <1>1, <1>2, <1>3, <1>5, <1>6, <1>7 DEF Next

\* The loop keeps to the order of the names.
LEMMA InfoInvStep ==
  ASSUME Inv, InfoInv, [Next]_vars
  PROVE  InfoInv'
<1> DEFINE Goal == /\ IsSequence(call'.cache)
                   /\ ListSoFar(call'.out, call'.todo, Strings(call'.cache), live', device')
<1> SUFFICES ASSUME call'.pc = "create" PROVE Goal
  BY DEF InfoInv
<1>0. CallShape /\ live \subseteq Objs /\ device \in [Objs -> Names \cup {NULL}]
  BY DEF Inv, CallerAlive, ObjectsOK
<1>1. ASSUME NEW arg \in Args, GetInterfacesInfo(arg) PROVE Goal
  <2> DEFINE names == Strings(arg.items)
  <2>1. call' = [Idle EXCEPT !.pc = "create", !.op = "get_interfaces_info",
                             !.todo = names, !.cache = arg.items]
    BY <1>1 DEF GetInterfacesInfo, Idle, FetchDevs
  <2>2. call'.todo = names /\ call'.cache = arg.items /\ call'.out = <<>>
    BY <2>1 DEF Idle
  <2>3. IsSequence(arg.items) /\ names \in Seq(Names)
    BY ArgsAssumption, StringsOK DEF IsSequence
  <2>4. Len(names) \in Nat /\ Len(<<>>) = 0
    BY <2>3
  <2> HIDE DEF names
  <2>5. \A k \in 1..Len(names) : names[k] = names[0 + k]
    BY <2>4
  <2>6. QED BY <2>2, <2>3, <2>4, <2>5 DEF ListSoFar, names
<1>2. ASSUME NEW o \in Objs, NewEtherInfo(o) PROVE Goal
  <2> DEFINE names == Strings(call.cache)
             out == call.out
             todo == call.todo
  <2>1. /\ call.pc = "create" /\ todo # <<>> /\ o \notin live
        /\ live' = live \cup {o} /\ device' = [device EXCEPT ![o] = Head(todo)]
        /\ call' = [call EXCEPT !.todo = Tail(@), !.out = Append(@, o)]
    BY <1>2 DEF NewEtherInfo, NL!NewObject
  <2>2. /\ call'.todo = Tail(todo) /\ call'.out = Append(out, o)
        /\ call'.cache = call.cache
    BY <1>0, <2>1 DEF CallShape
  <2>3. todo \in Seq(Names) /\ out \in Seq(Objs)
    BY <2>1 DEF Inv, CallOK, Outside, Stage, Running
  <2>4. /\ IsSequence(call.cache) /\ Len(names) = Len(out) + Len(todo)
        /\ \A k \in 1..Len(out) : out[k] \in live /\ device[out[k]] = names[k]
        /\ \A k \in 1..Len(todo) : todo[k] = names[Len(out) + k]
        /\ \A j, k \in 1..Len(out) : out[j] = out[k] => j = k
    BY <2>1 DEF InfoInv, ListSoFar
  <2> HIDE DEF names, out, todo
  <2> DEFINE out2 == Append(out, o)
             todo2 == Tail(todo)
  <2>5. /\ Len(out) \in Nat /\ Len(todo) \in Nat \ {0} /\ Len(out2) = Len(out) + 1
        /\ Len(todo2) = Len(todo) - 1 /\ out2[Len(out) + 1] = o
        /\ \A k \in 1..Len(out) : out2[k] = out[k]
        /\ \A k \in 1..Len(todo2) : todo2[k] = todo[k + 1]
        /\ Head(todo) = todo[1]
    BY <2>1, <2>3
  <2> HIDE DEF out2, todo2
  <2>6. Len(names) = Len(out2) + Len(todo2)
    BY <2>4, <2>5
  <2>7. ASSUME NEW k \in 1..Len(out2)
        PROVE  out2[k] \in live' /\ device'[out2[k]] = names[k]
    <3>1. CASE k = Len(out) + 1
      <4>1. 1 \in 1..Len(todo)
        BY <2>5
      <4>2. todo[1] = names[Len(out) + 1]
        BY <2>4, <4>1
      <4>3. QED BY <1>0, <2>1, <2>5, <3>1, <4>2
    <3>2. CASE k \in 1..Len(out)
      BY <1>0, <2>1, <2>4, <2>5, <3>2
    <3>3. QED BY <2>5, <3>1, <3>2
  <2>8. ASSUME NEW k \in 1..Len(todo2) PROVE todo2[k] = names[Len(out2) + k]
    <3>1. k + 1 \in 1..Len(todo) /\ Len(out) + (k + 1) = Len(out2) + k
      BY <2>5
    <3>2. todo[k + 1] = names[Len(out) + (k + 1)]
      BY <2>4, <3>1
    <3>3. QED BY <2>5, <3>1, <3>2
  <2>9. ASSUME NEW j \in 1..Len(out2), NEW k \in 1..Len(out2), out2[j] = out2[k]
        PROVE  j = k
    <3>1. \A i \in 1..Len(out) : out2[i] # o /\ out2[i] = out[i]
      BY <2>1, <2>4, <2>5
    <3>2. CASE j = Len(out) + 1 \/ k = Len(out) + 1
      BY <2>5, <2>9, <3>1, <3>2
    <3>3. CASE j \in 1..Len(out) /\ k \in 1..Len(out)
      BY <2>4, <2>9, <3>1, <3>3
    <3>4. QED BY <2>5, <3>2, <3>3
  <2>10. call'.out = out2 /\ call'.todo = todo2 /\ Strings(call'.cache) = names
    BY <2>2 DEF out2, todo2, names
  <2>11. QED BY <2>2, <2>4, <2>6, <2>7, <2>8, <2>9, <2>10 DEF ListSoFar
<1>3. CASE ReturnInfo
  BY <1>3 DEF ReturnInfo, Idle
<1>4. CASE UNCHANGED <<live, device, call>>
  BY <1>4 DEF InfoInv
<1>5. QED BY <1>1, <1>2, <1>3, <1>4, CreateAlone

\* The list that get_interfaces_info() returns has a new object for each name
\* in its argument, however long and whatever else is in it: as many as there
\* are names, under these names, and in their order.
THEOREM NamesAsAsked == Spec => NamedAsAsked
<1> DEFINE Asked(objs, items) ==
      /\ \A k \in DOMAIN objs : objs[k] \in live /\ device[objs[k]] \in Names
      /\ Cardinality({objs[k] : k \in DOMAIN objs}) = Len(objs)
      /\ \A name \in Names :
           Cardinality({k \in DOMAIN objs : device[objs[k]] = name})
             = Cardinality({k \in DOMAIN items : items[k] = name})
      /\ \A j, k \in DOMAIN objs : j < k => \E a, b \in DOMAIN items :
           a < b /\ items[a] = device[objs[j]] /\ items[b] = device[objs[k]]
<1>1. Init => InfoInv
  BY DEF Init, Idle, InfoInv
<1>2. Inv /\ InfoInv /\ [Next]_vars => InfoInv'
  BY InfoInvStep
<1>3. ASSUME Inv, InfoInv, call.pc = "create", call.todo = <<>>
      PROVE  Asked(call.out, call.cache)
  <2> DEFINE names == Strings(call.cache)
             objs == call.out
             items == call.cache
  <2>1. objs \in Seq(Objs)
    BY <1>3 DEF Inv, CallOK, Outside, Stage, Running
  <2>2. /\ IsSequence(items) /\ Len(names) = Len(objs) + Len(call.todo)
        /\ \A k \in 1..Len(objs) : objs[k] \in live /\ device[objs[k]] = names[k]
        /\ \A j, k \in 1..Len(objs) : objs[j] = objs[k] => j = k
    BY <1>3 DEF InfoInv, ListSoFar
  <2>3. Len(call.todo) = 0
    BY <1>3
  <2>4. names \in Seq(Names) /\ \E p : IsPlaces(p, names, items, Len(items))
    BY <2>2, StringsOK DEF IsSequence
  <2>5. PICK p : IsPlaces(p, names, items, Len(items))
    BY <2>4
  <2> HIDE DEF names, objs, items
  <2>6. /\ Len(objs) \in Nat /\ DOMAIN objs = 1..Len(objs)
        /\ Len(names) = Len(objs) /\ DOMAIN names = DOMAIN objs
        /\ DOMAIN items = 1..Len(items)
    BY <2>1, <2>2, <2>3, <2>4 DEF IsSequence
  <2>7. \A k \in DOMAIN objs : objs[k] \in live /\ device[objs[k]] \in Names
    <3> TAKE k \in DOMAIN objs
    <3>1. k \in 1..Len(objs) /\ k \in DOMAIN names
      BY <2>6
    <3>2. objs[k] \in live /\ device[objs[k]] = names[k]
      BY <2>2, <3>1
    <3>3. names[k] \in Names
      BY <2>4, <3>1
    <3>4. QED BY <3>2, <3>3
  <2>8. Cardinality({objs[k] : k \in DOMAIN objs}) = Len(objs)
    BY <2>1, <2>2, DistinctNumber
  <2>9. ASSUME NEW name \in Names
        PROVE  Cardinality({k \in DOMAIN objs : device[objs[k]] = name})
                 = Cardinality({k \in DOMAIN items : items[k] = name})
    <3>1. {k \in DOMAIN objs : device[objs[k]] = name} = {k \in DOMAIN names : names[k] = name}
      BY <2>2, <2>6
    <3>2. Cardinality({k \in DOMAIN names : names[k] = name})
            = Cardinality({k \in DOMAIN items : items[k] = name})
      BY <2>2, <2>4, <2>5, SameNumber DEF IsSequence
    <3>3. QED BY <3>1, <3>2
  <2>10. ASSUME NEW j \in DOMAIN objs, NEW k \in DOMAIN objs, j < k
         PROVE  \E a, b \in DOMAIN items :
                  a < b /\ items[a] = device[objs[j]] /\ items[b] = device[objs[k]]
    <3>1. /\ p[j] \in DOMAIN items /\ p[k] \in DOMAIN items /\ p[j] < p[k]
          /\ names[j] = items[p[j]] /\ names[k] = items[p[k]]
      BY <2>5, <2>6, <2>10 DEF IsPlaces
    <3>2. names[j] = device[objs[j]] /\ names[k] = device[objs[k]]
      BY <2>2, <2>6
    <3>3. QED BY <3>1, <3>2
  <2>11. Asked(objs, items)
    BY <2>7, <2>8, <2>9, <2>10
  <2>12. QED BY <2>11 DEF objs, items
<1>4. Inv /\ InfoInv /\ [Next]_vars =>
        [call.pc = "create" /\ call'.pc = "idle" => Asked(result'.ret, call.cache)]_vars
  <2> SUFFICES ASSUME Inv, InfoInv, [Next]_vars, call.pc = "create", call'.pc = "idle"
               PROVE  Asked(result'.ret, call.cache)
    OBVIOUS
  <2> HIDE DEF Asked
  <2>1. ASSUME NEW o \in Objs, NewEtherInfo(o) PROVE FALSE
    BY <2>1 DEF NewEtherInfo, Inv, CallerAlive, CallShape
  <2>2. ReturnInfo
    BY <2>1, CreateAlone
  <2>3. call.todo = <<>> /\ result'.ret = call.out
    BY <2>2 DEF ReturnInfo
  <2>4. QED BY <1>3, <2>3
<1>5. QED BY <1>1, <1>2, <1>4, InvHolds, PTL DEF Spec, NamedAsAsked

-----------------------------------------------------------------------------
(***************************************************************************)
(* The contract with the interpreter, and the caches.                      *)
(***************************************************************************)

\* The end of an ipv4_ getter, once the query has handed over list: the
\* exception wins, and otherwise there is always something to return.
LEMMA FieldMeets ==
  ASSUME NEW list, call.out = <<list>>, list = NULL <=> call.exc # NULL,
         NEW field, NEW default, default # NULL
  PROVE  FieldOfLast(field, default) = NULL <=> call.exc # NULL
<1>1. call.out[1] = list
  OBVIOUS
<1>2. CASE call.exc # NULL
  BY <1>1, <1>2 DEF FieldOfLast, LastAddress
<1>3. CASE call.exc = NULL
  BY <1>1, <1>3 DEF FieldOfLast
<1>4. QED BY <1>2, <1>3

\* What a method with address lists or a name returns.
LEMMA ReturnMeets ==
  ASSUME Inv, call.pc = "return", call.op \notin {"mac_address", "__str__"}
  PROVE  ReturnValue = NULL <=> call.exc # NULL
<1>1. Stage(call)
  BY DEF Inv, CallOK, Outside
<1>2. CASE call.op = "device"
  <2>1. call.exc = NULL
    BY <1>1, <1>2 DEF Stage, AddressOps
  <2>2. device[self] # NULL
    BY ObjectsAssumption DEF Inv, CallerAlive, ObjectsOK, self
  <2>3. QED BY <1>2, <2>1, <2>2 DEF ReturnValue
<1>3. CASE call.op \in AddressOps
  <2>1. PICK list \in ListOrNull : call.out = <<list>> /\ (list = NULL <=> call.exc # NULL)
    BY <1>1, <1>3 DEF Stage, AddressOps, Running
  <2>2. CASE call.op = "ipv4_address"
    <3>1. ReturnValue = FieldOfLast("local", None)
      BY <2>2 DEF ReturnValue
    <3>2. QED BY <2>1, <3>1, FieldMeets, ObjectsAssumption
  <2>3. CASE call.op = "ipv4_netmask"
    <3>1. ReturnValue = FieldOfLast("prefixlen", 0)
      BY <2>3 DEF ReturnValue
    <3>2. QED BY <2>1, <3>1, FieldMeets, ObjectsAssumption
  <2>4. CASE call.op = "ipv4_broadcast"
    <3>1. ReturnValue = FieldOfLast("broadcast", "0.0.0.0")
      BY <2>4 DEF ReturnValue
    <3>2. QED BY <2>1, <3>1, FieldMeets, ObjectsAssumption
  <2>5. CASE call.op \in {"get_ipv4_addresses", "get_ipv6_addresses"}
    <3>1. ReturnValue = call.out[1]
      BY <2>5 DEF ReturnValue
    <3>2. call.out[1] = list
      BY <2>1
    <3>3. QED BY <2>1, <3>1, <3>2
  <2>6. QED BY <1>3, <2>2, <2>3, <2>4, <2>5 DEF AddressOps, Ops
<1>4. QED BY <1>1, <1>2, <1>3 DEF Stage

\* get_interfaces_info() returns a list without an exception, or raises.
LEMMA InfoMeets ==
  ASSUME Inv, ReturnInfo \/ \E arg \in Args : GetInterfacesInfo(arg), result' # NULL
  PROVE  MeetsContract(result') /\ result'.op = "get_interfaces_info"
<1>1. ASSUME NEW arg \in Args, GetInterfacesInfo(arg)
      PROVE  MeetsContract(result') /\ result'.op = "get_interfaces_info"
  <2>1. result' = [op |-> "get_interfaces_info", ret |-> NULL, exc |-> "LookupError"]
    BY <1>1 DEF GetInterfacesInfo
  <2>2. QED BY <2>1, ObjectsAssumption DEF MeetsContract
<1>2. CASE ReturnInfo
  <2>1. call.op = "get_interfaces_info" /\ call.out \in Seq(Objs)
    BY <1>2 DEF ReturnInfo, Inv, CallOK, Outside, Stage, Running
  <2>2. call.out # NULL
    BY <2>1, ObjectsAssumption
  <2>3. result' = [op |-> call.op, ret |-> call.out, exc |-> NULL]
    BY <1>2 DEF ReturnInfo
  <2>4. QED BY <2>1, <2>2, <2>3 DEF MeetsContract
<1>3. QED BY <1>1, <1>2

\* Which steps hand a result to the interpreter.
LEMMA ResultChanges ==
  ASSUME [Next]_vars
  PROVE  \/ result' = result \/ result' = NULL \/ Return \/ ReturnInfo
         \/ \E arg \in Args : GetInterfacesInfo(arg)
<1>1. CASE (\E o \in Objs : NewEtherInfo(o)) \/ (\E o \in Objs : Dealloc(o))
  BY <1>1 DEF NewEtherInfo, Dealloc
<1>2. CASE \E o \in Objs, op \in Ops : Begin(o, op)
  BY <1>2 DEF Begin
<1>3. CASE CallStep
  BY <1>3 DEF CallStep, OpenConnection, SetDeviceIndex, ReadLink, LinkDumpFails,
     DumpAddresses, AddrDumpFails, FilterAllocFails, BuildList
<1>4. CASE KernelStep \/ Crashed \/ UNCHANGED vars
  BY <1>4 DEF KernelStep, LinkRemoved, LinkAdded, LinkRenamed, LinkMacSet,
     LinkAddrsSet, SetLink, Crashed, vars
<1>5. QED BY <1>1, <1>2, <1>3, <1>4 DEF Next

\* The fields of what Return hands over.
LEMMA ReturnFields ==
  ASSUME Return
  PROVE  /\ call.pc = "return" /\ result'.op = call.op
         /\ result'.ret = ReturnValue /\ result'.exc = call.exc
BY DEF Return, At

\* Whichever step of a query fails, the address methods and the ipv4_
\* attributes, the name and get_interfaces_info() keep the contract.
THEOREM AddressContractKept == Spec => []AddressContract
<1>1. Init => AddressContract
  BY DEF Init, AddressContract
<1>2. Inv /\ AddressContract /\ [Next]_vars => AddressContract'
  <2> SUFFICES ASSUME Inv, AddressContract, [Next]_vars PROVE AddressContract'
    OBVIOUS
  <2>1. CASE result' = result \/ result' = NULL
    BY <2>1 DEF AddressContract
  <2>2. CASE Return
    BY <2>2, ReturnFields, ReturnMeets DEF AddressContract, MeetsContract
  <2>3. CASE ReturnInfo \/ \E arg \in Args : GetInterfacesInfo(arg)
    BY <2>3, InfoMeets DEF AddressContract
  <2>4. QED BY <2>1, <2>2, <2>3, ResultChanges
<1>3. QED BY <1>1, <1>2, InvHolds, PTL DEF Spec

\* An address cache exists only while its list is built, unless an allocation
\* after the dump fails.
CachesInv ==
  /\ CallShape
  /\ caches \subseteq {"addr_cache"}
  /\ call.pc # "newlist" => caches = {}

LEMMA CachesStep ==
  ASSUME "rtalloc" \notin Faults, Inv, CachesInv, [Next]_vars
  PROVE  CachesInv'
<1> USE DEF CachesInv
<1>0. CallShape'
  BY CallerStep DEF Inv, CallerAlive
<1>1. CASE caches' = caches /\ call.pc # "newlist"
  BY <1>0, <1>1
<1>2. CASE UNCHANGED <<caches, call>>
  BY <1>0, <1>2
<1>3. CASE DumpAddresses
  BY <1>0, <1>3 DEF DumpAddresses, At, CallShape
<1>4. CASE BuildList
  <2>1. caches' = {}
    BY <1>4 DEF BuildList
  <2>2. QED BY <1>0, <2>1
<1>5. CASE (\E arg \in Args : GetInterfacesInfo(arg)) \/ (\E o \in Objs : NewEtherInfo(o))
           \/ (\E o \in Objs, op \in Ops : Begin(o, op))
  BY <1>1, <1>5 DEF GetInterfacesInfo, NewEtherInfo, Begin, At
<1>6. CASE \E o \in Objs : Dealloc(o)
  BY <1>2, <1>6 DEF Dealloc
<1>7. CASE OpenConnection \/ SetDeviceIndex \/ ReadLink \/ LinkDumpFails
           \/ AddrDumpFails \/ Return \/ ReturnInfo
  BY <1>1, <1>7 DEF OpenConnection, SetDeviceIndex, ReadLink, LinkDumpFails,
     AddrDumpFails, Return, ReturnInfo, At
<1>8. CASE KernelStep \/ Crashed \/ UNCHANGED vars
  BY <1>2, <1>8 DEF KernelStep, LinkRemoved, LinkAdded, LinkRenamed, LinkMacSet,
     LinkAddrsSet, SetLink, Crashed, vars
<1>9. ~FilterAllocFails
  BY DEF FilterAllocFails
<1>10. QED
  BY <1>3, <1>4, <1>5, <1>6, <1>7, <1>8, <1>9 DEF Next, CallStep

\* No query leaves a cache behind, also when a dump or the connection fails:
\* only the failing allocation of a filter does.
THEOREM CachesAreFreed ==
  ASSUME "rtalloc" \notin Faults
  PROVE  Spec => []CachesFreed
<1>1. Init => CachesInv
  BY DEF Init, Idle, CallShape, CachesInv
<1>2. Inv /\ CachesInv /\ [Next]_vars => CachesInv'
  BY CachesStep
<1>3. CachesInv => CachesFreed
  BY DEF CachesInv, CachesFreed
<1>4. QED BY <1>1, <1>2, <1>3, InvHolds, PTL DEF Spec

-----------------------------------------------------------------------------
(***************************************************************************)
(* When nothing fails and links keep their names.                          *)
(***************************************************************************)

\* The connection, if there is one, is connected.
ConnectionUp == nlconnection # NULL => nlconnection \in connected

\* Every name is borne by one link, and an index that was looked up is that of
\* the link that bears the object's name now.
IndexesRight ==
  /\ \A name \in Names : \E i \in Indexes : Named(name) = {i}
  /\ \A o \in live : index[o] # -1 => Named(device[o]) = {index[o]}

\* get_etherinfo_link() is behind the call.
LinkDone(c) == c.pc = "return" \/ (c.pc \in Running /\ Head(c.todo) # "link")

\* No exception is set, the hardware address is there once it has been asked
\* for, and __str__() has only lists.
Undisturbed(c) ==
  /\ c.exc = NULL /\ c.pc # "crashed"
  /\ c.pc = "newlist" => Head(c.todo) # "link"
  /\ c.op \in {"mac_address", "__str__"} /\ LinkDone(c) => hwaddress[c.self] # NULL
  /\ c.op = "__str__" => c.out \in Seq(AddressLists)

CalmInv == ConnectionUp /\ IndexesRight /\ Undisturbed(call)

\* Which steps are left of a call.
LEMMA NothingFails ==
  ASSUME Calm, Inv, ConnectionWhenQuerying, CalmInv
  PROVE  /\ ~LinkDumpFails /\ ~AddrDumpFails /\ ~FilterAllocFails
         /\ OpenConnection => /\ NL!OpenSucceeds(self)
                              /\ call' = [call EXCEPT !.pc = "index"]
         /\ SetDeviceIndex =>
              /\ call' = [call EXCEPT !.pc = "dump"]
              /\ \/ UNCHANGED index
                 \/ \E i \in Named(device[self]) : index' = [index EXCEPT ![self] = i]
<1>1. Faults = {}
  BY DEF Calm
<1>2. call.pc \in {"index", "dump"} => ~DumpFails
  BY <1>1 DEF ConnectionWhenQuerying, CalmInv, ConnectionUp, DumpFails
<1>3. ~LinkDumpFails /\ ~AddrDumpFails /\ ~FilterAllocFails
  BY <1>1, <1>2 DEF LinkDumpFails, AddrDumpFails, FilterAllocFails, At
<1>4. OpenConnection => NL!OpenSucceeds(self) /\ call' = [call EXCEPT !.pc = "index"]
  BY <1>1 DEF OpenConnection, NL!OpenFails, NL!AllocFails, NL!ConnectFails
<1>5. call.pc = "index" => Named(device[self]) # {}
  <2>1. call.pc = "index" => device[self] \in Names
    BY DEF Inv, CallerAlive, ObjectsOK, self
  <2>2. QED BY <2>1 DEF CalmInv, IndexesRight
<1>6. SetDeviceIndex =>
        /\ call' = [call EXCEPT !.pc = "dump"]
        /\ \/ UNCHANGED index
           \/ \E i \in Named(device[self]) : index' = [index EXCEPT ![self] = i]
  BY <1>2, <1>5 DEF SetDeviceIndex, At
<1>7. QED BY <1>3, <1>4, <1>6

\* The connection stays up: only nl_connect() can leave one that is not.
LEMMA ConnectionUpStep ==
  ASSUME Calm, Inv, ConnectionUp, [Next]_vars
  PROVE  ConnectionUp'
<1>1. CASE UNCHANGED nlvars
  BY <1>1 DEF nlvars, ConnectionUp
<1>2. CASE NL!Next
  <2>1. PICK o \in Objs : NL!NewObject(o) \/ NL!Open(o) \/ NL!Dealloc(o)
    BY <1>2 DEF NL!Next
  <2>2. CASE NL!NewObject(o)
    BY <2>2 DEF NL!NewObject, NL!sockvars, ConnectionUp
  <2>3. CASE NL!Open(o)
    BY <2>3 DEF Calm, NL!Open, NL!OpenSucceeds, NL!OpenReuse, NL!OpenNew,
       NL!OpenFails, NL!AllocFails, NL!ConnectFails, NL!nlvars, NL!sockvars,
       ConnectionUp
  <2>4. CASE NL!Dealloc(o)
    BY <2>4 DEF NL!Dealloc, NL!close_netlink, NL!CloseNothing, NL!CloseShared,
       NL!CloseLast, NL!sockvars, ConnectionUp
  <2>5. QED BY <2>1, <2>2, <2>3, <2>4
<1>3. QED BY <1>1, <1>2, NetlinkStep DEF Inv

\* A change of addresses leaves the names where they are.
LEMMA NamesStay ==
  ASSUME Calm, Inv, [Next]_vars
  PROVE  \A name : Named(name)' = Named(name)
<1>1. CASE UNCHANGED kernel
  BY <1>1 DEF Named
<1>2. CASE KernelStep
  <2>1. PICK i \in Indexes : LinkMacSet(i) \/ LinkAddrsSet(i)
    BY <1>2 DEF Calm, KernelStep, LinkRemoved, LinkAdded, LinkRenamed, SetLink
  <2>2. kernel \in [Indexes -> Links \cup {NULL}] /\ kernel[i] # NULL /\ kernel[i] \in Links
    BY <2>1 DEF Inv, ObjectsOK, LinkMacSet, LinkAddrsSet
  <2>3. PICK link \in Links : link.name = kernel[i].name /\ kernel' = [kernel EXCEPT ![i] = link]
    <3>1. ASSUME NEW mac \in Macs, SetLink("setmac", i, [kernel[i] EXCEPT !.mac = mac])
          PROVE  \E link \in Links :
                   link.name = kernel[i].name /\ kernel' = [kernel EXCEPT ![i] = link]
      <4> DEFINE link == [kernel[i] EXCEPT !.mac = mac]
      <4>1. link \in Links /\ link.name = kernel[i].name
        BY <2>2 DEF Links
      <4>2. kernel' = [kernel EXCEPT ![i] = link]
        BY <3>1 DEF SetLink
      <4>3. QED BY <4>1, <4>2
    <3>2. ASSUME NEW addrs \in AddrLists,
                 SetLink("setaddrs", i, [kernel[i] EXCEPT !.addrs = addrs])
          PROVE  \E link \in Links :
                   link.name = kernel[i].name /\ kernel' = [kernel EXCEPT ![i] = link]
      <4> DEFINE link == [kernel[i] EXCEPT !.addrs = addrs]
      <4>1. link \in Links /\ link.name = kernel[i].name
        BY <2>2 DEF Links
      <4>2. kernel' = [kernel EXCEPT ![i] = link]
        BY <3>2 DEF SetLink
      <4>3. QED BY <4>1, <4>2
    <3>3. QED BY <2>1, <3>1, <3>2 DEF LinkMacSet, LinkAddrsSet
  <2>4. NULL \notin Links
    BY ObjectsAssumption
  <2>5. QED BY <2>2, <2>3, <2>4 DEF Named
<1>3. UNCHANGED kernel \/ KernelStep
  BY DEF Next, GetInterfacesInfo, NewEtherInfo, Dealloc, Begin, CallStep,
     OpenConnection, SetDeviceIndex, ReadLink, LinkDumpFails, DumpAddresses,
     AddrDumpFails, FilterAllocFails, BuildList, Return, ReturnInfo, Crashed, vars
<1>4. QED BY <1>1, <1>2, <1>3

\* A cached index stays right.
LEMMA IndexesRightStep ==
  ASSUME Calm, Inv, ConnectionWhenQuerying, CalmInv, [Next]_vars
  PROVE  IndexesRight'
<1>0. IndexesRight /\ live \subseteq Objs /\ ObjectsOK
  BY DEF CalmInv, Inv, CallerAlive
<1>1. \A name : Named(name)' = Named(name)
  BY NamesStay
<1>2. CASE UNCHANGED <<live, device, index>>
  BY <1>0, <1>1, <1>2 DEF IndexesRight
<1>3. ASSUME NEW o \in Objs, NewEtherInfo(o) PROVE IndexesRight'
  BY <1>0, <1>1, <1>3 DEF NewEtherInfo, NL!NewObject, IndexesRight, ObjectsOK
<1>4. ASSUME NEW o \in Objs, Dealloc(o) PROVE IndexesRight'
  BY <1>0, <1>1, <1>4 DEF Dealloc, NL!Dealloc, IndexesRight, ObjectsOK
<1>5. CASE SetDeviceIndex
  <2>1. UNCHANGED <<live, device>> /\ self \in live /\ device[self] \in Names
    BY <1>0, <1>5 DEF SetDeviceIndex, nlvars, At, Inv, CallerAlive, ObjectsOK, self
  <2>2. ASSUME NEW i \in Named(device[self]), index' = [index EXCEPT ![self] = i]
        PROVE  IndexesRight'
    <3>1. Named(device[self]) = {i}
      BY <1>0, <2>1, <2>2 DEF IndexesRight
    <3>2. QED BY <1>0, <1>1, <2>1, <2>2, <3>1 DEF IndexesRight, ObjectsOK
  <2>3. QED BY <1>2, <1>5, <2>1, <2>2, NothingFails
<1>6. CASE OpenConnection
  BY <1>2, <1>6, NothingFails DEF OpenConnection, objvars, NL!OpenSucceeds,
     NL!OpenReuse, NL!OpenNew
<1>7. CASE CallStep /\ ~OpenConnection /\ ~SetDeviceIndex
  BY <1>2, <1>7 DEF CallStep, ReadLink, LinkDumpFails, DumpAddresses, AddrDumpFails,
     FilterAllocFails, BuildList, Return, ReturnInfo, nlvars, objvars
<1>8. CASE (\E arg \in Args : GetInterfacesInfo(arg))
           \/ (\E o \in Objs, op \in Ops : Begin(o, op))
  BY <1>2, <1>8 DEF GetInterfacesInfo, Begin, nlvars, objvars
<1>9. CASE KernelStep \/ Crashed \/ UNCHANGED vars
  BY <1>2, <1>9 DEF KernelStep, LinkRemoved, LinkAdded, LinkRenamed, LinkMacSet,
     LinkAddrsSet, SetLink, Crashed, vars, nlvars, objvars
<1>10. QED
  BY <1>3, <1>4, <1>5, <1>6, <1>7, <1>8, <1>9 DEF Next

\* A part that succeeds leaves a call undisturbed.
LEMMA SucceedUndisturbed ==
  ASSUME Inv, Undisturbed(call), call.pc \in Running, NEW list,
         Succeed(list), part # "link" => list \in AddressLists,
         hwaddress'[call.self] # NULL \/ (part # "link" /\ UNCHANGED hwaddress)
  PROVE  Undisturbed(call)'
<1>1. /\ call'.op = call.op /\ call'.self = call.self /\ call'.exc = call.exc
      /\ call'.pc = IF Len(call.todo) = 1 THEN "return" ELSE "open"
      /\ call'.out = IF Head(call.todo) = "link" THEN call.out
                     ELSE Append(call.out, list)
  <2>1. WithExc(call, call.exc)
    BY DEF Inv, CallerAlive, CallShape, WithExc
  <2>2. QED BY <2>1, PartEndsFields DEF Succeed
<1>2. call'.op \in {"mac_address", "__str__"} => hwaddress'[call'.self] # NULL
  BY <1>1 DEF Undisturbed, LinkDone, part
<1>3. call'.op = "__str__" => call'.out \in Seq(AddressLists)
  BY <1>1 DEF Undisturbed, part
<1>4. call'.exc = NULL /\ call'.pc \notin {"crashed", "newlist"}
  BY <1>1 DEF Undisturbed
<1>5. QED BY <1>2, <1>3, <1>4 DEF Undisturbed

\* A call stays undisturbed.
LEMMA UndisturbedStep ==
  ASSUME Calm, Inv, ConnectionWhenQuerying, CalmInv, [Next]_vars
  PROVE  Undisturbed(call)'
<1>0. /\ Undisturbed(call) /\ CallShape /\ CallOK(call) /\ ObjectsOK
      /\ live \subseteq Objs
      /\ call.pc \notin {"idle", "create", "crashed"} => call.self \in live
  BY DEF CalmInv, Inv, CallerAlive
<1>1. CASE UNCHANGED <<call, hwaddress>>
  BY <1>0, <1>1 DEF Undisturbed, LinkDone
<1>2. CASE call' = Idle
  BY <1>2 DEF Idle, Undisturbed, LinkDone, Running
<1>3. ASSUME NEW arg \in Args, GetInterfacesInfo(arg) PROVE Undisturbed(call)'
  <2>1. CASE call' = [Idle EXCEPT !.pc = "create", !.op = "get_interfaces_info",
                                  !.todo = FetchDevs(arg), !.cache = arg.items]
    BY <2>1 DEF Idle, Undisturbed, LinkDone, Running
  <2>2. QED BY <1>2, <1>3, <2>1 DEF GetInterfacesInfo
<1>4. ASSUME NEW o \in Objs, NewEtherInfo(o) PROVE Undisturbed(call)'
  <2>1. call.pc = "create" /\ call.op = "get_interfaces_info"
    BY <1>0, <1>4 DEF NewEtherInfo, CallOK, Outside, Stage, Running
  <2>2. call'.pc = "create" /\ call'.op = "get_interfaces_info" /\ call'.exc = call.exc
    BY <1>0, <1>4, <2>1 DEF NewEtherInfo, CallShape
  <2>3. QED BY <1>0, <2>2 DEF Undisturbed
<1>5. ASSUME NEW o \in Objs, Dealloc(o) PROVE Undisturbed(call)'
  <2>1. UNCHANGED call /\ o # call.self /\ hwaddress' = [hwaddress EXCEPT ![o] = NULL]
    BY <1>5 DEF Dealloc
  <2>2. CASE call.pc \notin {"idle", "create", "crashed"}
    <3>1. hwaddress'[call.self] = hwaddress[call.self]
      BY <1>0, <2>1, <2>2 DEF ObjectsOK
    <3>2. QED BY <1>0, <2>1, <3>1 DEF Undisturbed, LinkDone
  <2>3. CASE call.pc \in {"idle", "create", "crashed"}
    BY <1>0, <2>1, <2>3 DEF Undisturbed, LinkDone, Running
  <2>4. QED BY <2>2, <2>3
<1>6. ASSUME NEW o \in Objs, NEW op \in Ops, Begin(o, op) PROVE Undisturbed(call)'
  <2>1. /\ call'.op = op /\ call'.exc = NULL /\ call'.out = <<>>
        /\ call'.todo = Parts(op)
        /\ call'.pc = IF Parts(op) = <<>> THEN "return" ELSE "open"
    BY <1>6 DEF Begin, Idle
  <2>2. op = "mac_address" => Parts(op) = <<"link">>
    BY DEF Parts
  <2>3. op = "__str__" => Parts(op) = <<"link", "addr4", "addr6">>
    BY DEF Parts
  <2>4. op \in {"mac_address", "__str__"} => Parts(op) # <<>> /\ Head(Parts(op)) = "link"
    BY <2>2, <2>3
  <2>5. QED BY <2>1, <2>4 DEF Undisturbed, LinkDone
<1>7. ASSUME call.pc \in Running, NEW pc \in {"index", "dump"},
             call' = [call EXCEPT !.pc = pc], UNCHANGED hwaddress
      PROVE  Undisturbed(call)'
  <2>1. /\ call'.op = call.op /\ call'.self = call.self /\ call'.exc = call.exc
        /\ call'.todo = call.todo /\ call'.out = call.out /\ call'.pc = pc
    BY <1>0, <1>7 DEF CallShape
  <2>2. QED BY <1>0, <1>7, <2>1 DEF Undisturbed, LinkDone
<1>8. CASE OpenConnection \/ SetDeviceIndex
  BY <1>7, <1>8, NothingFails DEF OpenConnection, SetDeviceIndex, objvars, At, Running
<1>9. CASE ReadLink
  <2>1. /\ call.pc = "dump" /\ part = "link" /\ Succeed(NULL) /\ self \in Objs
        /\ self \in live /\ index[self] \in Indexes
    BY <1>0, <1>9 DEF ReadLink, At, self, ObjectsOK
  <2>2. index[self] \in Named(device[self])
    BY <2>1, IndexesAssumption DEF CalmInv, IndexesRight
  <2>3. kernel[index[self]] # NULL /\ kernel[index[self]].mac \in Macs
    BY <1>0, <2>1, <2>2 DEF Named, ObjectsOK, Links
  <2>4. hwaddress'[call.self] # NULL
    BY <1>0, <1>9, <2>1, <2>3, ObjectsAssumption DEF ReadLink, ObjectsOK, self
  <2>5. QED BY <1>0, <2>1, <2>4, SucceedUndisturbed DEF Running
<1>10. CASE DumpAddresses
  <2>1. /\ call'.op = call.op /\ call'.self = call.self /\ call'.exc = call.exc
        /\ call'.todo = call.todo /\ call'.out = call.out /\ call'.pc = "newlist"
        /\ UNCHANGED hwaddress /\ part # "link" /\ call.pc = "dump"
    BY <1>0, <1>10 DEF DumpAddresses, CallShape, objvars, At
  <2>2. QED BY <1>0, <2>1 DEF Undisturbed, LinkDone, part, Running
<1>11. CASE BuildList
  <2>1. /\ call.pc = "newlist" /\ part # "link" /\ UNCHANGED hwaddress
        /\ Succeed(AddressList(call.cache)) /\ AddressList(call.cache) \in AddressLists
    BY <1>0, <1>11 DEF BuildList, At, objvars, Undisturbed, CallOK, part
  <2>2. QED BY <1>0, <2>1, SucceedUndisturbed DEF Running
<1>12. CASE Return \/ ReturnInfo
  BY <1>2, <1>12 DEF Return, ReturnInfo
<1>13. CASE KernelStep \/ Crashed \/ UNCHANGED vars
  BY <1>1, <1>13 DEF KernelStep, LinkRemoved, LinkAdded, LinkRenamed, LinkMacSet,
     LinkAddrsSet, SetLink, Crashed, vars, objvars
<1>14. QED
  BY <1>3, <1>4, <1>5, <1>6, <1>8, <1>9, <1>10, <1>11, <1>12, <1>13, NothingFails
  DEF Next, CallStep

LEMMA CalmInvHolds ==
  ASSUME Calm
  PROVE  Spec => []CalmInv
<1>1. Init => CalmInv
  <2> SUFFICES ASSUME Init PROVE CalmInv
    OBVIOUS
  <2>1. ConnectionUp /\ live = {}
    BY DEF Init, NL!Init, ConnectionUp
  <2>2. \A name \in Names : \E i \in Indexes : Named(name) = {i}
    BY DEF Init, Calm, Named
  <2>3. Undisturbed(call)
    BY DEF Init, Idle, Undisturbed, LinkDone, Running
  <2>4. QED BY <2>1, <2>2, <2>3 DEF CalmInv, IndexesRight
<1>2. Inv /\ ConnectionWhenQuerying /\ CalmInv /\ [Next]_vars => CalmInv'
  BY ConnectionUpStep, IndexesRightStep, UndisturbedStep DEF CalmInv
<1>3. QED BY <1>1, <1>2, InvHolds, AssertionHolds, PTL DEF Spec

\* When nothing fails and links keep their names, every method and attribute,
\* mac_address and __str__() included, returns a value and no exception, or
\* raises: hardware and address changes during the call do not matter.
THEOREM EveryContractKept ==
  ASSUME Calm
  PROVE  Spec => []ResultContract
<1>1. Init => ResultContract
  BY DEF Init, ResultContract
<1>2. Inv /\ CalmInv /\ ResultContract /\ [Next]_vars => ResultContract'
  <2> SUFFICES ASSUME Inv, CalmInv, ResultContract, [Next]_vars PROVE ResultContract'
    OBVIOUS
  <2>1. CASE result' = result \/ result' = NULL
    BY <2>1 DEF ResultContract
  <2>2. CASE Return /\ call.op \notin {"mac_address", "__str__"}
    BY <2>2, ReturnFields, ReturnMeets DEF ResultContract, MeetsContract
  <2>3. CASE Return /\ call.op \in {"mac_address", "__str__"}
    <3>1. call.exc = NULL /\ hwaddress[self] # NULL /\ hwaddress[self] \in Macs
      BY <2>3, ReturnFields
      DEF CalmInv, Undisturbed, LinkDone, self, Inv, ObjectsOK, CallerAlive
    <3>2. CASE call.op = "mac_address"
      <4>1. ReturnValue = hwaddress[self]
        BY <3>2 DEF ReturnValue
      <4>2. QED BY <2>3, <3>1, <4>1, ReturnFields DEF ResultContract, MeetsContract
    <3>3. CASE call.op = "__str__"
      <4>1. ReturnValue = [mac |-> hwaddress[self], ipv4 |-> call.out[1],
                           ipv6 |-> call.out[2]]
        BY <3>3 DEF ReturnValue
      <4>2. \E ipv4, ipv6 \in ListOrNull : call.out = <<ipv4, ipv6>>
        BY <2>3, <3>3, ReturnFields
        DEF Inv, CallOK, Outside, Stage, Running, AddressOps
      <4>3. Len(call.out) = 2 /\ call.out \in Seq(AddressLists)
        BY <3>3, <4>2 DEF CalmInv, Undisturbed
      <4>4. call.out[1] \in AddressLists /\ call.out[2] \in AddressLists
        BY <4>3
      <4>5. ReturnValue # NULL
        BY <3>1, <4>1, <4>4, ObjectsAssumption
      <4>6. QED BY <2>3, <3>1, <4>5, ReturnFields DEF ResultContract, MeetsContract
    <3>4. QED BY <2>3, <3>2, <3>3
  <2>4. CASE ReturnInfo \/ \E arg \in Args : GetInterfacesInfo(arg)
    BY <2>4, InfoMeets DEF ResultContract
  <2>5. QED BY <2>1, <2>2, <2>3, <2>4, ResultChanges
<1>3. QED BY <1>1, <1>2, InvHolds, CalmInvHolds, PTL DEF Spec

\* The addresses a query works on are those of the device the object is named
\* after, in the kernel's order, although its index may have been looked up in
\* an earlier call.
THEOREM RightAddresses ==
  ASSUME Calm
  PROVE  Spec => AddressesOfNamedDevice
<1>1. \A addrs, p : OfFamily(addrs, p) = SelectSeq(addrs, LAMBDA a : a.family = Family(p))
  BY DEF OfFamily, IsFamily
<1>2. ASSUME Inv, ConnectionWhenQuerying, CalmInv, [Next]_vars, At("dump"),
             call'.pc = "newlist", NEW i \in Named(device[self])
      PROVE  call'.cache = OfFamily(kernel[i].addrs, part)
  <2>1. CASE DumpAddresses
    <3>1. call'.cache = AddrsOf(index[self], part)
      BY <1>2, <2>1 DEF DumpAddresses, Inv, CallerAlive, CallShape
    <3>2. index[self] \in Indexes /\ self \in live
      BY <1>2 DEF At, Inv, CallerAlive, ObjectsOK, self
    <3>3. index[self] = i
      BY <1>2, <3>2, IndexesAssumption DEF CalmInv, IndexesRight
    <3>4. kernel[i] # NULL
      BY <1>2 DEF Named
    <3>5. QED BY <3>1, <3>3, <3>4 DEF AddrsOf
  <2>2. CASE UNCHANGED call
    BY <1>2, <2>2 DEF At
  <2>3. CASE ReadLink
    BY <1>2, <2>3, PartOver DEF ReadLink, Inv, CallerAlive
  <2>4. ~OpenConnection /\ ~SetDeviceIndex /\ ~BuildList /\ ~Return /\ ~ReturnInfo
    BY <1>2 DEF OpenConnection, SetDeviceIndex, BuildList, Return, ReturnInfo, At
  <2>5. CASE (\E arg \in Args : GetInterfacesInfo(arg)) \/ (\E o \in Objs : NewEtherInfo(o))
             \/ (\E o \in Objs, op \in Ops : Begin(o, op))
    BY <1>2, <2>5 DEF GetInterfacesInfo, NewEtherInfo, Begin, At
  <2>6. CASE (\E o \in Objs : Dealloc(o)) \/ KernelStep \/ Crashed \/ UNCHANGED vars
    BY <2>2, <2>6 DEF Dealloc, KernelStep, LinkRemoved, LinkAdded, LinkRenamed,
       LinkMacSet, LinkAddrsSet, SetLink, Crashed, vars
  <2>7. QED
    BY <1>2, <2>1, <2>3, <2>4, <2>5, <2>6, NothingFails DEF Next, CallStep
<1>3. Inv /\ ConnectionWhenQuerying /\ CalmInv /\ [Next]_vars =>
        [At("dump") /\ call'.pc = "newlist" =>
           \A i \in Named(device[self]) :
             call'.cache = SelectSeq(kernel[i].addrs,
                                     LAMBDA a : a.family = Family(part))]_vars
  BY <1>1, <1>2
<1>4. QED
  BY <1>3, InvHolds, AssertionHolds, CalmInvHolds, PTL DEF Spec, AddressesOfNamedDevice

=============================================================================
