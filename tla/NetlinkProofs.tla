---------------------------- MODULE NetlinkProofs ----------------------------
(***************************************************************************)
(* Proofs about Netlink for every set of objects and sockets, every width  *)
(* of the counter that can count the objects, and every set of faults.     *)
(***************************************************************************)
EXTENDS Netlink, FiniteSetTheorems, TLAPS

\* The counter arithmetic stays within an unsigned int, and away from its
\* ends it is ordinary arithmetic.
LEMMA CounterArithmetic ==
  ASSUME NEW n \in 0..UIntMax
  PROVE  /\ Inc(n) \in 0..UIntMax
         /\ Dec(n) \in 0..UIntMax
         /\ n < UIntMax => Inc(n) = n + 1
         /\ n > 0 => Dec(n) = n - 1
  BY UIntAssumption DEF Inc, Dec

LEMMA TypeStep == TypeOK /\ [Next]_nlvars => TypeOK'
  <1> SUFFICES ASSUME TypeOK, [Next]_nlvars PROVE TypeOK'
    OBVIOUS
  <1> USE DEF TypeOK
  <1>0. /\ Inc(nlconnection_users) \in 0..UIntMax
        /\ Dec(nlconnection_users) \in 0..UIntMax
    BY CounterArithmetic
  <1>1. ASSUME NEW o \in Objs, NewObject(o) PROVE TypeOK'
    BY <1>1, TagsAssumption DEF NewObject, sockvars
  <1>2. ASSUME NEW o \in Objs, OpenReuse(o) PROVE TypeOK'
    BY <1>0, <1>2 DEF OpenReuse, sockvars
  <1>3. ASSUME NEW o \in Objs, OpenNew(o) PROVE TypeOK'
    BY <1>0, <1>3 DEF OpenNew
  <1>4. ASSUME OpenFails PROVE TypeOK'
    BY <1>4 DEF OpenFails, AllocFails, ConnectFails, nlvars
  <1>5. ASSUME NEW o \in Objs, Dealloc(o) PROVE TypeOK'
    BY <1>0, <1>5 DEF Dealloc, close_netlink, CloseNothing, CloseShared,
                      CloseLast, sockvars
  <1>6. CASE UNCHANGED nlvars
    BY <1>6 DEF nlvars
  <1> QED
    BY <1>1, <1>2, <1>3, <1>4, <1>5, <1>6 DEF Next, Open, OpenSucceeds

\* Every reachable state of netlink.c is well typed, whatever calls fail.
THEOREM TypeCorrect == Spec => []TypeOK
  <1>1. Init => TypeOK
    BY UIntAssumption DEF Init, TypeOK
  <1> QED
    BY <1>1, TypeStep, PTL DEF Spec

-----------------------------------------------------------------------------
(***************************************************************************)
(* The part of the argument that needs no assumption on the faults.        *)
(***************************************************************************)
SocketInv == TypeOK /\ OneSocketAtATime /\ NoUsersWithoutConnection

LEMMA SocketInvInductive == SocketInv /\ [Next]_nlvars => SocketInv'
  <1> SUFFICES ASSUME SocketInv, [Next]_nlvars PROVE SocketInv'
    OBVIOUS
  <1> USE DEF SocketInv, OneSocketAtATime, NoUsersWithoutConnection
  <1>0. TypeOK'
    BY TypeStep
  <1>1. ASSUME NEW o \in Objs, NewObject(o) PROVE SocketInv'
    BY <1>0, <1>1 DEF NewObject, sockvars
  <1>2. ASSUME NEW o \in Objs, OpenReuse(o) PROVE SocketInv'
    BY <1>0, <1>2 DEF OpenReuse, sockvars
  <1>3. ASSUME NEW o \in Objs, OpenNew(o) PROVE SocketInv'
    BY <1>0, <1>3, NullAssumption DEF OpenNew
  <1>4. ASSUME OpenFails PROVE SocketInv'
    BY <1>0, <1>4, NullAssumption
    DEF OpenFails, AllocFails, ConnectFails, nlvars
  <1>5. ASSUME NEW o \in Objs, Dealloc(o) PROVE SocketInv'
    <2>1. CASE CloseNothing
      BY <1>0, <2>1 DEF CloseNothing, sockvars
    <2>2. CASE CloseShared(o)
      BY <1>0, <2>2 DEF CloseShared, sockvars
    <2>3. CASE CloseLast(o)
      <3>1. Dec(nlconnection_users) \in 0..UIntMax
        BY CounterArithmetic DEF TypeOK
      <3>2. nlconnection_users' = 0
        BY <2>3, <3>1, UIntAssumption DEF CloseLast
      <3> QED
        BY <1>0, <2>3, <3>2 DEF CloseLast
    <2> QED
      BY <1>5, <2>1, <2>2, <2>3 DEF Dealloc, close_netlink
  <1>6. CASE UNCHANGED nlvars
    BY <1>0, <1>6 DEF nlvars
  <1> QED
    BY <1>1, <1>2, <1>3, <1>4, <1>5, <1>6 DEF Next, Open, OpenSucceeds

\* netlink.c never holds a socket it has lost track of and never counts
\* users of a connection it does not have, whatever calls fail.
THEOREM SocketSafety ==
  Spec => [](OneSocketAtATime /\ NoUsersWithoutConnection)
  <1>1. Init => SocketInv
    BY UIntAssumption
    DEF Init, SocketInv, TypeOK, OneSocketAtATime, NoUsersWithoutConnection
  <1>2. SocketInv => OneSocketAtATime /\ NoUsersWithoutConnection
    BY DEF SocketInv
  <1> QED
    BY <1>1, <1>2, SocketInvInductive, PTL DEF Spec

\* The second half by itself: nobody is counted as a user of a connection
\* that netlink.c does not have, and the counter has not wrapped then.
THEOREM NobodyUsesNothing == Spec => []NoUsersWithoutConnection
  BY SocketSafety, PTL

-----------------------------------------------------------------------------
(***************************************************************************)
(* The counter of a connected socket lies between 1 and the number of      *)
(* tagged objects.  It may lie below that number (an untagged object that  *)
(* dies is subtracted too), never above it.                                *)
(***************************************************************************)
CounterInv == SocketInv /\ CounterWithinTags

\* The tagged objects are a finite set no larger than the counter's range.
LEMMA ActiveBounds ==
  ASSUME TypeOK
  PROVE  /\ IsFiniteSet(Active)
         /\ Cardinality(Active) \in Nat
         /\ Cardinality(Active) <= UIntMax
  <1>1. Active \in SUBSET Objs
    BY DEF Active, TypeOK
  <1>2. /\ IsFiniteSet(Active)
        /\ Cardinality(Active) <= Cardinality(Objs)
    BY <1>1, ObjsAssumption, FS_Subset
  <1>3. Cardinality(Active) \in Nat /\ Cardinality(Objs) \in Nat
    BY <1>2, ObjsAssumption, FS_CardinalityType
  <1> QED
    BY <1>2, <1>3, UIntAssumption

LEMMA CounterInvInductive == CounterInv /\ [Next]_nlvars => CounterInv'
  <1> SUFFICES ASSUME CounterInv, [Next]_nlvars PROVE CounterInv'
    OBVIOUS
  <1> USE DEF CounterInv, CounterWithinTags
  <1>0. /\ TypeOK /\ TypeOK'
        /\ SocketInv'
    BY SocketInvInductive DEF SocketInv
  <1>a. /\ IsFiniteSet(Active)
        /\ Cardinality(Active) \in Nat
        /\ Cardinality(Active) <= UIntMax
        /\ UIntMax \in Nat \ {0}
        /\ nlconnection_users \in Nat
    BY <1>0, ActiveBounds, UIntAssumption DEF TypeOK
  <1>b. /\ IsFiniteSet(Active')
        /\ Cardinality(Active') \in Nat
        /\ Cardinality(Active') <= UIntMax
    <2>1. Active' \in SUBSET Objs
      BY <1>0 DEF Active, TypeOK
    <2>2. /\ IsFiniteSet(Active')
          /\ Cardinality(Active') <= Cardinality(Objs)
      BY <2>1, ObjsAssumption, FS_Subset
    <2>3. Cardinality(Active') \in Nat /\ Cardinality(Objs) \in Nat
      BY <2>2, ObjsAssumption, FS_CardinalityType
    <2> QED
      BY <2>2, <2>3, UIntAssumption
  <1>1. ASSUME NEW o \in Objs, NewObject(o) PROVE CounterWithinTags'
    <2>1. Active \in SUBSET (Active')
      BY <1>0, <1>1 DEF NewObject, Active, TypeOK
    <2>2. Cardinality(Active) <= Cardinality(Active')
      BY <1>b, <2>1, FS_Subset
    <2> QED
      BY <1>1, <1>a, <1>b, <2>2 DEF NewObject, sockvars
  <1>2. ASSUME NEW o \in live, OpenReuse(o) PROVE CounterWithinTags'
    <2>1. CASE nlc_active[o]
      <3>1. Active' = Active
        BY <1>0, <1>2, <2>1 DEF OpenReuse, Active, TypeOK
      <3> QED
        BY <1>2, <2>1, <3>1 DEF OpenReuse, sockvars
    <2>2. CASE ~nlc_active[o]
      <3>0. CASE nlconnection \notin connected
        BY <1>2, <3>0 DEF OpenReuse, sockvars
      <3> SUFFICES ASSUME nlconnection \in connected PROVE CounterWithinTags'
        BY <3>0
      <3>1. Active' = Active \cup {o} /\ o \notin Active
        BY <1>0, <1>2, <2>2 DEF OpenReuse, Active, TypeOK
      <3>2. Cardinality(Active') = Cardinality(Active) + 1
        BY <1>a, <3>1, FS_AddElement
      <3>3. nlconnection_users' = nlconnection_users + 1
        BY <1>0, <1>2, <1>a, <1>b, <2>2, <3>2, CounterArithmetic
        DEF OpenReuse, TypeOK
      <3> QED
        BY <1>2, <1>a, <3>2, <3>3 DEF OpenReuse, sockvars
    <2> QED
      BY <2>1, <2>2
  <1>3. ASSUME NEW o \in live, OpenNew(o) PROVE CounterWithinTags'
    <2>1. nlconnection_users' = 1
      BY <1>3, UIntAssumption, CounterArithmetic
      DEF OpenNew, SocketInv, NoUsersWithoutConnection, Inc
    <2>2. o \in Active'
      BY <1>0, <1>3 DEF OpenNew, Active, TypeOK
    <2>3. Cardinality(Active') >= 1
      BY <1>b, <2>2, FS_EmptySet
    <2> QED
      BY <1>b, <2>1, <2>3
  <1>4. ASSUME OpenFails PROVE CounterWithinTags'
    <2>1. CASE AllocFails
      BY <2>1 DEF AllocFails, nlvars, Active
    <2>2. CASE ConnectFails
      BY <1>0, <2>2 DEF ConnectFails, TypeOK
    <2> QED
      BY <1>4, <2>1, <2>2 DEF OpenFails
  <1>5. ASSUME NEW o \in Objs, Dealloc(o) PROVE CounterWithinTags'
    <2>1. CASE CloseNothing
      BY <1>0, <2>1, NullAssumption DEF CloseNothing, sockvars, TypeOK
    <2>2. CASE CloseShared(o)
      <3>0. CASE nlconnection \notin connected
        BY <2>2, <3>0 DEF CloseShared, sockvars
      <3> SUFFICES ASSUME nlconnection \in connected PROVE CounterWithinTags'
        BY <3>0
      <3>1. Active' = Active \ {o}
        BY <1>0, <1>5, <2>2 DEF Dealloc, CloseShared, Active, TypeOK
      <3>2. Cardinality(Active') >= Cardinality(Active) - 1
        BY <1>a, <1>b, <3>1, FS_RemoveElement
      <3>3. nlconnection_users' = nlconnection_users - 1
        BY <1>0, <2>2, <1>a, CounterArithmetic DEF CloseShared, TypeOK
      <3>4. nlconnection_users' >= 1
        BY <1>a, <2>2, <3>3 DEF CloseShared
      <3> QED
        BY <1>a, <1>b, <2>2, <3>2, <3>3, <3>4 DEF CloseShared, sockvars
    <2>3. CASE CloseLast(o)
      BY <1>0, <2>3, NullAssumption DEF CloseLast, TypeOK
    <2> QED
      BY <1>5, <2>1, <2>2, <2>3 DEF Dealloc, close_netlink
  <1>6. CASE UNCHANGED nlvars
    BY <1>0, <1>6 DEF nlvars, Active
  <1> QED
    BY <1>0, <1>1, <1>2, <1>3, <1>4, <1>5, <1>6 DEF Next, Open, OpenSucceeds

\* The user counter of a connected socket never wraps and never exceeds the
\* number of tagged objects, whatever calls fail.
THEOREM CounterSafety == Spec => []CounterWithinTags
  <1>1. Init => CounterInv
    BY UIntAssumption
    DEF Init, CounterInv, CounterWithinTags, SocketInv, TypeOK,
        OneSocketAtATime, NoUsersWithoutConnection
  <1>2. CounterInv => CounterWithinTags
    BY DEF CounterInv
  <1> QED
    BY <1>1, <1>2, CounterInvInductive, PTL DEF Spec

-----------------------------------------------------------------------------
(***************************************************************************)
(* With a reliable nl_connect() the connection in nlconnection is always   *)
(* connected, so every successful open_netlink() hands out a valid one.    *)
(***************************************************************************)
ConnectedInv == SocketInv /\ (nlconnection # NULL => nlconnection \in connected)

LEMMA ConnectedInvInductive ==
  ASSUME ConnectReliable, ConnectedInv, [Next]_nlvars
  PROVE  ConnectedInv'
  <1> USE DEF ConnectedInv
  <1>0. SocketInv'
    BY SocketInvInductive
  <1>1. ASSUME NEW o \in Objs, NewObject(o) PROVE ConnectedInv'
    BY <1>0, <1>1 DEF NewObject, sockvars
  <1>2. ASSUME NEW o \in live, OpenReuse(o) PROVE ConnectedInv'
    BY <1>0, <1>2 DEF OpenReuse, sockvars
  <1>3. ASSUME NEW o \in live, OpenNew(o) PROVE ConnectedInv'
    BY <1>0, <1>3 DEF OpenNew
  <1>4. ASSUME OpenFails PROVE ConnectedInv'
    BY <1>0, <1>4 DEF OpenFails, AllocFails, ConnectFails, ConnectReliable, nlvars
  <1>5. ASSUME NEW o \in Objs, Dealloc(o) PROVE ConnectedInv'
    BY <1>0, <1>5 DEF Dealloc, close_netlink, CloseNothing, CloseShared,
                      CloseLast, sockvars
  <1>6. CASE UNCHANGED nlvars
    BY <1>0, <1>6 DEF nlvars
  <1> QED
    BY <1>1, <1>2, <1>3, <1>4, <1>5, <1>6 DEF Next, Open, OpenSucceeds

\* With a reliable nl_connect(), whenever open_netlink() returns 1 the
\* connection that get_nlc() then returns is connected.
THEOREM ValidConnection == ConnectReliable /\ Spec => ValidWhenOpened
  <1>1. Init => ConnectedInv
    BY UIntAssumption
    DEF Init, ConnectedInv, SocketInv, TypeOK, OneSocketAtATime,
        NoUsersWithoutConnection
  <1>2. ConnectReliable /\ ConnectedInv /\ [Next]_nlvars => ConnectedInv'
    BY ConnectedInvInductive
  <1>3. ConnectReliable => ConnectReliable'
    BY DEF ConnectReliable
  <1>4. ConnectedInv /\ [Next]_nlvars
          => [\A o \in live : OpenSucceeds(o)
                => nlconnection' \in connected']_nlvars
    BY DEF ConnectedInv, OpenSucceeds, OpenReuse, OpenNew, sockvars
  <1> QED
    BY <1>1, <1>2, <1>3, <1>4, PTL DEF Spec, ValidWhenOpened

-----------------------------------------------------------------------------
(***************************************************************************)
(* The refinement: every step of netlink.c is a step of OnDemandHandle or  *)
(* leaves live and the connected socket alone.                             *)
(***************************************************************************)
LEMMA HandleStep ==
  ASSUME CounterInv, CounterInv', [Next]_nlvars
  PROVE  [Handle!Next]_(Handle!vars)
  <1> USE DEF Handle!vars
  <1>0. TypeOK /\ TypeOK' /\ NULL \notin connected /\ NULL \notin connected'
    BY NullAssumption DEF CounterInv, SocketInv, TypeOK
  <1>1. ASSUME NEW o \in Objs, NewObject(o) PROVE Handle!Next
    BY <1>1 DEF NewObject, sockvars, Valid, Handle!Next, Handle!Create
  <1>2. ASSUME NEW o \in live, OpenReuse(o) PROVE UNCHANGED Handle!vars
    BY <1>2 DEF OpenReuse, sockvars, Valid
  <1>3. ASSUME NEW o \in Objs, o \in live, OpenNew(o) PROVE Handle!Next
    <2>1. Valid = NULL /\ Valid' \in Socks /\ live' = live
      BY <1>0, <1>3 DEF OpenNew, Valid
    <2> QED
      BY <1>3, <2>1 DEF Handle!Next, Handle!Acquire
  <1>4. ASSUME OpenFails PROVE UNCHANGED Handle!vars
    <2>1. CASE AllocFails
      BY <2>1 DEF AllocFails, nlvars, Valid
    <2>2. CASE ConnectFails
      BY <1>0, <2>2 DEF ConnectFails, TypeOK, Valid
    <2> QED
      BY <1>4, <2>1, <2>2 DEF OpenFails
  <1>5. ASSUME NEW o \in Objs, Dealloc(o) PROVE Handle!Next
    <2>1. o \in live /\ live' = live \ {o}
      BY <1>5 DEF Dealloc
    <2>2. CASE CloseNothing \/ CloseLast(o)
      <3>1. Valid' = NULL
        BY <1>0, <2>2 DEF CloseNothing, CloseLast, sockvars, Valid
      <3> QED
        BY <2>1, <3>1 DEF Handle!Next, Handle!Release
    <2>3. CASE CloseShared(o)
      <3>1. Valid' = Valid /\ nlconnection' = nlconnection /\ connected' = connected
        BY <2>3 DEF CloseShared, sockvars, Valid
      <3>2. CASE nlconnection \notin connected
        BY <2>1, <3>1, <3>2 DEF Valid, Handle!Next, Handle!Release
      <3>3. CASE nlconnection \in connected
        <4>1. nlconnection_users' \in 1..Cardinality(Active')
          BY <3>1, <3>3 DEF CounterInv, CounterWithinTags
        <4>2. Cardinality(Active') # 0
          BY <4>1
        <4>3. live' # {}
          BY <4>2, FS_EmptySet DEF Active
        <4> QED
          BY <2>1, <3>1, <4>3 DEF Handle!Next, Handle!Release
      <3> QED
        BY <3>2, <3>3
    <2> QED
      BY <1>5, <2>2, <2>3 DEF Dealloc, close_netlink
  <1>6. CASE UNCHANGED nlvars
    BY <1>6 DEF nlvars, Valid
  <1>7. live \subseteq Objs
    BY <1>0 DEF TypeOK
  <1> QED
    BY <1>1, <1>2, <1>3, <1>4, <1>5, <1>6, <1>7 DEF Next, Open, OpenSucceeds

\* netlink.c with its tags and its counter implements the on-demand handle,
\* whatever calls fail: one connected socket at a time, and none left when
\* the last etherinfo object has been deallocated.
THEOREM ImplementsHandle == Spec => HandleSpec
  <1>1. Init => CounterInv /\ Handle!Init
    BY UIntAssumption
    DEF Init, CounterInv, CounterWithinTags, SocketInv, TypeOK, Valid,
        OneSocketAtATime, NoUsersWithoutConnection, Handle!Init
  <1>2. CounterInv /\ CounterInv' /\ [Next]_nlvars
          => [Handle!Next]_(Handle!vars)
    BY HandleStep
  <1> QED
    BY <1>1, <1>2, CounterInvInductive, PTL DEF Spec, HandleSpec, Handle!Spec

=============================================================================
