------------------------------- MODULE Netlink -------------------------------
(***************************************************************************)
(* src/python-ethtool/netlink.c: the one NETLINK connection a Python       *)
(* process keeps for all of its ethtool.etherinfo objects, the counter of  *)
(* its users, and the tag each object carries.                             *)
(*                                                                         *)
(* Every function here runs with the GIL held and never gives it up, so a  *)
(* call is one step: nlc_counter_mtx is never contended.                   *)
(***************************************************************************)
EXTENDS Integers, FiniteSets

CONSTANTS
  Objs,      (* the PyEtherInfo objects that can exist at the same time    *)
  Socks,     (* the addresses nl_socket_alloc can return                   *)
  NULL,      (* the C null pointer                                         *)
  UIntMax,   (* largest value of the unsigned int nlconnection_users       *)
  FreshTags, (* what the uninitialised nlc_active of a new object reads as *)
  Faults     (* the external calls that may fail: "alloc", "connect"       *)

ASSUME NullAssumption == NULL \notin Socks
ASSUME ObjsAssumption == IsFiniteSet(Objs)
ASSUME TagsAssumption == FreshTags \subseteq BOOLEAN
\* Objects occupy memory: there are never more of them than an unsigned
\* int can count.
ASSUME UIntAssumption == UIntMax \in Nat \ {0} /\ Cardinality(Objs) <= UIntMax

VARIABLES
  live,                (* objects that exist                               *)
  nlc_active,          (* PyEtherInfo.nlc_active of each object            *)
  nlconnection,        (* the global connection pointer                    *)
  nlconnection_users,  (* the global user counter                          *)
  allocated,           (* struct nl_sock allocations not freed yet         *)
  connected            (* allocations that own an open NETLINK socket      *)

sockvars == <<nlconnection, allocated, connected>>
nlvars == <<live, nlc_active, nlconnection, nlconnection_users, allocated,
            connected>>

\* The live objects that carry the tag.
Active == {o \in live : nlc_active[o]}

\* Faulty variant: the counter is a signed int.
Dec_Signed(n) == n - 1

\* nlconnection_users++ and nlconnection_users-- on an unsigned int.
Inc(n) == IF n = UIntMax THEN 0 ELSE n + 1
Dec(n) == IF n = 0 THEN UIntMax ELSE n - 1

Init ==
  /\ live = {}
  /\ nlc_active = [o \in Objs |-> FALSE]
  /\ nlconnection = NULL
  /\ nlconnection_users = 0
  /\ allocated = {}
  /\ connected = {}

-----------------------------------------------------------------------------
(***************************************************************************)
(* Creation: get_interfaces_info() allocates the object with PyObject_New, *)
(* which does not clear memory, and never assigns nlc_active.              *)
(***************************************************************************)
NewObject(o) ==
  /\ o \notin live
  /\ live' = live \cup {o}
  /\ \E tag \in FreshTags : nlc_active' = [nlc_active EXCEPT ![o] = tag]
  /\ UNCHANGED <<sockvars, nlconnection_users>>

-----------------------------------------------------------------------------
(***************************************************************************)
(* open_netlink(): returns 1 (OpenReuse, OpenNew) or 0 (OpenFails).        *)
(***************************************************************************)

\* Faulty variant: every query counts, whatever the tag says.
OpenReuse_CountsAlways(o) ==
  /\ nlconnection # NULL
  /\ nlconnection_users' = Inc(nlconnection_users)
  /\ nlc_active' = [nlc_active EXCEPT ![o] = TRUE]
  /\ UNCHANGED <<live, sockvars>>

\* A connection exists: reuse it, and count the object unless it is tagged.
OpenReuse(o) ==
  /\ nlconnection # NULL
  /\ nlconnection_users' = IF nlc_active[o] THEN nlconnection_users
                                            ELSE Inc(nlconnection_users)
  /\ nlc_active' = [nlc_active EXCEPT ![o] = TRUE]
  /\ UNCHANGED <<live, sockvars>>

\* No connection: allocate one and connect it.  A failing fcntl() only warns.
OpenNew(o) ==
  /\ nlconnection = NULL
  /\ \E s \in Socks \ allocated :
       /\ nlconnection' = s
       /\ allocated' = allocated \cup {s}
       /\ connected' = connected \cup {s}
  /\ nlconnection_users' = Inc(nlconnection_users)
  /\ nlc_active' = [nlc_active EXCEPT ![o] = TRUE]
  /\ UNCHANGED live

\* Faulty variant: the user is counted before the allocation is checked.
AllocFails_Counted ==
  /\ "alloc" \in Faults
  /\ nlconnection = NULL
  /\ nlconnection_users' = Inc(nlconnection_users)
  /\ UNCHANGED <<live, nlc_active, sockvars>>

\* nl_socket_alloc() returns NULL.
AllocFails ==
  /\ "alloc" \in Faults
  /\ nlconnection = NULL
  /\ UNCHANGED nlvars

\* nl_connect() fails: 0 is returned and the unconnected socket stays in
\* nlconnection.
ConnectFails ==
  /\ "connect" \in Faults
  /\ nlconnection = NULL
  /\ \E s \in Socks \ allocated :
       /\ nlconnection' = s
       /\ allocated' = allocated \cup {s}
  /\ UNCHANGED <<live, nlc_active, nlconnection_users, connected>>

OpenSucceeds(o) == OpenReuse(o) \/ OpenNew(o)
OpenFails == AllocFails \/ ConnectFails

-----------------------------------------------------------------------------
(***************************************************************************)
(* close_netlink(), called by the deallocator of an object whether or not  *)
(* the object is tagged.                                                   *)
(***************************************************************************)

\* No connection: return early, the tag stays as it is.
CloseNothing ==
  /\ nlconnection = NULL
  /\ UNCHANGED <<nlc_active, nlconnection_users, sockvars>>

\* Users remain after the decrement: the connection is kept.
CloseShared(o) ==
  /\ nlconnection # NULL
  /\ Dec(nlconnection_users) > 0
  /\ nlc_active' = [nlc_active EXCEPT ![o] = FALSE]
  /\ nlconnection_users' = Dec(nlconnection_users)
  /\ UNCHANGED sockvars

\* Faulty variant: the freed connection stays in the global pointer.
CloseLast_KeepsPointer(o) ==
  /\ nlconnection # NULL
  /\ ~(Dec(nlconnection_users) > 0)
  /\ nlc_active' = [nlc_active EXCEPT ![o] = FALSE]
  /\ nlconnection_users' = Dec(nlconnection_users)
  /\ allocated' = allocated \ {nlconnection}
  /\ connected' = connected \ {nlconnection}
  /\ UNCHANGED nlconnection

\* The counter reached zero: nl_close(), nl_socket_free(), pointer cleared.
CloseLast(o) ==
  /\ nlconnection # NULL
  /\ ~(Dec(nlconnection_users) > 0)
  /\ nlc_active' = [nlc_active EXCEPT ![o] = FALSE]
  /\ nlconnection_users' = Dec(nlconnection_users)
  /\ nlconnection' = NULL
  /\ allocated' = allocated \ {nlconnection}
  /\ connected' = connected \ {nlconnection}

close_netlink(o) == CloseNothing \/ CloseShared(o) \/ CloseLast(o)

\* Faulty variant: the deallocator forgets close_netlink().
Dealloc_WithoutClose(o) ==
  /\ o \in live
  /\ live' = live \ {o}
  /\ UNCHANGED <<nlc_active, nlconnection_users, sockvars>>

\* _ethtool_etherinfo_dealloc(): close_netlink(), then the memory is freed.
Dealloc(o) ==
  /\ o \in live
  /\ live' = live \ {o}
  /\ close_netlink(o)

-----------------------------------------------------------------------------
Open(o) == o \in live /\ (OpenSucceeds(o) \/ OpenFails)

Next == \E o \in Objs : NewObject(o) \/ Open(o) \/ Dealloc(o)

Spec == Init /\ [][Next]_nlvars

-----------------------------------------------------------------------------
(***************************************************************************)
(* Properties that hold whatever external call fails.                      *)
(***************************************************************************)

\* Every variable has its type, and only allocated sockets are connected:
\* nl_close() comes before nl_socket_free(), and the counter wraps instead
\* of going negative.
TypeOK ==
  /\ live \subseteq Objs
  /\ nlc_active \in [Objs -> BOOLEAN]
  /\ nlconnection \in Socks \cup {NULL}
  /\ nlconnection_users \in 0..UIntMax
  /\ allocated \subseteq Socks
  /\ connected \subseteq allocated

\* The socket that nlconnection points to is the only one the process has
\* allocated, for all objects: open_netlink() overwrites no live connection,
\* and close_netlink() frees what it forgets and forgets what it frees.  The
\* comment at netlink.c:34-36, "it will keep a separate file descriptor open
\* for each object", is not true of the code.
OneSocketAtATime ==
  allocated = IF nlconnection = NULL THEN {} ELSE {nlconnection}

\* Without a connection nobody is counted as a user of it, also after the
\* failure paths of open_netlink().
NoUsersWithoutConnection == nlconnection = NULL => nlconnection_users = 0

\* While a connected socket is held the counter is positive and never exceeds
\* the number of tagged objects: close_netlink() cannot wrap it, and the last
\* tagged object to die finds it at 1 and closes the connection.
CounterWithinTags ==
  nlconnection \in connected => nlconnection_users \in 1..Cardinality(Active)

\* The connection a query can be sent on.
Valid == IF nlconnection \in connected THEN nlconnection ELSE NULL

\* netlink.c implements the handle its callers rely on: with tags and counter
\* hidden, the connected socket is obtained on demand, kept while it is in
\* use, and closed when the last object dies at the latest.
Handle == INSTANCE OnDemandHandle WITH Handles <- Socks, handle <- Valid
HandleSpec == Handle!Spec

-----------------------------------------------------------------------------
(***************************************************************************)
(* What the change log and the comments say.                               *)
(***************************************************************************)

\* nl_connect() does not fail.
ConnectReliable == "connect" \notin Faults

\* CHANGES.rst, 0.11: "Ensure that we get a valid libnl NETLINK connection
\* when connecting".  When open_netlink() returns 1 the connection that
\* get_nlc() hands out is connected.  True only if nl_connect() never fails.
ValidWhenOpened ==
  [][\A o \in live : OpenSucceeds(o) => nlconnection' \in connected']_nlvars

\* netlink.c:115: "Don't close the connection if there are more users".
\* A connection is closed only when no other object is tagged as a user.
KeptForOtherUsers ==
  [][\A o \in live :
       Dealloc(o) /\ nlconnection # NULL /\ nlconnection' = NULL
         => Active \subseteq {o}]_nlvars

=============================================================================
