---------------------------- MODULE AddressObjects ----------------------------
(***************************************************************************)
(* The Python objects that an address query creates, and who holds         *)
(* references to them: the list of get_etherinfo_address(), the            *)
(* NetlinkIPaddress objects of netlink-address.c in it and their strings.  *)
(*                                                                         *)
(* An object is freed when its count of references, kept by hand in C,     *)
(* reaches zero; what it refers to is then released in turn.  The query    *)
(* itself is the business of EtherInfo: here a dump is whatever addresses  *)
(* the kernel delivers, and every allocation may fail.                     *)
(***************************************************************************)
EXTENDS Integers, Sequences, FiniteSets

CONSTANTS
  Ids,       (* places for objects: the memory there is                     *)
  NULL,      (* the C null pointer                                          *)
  Junk,      (* what uninitialised memory holds                             *)
  Dumps,     (* the addresses a dump may deliver, for each family           *)
  Deletable, (* the attributes of an address that the program may delete    *)
  Faults,    (* "memory": an allocation may fail                            *)
  Checked,   (* a result with an exception set is an error: Python 3.5, and *)
             (* not 2.7                                                     *)
  MaxHeld,   (* bound: references the program keeps                         *)
  Room       (* bound: free places for a call to begin                      *)

\* There is only so much memory; a pointer is null, uninitialised, or leads to
\* an object.
ASSUME IdsAssumption ==
  IsFiniteSet(Ids) /\ NULL \notin Ids /\ Junk \notin Ids /\ NULL # Junk

ASSUME CheckedAssumption == Checked \in BOOLEAN

VARIABLES
  heap,      (* the object in each place, or NULL                           *)
  held,      (* how many references the Python program has to each          *)
  call       (* the call in progress                                        *)

vars == <<heap, held, call>>

-----------------------------------------------------------------------------
(***************************************************************************)
(* Objects and references.                                                 *)
(***************************************************************************)

\* The pointers of a PyNetlinkIPaddress, as PyObject_New() leaves them.
Uninitialised == [local |-> Junk, peer |-> Junk, ipv4_broadcast |-> Junk,
                  scope |-> Junk]

\* _ethtool_netlink_ip_address_members: the pointer behind an attribute.
Member == [address |-> "local", peer_address |-> "peer",
           broadcast |-> "ipv4_broadcast", scope |-> "scope"]

\* The objects: a list refers to its items, an address to its strings.
Objects ==
  [type : {"list", "address", "str"}, refs : Nat,
   slots : Seq(Ids) \cup [DOMAIN Uninitialised -> Ids \cup {NULL, Junk}]]

ASSUME ObjectsAssumption == NULL \notin Objects

\* A new object belongs to the one who made it.
Object(type, slots) == [type |-> type, refs |-> 1, slots |-> slots]

Live == {i \in Ids : heap[i] # NULL}
Free == Ids \ Live

\* Where the next object goes.
Place == CHOOSE i \in Free : TRUE

\* The slots, of the lists and addresses js, that refer to an object.
Slots(h, js, i) ==
  UNION {{<<j, k>> : k \in {k \in DOMAIN h[j].slots : h[j].slots[k] = i}} : j \in js}

\* Py_INCREF()
Incref(h, i) == [h EXCEPT ![i].refs = @ + 1]

\* The objects that go with the objects js, as nobody else refers to them.
With(h, js) ==
  js \cup {i \in Ids : /\ h[i] # NULL
                       /\ h[i].refs <= Cardinality(Slots(h, js, i))}

\* The objects that are freed when a reference to i is given up: i itself if
\* it was the last one, then what it refers to, down from a list to the
\* strings of its addresses.
Dying(h, i) == IF h[i].refs > 1 THEN {} ELSE With(h, With(h, {i}))

\* Py_DECREF()
Decref(h, i) ==
  LET dying == Dying(h, i) IN
    [j \in Ids |->
       CASE h[j] = NULL \/ j \in dying -> NULL
         [] OTHER -> [h[j] EXCEPT !.refs = @ - Cardinality(Slots(h, dying, j))
                                             - (IF j = i THEN 1 ELSE 0)]]

\* netlink_ip_address_dealloc() runs for the addresses js: Py_DECREF() of a
\* null pointer, Py_XDECREF() of a pointer that was never assigned.
MustTrap(h, js) == \E j \in js : h[j].slots.local = NULL
MayTrap(h, js) == \E j \in js, k \in DOMAIN Uninitialised : h[j].slots[k] = Junk

-----------------------------------------------------------------------------
Idle == [pc |-> "idle", op |-> NULL, todo |-> <<>>, dump |-> <<>>,
         list |-> NULL, addr |-> NULL, lists |-> <<>>, exc |-> FALSE]

Init ==
  /\ heap = [i \in Ids |-> NULL]
  /\ held = [i \in Ids |-> 0]
  /\ call = Idle

At(pc) == call.pc = pc
NoMemory == "memory" \in Faults
Holding == Cardinality({s \in Ids \X (1..MaxHeld) : s[2] <= held[s[1]]})

Crash == call' = [Idle EXCEPT !.pc = "crashed"] /\ UNCHANGED heap

\* A reference to i is given up and the call goes on as c.
Release(h, i, c) ==
  LET addresses == {j \in Dying(h, i) : h[j].type = "address"}
  IN  \/ ~MustTrap(h, addresses) /\ heap' = Decref(h, i) /\ call' = c
      \/ (MustTrap(h, addresses) \/ MayTrap(h, addresses)) /\ Crash

Methods == {"get_ipv4_addresses", "get_ipv6_addresses"}
Attributes == {"ipv4_address", "ipv4_netmask", "ipv4_broadcast"}
Ops == Methods \cup Attributes \cup {"__str__"}

\* The families that are asked for, in order.
Families(op) ==
  CASE op = "get_ipv6_addresses" -> <<"AF_INET6">>
    [] op = "__str__"            -> <<"AF_INET", "AF_INET6">>
    [] OTHER                     -> <<"AF_INET">>

-----------------------------------------------------------------------------
(***************************************************************************)
(* get_etherinfo_address() and callback_nl_address().                      *)
(***************************************************************************)
Begin(op) ==
  /\ At("idle")
  /\ Holding < MaxHeld /\ Cardinality(Free) >= Room
  /\ call' = [Idle EXCEPT !.pc = "list", !.op = op, !.todo = Families(op)]
  /\ UNCHANGED <<heap, held>>

\* PyList_New(), then the dump.
NewList ==
  /\ At("list") /\ Free # {}
  /\ \E dump \in Dumps[Head(call.todo)] :
       call' = [call EXCEPT !.pc = "next", !.todo = Tail(@), !.dump = dump,
                            !.list = Place]
  /\ heap' = [heap EXCEPT ![Place] = Object("list", <<>>)]
  /\ UNCHANGED held

\* The end of get_etherinfo_address(): the list, or NULL, goes to the caller.
Finish(c, list) ==
  [c EXCEPT !.pc = IF c.todo = <<>> THEN "return" ELSE "list",
            !.list = NULL, !.lists = Append(@, list)]

\* PyList_New() fails: assert(addrlist) ends the process, or in a build
\* without assertions the callback returns at once for every address.
ListFails ==
  /\ At("list") /\ NoMemory
  /\ \/ Crash
     \/ /\ call' = Finish([call EXCEPT !.todo = Tail(@), !.exc = TRUE], NULL)
        /\ UNCHANGED heap
  /\ UNCHANGED held

\* callback_nl_address() has run for every address.
EndList ==
  /\ At("next") /\ call.dump = <<>>
  /\ call' = Finish(call, call.list)
  /\ UNCHANGED <<heap, held>>

\* PyObject_New(), which leaves the pointers uninitialised.
NewAddress ==
  /\ At("next") /\ call.dump # <<>> /\ Free # {}
  /\ heap' = [heap EXCEPT ![Place] = Object("address", Uninitialised)]
  /\ call' = [call EXCEPT !.pc = "local", !.addr = Place]
  /\ UNCHANGED held

\* The callback is done with an address.
NextAddress(c) == [c EXCEPT !.pc = "next", !.addr = NULL, !.dump = Tail(@)]

NewAddressFails ==
  /\ At("next") /\ call.dump # <<>> /\ NoMemory
  /\ call' = NextAddress([call EXCEPT !.exc = TRUE])
  /\ UNCHANGED <<heap, held>>

\* Faulty variant: the object in the list keeps the callback's reference.
AppendAddress_KeepsReference ==
  /\ At("append")
  /\ heap' = [heap EXCEPT ![call.list].slots = Append(@, call.addr),
                          ![call.addr].refs = @ + 1]
  /\ call' = NextAddress(call)
  /\ UNCHANGED held

\* Faulty variant: an error that the conversion has left behind is forgotten.
AppendAddress_ClearsError ==
  /\ At("append")
  /\ heap' = Decref([heap EXCEPT ![call.list].slots = Append(@, call.addr),
                                 ![call.addr].refs = @ + 1], call.addr)
  /\ call' = NextAddress([call EXCEPT !.exc = FALSE])
  /\ UNCHANGED held

\* PyList_Append() takes a reference and Py_DECREF() gives the callback's up.
AppendAddress ==
  /\ At("append")
  /\ heap' = Decref([heap EXCEPT ![call.list].slots = Append(@, call.addr),
                                 ![call.addr].refs = @ + 1], call.addr)
  /\ call' = NextAddress(call)
  /\ UNCHANGED held

\* PyList_Append() fails, which nobody looks at.
AppendFails ==
  /\ At("append") /\ NoMemory
  /\ Release(heap, call.addr, NextAddress([call EXCEPT !.exc = TRUE]))
  /\ UNCHANGED held

-----------------------------------------------------------------------------
(***************************************************************************)
(* PyNetlinkIPaddress_from_rtnl_addr() for the first address of the dump.  *)
(* The family is one that inet_ntop() knows and the buffer is large        *)
(* enough, so that only allocations fail.                                  *)
(***************************************************************************)
Address == Head(call.dump)

\* A new string is assigned to a pointer of the object.
Assign(field, pc) ==
  /\ Free # {}
  /\ heap' = [heap EXCEPT ![Place] = Object("str", <<>>),
                          ![call.addr].slots[field] = Place]
  /\ call' = [call EXCEPT !.pc = pc]
  /\ UNCHANGED held

\* The pointer is null because there is nothing to assign.
AssignNull(field, pc) ==
  /\ heap' = [heap EXCEPT ![call.addr].slots[field] = NULL]
  /\ call' = [call EXCEPT !.pc = pc]
  /\ UNCHANGED held

\* The pointer is null because PyStr_FromString() has failed.
AssignFails(field, pc) ==
  /\ NoMemory
  /\ heap' = [heap EXCEPT ![call.addr].slots[field] = NULL]
  /\ call' = [call EXCEPT !.pc = pc, !.exc = TRUE]
  /\ UNCHANGED held

SetLocal ==
  At("local") /\ (Assign("local", "peer") \/ AssignFails("local", "error"))

\* Faulty variant: without a peer the pointer is left alone.
SetPeer_Uninitialised ==
  /\ At("peer")
  /\ IF Address.peer THEN Assign("peer", "broadcast")
     ELSE call' = [call EXCEPT !.pc = "broadcast"] /\ UNCHANGED <<heap, held>>

\* The check after the assignment looks at local, so that a failure passes.
SetPeer ==
  /\ At("peer")
  /\ IF Address.peer THEN \/ Assign("peer", "broadcast")
                          \/ AssignFails("peer", "broadcast")
     ELSE AssignNull("peer", "broadcast")

SetBroadcast ==
  /\ At("broadcast")
  /\ IF Address.family = "AF_INET" /\ Address.broadcast
     THEN \/ Assign("ipv4_broadcast", "scope")
          \/ AssignFails("ipv4_broadcast", "error")
     ELSE AssignNull("ipv4_broadcast", "scope")

\* The scope is not checked.
SetScope ==
  At("scope") /\ (Assign("scope", "append") \/ AssignFails("scope", "append"))

\* The error path: Py_DECREF() runs the deallocator on what there is so far.
ConversionFails ==
  /\ At("error")
  /\ Release(heap, call.addr, NextAddress(call))
  /\ UNCHANGED held

-----------------------------------------------------------------------------
(***************************************************************************)
(* The methods, attributes and __str__() return.                           *)
(***************************************************************************)
Hold(i) == held' = [held EXCEPT ![i] = @ + 1]

\* get_last_ipv4_address(): a borrowed reference.
LastAddress(list) ==
  IF list = NULL THEN NULL
  ELSE LET items == heap[list].slots IN
         IF items = <<>> THEN NULL ELSE items[Len(items)]

\* The interpreter takes what a call returns for an error: it drops the result.
Refused == call.exc /\ Checked

\* The list is the result.
ReturnList ==
  /\ At("return") /\ call.op \in Methods
  /\ LET list == call.lists[1] IN
       CASE list = NULL            -> call' = Idle /\ UNCHANGED <<heap, held>>
         [] list # NULL /\ Refused -> Release(heap, list, Idle) /\ UNCHANGED held
         [] OTHER                  -> call' = Idle /\ Hold(list) /\ UNCHANGED heap

\* A new string for the program.
ReturnNewString ==
  /\ Free # {}
  /\ heap' = [heap EXCEPT ![Place] = Object("str", <<>>)]
  /\ Hold(Place)

ReturnNothing == UNCHANGED <<heap, held>>

\* Faulty variant: the string is handed out without Py_INCREF().
ReturnAttribute_Borrowed ==
  /\ At("return") /\ call.op \in Attributes
  /\ LET last == LastAddress(call.lists[1])
         slot == [ipv4_address |-> "local", ipv4_broadcast |-> "ipv4_broadcast"]
         value == IF last = NULL \/ call.op = "ipv4_netmask" THEN NULL
                  ELSE heap[last].slots[slot[call.op]]
     IN  IF value # NULL THEN Hold(value) /\ UNCHANGED heap
         ELSE \/ call.op = "ipv4_broadcast" /\ ~call.exc /\ ReturnNewString
              \/ ReturnNothing
  /\ call' = Idle

\* get_ipv4_addr(), get_ipv4_mask(), get_ipv4_bcast(): a string of the last
\* address, a number, None, or the new string "0.0.0.0".  The list is not
\* released.
ReturnAttribute ==
  /\ At("return") /\ call.op \in Attributes
  /\ LET last == LastAddress(call.lists[1])
         slot == [ipv4_address |-> "local", ipv4_broadcast |-> "ipv4_broadcast"]
         value == IF last = NULL \/ call.op = "ipv4_netmask" THEN NULL
                  ELSE heap[last].slots[slot[call.op]]
     IN  IF value # NULL THEN heap' = Incref(heap, value) /\ Hold(value)
         ELSE \/ call.op = "ipv4_broadcast" /\ ~call.exc /\ ReturnNewString
              \/ /\ call.op = "ipv4_broadcast" => call.exc \/ NoMemory
                 /\ ReturnNothing
  /\ call' = Idle

\* PyStr_Concat() takes none of its arguments over: the pieces of a text and
\* the texts on the way to it are never released.  One string stands for them.
LeavePieces ==
  /\ Free # {}
  /\ heap' = [heap EXCEPT ![Place] = Object("str", <<>>)]
  /\ UNCHANGED held

\* The pieces, and in another place a text for the program.
ReturnConcat ==
  /\ Free # {} /\ Free \ {Place} # {}
  /\ LET other == CHOOSE i \in Free \ {Place} : TRUE IN
       heap' = [heap EXCEPT ![Place] = Object("str", <<>>),
                            ![other] = Object("str", <<>>)]
  /\ Hold(Place)

\* A text is made, of pieces or of one part, and the interpreter hands it to
\* the program or drops it.  If an allocation fails the result is NULL, or
\* PyStr_Concat() is handed a null pointer.
ReturnText(pieces, dropped) ==
  \/ ~dropped /\ call' = Idle /\ IF pieces THEN ReturnConcat ELSE ReturnNewString
  \/ /\ dropped \/ NoMemory
     /\ call' = Idle /\ IF pieces THEN LeavePieces ELSE ReturnNothing
  \/ NoMemory /\ pieces /\ Crash /\ UNCHANGED held

\* Something is listed in the text, by itself a piece.
Listed == \E k \in DOMAIN call.lists : /\ call.lists[k] # NULL
                                      /\ heap[call.lists[k]].slots # <<>>

\* _ethtool_etherinfo_str(): the lists are not released.  An IPv6 address
\* whose scope is null ends the process (PyStr_AsString).  The hardware
\* address, if it is known, is a piece too.
ReturnString ==
  /\ At("return") /\ call.op = "__str__"
  /\ IF /\ call.lists[2] # NULL
        /\ LET items == heap[call.lists[2]].slots IN
             \E k \in DOMAIN items : heap[items[k]].slots.scope = NULL
     THEN Crash /\ UNCHANGED held
     ELSE \E hwaddress \in BOOLEAN : ReturnText(hwaddress \/ Listed, Refused)

CallStep ==
  \/ NewList \/ ListFails \/ EndList \/ NewAddress \/ NewAddressFails
  \/ SetLocal \/ SetPeer \/ SetBroadcast \/ SetScope \/ ConversionFails
  \/ AppendAddress \/ AppendFails \/ ReturnList \/ ReturnAttribute \/ ReturnString

-----------------------------------------------------------------------------
(***************************************************************************)
(* The Python program between two calls.                                   *)
(***************************************************************************)
Has(i, type) == At("idle") /\ held[i] > 0 /\ heap[i].type = type

\* An item of a list.
TakeItem(list, k) ==
  /\ Has(list, "list") /\ k \in DOMAIN heap[list].slots
  /\ Holding < MaxHeld
  /\ heap' = Incref(heap, heap[list].slots[k]) /\ Hold(heap[list].slots[k])
  /\ UNCHANGED call

\* An attribute of an address; a null pointer is None or an AttributeError.
ReadMember(i, m) ==
  /\ Has(i, "address") /\ heap[i].slots[Member[m]] # NULL
  /\ Holding < MaxHeld
  /\ LET value == heap[i].slots[Member[m]] IN
       heap' = Incref(heap, value) /\ Hold(value)
  /\ UNCHANGED call

\* netlink_ip_address_repr(): only the peer and broadcast addresses may be null.
Repr(i) ==
  /\ Has(i, "address")
  /\ Holding < MaxHeld
  /\ IF heap[i].slots.local = NULL \/ heap[i].slots.scope = NULL
     THEN Crash /\ UNCHANGED held
     ELSE ReturnText(TRUE, FALSE)

\* The attributes are not read-only.
DeleteMember(i, m) ==
  /\ Has(i, "address") /\ m \in Deletable /\ heap[i].slots[Member[m]] # NULL
  /\ heap' = Decref([heap EXCEPT ![i].slots[Member[m]] = NULL],
                    heap[i].slots[Member[m]])
  /\ UNCHANGED <<held, call>>

DropReference(i) ==
  /\ At("idle") /\ held[i] > 0
  /\ held' = [held EXCEPT ![i] = @ - 1]
  /\ Release(heap, i, Idle)

\* The process ends and another one begins.
Exit ==
  /\ At("idle") \/ At("crashed")
  /\ heap' = [i \in Ids |-> NULL] /\ held' = [i \in Ids |-> 0] /\ call' = Idle

Next ==
  \/ \E op \in Ops : Begin(op)
  \/ CallStep
  \/ \E list \in Ids, k \in 1..Cardinality(Ids) : TakeItem(list, k)
  \/ \E i \in Ids, m \in DOMAIN Member : ReadMember(i, m) \/ DeleteMember(i, m)
  \/ \E i \in Ids : Repr(i) \/ DropReference(i)
  \/ Exit

Spec == Init /\ [][Next]_vars

-----------------------------------------------------------------------------
(***************************************************************************)
(* Properties.                                                             *)
(***************************************************************************)
Is(i, type) == i \in Live /\ heap[i].type = type

\* Every variable has its type: lists hold addresses, and the pointers of an
\* address that is not under construction are null or lead to strings.
TypeOK ==
  /\ held \in [Ids -> Nat]
  /\ \A i \in Live :
       LET o == heap[i] IN
         /\ o.refs \in Nat \ {0}
         /\ o.type = "list" => \A k \in DOMAIN o.slots : Is(o.slots[k], "address")
         /\ o.type = "address" => \A k \in DOMAIN Uninitialised :
              \/ o.slots[k] = NULL \/ Is(o.slots[k], "str")
              \/ o.slots[k] = Junk /\ (i = call.addr \/ At("crashed"))

\* Those who hold a reference to an object: other objects, the program, and
\* the C function that is running.
Holders(i) ==
  Cardinality(Slots(heap, Live, i)) + held[i]
    + Cardinality({f \in {"list", "addr"} : call[f] = i})
    + Cardinality({k \in DOMAIN call.lists : call.lists[k] = i})

\* Nobody holds a reference to an object that has been freed, and no object is
\* counted short: whatever fails and in whatever order the program drops
\* things, each object lives as long as somebody can reach it.
CountsCover ==
  \A i \in Ids : IF i \in Live THEN heap[i].refs >= Holders(i) ELSE Holders(i) = 0

\* Objects that are counted more often than they are held, so that they will
\* never be freed.
Lost == {i \in Live : heap[i].refs > Holders(i)}

\* The references that are ever lost are those to the lists that the ipv4_
\* attributes and __str__() ask for, and to the pieces of the texts that
\* __str__() and repr() make: the methods, the conversion and its error paths
\* lose none, whichever step fails, and no address or string of an address is
\* ever lost by itself.
OnlyListsAndPiecesLost ==
  [][call'.pc # "crashed" => \A i \in Lost' \ Lost :
       \/ heap'[i].type = "list" /\ call.op \in Attributes \cup {"__str__"}
       \/ /\ heap'[i].type = "str" /\ i \notin Live
          /\ At("idle") \/ call.op = "__str__"]_vars

\* The addresses that the program can reach.
Reachable ==
  {i \in Live : /\ heap[i].type = "address"
                /\ \/ held[i] > 0
                   \/ \E s \in Slots(heap, Live, i) : held[s[1]] > 0}

\* etherinfo_struct.h: "string: Configured local IP address" and "string: IP
\* address scope".  The program never gets an address that lacks one of them,
\* on which repr() and the deallocator would end the process: the conversion
\* does not check the scope and get_etherinfo_address() returns its list in
\* any case, but the exception that stays behind keeps the list from the
\* program.  (True only if the program deletes neither attribute and the
\* interpreter checks results: with Python 2.7 the list is handed out.)
ReprSafe ==
  \A i \in Reachable :
    Is(heap[i].slots.local, "str") /\ Is(heap[i].slots.scope, "str")

=============================================================================
