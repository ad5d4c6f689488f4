------------------------------ MODULE EtherInfo ------------------------------
(***************************************************************************)
(* The ethtool.etherinfo objects of one Python process: etherinfo.c,       *)
(* etherinfo_obj.c and netlink-address.c on top of the shared connection   *)
(* of netlink.c (module Netlink) and the kernel's table of links.          *)
(*                                                                         *)
(* A call of a method or attribute runs with the GIL held, so there is at  *)
(* most one call at a time.  Its steps are the NETLINK exchanges: between  *)
(* two of them the kernel's configuration may change, and where the code   *)
(* allocates a Python container the garbage collector may deallocate       *)
(* other objects.                                                          *)
(***************************************************************************)
EXTENDS Integers, Sequences, FiniteSets

CONSTANTS
  Objs, Socks, NULL, UIntMax, FreshTags,   (* see Netlink                   *)
  Faults,    (* external calls that may fail: those of Netlink, "dump"      *)
             (* (rtnl_link_alloc_cache, rtnl_addr_alloc_cache) and          *)
             (* "rtalloc" (rtnl_link_alloc, rtnl_addr_alloc)                *)
  None,      (* Python's None                                               *)
  Names,     (* device names a caller may ask for                           *)
  Args,      (* what get_interfaces_info() may be called with: a record of  *)
             (* the argument's kind and its items, which are names or       *)
             (* objects that are no strings                                 *)
  Indexes,   (* kernel interface indexes                                    *)
  Macs,      (* hardware addresses                                          *)
  AddrLists, (* the address configurations a link may have                  *)
  Kernels,   (* the link tables the kernel may start with                   *)
  Churn      (* how the kernel's links may change: "remove", "add",         *)
             (* "rename", "setmac", "setaddrs"                              *)

ASSUME NullAssumption == NULL \notin Socks
ASSUME ObjsAssumption == IsFiniteSet(Objs) /\ NULL \notin Objs
ASSUME TagsAssumption == FreshTags \subseteq BOOLEAN
ASSUME UIntAssumption == UIntMax \in Nat \ {0} /\ Cardinality(Objs) <= UIntMax

VARIABLES
  live, nlc_active, nlconnection, nlconnection_users, allocated, connected,
  device,     (* PyEtherInfo.device of each object                          *)
  index,      (* PyEtherInfo.index: -1 until the device was looked up       *)
  hwaddress,  (* PyEtherInfo.hwaddress: NULL until it was read              *)
  kernel,     (* the kernel's link of each interface index, or NULL         *)
  caches,     (* libnl caches allocated and not freed                       *)
  call,       (* the call in progress                                       *)
  result      (* what the last call returned, or NULL                       *)

NL == INSTANCE Netlink

nlvars == <<live, nlc_active, nlconnection, nlconnection_users, allocated,
            connected>>
objvars == <<device, index, hwaddress>>
vars == <<nlvars, objvars, kernel, caches, call, result>>

-----------------------------------------------------------------------------
(***************************************************************************)
(* Types.                                                                  *)
(***************************************************************************)
Links == [name : Names, mac : Macs, addrs : AddrLists]

Ops == {"get_ipv4_addresses", "get_ipv6_addresses", "ipv4_address", "device",
        "ipv4_netmask", "ipv4_broadcast", "mac_address", "__str__"}

\* The internal functions a method or attribute calls, in order: "link" is
\* get_etherinfo_link(), "addr4" and "addr6" are get_etherinfo_address().
Parts(op) ==
  CASE op = "device"             -> <<>>
    [] op = "mac_address"        -> <<"link">>
    [] op = "get_ipv6_addresses" -> <<"addr6">>
    [] op = "__str__"            -> <<"link", "addr4", "addr6">>
    [] OTHER                     -> <<"addr4">>

Family(part) == IF part = "addr4" THEN "AF_INET" ELSE "AF_INET6"

\* No call: todo is the parts still to run, exc the Python exception that is
\* set, cache what the address dump holds for this object, out the results
\* of the address parts so far.  In get_interfaces_info() todo is the names
\* in fetch_devs, cache the items of the argument and out the list of objects.
Idle == [pc |-> "idle", self |-> NULL, op |-> NULL, todo |-> <<>>,
         exc |-> NULL, cache |-> <<>>, out |-> <<>>]

\* The links that bear a name: one or none, as the kernel keeps names unique.
Named(name) == {i \in Indexes : kernel[i] # NULL /\ kernel[i].name = name}

\* Faulty variant: the family is not set in the filter.
IsFamily_Any(a, part) == TRUE

IsFamily(a, part) == a.family = Family(part)

\* nl_cache_foreach_filter() over addresses: those of the family asked for, in
\* the kernel's order.
OfFamily(addrs, part) == SelectSeq(addrs, LAMBDA a : IsFamily(a, part))

\* What an address dump has for interface i.
AddrsOf(i, part) ==
  IF kernel[i] = NULL THEN <<>> ELSE OfFamily(kernel[i].addrs, part)

\* PyNetlinkIPaddress_from_rtnl_addr(): the Python object made of an address.
\* Only an IPv4 address has a broadcast address.
IPaddress(a) ==
  [local |-> a.local, prefixlen |-> a.prefixlen,
   broadcast |-> IF a.family = "AF_INET" THEN a.broadcast ELSE NULL]

\* The list that callback_nl_address() fills from a dump, and all such lists.
AddressList(cache) == [k \in 1..Len(cache) |-> IPaddress(cache[k])]
AddressLists ==
  {AddressList(<<>>)} \cup
  {AddressList(OfFamily(addrs, part)) : addrs \in AddrLists, part \in {"addr4", "addr6"}}

\* The loop over the items of an argument: the strings move up.
Strings(items) ==
  LET kept[k \in 0..Len(items)] ==
        IF k = 0 THEN <<>>
        ELSE IF items[k] \in Names THEN Append(kept[k - 1], items[k]) ELSE kept[k - 1]
  IN  kept[Len(items)]

\* Indexes are positive, the kernel has links at them, and items are sequences.
ASSUME IndexesAssumption == Indexes \subseteq Nat \ {0}
ASSUME KernelsAssumption == Kernels \subseteq [Indexes -> Links \cup {NULL}]
ASSUME ArgsAssumption ==
  \A arg \in Args : arg.items \in Seq({arg.items[k] : k \in DOMAIN arg.items})

\* The null pointer is no Python object and no hardware address.
ASSUME ObjectsAssumption ==
  /\ NULL # None /\ NULL # 0 /\ NULL # "0.0.0.0" /\ NULL \notin Names
  /\ NULL \notin Links
  /\ NULL \notin Macs /\ NULL \notin AddressLists /\ NULL \notin Seq(Objs)
  /\ \A mac \in Macs, ipv4, ipv6 \in AddressLists :
       NULL # [mac |-> mac, ipv4 |-> ipv4, ipv6 |-> ipv6]
  /\ \A exc \in {"RuntimeError", "OSError", "IOError", "LookupError"} : NULL # exc

Init ==
  /\ NL!Init
  /\ device = [o \in Objs |-> NULL]
  /\ index = [o \in Objs |-> -1]
  /\ hwaddress = [o \in Objs |-> NULL]
  /\ kernel \in Kernels
  /\ caches = {}
  /\ call = Idle
  /\ result = NULL

-----------------------------------------------------------------------------
(***************************************************************************)
(* Life cycle of the objects.                                              *)
(***************************************************************************)

\* Faulty variant: the names stay in the places of the items, and as many
\* places are read as there are names.
FetchDevs_Gaps(arg) ==
  [k \in 1..Len(Strings(arg.items)) |->
     IF arg.items[k] \in Names THEN arg.items[k] ELSE NULL]

\* fetch_devs: the string itself, or the strings of a tuple or a list, whose
\* other items are skipped; nothing without an argument.
FetchDevs(arg) == Strings(arg.items)

\* get_interfaces_info() parses its argument.  (The objects must not run out.)
GetInterfacesInfo(arg) ==
  /\ call.pc = "idle"
  /\ Len(FetchDevs(arg)) <= Cardinality(Objs \ live)
  /\ IF arg.kind \in {"none", "str", "tuple", "list"}
     THEN /\ call' = [Idle EXCEPT !.pc = "create", !.op = "get_interfaces_info",
                                  !.todo = FetchDevs(arg), !.cache = arg.items]
          /\ result' = NULL
     ELSE /\ call' = Idle
          /\ result' = [op |-> "get_interfaces_info", ret |-> NULL,
                        exc |-> "LookupError"]
  /\ UNCHANGED <<nlvars, objvars, kernel, caches>>

\* One iteration of its loop.
NewEtherInfo(o) ==
  /\ call.pc = "create" /\ call.todo # <<>>
  /\ NL!NewObject(o)
  /\ device' = [device EXCEPT ![o] = Head(call.todo)]
  /\ index' = [index EXCEPT ![o] = -1]
  /\ hwaddress' = [hwaddress EXCEPT ![o] = NULL]
  /\ call' = [call EXCEPT !.todo = Tail(@), !.out = Append(@, o)]
  /\ UNCHANGED <<kernel, caches, result>>

\* It returns the list.
ReturnInfo ==
  /\ call.pc = "create" /\ call.todo = <<>>
  /\ result' = [op |-> call.op, ret |-> call.out, exc |-> NULL]
  /\ call' = Idle
  /\ UNCHANGED <<nlvars, objvars, kernel, caches>>

\* Faulty variant: an object may also die between open_netlink() and the
\* dumps, as if the GIL were given up while the kernel answers.
GcPoints_GilReleased == {"idle", "open", "index", "dump", "newlist"}

\* Where other objects can die: between calls, before a part starts (an
\* exception object may have been created), and in PyList_New().
GcPoints == {"idle", "open", "newlist"}

\* Faulty variant: close_netlink() is not called.
Dealloc_WithoutClose(o) ==
  /\ call.pc \in GcPoints
  /\ o # call.self
  /\ o \in live
  /\ live' = live \ {o}
  /\ device' = [device EXCEPT ![o] = NULL]
  /\ index' = [index EXCEPT ![o] = -1]
  /\ hwaddress' = [hwaddress EXCEPT ![o] = NULL]
  /\ UNCHANGED <<nlc_active, nlconnection, nlconnection_users, allocated,
                 connected, kernel, caches, call, result>>

\* Faulty variant: the reference to the hardware address is not dropped.
Dealloc_KeepsHwaddress(o) ==
  /\ call.pc \in GcPoints
  /\ o # call.self
  /\ NL!Dealloc(o)
  /\ device' = [device EXCEPT ![o] = NULL]
  /\ index' = [index EXCEPT ![o] = -1]
  /\ UNCHANGED <<hwaddress, kernel, caches, call, result>>

\* _ethtool_etherinfo_dealloc()
Dealloc(o) ==
  /\ call.pc \in GcPoints
  /\ o # call.self
  /\ NL!Dealloc(o)
  /\ device' = [device EXCEPT ![o] = NULL]
  /\ index' = [index EXCEPT ![o] = -1]
  /\ hwaddress' = [hwaddress EXCEPT ![o] = NULL]
  /\ UNCHANGED <<kernel, caches, call, result>>

-----------------------------------------------------------------------------
(***************************************************************************)
(* The steps of a call.                                                    *)
(***************************************************************************)
self == call.self
part == Head(call.todo)
At(pc) == call.pc = pc

\* Faulty variant: the part that has ended is run again.
PartEnds_Again(c) ==
  [c EXCEPT !.pc = IF Len(c.todo) = 1 THEN "return" ELSE "open",
            !.cache = <<>>]

\* A part has ended: __str__() goes on with the next one even after a
\* failure; then the caller gets its result.
PartEnds(c) ==
  [c EXCEPT !.pc = IF Len(c.todo) = 1 THEN "return" ELSE "open",
            !.todo = Tail(c.todo), !.cache = <<>>]

\* An address part contributes a list or NULL, get_etherinfo_link() nothing.
Yield(c, list) == IF part = "link" THEN c ELSE [c EXCEPT !.out = Append(@, list)]

Fail(exc) == call' = PartEnds(Yield([call EXCEPT !.exc = exc], NULL))
Succeed(list) == call' = PartEnds(Yield(call, list))

\* A method or attribute of a live object is called.
Begin(o, op) ==
  /\ At("idle")
  /\ o \in live
  /\ call' = [Idle EXCEPT !.pc = IF Parts(op) = <<>> THEN "return" ELSE "open",
                          !.self = o, !.op = op, !.todo = Parts(op)]
  /\ result' = NULL
  /\ UNCHANGED <<nlvars, objvars, kernel, caches>>

\* open_netlink(), "on-the-fly".
OpenConnection ==
  /\ At("open")
  /\ \/ NL!OpenSucceeds(self) /\ call' = [call EXCEPT !.pc = "index"]
     \/ NL!OpenFails /\ Fail("RuntimeError")
  /\ UNCHANGED <<objvars, kernel, caches, result>>

DumpOK == nlconnection \in connected
DumpFails == nlconnection \notin connected \/ "dump" \in Faults

\* _set_device_index(): a cached index is used as it is; otherwise the links
\* are dumped and searched for the name.  (Interface indexes are positive, so
\* the code's test for an index <= 0 never succeeds.)
SetDeviceIndex ==
  /\ At("index")
  /\ \/ /\ index[self] >= 0
        /\ call' = [call EXCEPT !.pc = "dump"]
        /\ UNCHANGED index
     \/ /\ index[self] < 0 /\ DumpFails
        /\ Fail("OSError")
        /\ UNCHANGED index
     \/ /\ index[self] < 0 /\ DumpOK
        /\ Named(device[self]) = {}
        /\ Fail("IOError")
        /\ UNCHANGED index
     \/ /\ index[self] < 0 /\ DumpOK
        /\ \E i \in Named(device[self]) : index' = [index EXCEPT ![self] = i]
        /\ call' = [call EXCEPT !.pc = "dump"]
  /\ UNCHANGED <<nlvars, device, hwaddress, kernel, caches, result>>

\* Faulty variant: the hardware address that was read is not stored.
ReadLink_NotStored ==
  /\ At("dump") /\ part = "link" /\ DumpOK
  /\ Succeed(NULL)
  /\ UNCHANGED <<nlvars, objvars, kernel, caches, result>>

\* get_etherinfo_link(), second dump: callback_nl_link() runs for the link
\* with the object's index, if there is one, and fills an empty hwaddress.
ReadLink ==
  /\ At("dump") /\ part = "link" /\ DumpOK
  /\ LET link == kernel[index[self]] IN
       hwaddress' = IF link = NULL \/ hwaddress[self] # NULL THEN hwaddress
                    ELSE [hwaddress EXCEPT ![self] = link.mac]
  /\ Succeed(NULL)
  /\ UNCHANGED <<nlvars, device, index, kernel, caches, result>>

\* The second dump fails.
LinkDumpFails ==
  /\ At("dump") /\ part = "link" /\ DumpFails
  /\ Fail("OSError")
  /\ UNCHANGED <<nlvars, objvars, kernel, caches, result>>

\* get_etherinfo_address(): rtnl_addr_alloc_cache() takes a snapshot.
DumpAddresses ==
  /\ At("dump") /\ part # "link" /\ DumpOK
  /\ call' = [call EXCEPT !.pc = "newlist", !.cache = AddrsOf(index[self], part)]
  /\ caches' = caches \cup {"addr_cache"}
  /\ UNCHANGED <<nlvars, objvars, kernel, result>>

\* rtnl_addr_alloc_cache() fails and leaves addr_cache uninitialised, and the
\* error path hands it to nl_cache_free(): the process dies, or it survives.
AddrDumpFails ==
  /\ At("dump") /\ part # "link" /\ DumpFails
  /\ \/ Fail("OSError")
     \/ call' = [Idle EXCEPT !.pc = "crashed"]
  /\ UNCHANGED <<nlvars, objvars, kernel, caches, result>>

\* rtnl_link_alloc() or rtnl_addr_alloc() returns NULL after the dump: the
\* error path does not free the cache.
FilterAllocFails ==
  /\ At("dump") /\ DumpOK /\ "rtalloc" \in Faults
  /\ Fail("OSError")
  /\ caches' = caches \cup {IF part = "link" THEN "link_cache" ELSE "addr_cache"}
  /\ UNCHANGED <<nlvars, objvars, kernel, result>>

\* Faulty variant: nl_cache_free() is left out.
BuildList_Leaks ==
  /\ At("newlist")
  /\ Succeed(AddressList(call.cache))
  /\ UNCHANGED <<nlvars, objvars, kernel, caches, result>>

\* PyList_New(), callback_nl_address() for every address, nl_cache_free().
BuildList ==
  /\ At("newlist")
  /\ Succeed(AddressList(call.cache))
  /\ caches' = caches \ {"addr_cache"}
  /\ UNCHANGED <<nlvars, objvars, kernel, result>>

\* get_last_ipv4_address(): the last element of a list, NULL without one.
LastAddress(list) ==
  IF list = NULL \/ list = <<>> THEN NULL ELSE list[Len(list)]

\* Faulty variant: the default is returned without a look at PyErr_Occurred().
FieldOfLast_Unchecked(field, default) ==
  LET last == LastAddress(call.out[1])
      value == IF last = NULL THEN NULL ELSE last[field]
  IN  IF value # NULL THEN value ELSE default

\* The end of the three ipv4_ getters: a field of the last address; without
\* one NULL if an exception is set (PyErr_Occurred) and else the default.
FieldOfLast(field, default) ==
  LET last == LastAddress(call.out[1])
      value == IF last = NULL THEN NULL ELSE last[field]
  IN  CASE value # NULL                     -> value
        [] value = NULL /\ call.exc # NULL -> NULL
        [] OTHER                            -> default

ReturnValue ==
  CASE call.op = "device"         -> device[self]
    [] call.op = "mac_address"    -> hwaddress[self]
    [] call.op = "ipv4_address"   -> FieldOfLast("local", None)
    [] call.op = "ipv4_netmask"   -> FieldOfLast("prefixlen", 0)
    [] call.op = "ipv4_broadcast" -> FieldOfLast("broadcast", "0.0.0.0")
    [] call.op = "__str__"        -> [mac |-> hwaddress[self],
                                      ipv4 |-> call.out[1], ipv6 |-> call.out[2]]
    [] OTHER                      -> call.out[1]

\* The C function returns to the interpreter.
Return ==
  /\ At("return")
  /\ result' = [op |-> call.op, ret |-> ReturnValue, exc |-> call.exc]
  /\ call' = Idle
  /\ UNCHANGED <<nlvars, objvars, kernel, caches>>

\* A crashed process takes no step.
Crashed == At("crashed") /\ UNCHANGED vars

CallStep ==
  \/ OpenConnection \/ SetDeviceIndex \/ ReadLink \/ LinkDumpFails
  \/ DumpAddresses \/ AddrDumpFails \/ FilterAllocFails \/ BuildList \/ Return
  \/ ReturnInfo

-----------------------------------------------------------------------------
(***************************************************************************)
(* The kernel: the administrator or the hardware changes a link.           *)
(***************************************************************************)
SetLink(kind, i, link) ==
  /\ kind \in Churn
  /\ link # kernel[i]
  /\ kernel' = [kernel EXCEPT ![i] = link]
  /\ UNCHANGED <<nlvars, objvars, caches, call, result>>

LinkRemoved(i) == kernel[i] # NULL /\ SetLink("remove", i, NULL)

LinkAdded(i) ==
  /\ kernel[i] = NULL
  /\ \E link \in Links : Named(link.name) = {} /\ SetLink("add", i, link)

LinkRenamed(i) ==
  /\ kernel[i] # NULL
  /\ \E name \in Names :
       Named(name) = {} /\ SetLink("rename", i, [kernel[i] EXCEPT !.name = name])

LinkMacSet(i) ==
  /\ kernel[i] # NULL
  /\ \E mac \in Macs : SetLink("setmac", i, [kernel[i] EXCEPT !.mac = mac])

LinkAddrsSet(i) ==
  /\ kernel[i] # NULL
  /\ \E addrs \in AddrLists :
       SetLink("setaddrs", i, [kernel[i] EXCEPT !.addrs = addrs])

KernelStep == \E i \in Indexes :
  \/ LinkRemoved(i) \/ LinkAdded(i) \/ LinkRenamed(i) \/ LinkMacSet(i)
  \/ LinkAddrsSet(i)

-----------------------------------------------------------------------------
Next ==
  \/ \E arg \in Args : GetInterfacesInfo(arg)
  \/ \E o \in Objs : NewEtherInfo(o)
  \/ \E o \in Objs : Dealloc(o)
  \/ \E o \in Objs, op \in Ops : Begin(o, op)
  \/ CallStep
  \/ Crashed
  \/ KernelStep

Spec == Init /\ [][Next]_vars

\* The interpreter does not stop in the middle of a call, and the kernel
\* answers every dump, with data or with an error.
FairSpec == Spec /\ WF_vars(CallStep \/ \E o \in Objs : NewEtherInfo(o))

-----------------------------------------------------------------------------
(***************************************************************************)
(* Properties that hold whatever fails and however the kernel changes.     *)
(***************************************************************************)

\* Every variable has its type, and the deallocator of an object drops the
\* references it holds.
TypeOK ==
  /\ NL!TypeOK
  /\ device \in [Objs -> Names \cup {NULL}]
  /\ index \in [Objs -> Indexes \cup {-1}]
  /\ hwaddress \in [Objs -> Macs \cup {NULL}]
  /\ kernel \in [Indexes -> Links \cup {NULL}]
  /\ caches \subseteq {"link_cache", "addr_cache"}
  /\ \A o \in Objs \ live : device[o] = NULL /\ hwaddress[o] = NULL
  /\ call.pc \notin {"idle", "create", "crashed"} => call.self \in live

\* The assertion of get_nlc(), netlink.c:93: when a call dumps links or
\* addresses there is a connection, although any object may have died and
\* closed it since the call before, or since the part before of __str__().
ConnectionWhenQuerying == call.pc \in {"index", "dump"} => nlconnection # NULL

\* The contract of a C function with the interpreter: NULL is returned if and
\* only if an exception is set.
MeetsContract(r) == r.ret = NULL <=> r.exc # NULL

\* The address methods and the three ipv4_ attributes meet the contract,
\* whichever step of the query fails.
AddressContract ==
  result # NULL /\ result.op \notin {"mac_address", "__str__"}
    => MeetsContract(result)

\* The objects use netlink.c only as its specification allows: with the
\* kernel and the calls hidden, every step is a step of Netlink.
NetlinkSpec == NL!Spec

-----------------------------------------------------------------------------
(***************************************************************************)
(* Properties that hold when no external call fails and links keep their   *)
(* names.                                                                  *)
(***************************************************************************)

\* No external call fails, and every name stays with one link.
Calm ==
  /\ Faults = {}
  /\ Churn \subseteq {"setmac", "setaddrs"}
  /\ \A links \in Kernels, name \in Names : \E i \in Indexes :
       {i} = {j \in Indexes : links[j] # NULL /\ links[j].name = name}

\* Every method and attribute meets the contract.
ResultContract == result # NULL => MeetsContract(result)

\* The addresses a call works on are those the kernel has for the device the
\* object is named after, of the family asked for and in the kernel's order,
\* although the index was looked up in an earlier exchange or call.
AddressesOfNamedDevice ==
  [][At("dump") /\ call'.pc = "newlist" =>
       \A i \in Named(device[self]) :
         call'.cache = SelectSeq(kernel[i].addrs,
                                 LAMBDA a : a.family = Family(part))]_vars

\* get_interfaces_info() returns a new object for every name in its argument,
\* in the order of the argument, and none for items that are no strings: the
\* names that move up in fetch_devs are the ones the objects get.
NamedAsAsked ==
  [][call.pc = "create" /\ call'.pc = "idle" =>
       LET objs == result'.ret
           items == call.cache
       IN  /\ \A k \in DOMAIN objs : objs[k] \in live /\ device[objs[k]] \in Names
           /\ Cardinality({objs[k] : k \in DOMAIN objs}) = Len(objs)
           /\ \A name \in Names :
                Cardinality({k \in DOMAIN objs : device[objs[k]] = name})
                  = Cardinality({k \in DOMAIN items : items[k] = name})
           /\ \A j, k \in DOMAIN objs : j < k => \E a, b \in DOMAIN items :
                a < b /\ items[a] = device[objs[j]] /\ items[b] = device[objs[k]]]_vars

\* Every libnl cache has been freed when a call is over.
CachesFreed == call.pc = "idle" => caches = {}

\* A call comes to its end, however often the kernel changes meanwhile.
CallReturns == call.pc # "idle" ~> call.pc = "idle"

-----------------------------------------------------------------------------
(***************************************************************************)
(* What comments and tests say, and the code does not do.                  *)
(***************************************************************************)

\* tests/test_ethtool.py:193: "self.assertIsStringOrNone(ei.mac_address)".
\* The attribute gives a value or raises the exception of what failed.
MacIsStringOrNone ==
  result # NULL /\ result.op = "mac_address" /\ result.exc = NULL
    => result.ret # NULL

=============================================================================
