# A TLA+ model of python-ethtool

python-ethtool is a C extension module, `ethtool`, with two command line
scripts. It tells a Python program about the network devices of the machine
(addresses, driver, offload features, interrupt coalescing, ring sizes) and
changes some of these settings. This directory holds TLA+ modules that model
its code, TLC configurations that check them on small instances, and proofs
checked by TLAPS.

To check a run: `tlc -config NetlinkSharing.cfg MCNetlink`. To check proofs:
`tlapm NetlinkProofs.tla`. `PROJECT.json` lists the runs, the source lines
behind every definition, the findings and the hazards.

## The system

| Part | State | Operations | Works with |
|---|---|---|---|
| Shared connection, `netlink.c` | `nlconnection`, `nlconnection_users`, `nlc_active` of each object | `open_netlink`, `get_nlc`, `close_netlink` | called by the queries and by the deallocator |
| Queries, `etherinfo.c` | `index` and `hwaddress`, cached in the object | `_set_device_index`, `get_etherinfo_link`, `get_etherinfo_address`, two callbacks | kernel, through libnl |
| `etherinfo` objects, `etherinfo_obj.c` | the object | methods, attributes, `__str__`, deallocator | queries |
| Address objects, `netlink-address.c` | four counted pointers, writable from Python | conversion from libnl, `__repr__`, deallocator | queries |
| ioctl functions, `ethtool.c` | none of their own: a socket per call | twenty functions of the module | kernel settings |
| `struct_desc` tables, `ethtool.c` | constant | struct to dict, dict to struct | coalesce and ring functions |
| Device lists, `ethtool.c` | none of their own | `get_devices`, `get_active_devices` | `/proc/net/dev`, `getifaddrs()` |
| `get_interfaces_info`, `ethtool.c` | none | parses names, creates objects | `etherinfo` objects |
| `pethtool` | the command line, `all_devices` | `-c -C -g -G -i -k -K` | ioctl functions |
| `pifconfig` | the devices still to show | shows flags, hardware address, addresses | both halves of the module |

What is hard about it:

- *Sharing.* All objects share one connection, opened by the first query and
  closed by a deallocator. Deallocators run whenever the last reference
  disappears or the garbage collector runs: between two calls, or inside a call
  of another object.
- *A kernel that changes.* One method makes up to six NETLINK exchanges. Links
  can be removed, renamed or reconfigured between any two, and the object
  caches what it found earlier.
- *Failure.* Each external call has an error path, and the C code must keep the
  interpreter's contract on all of them: NULL exactly when an exception is set.
- *Resources.* Sockets and libnl caches are freed by hand, and references to
  lists, addresses and strings are counted by hand.
- *Widths.* Numbers pass between Python, `long`, `uint32_t` and signed `char`.
- *Users.* `pethtool` reads a struct, edits it and writes it back, while other
  users do the same; it goes on to the next device when one fails. `pifconfig`
  asks four times about a device that may be renamed meanwhile, and stops at the
  first failure.

There is no concurrency inside a process: no function gives up the GIL, so a
call runs alone in its process, and `nlc_counter_mtx` is never contended. What
interleaves is the kernel, other processes, and deallocators.

## The modules

| Module | Models | Extends or uses |
|---|---|---|
| `OnDemandHandle` | what callers may expect of the shared connection | |
| `Netlink` | `netlink.c` | implements `OnDemandHandle` |
| `EtherInfo` | `etherinfo.c`, `etherinfo_obj.c`, `get_interfaces_info` | `NL == INSTANCE Netlink`: the two are composed |
| `StructDesc` | `struct_desc` conversions | |
| `ControlSocket` | ioctl functions of `ethtool.c` | extends `StructDesc` |
| `AddressObjects` | `netlink-address.c`, and the references of the address queries | |
| `DeviceLists` | `get_devices`, `get_active_devices`, the interface flags | |
| `Pethtool` | `scripts/pethtool` | extends `StructDesc`, `DeviceLists` |
| `Pifconfig` | `scripts/pifconfig` | extends `DeviceLists` |
| `MC...` | the instances TLC checks | |
| `...Proofs` | theorems about the module so named; `PifconfigProofs` and `PethtoolProofs` use `DeviceListsProofs` | |

Operators with a suffix such as `OpenReuse_CountsAlways` are faulty variants
of the definition before the underscore. They are not part of any
specification: each shows that a property would notice that mistake.

### Netlink

`live` is the set of objects; `nlc_active`, `nlconnection` and
`nlconnection_users` are the variables of the code; `allocated` and `connected`
say which `struct nl_sock` exist and which own an open socket. A function is one
action per path: `OpenReuse`, `OpenNew`, `AllocFails`, `ConnectFails` for
`open_netlink`, `CloseNothing`, `CloseShared`, `CloseLast` for `close_netlink`,
which is called only by the deallocator `Dealloc`. `nlc_active` of a new object
is uninitialised memory, so `NewObject` picks it from `FreshTags`. The counter
has the range of an unsigned int, `0..UIntMax`, and wraps.

### EtherInfo

`get_interfaces_info` is `GetInterfacesInfo` (the argument is parsed by
`FetchDevs`), `NewEtherInfo` for each name, and `ReturnInfo`; between them
nothing else of the process runs.

The variable `call` is the C call in progress: where it is (`pc`), the parts it
still has to run, the exception that is set, the result so far. A query is
`OpenConnection`, `SetDeviceIndex`, then a dump (`ReadLink`, or `DumpAddresses`
and `BuildList`), each a NETLINK exchange; `Return` computes what the
interpreter gets. `__str__` runs three queries. `kernel` is the table of links
by interface index; the `Link...` actions change it between any two steps. `Dealloc` may
run where the code allocates Python containers or exceptions (`GcPoints`).
Undefined behaviour after a failing address dump is a choice between survival
and `crashed`.

### AddressObjects

`heap` is the interpreter's heap, reduced to the lists, addresses and strings of
address queries, each with its count of references and what it refers to;
`held` is what the Python program refers to. `get_etherinfo_address` is
`NewList`, then for each address of the dump `NewAddress`, `SetLocal`,
`SetPeer`, `SetBroadcast`, `SetScope` and `AppendAddress`, then `EndList`. Every
allocation may fail. `PyObject_New` leaves the pointers `Junk`; `ConversionFails`
is the error path, on which the deallocator meets pointers that are null or
`Junk`, and the process may end (`crashed`). `Decref` frees in turn what only
the freed object referred to. Between two calls the program takes items, reads
and deletes attributes, asks for `repr()` and drops references in any order.
A text is put together with `PyStr_Concat`, which takes over none of its
arguments, so its pieces and the texts on the way to it are never released:
`LeavePieces` and `ReturnConcat` leave one string behind that stands for them
all. `Checked` says whether the interpreter treats a result that comes with an
exception as an error and drops it, as CPython does from version 3.5. Python 2.7,
which `setup.py:124` and `tox.ini:2` list, hands it to the program.

### StructDesc and ControlSocket

A struct is a function from `Fields` to `0..Mod-1`, a dict a function from a set
of names to numbers or other objects. `ControlSocket` has a step for each system
call: `OpenSocket`, `Ioctl`, `CloseSocket`, and `ReadStab` for the PCMCIA
fallback of `get_module`. All functions share these steps and differ in the
attribute of the device (`Attr`), in how the request is made (`Request`) and in
what is returned (`Convert`). An address is represented by one of its bytes.
`IfName` is the name after it was cut to `IFNAMSIZ - 1` characters.

### Pethtool

A step is one call of the extension module with the Python code up to the next
one. `Start` is the setter branch of `main()`, `ReadSettings`, `WriteSettings`
and their failures are `set_coalesce` and `set_ringparam`, `SetOffload` is
`set_offload`, and `RunCmd` and `NextDevice` are the loop of `run_cmd`. A
command line is a list of words of any length (`Args`), whose first may be an
interface: with fewer than two `main()` prints its usage and exits; a first word
that is no device stays in the list; and the setters make pairs of the list
(`Pairs`), for which an odd number of words is an `IndexError`. `named` and
`words` are what the user has typed, `target` and `line` what the program makes
of it. `StartShow` is `run_cmd_noargs`; `Show` and `ShowFails` make the calls of the four show functions one by one
(`Reads`), and `block` is what was printed of a device. `ListFails` is an
exception of one of the device lists, which nobody catches. `boot`, `left`,
`named`, `words`, `block` and `after` are history.

### DeviceLists and Pifconfig

`ActiveDevices` and `GetDevices` are what the two C functions compute from the
entries of `getifaddrs()` and the lines of `/proc/net/dev`; `Rest` stands for
the part of a line that does not fit the buffer of 256 bytes and is taken for a
name. One such part per line is enough: two would take a line of more than 510
characters, and the kernel's format has sixteen numbers of at most 20 digits
beside the name. `getifaddrs()` names an IPv4 address by its label, which may be
`eth0:1` (`Label`, `AddressName`): `get_active_devices` lists it as a device. An
ioctl takes it for `eth0` (`Answering`), a lookup by name among the links does
not find it. Renaming an interface gives labels to its IPv4 addresses but the
first. In `Pifconfig` a step is one question to the kernel: `GetFlags`,
`GetHwaddr` (by name), `FindIndex` (by name), `GetIpv4` and `GetIpv6` (by the
index the object has found). `GetIpv6` ends the block, as nothing is asked after
it. `NoDevice`, `CallFails` and `DumpKills` are the failures. Interfaces
disappear, are renamed and go up and down in between.

## The runs

Passing runs:

| Run | States | Checks |
|---|---|---|
| `NetlinkSharing` | 184 (symmetry) | pointer, allocation, counter and tags agree whatever fails; refinement of `OnDemandHandle` |
| `EtherInfoFaults` | 581 000 | assertion of `get_nlc()`, contract of the address methods, use of `Netlink`, with every fault and changing links |
| `EtherInfoCalm` | 185 000 | objects named as asked, contract of all methods, caches, right device, termination; without faults |
| `AddressRefs` | 491 000 | references cover holders, no address without its strings reaches the program, only certain lists and the pieces of texts are lost; every allocation may fail |
| `ControlSocketCalls` | 129 000 | descriptors, contract, widths, restorable settings, bytes, no change by a call that raises; all functions, with every fault |
| `PethtoolCommands` | 1 478 000 (symmetry) | two users, all commands, complete and incomplete command lines, failing calls, vanishing devices, a line too long: only values somebody asked for, effect, no other device touched if each option has a value, what is shown is complete and current |
| `Pifconfig` | 201 000 | addresses of one interface, truthful blocks and listing when nothing changes, exit status, termination |

Runs that are expected to be violated, each a disagreement between the code and
what a comment, test or document says of it:

| Run | What TLC finds |
|---|---|
| `NetlinkMoreUsers` | the death of an object that never queried closes the connection of one that did |
| `NetlinkInvalid` | after a failing `nl_connect()` the unconnected socket is handed out as a connection |
| `EtherInfoMac` | `mac_address` returns NULL without an exception when the device has gone |
| `PethtoolMistyped` | `-C etho adaptive-rx rx-usecs 5`, with a mistyped interface and a missing value, sets `rx-usecs` on every device, where `man/pethtool.8.asciidoc:25` calls INTERFACE "the name of the ethernet device on which pethtool should operate" |
| `PifconfigAll` | an interface that is down is not shown, where `man/pifconfig.8.asciidoc:25-26` says "all interfaces are displayed" |

`KeptForOtherUsers` is weaker in effect than it looks: the survivor reconnects
with its next query, and `ConnectionWhenQuerying` shows that no query is caught
without a connection.

Some properties are qualified where the code falls short. These limits are
visible in the models without a run of their own: the objects share one
connection, although the comment at `netlink.c:34-36` says that `open_netlink()`
"will keep a separate file descriptor open for each object" (hence
`OneSocketAtATime` states the sharing); a failing address dump frees an
uninitialised pointer (`etherinfo.c:259`), where the comment at
`etherinfo.c:229-230` promises NULL (hence the step `Crashed`, and
`AddressContract` is about the calls that return); with Python 2.7, which
`setup.py:124` lists, an address whose scope could not be allocated reaches the
program, where `etherinfo_struct.h:39` says "string" (hence `ReprSafe` is checked
with `Checked = TRUE`; with `FALSE` TLC refutes it); four options of the usage message
(`scripts/pethtool:40`, `rx-frames-low` and the like) are spelled differently in the table at
line 100 and silently skipped; after a failing
`nl_connect()` the death of an object wraps the counter (hence `CounterWithinTags` speaks of connected sockets); a cached interface
index outlives the name it was found for (hence `AddressesOfNamedDevice` is
checked where links keep their names); a hardware address that was read once is
reported for the rest of the object's life; a name longer than `IFNAMSIZ - 1`
characters stands for the device its prefix names; `__str__` returns a string
with an exception set when a query has failed, although its comment
(`etherinfo_obj.c:90`) promises all of the information; the `ipv4_` attributes
and `__str__` never release their list, and `__str__` and `repr()` never the
pieces of their text (hence `OnlyListsAndPiecesLost`); if the string of
a local or broadcast address cannot be allocated the deallocator releases
pointers that were never assigned; `del addr.address` makes it release a null
pointer (hence `Deletable` has only the two attributes that may be null);
a mistyped interface with a missing value makes a command one on all devices
(hence `OnlyNamedDevice` is about complete pairs); `pifconfig` without arguments
ends with status 2 if an address of an active interface has a label of its own
(hence the two cases of `CompleteWhenStill`); and a block of `pifconfig`
may combine flags and hardware address of one interface with addresses of
another, if a name changes hands in between (hence `OneInterface` is about
addresses, and `TruthfulWhenCalm` about undisturbed blocks).

### Bounds

- Three objects and two sockets in `Netlink`: one object that opens, one that
  joins, one that dies without having queried; two sockets so that the old and
  the new connection can be told apart. `UIntMax = 7` is more than the objects
  can count to, so a counter there has wrapped.
- Two objects in `EtherInfo`: one in a call and one that dies meanwhile.
  Up to three names and two indexes, as an exchange of names needs a spare one.
  An address list is empty or has two IPv4 addresses around an IPv6 one, so that
  order, family and the last address matter; the last has no broadcast address.
- `Mod = 1024` stands for 2^32 and a `long` of the same width for the 32-bit
  case, where `PyLong_FromLong` of a `uint32_t` can go negative. 1024 is a
  multiple of 256, as the conversion of bytes requires. The theorems cover every
  width.
- One descriptor in `ControlSocket`: a single leak is noticed by the next call.
  One process, as processes share nothing but the kernel's settings, and those
  change under it by `Hotplug`; the theorems cover any number.
- Ten objects in `AddressObjects`, enough for `__str__` of a device with an
  address of each family, and for a dump of two addresses. An allocation succeeds
  only while a place is free. A call begins when seven places are free (`Room`),
  so that an address with its strings, or what was lost, can be left from
  earlier calls. The program keeps at most two references (`MaxHeld`): to a list
  and to an address in it, or to an address and to a string of it. The theorems
  cover any number of objects and references, and dumps of any length.
  One address has a peer, one a broadcast address, others neither.
- Three interfaces, four names and three changes (`MaxChanges`) in `Pifconfig`:
  two changes hand a name over from one interface to another, and one is left
  to undo or to add to it. `Width = 8` stands for 32 bits, with prefixes of 0
  and `Width` among the addresses; `NetmaskRight` covers the real width. An
  interface has at most one label besides its name, and every labelled address of
  it has that one: the second label would be listed after the first, at which the
  program ends.
  `MaxIndex` is the number of interfaces. The program ends, so the system may stop.
- Two users, all alike, and three devices in `Pethtool`, the first of which
  supports nothing, so that the loop must get past it; the line of the second is
  too long. Of the coalesce entries those that
  the command lines name and one that none names are kept. Each run of
  `pethtool` ends, so the system may stop (`CHECK_DEADLOCK FALSE`).

### Fairness

`CallReturns` needs weak fairness of the steps of a call (`CallStep` and
`NewEtherInfo`): the interpreter does not stop in the middle of a C function,
and libnl returns from a dump with data or with an error. `Terminates` needs
weak fairness of `RunStep`, the steps of `pifconfig`: each system call returns.
Nothing is assumed of the kernel's changes, of the garbage collector or of the
caller.

## The proofs

`tlapm` checks every proof. A theorem `Spec => []P` is about every behaviour
of the specification that the runs check, for any number of objects, sockets,
links, devices and users, and any values of the constants that satisfy the
assumptions.

### What is assumed of the constants

Every assumption is an `ASSUME` of the module that declares the constant, and
TLC evaluates it in each run of that module.

- NULL is not one of the things that it is compared with: objects, sockets,
  numbers, names, configurations.
- There are finitely many `etherinfo` objects, no more than an unsigned int
  counts (`UIntAssumption`), and a process may have a descriptor
  (`FdsAssumption`).
- A `long` is at least as wide as a `uint32_t` (`StructDesc`); a `uint32_t`
  consists of bytes (`ByteAssumption`) and has room for a bit.
- What the kernel starts with is well formed: settings are structs of
  `uint32_t`, flags have 16 bits, addresses come as a sequence. Of the features
  and of the driver the model has just what `pethtool` asks for
  (`ReadsAssumption`).
- Arguments are finite lists, and commands are those the scripts know. `int()`
  makes integers of words, and none of "on" and "off" (`NumberAssumption`). A
  label contains a colon and a name does not (`LabelAssumption`).
- There is room for finitely many Python objects, and a pointer that is null, one
  that is uninitialised and one that leads to an object can be told apart
  (`IdsAssumption`, `ObjectsAssumption`).

Some theorems have a hypothesis beside: `Calm` (no call fails, and every name
stays with one link), which is also what `EtherInfoCalm` is about, and
`ConnectReliable` (`nl_connect()` does not fail). The runs `EtherInfoMac` and
`NetlinkInvalid` show that the statements are false without them.
`ReprIsSafe` assumes that the program deletes at most the two attributes of an
address that may be null (`Deletable`), as the run does, and that the
interpreter checks results (`Checked`); with
`Checked = FALSE` TLC refutes it. The other theorems of `AddressObjectsProofs` hold for both kinds of
interpreter. `CachesAreFreed`
assumes that the allocation of a filter does not fail, after which the code does
leave its cache behind.

### NetlinkProofs

- `TypeCorrect`, `SocketSafety`, `NobodyUsesNothing` hold whatever fails. The
  inductive invariant `SocketInv` joins `TypeOK`, `OneSocketAtATime` and
  `NoUsersWithoutConnection`: that `CloseLast` frees the only allocation needs
  the second, that the counter it leaves is 0 is the third.
- `CounterSafety`: `CounterInv` adds `CounterWithinTags` to `SocketInv`. The
  upper bound is what makes it inductive: since the counter is at most the
  number of tagged objects, the object that dies leaves the counter at 0 or
  some tagged object behind. It uses `UIntAssumption`.
- `ImplementsHandle`: `Init` maps to `Init` and every step to `Create`,
  `Acquire`, `Release` or a stutter of `OnDemandHandle`. The handle is the
  connected socket: a socket that failed to connect is no handle. That the
  handle goes with the last object is where `CounterInv` is needed.
- `ValidConnection`: the invariant is that the pointer is NULL or connected.

### EtherInfoProofs

- `AssertionHolds`: the assertion of `get_nlc()`, whatever fails and dies. The
  invariant is `ConnectionWhenQuerying` with the shape of `call`; the argument
  is that deallocators run only at `GcPoints`.
- `UsesNetlink`: every step of `EtherInfo` is a step of `Netlink` or leaves it
  alone, because the object of a call is alive. `ConnectionSafety` carries the
  theorems of `NetlinkProofs`, taken as an instance, over this refinement.
- `TypeCorrect` and `AddressContractKept` rest on `Inv`. Its part
  `Stage` says how far a method has come: which queries are left, what they
  have handed over, and that a query has handed over NULL exactly if an
  exception is set. The contract is about the last step of a call only, and
  this is what carries it through the steps before.
- `NamesAsAsked`: `InfoInv` says that the objects made so far bear the first names
  of `fetch_devs`, that the other names are still to do, and that no object is
  there twice. What the loop over the argument puts into `fetch_devs` is a
  recursive function (`Strings`); `PlacesExist` goes along it and yields where in
  the argument each name comes from, which gives both order and number.
- `CachesAreFreed`: `CachesInv` says which caches exist at which step.
- `EveryContractKept`, `RightAddresses`, under `Calm`: `CalmInv` says that the
  connection is connected, that a cached index is the one of the link that
  bears the object's name now, and that no exception has been set so far.

### StructDescProofs and ControlSocketProofs

- `DictRoundTrip`, `RequestIsStruct`: a struct survives the dict and back if a
  `long` is at least as wide as a `uint32_t`; what is sent is a struct of
  `uint32_t` whatever the dict holds.
- `DescriptorsSuffice`: the invariant says that a process holds exactly the
  descriptor of its call between `socket()` and `close()`, and none otherwise.
- `TypeCorrect`, `ContractMet`, `BytesSurvive`, `AlwaysRestorable`,
  `RaisingIsHarmless`: `CallOK` says what a call knows at each step, above all
  that a call has failed exactly if an exception is set, unless an entry of its
  dict was no C long, and that a getter that has not failed has an answer of
  the right width. `KernelInv` says that devices keep well-formed settings.
  `AlwaysRestorable` follows with `DictRoundTrip`.

### PethtoolProofs

- `TypeCorrect`: `ProcsOK` and `KernelOK`, the shape of the runs and of the
  settings. `NamedDeviceOnly` needs what `ProcsOK` says of a run that goes
  through all devices with a name left among its options: if the user has given
  each option a value the number of words is odd then, the list of pairs cannot
  be built, and it never comes to a write. Without that condition the statement
  is false (`PethtoolMistyped`).
- `AskedValuesOnly`: a run writes back what it has read, which may be stale. So
  `AskedInv` speaks of what runs are about to write too (`WritesAsked`): a
  value that was asked for once stays one that was asked for.
- `EffectTakesPlace`: `Covers` says that the devices that are behind a run have
  the settings it asks for. It is kept by the steps of others because another
  command sets another group. A step of the run itself needs that the loop over
  the options gives each entry the value of the last option that names it
  (`EditedLast`, an induction along the options).
- `SettingsShown`: `ShowInv` adds to the invariants of the other two what has
  been printed of the device at hand (`PartOK`) and of the one before
  (`BlockOK`). The values that may be shown grow while runs begin, except that
  they shrink to one when a setter has come to its end before the show command
  begins; there `EffectTakesPlace` gives the value that is read
  (`ReadMayShow`).

### DeviceListsProofs and PifconfigProofs

- `ActiveOnce`, `AllListed`: what the two loops of `ethtool.c` collect, for
  lists of any length. `FlattenSeq` is a recursive function; the induction
  along it is a first-order one, from the least number at which a set of
  numbers would fail (`LeastElement`, `SetInduction`).
- `NetmaskRight`: the shifts of `bits2netmask()` for an address of the real 32
  bits and of the 8 bits of the run, for every prefix length.
- `TypeCorrect`, and the lemmas `...Shape`, which say once what each step does
  to the fields of `run`.
- `StatusTells`: `ListOK` says that the blocks so far are those of the devices
  before the ones still to do.
- `OneInterfaceEach`: what has been printed of the open block belongs to the
  interface whose index the object has found, whatever it is called by now.
- `ShowsAllOnce`: while nothing changes the selection is the interfaces that are
  up, each once, followed by the labels of their addresses (with `ActiveOnce` and
  `ActiveInOrder`). So every interface has been shown when the first label, which
  cannot be found among the links, ends the program.
- `Truthful`: each field of the open block is that of the interface that bears
  its name, as long as nothing has changed since the block began. That the sign
  of the short does not disturb any flag is `SignKeepsFlags`.

### AddressObjectsProofs

All of it is about counting. `Uses` is the number of slots of lists and
addresses that refer to an object, `Outer` the number of references from outside
of the heap: those of the program and those of the C function that is running.
An object may be freed when its count drops to zero, and this is right only if
the count is no smaller than `Uses` and `Outer` together (`Covered`).

- Lemmas about the heap say what each primitive does to these numbers:
  `NewObject`, `SetPointer`, `AddItem`, `IncrefOK`, `DecrefOK`. The last is the
  hard one. `Py_DECREF` of a list may free its addresses and these their
  strings, and `Dying` goes two rounds from the object that is dropped.
  `TwoRounds` shows that this is all: a third round would find nothing, as
  lists hold only addresses, addresses only strings, and strings nothing. So no
  object with a count of zero stays behind, and no reference to a freed one.
- `TypeCorrect`, `CountsAreRight`: `Inv` joins the shape of the heap (`HeapOK`),
  that of the call (`CallOK`) and `Covered`. `CallOK` has the parts that make
  the error paths work: the address under construction has just one reference,
  that of the call (`RefsOK`), its pointers are uninitialised exactly if the
  conversion has not come to them (`StageOK`), and no other address has such a
  pointer (`NoJunk`). This is why the deallocator meets an uninitialised pointer
  only on the error path of the conversion.
- `ListsAndPiecesAreLost`: what is lost is what has a count greater than its
  holders (`Surplus`). Every step keeps the surplus of every object (`KeepsAll`),
  except the last one of an `ipv4_` attribute and of `__str__`, which forgets its
  lists, and that of `__str__` and `repr()`, which leaves new strings behind
  (`LittleLost`).
- `ReprIsSafe`: `Apart` adds to `Inv` that the program has no reference to the
  list of the call in progress (`Private`), and that an address without its local
  address or scope is referred to only by lists that the program does not have,
  and that belong to a call with an exception set, if to a call at all
  (`Withheld`). The code does not check the scope; the exception that the failed
  allocation leaves behind is all that keeps such a list from the program.

### Only model-checked

- `CallReturns` and `Terminates`: liveness under fairness is outside TLAPS.

## Not modelled

- Python running out of memory, except in `AddressObjects`.
- The wording of `__str__`, `__repr__` and of what the scripts print. Assignments
  to the attributes of an address, which would put objects of any type there;
  only deleting them is modelled.
- Families other than IPv4 and IPv6, which no dump delivers here because the
  filter asks for one of the two; the checks for them are unreachable.
- `pethtool` without a command or with `-h`: it prints its usage and changes
  nothing.
- Malformed lines of `/var/lib/pcmcia/stab`, from which `sscanf()` reads a
  driver but no device.
- `fork()` and `FD_CLOEXEC`: a failing `fcntl()` only prints a warning.
- The build, the compatibility and kernel headers, the tests.

## Plan

Done: all components of the inventory except the build, the headers and the
tests. A theorem states every invariant and every action property of the passing
runs; the two liveness properties stay with TLC.
