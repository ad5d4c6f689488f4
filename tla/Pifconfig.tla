------------------------------- MODULE Pifconfig -------------------------------
(***************************************************************************)
(* scripts/pifconfig: the interfaces that the user names, or all that are  *)
(* active, are shown one after the other.  A step is one question to the   *)
(* kernel with the Python code up to the next one; between two steps       *)
(* interfaces may disappear, be renamed, and go up and down.               *)
(*                                                                         *)
(* What the questions do inside the extension module is the business of    *)
(* ControlSocket and EtherInfo.  Netmasks are scaled down: Width bits      *)
(* stand for 32.                                                           *)
(***************************************************************************)
EXTENDS DeviceLists, FiniteSets

CONSTANTS
  NULL,      (* Python's None, and nothing                                  *)
  MaxIndex,  (* bound: the largest interface index                          *)
  Names,     (* the names an interface may be given                         *)
  Label,     (* the label of an alias of the interface: eth0:1 for eth0     *)
  Kernels,   (* the interfaces the kernel may start with                    *)
  ArgLists,  (* the interfaces that the user may name on the command line   *)
  Width,     (* bits of an IPv4 address, a multiple of 4                    *)
  Churn,     (* how interfaces may change: "remove", "rename", "updown"     *)
  MaxChanges,(* bound: how often they change                                *)
  Faults     (* what may fail: "getifaddrs", "ioctl", "netlink"             *)

\* The kernel's interface indexes.
Indexes == 1..MaxIndex

\* The interfaces have names of their own, flags of 16 bits and a sequence of
\* addresses; aliases are the places of the IPv4 addresses that have a label
\* instead of the interface's name.  An IPv4 address has 32 bits, or 8 where it
\* is scaled down.  There is a colon in a label and in no name.
ASSUME NullAssumption == NULL \notin Int
ASSUME IndexAssumption == MaxIndex \in Nat
ASSUME WidthAssumption == Width \in {8, 32}
ASSUME LabelAssumption ==
  /\ DOMAIN Label = Names
  /\ \A m, n \in Names : Label[m] # n /\ (Label[m] = Label[n] => m = n)
ASSUME ArgsAssumption == \A args \in ArgLists : args \in Seq(Range(args))
ASSUME KernelsAssumption ==
  \A links \in Kernels :
    /\ DOMAIN links = Indexes
    /\ \A i \in Indexes : links[i] # NULL =>
         /\ DOMAIN links[i] = {"name", "flags", "mac", "addrs", "aliases"}
         /\ links[i].name \in Names /\ links[i].flags \in 0..(2^16 - 1)
         /\ links[i].addrs \in Seq(Range(links[i].addrs))
         /\ \A a \in Range(links[i].addrs) :
              a.family = "AF_INET" => a.bits \in 0..Width
         /\ \A k \in links[i].aliases :
              k \in DOMAIN links[i].addrs /\ links[i].addrs[k].family = "AF_INET"
         /\ \A j \in Indexes : links[j] # NULL /\ links[j].name = links[i].name => i = j

VARIABLES
  kernel,    (* the interface at each index, or NULL                        *)
  run,       (* the state of the program                                    *)
  boot,      (* history: the kernel's interfaces at the beginning           *)
  changes    (* how often they have changed                                 *)

vars == <<kernel, run, boot, changes>>

-----------------------------------------------------------------------------
(***************************************************************************)
(* What the kernel answers.                                                *)
(***************************************************************************)
Present(i) == kernel[i] # NULL

\* The interfaces that bear a name: one or none.
Named(name) == {i \in Indexes : Present(i) /\ kernel[i].name = name}

\* The interfaces that an ioctl means by a name: the kernel drops what follows
\* the colon.
Answering(name) ==
  {i \in Indexes : Present(i) /\ name \in {kernel[i].name, Label[kernel[i].name]}}

\* What getifaddrs() calls the address at place k of interface i.
AddressName(i, k) ==
  IF k \in kernel[i].aliases THEN Label[kernel[i].name] ELSE kernel[i].name

\* getifaddrs(): first the interfaces, then their addresses.
IfAddrs ==
  LET Entry(i, name) == [name |-> name, flags |-> kernel[i].flags]
      Link(i) == IF Present(i) THEN <<Entry(i, kernel[i].name)>> ELSE <<>>
      Addresses(i) ==
        IF Present(i) THEN [k \in DOMAIN kernel[i].addrs |-> Entry(i, AddressName(i, k))]
        ELSE <<>>
  IN  FlattenSeq([i \in Indexes |-> Link(i)]) \o FlattenSeq([i \in Indexes |-> Addresses(i)])

\* Faulty variant: the number is not taken for a short.
GetFlagsOf_Unsigned(i) == kernel[i].flags

\* ethtool.get_flags(): ifr_flags is a short, so that IFF_DYNAMIC is its sign.
GetFlagsOf(i) ==
  LET flags == kernel[i].flags IN
    IF flags < 2^15 THEN flags ELSE flags - 2^16

\* The addresses of interface i in a family, if it is still there.
AddrsOf(i, family) ==
  IF ~Present(i) THEN <<>>
  ELSE Those(kernel[i].addrs, {a \in Range(kernel[i].addrs) : a.family = family})

-----------------------------------------------------------------------------
(***************************************************************************)
(* What the program prints.                                                *)
(***************************************************************************)

\* Faulty variant: the bits are counted down from the largest number.
Bits2Netmask_OffByOne(bits) ==
  LET mask == (2^Width - 1) - (2^Width \div 2^bits)
      byte == Width \div 4
  IN  [k \in 1..4 |-> (mask \div 2^(Width - k * byte)) % 2^byte]

\* bits2netmask(), as four bytes.
Bits2Netmask(bits) ==
  LET mask == 2^Width - (2^Width \div 2^bits)
      byte == Width \div 4
  IN  [k \in 1..4 |-> (mask \div 2^(Width - k * byte)) % 2^byte]

\* flags2str(): the words, in the order of the flags' bits.
Flags2Str(flags) ==
  Those(<<"IFF_UP", "IFF_BROADCAST", "IFF_DEBUG", "IFF_LOOPBACK",
          "IFF_POINTOPOINT", "IFF_NOTRAILERS", "IFF_RUNNING", "IFF_NOARP",
          "IFF_PROMISC", "IFF_ALLMULTI", "IFF_MASTER", "IFF_SLAVE",
          "IFF_MULTICAST", "IFF_PORTSEL", "IFF_AUTOMEDIA", "IFF_DYNAMIC">>,
        {word \in DOMAIN Bit : Has(flags, word)})

\* The line of an IPv4 address.
InetLine(a, flags) ==
  [address |-> a.address,
   bcast |-> IF Has(flags, "IFF_LOOPBACK") \/ Has(flags, "IFF_POINTOPOINT")
             THEN NULL ELSE a.broadcast,
   mask |-> Bits2Netmask(a.bits)]

Inet6Line(a) == [address |-> a.address, bits |-> a.bits]

\* The block of an interface, as it begins.
Block(name) == [name |-> name, hwaddr |-> NULL, inet |-> <<>>, inet6 |-> <<>>,
                words |-> <<>>]

-----------------------------------------------------------------------------
\* index is that of the etherinfo object; block is <<>> before the first line
\* of a device is printed and after the last one; out holds the blocks that are
\* finished.  History: the selected devices sel, whether the kernel has stayed
\* as it was since the block began (calm) and since the program was started
\* (still), and whether a call has failed of itself (fault).
NotStarted == [pc |-> "start", args |-> <<>>, sel |-> <<>>, todo |-> <<>>,
               flags |-> 0, index |-> -1, block |-> <<>>, out |-> <<>>,
               status |-> NULL, calm |-> TRUE, still |-> TRUE, fault |-> FALSE]

Init ==
  /\ kernel \in Kernels
  /\ boot = kernel
  /\ run = NotStarted
  /\ changes = 0

At(pc) == run.pc = pc
Device == Head(run.todo)

Exit(r, status) == [r EXCEPT !.pc = "exit", !.status = status]

\* The loop of main() goes on, or the program is at its end.
NextDevice(r, todo) ==
  IF todo = <<>> THEN Exit([r EXCEPT !.todo = <<>>], 0)
  ELSE [r EXCEPT !.pc = "flags", !.todo = todo]

\* main(): the devices are selected.
Start(args) ==
  /\ At("start")
  /\ LET sel == IF args = <<>> THEN ActiveDevices(IfAddrs) ELSE args IN
       run' = NextDevice([run EXCEPT !.args = args, !.sel = sel], sel)
  /\ UNCHANGED kernel

\* An exception outside of the try statement: a traceback and status 1.
ListFails ==
  /\ At("start") /\ <<>> \in ArgLists
  /\ "getifaddrs" \in Faults
  /\ run' = Exit([run EXCEPT !.fault = TRUE], 1)
  /\ UNCHANGED kernel

\* show_config(): the flags.  get_interfaces_info() makes an object that does
\* not know its index yet.
GetFlags ==
  /\ At("flags")
  /\ \E i \in Answering(Device) :
       LET flags == GetFlagsOf(i) IN
         run' = [run EXCEPT
                   !.pc = IF Has(flags, "IFF_LOOPBACK") THEN "index" ELSE "hwaddr",
                   !.flags = flags, !.index = -1, !.block = Block(Device),
                   !.calm = TRUE]
  /\ UNCHANGED kernel

GetHwaddr ==
  /\ At("hwaddr")
  /\ \E i \in Answering(Device) :
       run' = [run EXCEPT !.pc = "index", !.block.hwaddr = kernel[i].mac]
  /\ UNCHANGED kernel

\* get_ipv4_addresses() looks the index up, by name ...
FindIndex ==
  /\ At("index")
  /\ \E i \in Named(Device) : run' = [run EXCEPT !.pc = "inet", !.index = i]
  /\ UNCHANGED kernel

\* ... and asks for the addresses of that interface.
GetIpv4 ==
  /\ At("inet")
  /\ LET addrs == AddrsOf(run.index, "AF_INET") IN
       run' = [run EXCEPT !.pc = "inet6",
                          !.block.inet = [k \in DOMAIN addrs |->
                                            InetLine(addrs[k], run.flags)]]
  /\ UNCHANGED kernel

\* The block ends with the IPv6 addresses of interface i and the flags.
EndBlock(i) ==
  LET addrs == AddrsOf(i, "AF_INET6")
      block == [run.block EXCEPT
                  !.inet6 = [k \in DOMAIN addrs |-> Inet6Line(addrs[k])],
                  !.words = Flags2Str(run.flags)]
  IN  run' = NextDevice([run EXCEPT !.out = Append(@, block), !.block = <<>>],
                        Tail(run.todo))

\* Faulty variant: the index is looked up again.
GetIpv6_LooksUp ==
  /\ At("inet6")
  /\ \E i \in Named(Device) : EndBlock(i)
  /\ UNCHANGED kernel

\* get_ipv6_addresses(), with the index that the object knows by now.
GetIpv6 ==
  /\ At("inet6")
  /\ EndBlock(run.index)
  /\ UNCHANGED kernel

\* Faulty variant: the program goes on with the next device.
ShowFails_GoesOn(r) == NextDevice(r, Tail(r.todo))

\* Faulty variant: the device is tried again.
ShowFails_Retries(r) == [r EXCEPT !.pc = "flags"]

\* "** ERROR ** [Device %s]: %s": the program ends at the first failure.
ShowFails(r) == Exit(r, 2)

\* ENODEV: the device is not there, or not any longer; or it is a label, which
\* no interface bears.
NoDevice ==
  /\ \/ run.pc \in {"flags", "hwaddr"} /\ Answering(Device) = {}
     \/ At("index") /\ Named(Device) = {}
  /\ run' = ShowFails(run)
  /\ UNCHANGED kernel

\* A call fails for a reason of its own.
CallFails ==
  /\ \/ run.pc \in {"flags", "hwaddr"} /\ "ioctl" \in Faults
     \/ run.pc \in {"index", "inet", "inet6"} /\ "netlink" \in Faults
  /\ run' = ShowFails([run EXCEPT !.fault = TRUE])
  /\ UNCHANGED kernel

\* A failed dump of the addresses frees what was never allocated (see
\* EtherInfo): the process may as well be killed.
DumpKills ==
  /\ run.pc \in {"inet", "inet6"} /\ "netlink" \in Faults
  /\ run' = Exit([run EXCEPT !.fault = TRUE], 139)
  /\ UNCHANGED kernel

RunStep ==
  /\ \/ \E args \in ArgLists : Start(args)
     \/ ListFails \/ GetFlags \/ GetHwaddr \/ FindIndex \/ GetIpv4 \/ GetIpv6
     \/ NoDevice \/ CallFails \/ DumpKills
  /\ UNCHANGED <<boot, changes>>

-----------------------------------------------------------------------------
(***************************************************************************)
(* The kernel's interfaces change while the program runs.                  *)
(***************************************************************************)
Change(i, link) ==
  /\ Present(i) /\ run.pc # "exit"
  /\ changes < MaxChanges /\ changes' = changes + 1
  /\ kernel' = [kernel EXCEPT ![i] = link]
  /\ run' = [run EXCEPT !.calm = FALSE,
                        !.still = run.pc = "start"]
  /\ UNCHANGED boot

Unplug(i) == "remove" \in Churn /\ Change(i, NULL)

\* The first IPv4 address takes on the new name; the others are given labels.
Rename(i, name) ==
  /\ "rename" \in Churn
  /\ Named(name) = {}
  /\ LET addrs == kernel[i].addrs
         Further(k) == \E j \in 1..(k - 1) : addrs[j].family = "AF_INET"
     IN  Change(i, [kernel[i] EXCEPT
                      !.name = name,
                      !.aliases = {k \in DOMAIN addrs :
                                     addrs[k].family = "AF_INET" /\ Further(k)}])

UpDown(i) ==
  /\ "updown" \in Churn
  /\ Change(i, [kernel[i] EXCEPT
                  !.flags = IF Has(@, "IFF_UP") THEN @ - 1 ELSE @ + 1])

KernelStep ==
  \E i \in Indexes : Unplug(i) \/ UpDown(i) \/ \E name \in Names : Rename(i, name)

Next == RunStep \/ KernelStep

Spec == Init /\ [][Next]_vars

\* Every question to the kernel is answered at some time.
FairSpec == Spec /\ WF_vars(RunStep)

-----------------------------------------------------------------------------
(***************************************************************************)
(* Properties.                                                             *)
(***************************************************************************)

\* Every variable has its type; a block is open while a device is shown.
TypeOK ==
  /\ \A i \in Indexes : Present(i) =>
       kernel[i].name \in Names /\ kernel[i].flags \in 0..(2^16 - 1)
  /\ run.flags \in (-(2^15))..(2^15 - 1)
  /\ run.index \in Indexes \cup {-1}
  /\ run.pc \in {"hwaddr", "index", "inet", "inet6"} => run.block # <<>>
  /\ run.pc \in {"inet", "inet6"} => run.index \in Indexes
  /\ At("exit") <=> run.status \in {0, 1, 2, 139}

\* The addresses in a block.
Shown(block) == {line.address : line \in Range(block.inet) \cup Range(block.inet6)}

\* The addresses of an interface do not change here.
Configured(i) == {a.address : a \in Range(boot[i].addrs)}

\* All addresses in a block, of both families, belong to one interface, even
\* if the name has gone over to another one while the block was printed: the
\* object asks by the index that it has found first.
OneInterface ==
  \A k \in DOMAIN run.out :
    \E i \in Indexes : boot[i] # NULL /\ Shown(run.out[k]) \subseteq Configured(i)

\* The netmask of a prefix, byte by byte: as many ones as are left for it.
Netmask(bits) ==
  LET byte == Width \div 4
      Ones(k) == IF bits <= (k - 1) * byte THEN 0
                 ELSE IF bits >= k * byte THEN byte ELSE bits - (k - 1) * byte
  IN  [k \in 1..4 |-> 2^byte - 2^(byte - Ones(k))]

\* What ifconfig would say of interface i.
Report(block, i) ==
  LET link == kernel[i]
      Lines(family) == Those(link.addrs, {a \in Range(link.addrs) : a.family = family})
      On(flag) == (link.flags \div 2^Bit[flag]) % 2 = 1
  IN  /\ block.hwaddr = IF On("IFF_LOOPBACK") THEN NULL ELSE link.mac
      /\ Len(block.inet) = Len(Lines("AF_INET"))
      /\ \A k \in DOMAIN block.inet :
           LET a == Lines("AF_INET")[k] IN
             /\ block.inet[k].address = a.address
             /\ block.inet[k].mask = Netmask(a.bits)
             /\ block.inet[k].bcast =
                  IF On("IFF_LOOPBACK") \/ On("IFF_POINTOPOINT") THEN NULL
                  ELSE a.broadcast
      /\ [k \in DOMAIN block.inet6 |-> block.inet6[k].address] =
           [k \in DOMAIN Lines("AF_INET6") |-> Lines("AF_INET6")[k].address]
      /\ Range(block.words) = {flag \in DOMAIN Bit : On(flag)}

\* A block that was printed while nothing changed tells the truth about the
\* interface: hardware address, addresses with their netmasks, and all flags,
\* IFF_DYNAMIC too, which makes the number negative.
TruthfulWhenCalm ==
  run.calm /\ run.block = <<>> /\ run.out # <<>> =>
    \E i \in Named(Last(run.out).name) : Report(Last(run.out), i)

\* Interface i is up and has an address with a label of its own.
Labelled(i) ==
  Present(i) /\ Has(kernel[i].flags, "IFF_UP") /\ kernel[i].aliases # {}

\* If nothing changes and no call fails, the program without arguments shows
\* every interface that is up, and no other, exactly once, although the kernel
\* lists it once for each of its addresses.  It ends with status 0, unless an
\* address of such an interface has a label of its own: that is listed after
\* all interfaces and taken for one more, and the status is 2.
CompleteWhenStill ==
  At("exit") /\ run.still /\ ~run.fault /\ run.args = <<>> =>
    /\ run.status = IF \E i \in Indexes : Labelled(i) THEN 2 ELSE 0
    /\ \A i \in Indexes : Present(i) =>
         Cardinality({k \in DOMAIN run.out : run.out[k].name = kernel[i].name}) =
           IF Has(kernel[i].flags, "IFF_UP") THEN 1 ELSE 0

\* "If no interface is given all interfaces are displayed", says
\* man/pifconfig.8.asciidoc.  get_active_devices() lists only those that are up.
AllDisplayed ==
  At("exit") /\ run.still /\ ~run.fault /\ run.args = <<>> =>
    \A i \in Indexes : Present(i) =>
      \E k \in DOMAIN run.out : run.out[k].name = kernel[i].name

\* The status tells whether something is missing: 0 means that all selected
\* interfaces were shown, in order and to the end; otherwise those up to the
\* first failure were.
ExitStatus ==
  At("exit") =>
    LET names == [k \in DOMAIN run.out |-> run.out[k].name] IN
      IF run.status = 0 THEN names = run.sel
      ELSE /\ IsPrefix(names, run.sel)
           /\ run.status # 1 => names # run.sel

\* The program comes to its end whatever the interfaces do meanwhile.
Terminates == <>At("exit")

=============================================================================
