---------------------------- MODULE PifconfigProofs ----------------------------
(***************************************************************************)
(* Machine-checked facts about Pifconfig, for any number of interfaces and *)
(* addresses and any command line, whatever fails and however interfaces   *)
(* change meanwhile.                                                       *)
(***************************************************************************)
EXTENDS Pifconfig, DeviceListsProofs, FiniteSetTheorems, TLAPS

RunFields == {"pc", "args", "sel", "todo", "flags", "index", "block", "out",
              "status", "calm", "still", "fault"}
LinkFields == {"name", "flags", "mac", "addrs", "aliases"}
BlockFields == {"name", "hwaddr", "inet", "inet6", "words"}

\* The steps in which a block is open.
Open == {"hwaddr", "index", "inet", "inet6"}
Active == {"flags"} \cup Open

Short == (-(2^15))..(2^15 - 1)
UShort == 0..(2^16 - 1)

-----------------------------------------------------------------------------
(***************************************************************************)
(* Flags and netmasks.                                                     *)
(***************************************************************************)
LEMMA UpDownFlags ==
  ASSUME NEW n \in UShort
  PROVE  (IF Has(n, "IFF_UP") THEN n - 1 ELSE n + 1) \in UShort
<1>1. Bit["IFF_UP"] = 0 /\ 2^0 = 1 /\ 2^16 = 65536
  BY DEF Bit
<1>2. QED BY <1>1 DEF Has, UShort

LEMMA FlagsFitShort ==
  ASSUME NEW i, kernel[i].flags \in UShort
  PROVE  GetFlagsOf(i) \in Short
BY DEF GetFlagsOf, UShort, Short

\* To take the number for a short changes none of its 16 bits.
LEMMA SignKeepsBit ==
  ASSUME NEW n \in UShort, NEW k \in 0..15
  PROVE  ((n - 2^16) \div 2^k) % 2 = (n \div 2^k) % 2
<1> USE DEF UShort
<1>0. CASE k = 0 BY <1>0
<1>1. CASE k = 1 BY <1>1
<1>2. CASE k = 2 BY <1>2
<1>3. CASE k = 3 BY <1>3
<1>4. CASE k = 4 BY <1>4
<1>5. CASE k = 5 BY <1>5
<1>6. CASE k = 6 BY <1>6
<1>7. CASE k = 7 BY <1>7
<1>8. CASE k = 8 BY <1>8
<1>9. CASE k = 9 BY <1>9
<1>10. CASE k = 10 BY <1>10
<1>11. CASE k = 11 BY <1>11
<1>12. CASE k = 12 BY <1>12
<1>13. CASE k = 13 BY <1>13
<1>14. CASE k = 14 BY <1>14
<1>15. CASE k = 15 BY <1>15
<1>q. k \in {0, 1, 2, 3, 4, 5, 6, 7, 8, 9, 10, 11, 12, 13, 14, 15}
  OBVIOUS
<1> QED
  BY <1>0, <1>1, <1>2, <1>3, <1>4, <1>5, <1>6, <1>7, <1>8, <1>9, <1>10,
     <1>11, <1>12, <1>13, <1>14, <1>15, <1>q

LEMMA SignKeepsFlags ==
  ASSUME NEW i, kernel[i].flags \in UShort, NEW flag \in DOMAIN Bit
  PROVE  Has(GetFlagsOf(i), flag) <=> (kernel[i].flags \div 2^Bit[flag]) % 2 = 1
<1>1. Bit[flag] \in 0..15
  BY DEF Bit
<1>2. QED BY <1>1, SignKeepsBit DEF Has, GetFlagsOf

\* bits2netmask() gives the netmask of a prefix, byte by byte.
THEOREM NetmaskRight ==
  ASSUME NEW bits \in 0..Width
  PROVE  Bits2Netmask(bits) = Netmask(bits)
<1> USE DEF Bits2Netmask, Netmask
<1>a. CASE Width = 8
  <2>0. CASE bits = 0 BY <1>a, <2>0
  <2>1. CASE bits = 1 BY <1>a, <2>1
  <2>2. CASE bits = 2 BY <1>a, <2>2
  <2>3. CASE bits = 3 BY <1>a, <2>3
  <2>4. CASE bits = 4 BY <1>a, <2>4
  <2>5. CASE bits = 5 BY <1>a, <2>5
  <2>6. CASE bits = 6 BY <1>a, <2>6
  <2>7. CASE bits = 7 BY <1>a, <2>7
  <2>8. CASE bits = 8 BY <1>a, <2>8
  <2>q. bits \in {0, 1, 2, 3, 4, 5, 6, 7, 8}
    BY <1>a
  <2> QED
    BY <2>0, <2>1, <2>2, <2>3, <2>4, <2>5, <2>6, <2>7, <2>8, <2>q
<1>b. CASE Width = 32
  <2>0. CASE bits = 0 BY <1>b, <2>0
  <2>1. CASE bits = 1 BY <1>b, <2>1
  <2>2. CASE bits = 2 BY <1>b, <2>2
  <2>3. CASE bits = 3 BY <1>b, <2>3
  <2>4. CASE bits = 4 BY <1>b, <2>4
  <2>5. CASE bits = 5 BY <1>b, <2>5
  <2>6. CASE bits = 6 BY <1>b, <2>6
  <2>7. CASE bits = 7 BY <1>b, <2>7
  <2>8. CASE bits = 8 BY <1>b, <2>8
  <2>9. CASE bits = 9 BY <1>b, <2>9
  <2>10. CASE bits = 10 BY <1>b, <2>10
  <2>11. CASE bits = 11 BY <1>b, <2>11
  <2>12. CASE bits = 12 BY <1>b, <2>12
  <2>13. CASE bits = 13 BY <1>b, <2>13
  <2>14. CASE bits = 14 BY <1>b, <2>14
  <2>15. CASE bits = 15 BY <1>b, <2>15
  <2>16. CASE bits = 16 BY <1>b, <2>16
  <2>17. CASE bits = 17 BY <1>b, <2>17
  <2>18. CASE bits = 18 BY <1>b, <2>18
  <2>19. CASE bits = 19 BY <1>b, <2>19
  <2>20. CASE bits = 20 BY <1>b, <2>20
  <2>21. CASE bits = 21 BY <1>b, <2>21
  <2>22. CASE bits = 22 BY <1>b, <2>22
  <2>23. CASE bits = 23 BY <1>b, <2>23
  <2>24. CASE bits = 24 BY <1>b, <2>24
  <2>25. CASE bits = 25 BY <1>b, <2>25
  <2>26. CASE bits = 26 BY <1>b, <2>26
  <2>27. CASE bits = 27 BY <1>b, <2>27
  <2>28. CASE bits = 28 BY <1>b, <2>28
  <2>29. CASE bits = 29 BY <1>b, <2>29
  <2>30. CASE bits = 30 BY <1>b, <2>30
  <2>31. CASE bits = 31 BY <1>b, <2>31
  <2>32. CASE bits = 32 BY <1>b, <2>32
  <2>q. bits \in 0..15 \/ bits \in 16..32
    BY <1>b
  <2>r. bits \in 0..15 => bits \in {0, 1, 2, 3, 4, 5, 6, 7, 8, 9, 10, 11, 12, 13, 14, 15}
    OBVIOUS
  <2>s. bits \in 16..32 => bits \in {16, 17, 18, 19, 20, 21, 22, 23, 24, 25, 26, 27,
                                     28, 29, 30, 31, 32}
    OBVIOUS
  <2> QED
    BY <2>0, <2>1, <2>2, <2>3, <2>4, <2>5, <2>6, <2>7, <2>8, <2>9, <2>10,
       <2>11, <2>12, <2>13, <2>14, <2>15, <2>16, <2>17, <2>18, <2>19,
       <2>20, <2>21, <2>22, <2>23, <2>24, <2>25, <2>26, <2>27, <2>28,
       <2>29, <2>30, <2>31, <2>32, <2>q, <2>r, <2>s
<1> QED BY <1>a, <1>b, WidthAssumption

-----------------------------------------------------------------------------
(***************************************************************************)
(* The kernel's interfaces.                                                *)
(***************************************************************************)

\* An interface in k that was b at the beginning.
LinkOK(link, b) ==
  /\ DOMAIN link = LinkFields /\ link.name \in Names /\ link.flags \in UShort
  /\ b # NULL /\ link.addrs = b.addrs
  /\ link.addrs \in Seq(Range(link.addrs)) /\ link.aliases \subseteq DOMAIN link.addrs
  /\ \A a \in Range(link.addrs) : a.family = "AF_INET" => a.bits \in 0..Width

\* No name is borne twice.
KernelOK ==
  /\ DOMAIN kernel = Indexes
  /\ \A i \in Indexes : kernel[i] # NULL => LinkOK(kernel[i], boot[i])
  /\ \A i, j \in Indexes : kernel[i] # NULL /\ kernel[j] # NULL /\
       kernel[i].name = kernel[j].name => i = j

LEMMA KernelInit ==
  ASSUME Init
  PROVE  KernelOK
BY KernelsAssumption DEF Init, KernelOK, LinkOK, LinkFields, UShort

LEMMA ChangeOK ==
  ASSUME KernelOK, NEW i \in Indexes, NEW link, Change(i, link),
         link # NULL => /\ LinkOK(link, boot[i])
                        /\ \A j \in Indexes : kernel[j] # NULL /\ kernel[j].name = link.name => i = j
  PROVE  KernelOK'
<1>1. /\ DOMAIN kernel' = Indexes /\ kernel'[i] = link /\ boot' = boot
      /\ \A j \in Indexes : j # i => kernel'[j] = kernel[j]
  BY DEF Change, KernelOK
<1>2. \A j \in Indexes : kernel'[j] # NULL => LinkOK(kernel'[j], boot'[j])
  BY <1>1 DEF KernelOK
<1>3. \A j, k \in Indexes : kernel'[j] # NULL /\ kernel'[k] # NULL /\
        kernel'[j].name = kernel'[k].name => j = k
  BY <1>1 DEF KernelOK
<1>4. QED BY <1>1, <1>2, <1>3 DEF KernelOK

LEMMA KernelNext ==
  ASSUME KernelOK, [Next]_vars
  PROVE  KernelOK'
<1>1. CASE UNCHANGED <<kernel, boot>>
  BY <1>1 DEF KernelOK, LinkOK
<1>2. ASSUME NEW i \in Indexes, Unplug(i) PROVE KernelOK'
  BY <1>2, ChangeOK DEF Unplug
<1>3. ASSUME NEW i \in Indexes, UpDown(i) PROVE KernelOK'
  <2> DEFINE flags == IF Has(kernel[i].flags, "IFF_UP") THEN kernel[i].flags - 1
                      ELSE kernel[i].flags + 1
             link == [kernel[i] EXCEPT !.flags = flags]
  <2>1. Change(i, link) /\ kernel[i] # NULL
    BY <1>3 DEF UpDown, Change, Present
  <2>2. LinkOK(kernel[i], boot[i])
    BY <2>1 DEF KernelOK
  <2>3. flags \in UShort
    BY <2>2, UpDownFlags DEF LinkOK
  <2> HIDE DEF flags
  <2>4. /\ DOMAIN link = LinkFields /\ link.name = kernel[i].name
        /\ link.addrs = kernel[i].addrs /\ link.flags = flags
        /\ link.aliases = kernel[i].aliases
    BY <2>2 DEF LinkOK, LinkFields
  <2> HIDE DEF link
  <2>5. LinkOK(link, boot[i])
    BY <2>2, <2>3, <2>4 DEF LinkOK
  <2>6. QED BY <2>1, <2>4, <2>5, ChangeOK DEF KernelOK
<1>4. ASSUME NEW i \in Indexes, NEW name \in Names, Rename(i, name) PROVE KernelOK'
  <2> DEFINE addrs == kernel[i].addrs
             Further(k) == \E j \in 1..(k - 1) : addrs[j].family = "AF_INET"
             aliases == {k \in DOMAIN addrs : addrs[k].family = "AF_INET" /\ Further(k)}
             link == [kernel[i] EXCEPT !.name = name, !.aliases = aliases]
  <2>1. Change(i, link) /\ kernel[i] # NULL /\ Named(name) = {}
    BY <1>4 DEF Rename, Change, Present
  <2>2. LinkOK(kernel[i], boot[i]) /\ aliases \subseteq DOMAIN kernel[i].addrs
    BY <2>1 DEF KernelOK
  <2> HIDE DEF aliases
  <2>3. /\ DOMAIN link = LinkFields /\ link.name = name /\ link.aliases = aliases
        /\ link.addrs = kernel[i].addrs /\ link.flags = kernel[i].flags
    BY <2>2 DEF LinkOK, LinkFields
  <2> HIDE DEF link
  <2>4. LinkOK(link, boot[i])
    BY <2>2, <2>3 DEF LinkOK
  <2>5. \A j \in Indexes : ~(kernel[j] # NULL /\ kernel[j].name = link.name)
    BY <2>1, <2>3 DEF Named, Present
  <2>6. QED BY <2>1, <2>4, <2>5, ChangeOK
<1>5. RunStep => UNCHANGED <<kernel, boot>>
  BY DEF RunStep, Start, ListFails, GetFlags, GetHwaddr, FindIndex, GetIpv4, GetIpv6,
         NoDevice, CallFails, DumpKills
<1>6. QED BY <1>1, <1>2, <1>3, <1>4, <1>5 DEF Next, KernelStep, vars

\* The addresses that the kernel answers with are the interface's own.
LEMMA AddrsOfOK ==
  ASSUME KernelOK, NEW i \in Indexes, NEW family
  PROVE  /\ AddrsOf(i, family) \in Seq(Range(AddrsOf(i, family)))
         /\ \A a \in Range(AddrsOf(i, family)) :
              /\ kernel[i] # NULL /\ a \in Range(kernel[i].addrs) /\ a \in Range(boot[i].addrs)
              /\ a.family = family
<1>1. CASE ~Present(i)
  <2>1. AddrsOf(i, family) = <<>>
    BY <1>1 DEF AddrsOf
  <2>2. QED BY <2>1, NoElement
<1>2. CASE Present(i)
  <2> DEFINE addrs == kernel[i].addrs
             S == {a \in Range(addrs) : a.family = family}
  <2>1. AddrsOf(i, family) = Those(addrs, S)
    BY <1>2 DEF AddrsOf
  <2>2. addrs \in Seq(Range(addrs)) /\ addrs = boot[i].addrs /\ kernel[i] # NULL
    BY <1>2 DEF KernelOK, LinkOK, Present
  <2>3. Those(addrs, S) \in Seq(Range(addrs)) /\ Range(Those(addrs, S)) = Range(addrs) \cap S
    <3> HIDE DEF addrs, S
    <3>1. QED BY <2>2, ThoseOK
  <2>4. Those(addrs, S) \in Seq(Range(Those(addrs, S)))
    <3> HIDE DEF S, addrs
    <3>1. QED BY <2>3, SeqOfRange
  <2>5. QED BY <2>1, <2>2, <2>3, <2>4
<1>3. QED BY <1>1, <1>2

-----------------------------------------------------------------------------
(***************************************************************************)
(* What a step does to the program's state: r before, s after it.          *)
(***************************************************************************)

\* Only the fields in F may change.
Same(r, s, F) ==
  /\ DOMAIN r = RunFields /\ DOMAIN s = RunFields
  /\ \A x \in RunFields \ F : s[x] = r[x]

\* main() goes on with the devices in s.todo, or ends with status 0.
GoesOn(r, s) ==
  IF s.todo = <<>> THEN s.pc = "exit" /\ s.status = 0
  ELSE s.pc = "flags" /\ s.status = r.status

Started(r, s) ==
  /\ r.pc = "start" /\ Same(r, s, {"pc", "args", "sel", "todo", "status"})
  /\ s.args \in ArgLists /\ s.todo = s.sel /\ GoesOn(r, s)
  /\ s.sel = IF s.args = <<>> THEN ActiveDevices(IfAddrs) ELSE s.args

Begun(r, s, i) ==
  /\ r.pc = "flags" /\ Same(r, s, {"pc", "flags", "index", "block", "calm"})
  /\ i \in Answering(Head(r.todo)) /\ s.flags = GetFlagsOf(i) /\ s.index = -1
  /\ s.block = Block(Head(r.todo)) /\ s.calm = TRUE
  /\ s.pc = IF Has(s.flags, "IFF_LOOPBACK") THEN "index" ELSE "hwaddr"

\* The block b with the field x added.
Added(b, c, x) ==
  DOMAIN c = DOMAIN b /\ \A y \in DOMAIN b \ {x} : c[y] = b[y]

Addressed(r, s, i) ==
  /\ r.pc = "hwaddr" /\ s.pc = "index" /\ Same(r, s, {"pc", "block"})
  /\ i \in Answering(Head(r.todo)) /\ Added(r.block, s.block, "hwaddr")
  /\ s.block.hwaddr = kernel[i].mac

Found(r, s, i) ==
  /\ r.pc = "index" /\ s.pc = "inet" /\ Same(r, s, {"pc", "index"})
  /\ i \in Named(Head(r.todo)) /\ s.index = i

Inet(i, flags) ==
  [k \in DOMAIN AddrsOf(i, "AF_INET") |-> InetLine(AddrsOf(i, "AF_INET")[k], flags)]

Inet6(i) ==
  [k \in DOMAIN AddrsOf(i, "AF_INET6") |-> Inet6Line(AddrsOf(i, "AF_INET6")[k])]

Listed(r, s) ==
  /\ r.pc = "inet" /\ s.pc = "inet6" /\ Same(r, s, {"pc", "block"})
  /\ Added(r.block, s.block, "inet") /\ s.block.inet = Inet(r.index, r.flags)

\* The block b is complete.
Ended(r, s, b) ==
  /\ r.pc = "inet6" /\ Same(r, s, {"pc", "todo", "out", "block", "status"})
  /\ s.block = <<>> /\ s.out = Append(r.out, b) /\ s.todo = Tail(r.todo) /\ GoesOn(r, s)
  /\ DOMAIN b = BlockFields /\ b.name = r.block.name /\ b.hwaddr = r.block.hwaddr
  /\ b.inet = r.block.inet /\ b.inet6 = Inet6(r.index) /\ b.words = Flags2Str(r.flags)

Failed(r, s) ==
  /\ Same(r, s, {"pc", "status", "fault"}) /\ s.pc = "exit"
  /\ \/ r.pc = "start" /\ s.status = 1 /\ s.fault = TRUE
     \/ r.pc \in Active /\ s.status \in {2, 139} /\ s.fault = TRUE
     \/ /\ r.pc \in Active /\ s.status = 2 /\ s.fault = r.fault
        /\ \/ Answering(Head(r.todo)) = {}
           \/ r.pc = "index" /\ Named(Head(r.todo)) = {}

Changed(r, s) ==
  /\ r.pc # "exit" /\ Same(r, s, {"calm", "still"})
  /\ s.calm = FALSE /\ s.still = (r.pc = "start")

\* The types, and what belongs to each step.
RunOK ==
  /\ DOMAIN run = RunFields /\ run.pc \in {"start", "exit"} \cup Active
  /\ run.flags \in Short /\ run.index \in Indexes \cup {-1}
  /\ run.pc \in {"inet", "inet6"} => run.index \in Indexes
  /\ run.pc \in Open => DOMAIN run.block = BlockFields
  /\ run.pc \in {"start", "flags"} => run.block = <<>>
  /\ IF run.pc = "exit" THEN run.status \in {0, 1, 2, 139} ELSE run.status = NULL
  /\ run.calm \in BOOLEAN /\ run.still \in BOOLEAN /\ run.fault \in BOOLEAN

LEMMA StartShape ==
  ASSUME RunOK, NEW args \in ArgLists, Start(args)
  PROVE  Started(run, run')
<1> DEFINE sel == IF args = <<>> THEN ActiveDevices(IfAddrs) ELSE args
           r == [run EXCEPT !.args = args, !.sel = sel]
           s == run'
<1>1. run.pc = "start" /\ s = NextDevice(r, sel)
  BY DEF Start, At
<1> HIDE DEF s
<1>2. Same(run, r, {"args", "sel"}) /\ r.args = args /\ r.sel = sel
  BY DEF Same, RunOK, RunFields
<1> HIDE DEF r
<1>3. CASE sel = <<>>
  <2>1. s = [[r EXCEPT !.todo = <<>>] EXCEPT !.pc = "exit", !.status = 0]
    BY <1>1, <1>3 DEF NextDevice, Exit
  <2>2. /\ Same(r, s, {"pc", "todo", "status"}) /\ s.pc = "exit" /\ s.status = 0
        /\ s.todo = <<>>
    <3> HIDE DEF sel
    <3>1. QED BY <1>2, <2>1 DEF Same, RunFields
  <2>3. Same(run, s, {"pc", "args", "sel", "todo", "status"}) /\ s.args = args /\ s.sel = sel
    <3> HIDE DEF sel
    <3>1. QED BY <1>2, <2>2 DEF Same, RunFields
  <2>4. QED BY <1>1, <1>3, <2>2, <2>3 DEF Started, GoesOn, s
<1>4. CASE sel # <<>>
  <2>1. s = [r EXCEPT !.pc = "flags", !.todo = sel]
    BY <1>1, <1>4 DEF NextDevice
  <2>2. Same(r, s, {"pc", "todo"}) /\ s.pc = "flags" /\ s.todo = sel
    <3> HIDE DEF sel
    <3>1. QED BY <1>2, <2>1 DEF Same, RunFields
  <2>3. /\ Same(run, s, {"pc", "args", "sel", "todo", "status"}) /\ s.args = args /\ s.sel = sel
        /\ s.status = run.status
    <3> HIDE DEF sel
    <3>1. QED BY <1>2, <2>2 DEF Same, RunFields
  <2>4. QED BY <1>1, <1>4, <2>2, <2>3 DEF Started, GoesOn, s
<1>5. QED BY <1>3, <1>4

LEMMA FlagsShape ==
  ASSUME RunOK, GetFlags
  PROVE  \E i \in Indexes : Begun(run, run', i)
<1>1. PICK i \in Answering(Device) :
        run' = [run EXCEPT
                  !.pc = IF Has(GetFlagsOf(i), "IFF_LOOPBACK") THEN "index" ELSE "hwaddr",
                  !.flags = GetFlagsOf(i), !.index = -1, !.block = Block(Device),
                  !.calm = TRUE]
  BY DEF GetFlags
<1>2. i \in Indexes
  BY DEF Answering
<1>3. QED BY <1>1, <1>2 DEF Begun, Same, RunOK, RunFields, GetFlags, At, Device

LEMMA HwaddrShape ==
  ASSUME RunOK, GetHwaddr
  PROVE  \E i \in Indexes : Addressed(run, run', i)
<1>1. PICK i \in Answering(Device) :
        run' = [run EXCEPT !.pc = "index", !.block.hwaddr = kernel[i].mac]
  BY DEF GetHwaddr
<1>2. i \in Indexes
  BY DEF Answering
<1>3. DOMAIN run.block = BlockFields /\ DOMAIN run = RunFields
  BY DEF RunOK, GetHwaddr, At, Open
<1>4. QED
  BY <1>1, <1>2, <1>3
  DEF Addressed, Added, Same, RunFields, BlockFields, GetHwaddr, At, Device

LEMMA IndexShape ==
  ASSUME RunOK, FindIndex
  PROVE  \E i \in Indexes : Found(run, run', i)
BY DEF FindIndex, Found, Same, RunOK, RunFields, At, Device, Named

LEMMA Ipv4Shape ==
  ASSUME RunOK, GetIpv4
  PROVE  Listed(run, run')
<1>1. run.pc = "inet" /\ run' = [run EXCEPT !.pc = "inet6", !.block.inet = Inet(run.index, run.flags)]
  BY DEF GetIpv4, Inet, At
<1>2. DOMAIN run.block = BlockFields /\ DOMAIN run = RunFields
  BY <1>1 DEF RunOK, Open
<1>3. QED BY <1>1, <1>2 DEF Listed, Added, Same, RunFields, BlockFields

LEMMA Ipv6Shape ==
  ASSUME RunOK, GetIpv6
  PROVE  \E b : Ended(run, run', b)
<1> DEFINE b == [run.block EXCEPT !.inet6 = Inet6(run.index), !.words = Flags2Str(run.flags)]
           todo == Tail(run.todo)
           r == [run EXCEPT !.out = Append(@, b), !.block = <<>>]
           s == run'
<1>1. run.pc = "inet6" /\ s = NextDevice(r, todo)
  BY DEF GetIpv6, EndBlock, Inet6, At
<1> HIDE DEF s, todo
<1>2. DOMAIN run.block = BlockFields /\ DOMAIN run = RunFields
  BY <1>1 DEF RunOK, Open
<1>3. /\ DOMAIN b = BlockFields /\ b.name = run.block.name /\ b.hwaddr = run.block.hwaddr
      /\ b.inet = run.block.inet /\ b.inet6 = Inet6(run.index) /\ b.words = Flags2Str(run.flags)
  BY <1>2 DEF BlockFields
<1> HIDE DEF b
<1>4. Same(run, r, {"out", "block"}) /\ r.out = Append(run.out, b) /\ r.block = <<>>
  BY <1>2 DEF Same, RunFields
<1> HIDE DEF r
<1>5. CASE todo = <<>>
  <2>1. s = [[r EXCEPT !.todo = <<>>] EXCEPT !.pc = "exit", !.status = 0]
    BY <1>1, <1>5 DEF NextDevice, Exit
  <2>2. /\ Same(r, s, {"pc", "todo", "status"}) /\ s.pc = "exit" /\ s.status = 0
        /\ s.todo = <<>>
    BY <1>4, <2>1 DEF Same, RunFields
  <2>3. /\ Same(run, s, {"pc", "todo", "out", "block", "status"})
        /\ s.out = Append(run.out, b) /\ s.block = <<>>
    BY <1>4, <2>2 DEF Same, RunFields
  <2>4. QED BY <1>1, <1>3, <1>5, <2>2, <2>3 DEF Ended, GoesOn, s, todo
<1>6. CASE todo # <<>>
  <2>1. s = [r EXCEPT !.pc = "flags", !.todo = todo]
    BY <1>1, <1>6 DEF NextDevice
  <2>2. Same(r, s, {"pc", "todo"}) /\ s.pc = "flags" /\ s.todo = todo
    BY <1>4, <2>1 DEF Same, RunFields
  <2>3. /\ Same(run, s, {"pc", "todo", "out", "block", "status"})
        /\ s.out = Append(run.out, b) /\ s.block = <<>> /\ s.status = run.status
    BY <1>4, <2>2 DEF Same, RunFields
  <2>4. QED BY <1>1, <1>3, <1>6, <2>2, <2>3 DEF Ended, GoesOn, s, todo
<1>7. QED BY <1>5, <1>6

LEMMA FailShape ==
  ASSUME RunOK, ListFails \/ NoDevice \/ CallFails \/ DumpKills
  PROVE  Failed(run, run')
<1> USE DEF Failed, Same, RunOK, RunFields, Exit, Active, Open
<1>1. CASE ListFails
  BY <1>1 DEF ListFails, At
<1>2. CASE NoDevice
  BY <1>2 DEF NoDevice, ShowFails, Device, At
<1>3. CASE CallFails
  BY <1>3 DEF CallFails, ShowFails
<1>4. CASE DumpKills
  BY <1>4 DEF DumpKills
<1>5. QED BY <1>1, <1>2, <1>3, <1>4

LEMMA ChangeShape ==
  ASSUME RunOK, KernelStep
  PROVE  Changed(run, run')
<1>1. PICK i, link : Change(i, link)
  BY DEF KernelStep, Unplug, UpDown, Rename
<1>2. QED BY <1>1 DEF Change, Changed, Same, RunOK, RunFields

\* A step of the program is one of these.
LEMMA StepShape ==
  ASSUME RunOK, RunStep
  PROVE  \/ Started(run, run') \/ Listed(run, run') \/ Failed(run, run')
         \/ \E i \in Indexes : \/ Begun(run, run', i) \/ Addressed(run, run', i)
                               \/ Found(run, run', i)
         \/ \E b : Ended(run, run', b)
BY StartShape, FlagsShape, HwaddrShape, IndexShape, Ipv4Shape, Ipv6Shape, FailShape
DEF RunStep

-----------------------------------------------------------------------------
(***************************************************************************)
(* The types.                                                              *)
(***************************************************************************)
LEMMA NamedOK ==
  ASSUME KernelOK, NEW name, NEW i \in Named(name)
  PROVE  i \in Indexes /\ kernel[i] # NULL /\ kernel[i].name = name /\ LinkOK(kernel[i], boot[i])
BY DEF Named, Present, KernelOK

LEMMA AnsweringOK ==
  ASSUME KernelOK, NEW name, NEW i \in Answering(name)
  PROVE  /\ i \in Indexes /\ kernel[i] # NULL /\ LinkOK(kernel[i], boot[i])
         /\ name = kernel[i].name \/ name = Label[kernel[i].name]
BY DEF Answering, Present, KernelOK

\* An ioctl means one interface only.
LEMMA OneAnswers ==
  ASSUME KernelOK, NEW name, NEW i \in Answering(name), NEW j \in Answering(name)
  PROVE  i = j
<1> DEFINE m == kernel[i].name
           n == kernel[j].name
<1>1. /\ i \in Indexes /\ j \in Indexes /\ kernel[i] # NULL /\ kernel[j] # NULL
      /\ name = m \/ name = Label[m]
      /\ name = n \/ name = Label[n]
      /\ m \in Names /\ n \in Names
  BY AnsweringOK DEF LinkOK
<1>2. m = n
  <2> HIDE DEF m, n
  <2>1. QED BY <1>1, LabelAssumption
<1>3. QED BY <1>1, <1>2 DEF KernelOK

LEMMA RunInit ==
  ASSUME Init
  PROVE  RunOK
<1>1. run = NotStarted
  BY DEF Init
<1>2. /\ DOMAIN NotStarted = RunFields /\ NotStarted.pc = "start" /\ NotStarted.flags = 0
      /\ NotStarted.index = -1 /\ NotStarted.block = <<>> /\ NotStarted.status = NULL
      /\ NotStarted.calm = TRUE /\ NotStarted.still = TRUE /\ NotStarted.fault = FALSE
  BY DEF NotStarted, RunFields
<1> HIDE DEF NotStarted
<1>3. /\ run.calm \in BOOLEAN /\ run.still \in BOOLEAN /\ run.fault \in BOOLEAN
  BY <1>1, <1>2
<1>4. run.flags \in Short /\ run.pc \notin Open \cup {"inet", "inet6"}
  BY <1>1, <1>2 DEF Short, Open
<1>5. QED BY <1>1, <1>2, <1>3, <1>4 DEF RunOK

LEMMA RunNext ==
  ASSUME RunOK, KernelOK, [Next]_vars
  PROVE  RunOK'
<1> DEFINE r == run
           s == run'
<1>0. /\ DOMAIN r = RunFields /\ r.pc \in {"start", "exit"} \cup Active
      /\ r.flags \in Short /\ r.index \in Indexes \cup {-1}
      /\ r.pc \in {"inet", "inet6"} => r.index \in Indexes
      /\ r.pc \in Open => DOMAIN r.block = BlockFields
      /\ r.pc \in {"start", "flags"} => r.block = <<>>
      /\ IF r.pc = "exit" THEN r.status \in {0, 1, 2, 139} ELSE r.status = NULL
      /\ r.calm \in BOOLEAN /\ r.still \in BOOLEAN /\ r.fault \in BOOLEAN
  BY DEF RunOK
<1> SUFFICES /\ DOMAIN s = RunFields /\ s.pc \in {"start", "exit"} \cup Active
             /\ s.flags \in Short /\ s.index \in Indexes \cup {-1}
             /\ s.pc \in {"inet", "inet6"} => s.index \in Indexes
             /\ s.pc \in Open => DOMAIN s.block = BlockFields
             /\ s.pc \in {"start", "flags"} => s.block = <<>>
             /\ IF s.pc = "exit" THEN s.status \in {0, 1, 2, 139} ELSE s.status = NULL
             /\ s.calm \in BOOLEAN /\ s.still \in BOOLEAN /\ s.fault \in BOOLEAN
  BY DEF RunOK
<1>1. CASE UNCHANGED run
  BY <1>0, <1>1
<1> DEFINE changed == Changed(r, s)
           started == Started(r, s)
           listed == Listed(r, s)
           failed == Failed(r, s)
           Begins(i) == Begun(r, s, i)
           Addresses(i) == Addressed(r, s, i)
           Finds(i) == Found(r, s, i)
           Ends(b) == Ended(r, s, b)
<1>2. \/ UNCHANGED run \/ changed \/ started \/ listed \/ failed
      \/ \E i \in Indexes : Begins(i) \/ Addresses(i) \/ Finds(i)
      \/ \E b : Ends(b)
  BY StepShape, ChangeShape DEF Next, vars
<1> HIDE DEF r, s
<1> USE DEF Same, RunFields, Active, Open
<1>3. CASE changed
  BY <1>0, <1>3 DEF Changed
<1>4. CASE started
  BY <1>0, <1>4 DEF Started, GoesOn
<1>5. CASE listed
  BY <1>0, <1>5 DEF Listed, Added
<1>6. CASE failed
  BY <1>0, <1>6 DEF Failed
<1>7. ASSUME NEW i \in Indexes, Begins(i)
      PROVE  /\ DOMAIN s.block = BlockFields /\ s.flags \in Short /\ s.pc \in {"index", "hwaddr"}
             /\ s.index = -1 /\ s.status = r.status /\ DOMAIN s = RunFields /\ r.pc = "flags"
             /\ s.calm = TRUE /\ s.still = r.still /\ s.fault = r.fault
  <2>1. i \in Answering(Head(r.todo)) /\ s.flags = GetFlagsOf(i) /\ s.block = Block(Head(r.todo))
    BY <1>7 DEF Begun
  <2>2. s.flags \in Short
    BY <2>1, AnsweringOK, FlagsFitShort DEF LinkOK
  <2>3. DOMAIN s.block = BlockFields
    BY <2>1 DEF Block, BlockFields
  <2>4. QED BY <1>7, <2>2, <2>3 DEF Begun
<1>8. ASSUME NEW i \in Indexes, Addresses(i)
      PROVE  /\ r.pc = "hwaddr" /\ s.pc = "index" /\ DOMAIN s = RunFields
             /\ DOMAIN s.block = BlockFields /\ s.flags = r.flags /\ s.index = r.index
             /\ s.status = r.status /\ s.calm = r.calm /\ s.still = r.still /\ s.fault = r.fault
  BY <1>0, <1>8 DEF Addressed, Added
<1>9. ASSUME NEW i \in Indexes, Finds(i)
      PROVE  /\ r.pc = "index" /\ s.pc = "inet" /\ DOMAIN s = RunFields
             /\ s.block = r.block /\ s.flags = r.flags /\ s.index = i
             /\ s.status = r.status /\ s.calm = r.calm /\ s.still = r.still /\ s.fault = r.fault
  BY <1>0, <1>9 DEF Found
<1>10. ASSUME NEW b, Ends(b)
       PROVE  /\ r.pc = "inet6" /\ DOMAIN s = RunFields /\ s.block = <<>>
              /\ s.flags = r.flags /\ s.index = r.index
              /\ s.calm = r.calm /\ s.still = r.still /\ s.fault = r.fault
              /\ (s.pc = "exit" /\ s.status = 0) \/ (s.pc = "flags" /\ s.status = r.status)
  <2>1. /\ r.pc = "inet6" /\ Same(r, s, {"pc", "todo", "out", "block", "status"})
        /\ s.block = <<>> /\ GoesOn(r, s)
    BY <1>10 DEF Ended
  <2>2. QED BY <2>1 DEF GoesOn
<1> HIDE DEF changed, started, listed, failed, Begins, Addresses, Finds, Ends, Same, RunFields
<1>12. CASE \E i \in Indexes : Begins(i)
  BY <1>0, <1>7, <1>12
<1>13. CASE \E i \in Indexes : Addresses(i)
  BY <1>0, <1>8, <1>13
<1>14. CASE \E i \in Indexes : Finds(i)
  BY <1>0, <1>9, <1>14
<1>15. CASE \E b : Ends(b)
  BY <1>0, <1>10, <1>15
<1>16. QED BY <1>1, <1>2, <1>3, <1>4, <1>5, <1>6, <1>12, <1>13, <1>14, <1>15 DEF r, s

\* Every variable has its type, whatever fails and changes: flags fit into a
\* short, and the index is that of an interface when addresses are asked for.
THEOREM TypeCorrect == Spec => []TypeOK
<1>1. KernelOK /\ RunOK => TypeOK
  <2> SUFFICES ASSUME KernelOK, RunOK PROVE TypeOK
    OBVIOUS
  <2>1. \A i \in Indexes : Present(i) => kernel[i].name \in Names /\ kernel[i].flags \in 0..(2^16 - 1)
    BY DEF KernelOK, LinkOK, Present, UShort
  <2>2. run.pc \in {"hwaddr", "index", "inet", "inet6"} => run.block # <<>>
    <3>1. ASSUME DOMAIN run.block = BlockFields PROVE run.block # <<>>
      BY <3>1 DEF BlockFields
    <3>2. QED BY <3>1 DEF RunOK, Open
  <2>3. At("exit") <=> run.status \in {0, 1, 2, 139}
    BY NullAssumption DEF RunOK, At
  <2>4. QED BY <2>1, <2>2, <2>3 DEF TypeOK, RunOK, Short
<1>2. QED BY <1>1, KernelInit, KernelNext, RunInit, RunNext, PTL DEF Spec

-----------------------------------------------------------------------------
(***************************************************************************)
(* The list of devices: what is shown, and what is left to be shown.       *)
(***************************************************************************)
IsSeq(s) == s \in Seq(Range(s))

LEMMA LenOK ==
  ASSUME NEW s, IsSeq(s)
  PROVE  Len(s) \in Nat /\ DOMAIN s = 1..Len(s) /\ (s = <<>> <=> Len(s) = 0)
BY DEF IsSeq

LEMMA AppendOK ==
  ASSUME NEW s, IsSeq(s), NEW x
  PROVE  /\ IsSeq(Append(s, x)) /\ Len(Append(s, x)) = Len(s) + 1
         /\ \A k \in 1..Len(s) : Append(s, x)[k] = s[k]
         /\ Append(s, x)[Len(s) + 1] = x
<1> DEFINE T == Range(s) \cup {x}
<1>1. s \in Seq(T) /\ x \in T
  <2>1. \A k \in 1..Len(s) : s[k] \in Range(s)
    BY LenOK DEF Range
  <2> HIDE DEF T
  <2>2. Range(s) \subseteq T /\ x \in T
    BY DEF T
  <2>3. s \in Seq(Range(s))
    BY DEF IsSeq
  <2>4. QED BY <2>2, <2>3, SeqMonotonic
<1> HIDE DEF T
<1>2. Append(s, x) \in Seq(T)
  BY <1>1
<1>3. IsSeq(Append(s, x))
  BY <1>2, SeqOfRange DEF IsSeq
<1>4. QED BY <1>1, <1>3

LEMMA TailOK ==
  ASSUME NEW s, IsSeq(s), s # <<>>
  PROVE  /\ IsSeq(Tail(s)) /\ Len(Tail(s)) = Len(s) - 1
         /\ \A k \in 1..(Len(s) - 1) : Tail(s)[k] = s[k + 1]
         /\ Head(s) = s[1]
<1> DEFINE T == Range(s)
<1>1. s \in Seq(T)
  BY DEF IsSeq
<1> HIDE DEF T
<1>2. /\ Tail(s) \in Seq(T) /\ Len(Tail(s)) = Len(s) - 1 /\ Head(s) = s[1]
      /\ \A k \in 1..(Len(s) - 1) : Tail(s)[k] = s[k + 1]
  BY <1>1
<1>3. QED BY <1>2, SeqOfRange DEF IsSeq

\* The two parts of getifaddrs()'s list.
Entry(i, name) == [name |-> name, flags |-> kernel[i].flags]
LinkEntries ==
  FlattenSeq([i \in Indexes |-> IF Present(i) THEN <<Entry(i, kernel[i].name)>> ELSE <<>>])
AddressEntries ==
  FlattenSeq([i \in Indexes |->
    IF Present(i) THEN [k \in DOMAIN kernel[i].addrs |-> Entry(i, AddressName(i, k))] ELSE <<>>])

\* The entries that an interface may have, under its name and under its label.
NameEntries == {Entry(i, kernel[i].name) : i \in {j \in Indexes : Present(j)}}
LabelEntries ==
  {Entry(i, Label[kernel[i].name]) : i \in {j \in Indexes : Present(j) /\ kernel[j].aliases # {}}}

LEMMA LinkEntriesOK ==
  ASSUME KernelOK
  PROVE  LinkEntries \in Seq(NameEntries) /\ NameEntries \subseteq Range(LinkEntries)
<1> DEFINE T == NameEntries
           u == [i \in Indexes |-> IF Present(i) THEN <<Entry(i, kernel[i].name)>> ELSE <<>>]
<1>1. ASSUME NEW i \in Indexes
      PROVE  /\ u[i] \in Seq(T)
             /\ Present(i) => Entry(i, kernel[i].name) \in Range(u[i])
  <2> DEFINE e == Entry(i, kernel[i].name)
  <2>1. Present(i) => e \in T
    BY DEF NameEntries
  <2>2. u[i] = IF Present(i) THEN <<e>> ELSE <<>>
    OBVIOUS
  <2> HIDE DEF e, T, u
  <2>3. CASE Present(i)
    <3>1. u[i] = <<e>> /\ e \in T
      BY <2>1, <2>2, <2>3
    <3>2. u[i] \in Seq(T) /\ e \in Range(u[i])
      BY <3>1, Singleton
    <3>3. QED BY <3>2 DEF e
  <2>4. CASE ~Present(i)
    <3>1. u[i] = <<>> /\ <<>> \in Seq(T)
      BY <2>2, <2>4
    <3>2. QED BY <2>4, <3>1
  <2>5. QED BY <2>3, <2>4
<1>2. u = [i \in 1..MaxIndex |-> u[i]] /\ DOMAIN u = Indexes /\ Indexes = 1..MaxIndex
  BY DEF Indexes
<1> HIDE DEF T, u
<1>3. u \in Seq(Seq(T))
  BY <1>1, <1>2, IndexAssumption
<1>4. FlattenSeq(u) \in Seq(T)
  BY <1>3, FlattenOK
<1>5. ASSUME NEW i \in Indexes, Present(i)
      PROVE  Entry(i, kernel[i].name) \in Range(FlattenSeq(u))
  <2> DEFINE e == Entry(i, kernel[i].name)
  <2>1. e \in Range(u[i])
    BY <1>1, <1>5
  <2> HIDE DEF e
  <2>2. e \in Range(FlattenSeq(u))
    BY <1>2, <1>3, <2>1, FlattenMembers
  <2>3. QED BY <2>2 DEF e
<1>6. LinkEntries = FlattenSeq(u)
  BY DEF LinkEntries, u
<1>7. NameEntries \subseteq Range(FlattenSeq(u))
  BY <1>5 DEF NameEntries
<1>8. QED BY <1>4, <1>6, <1>7 DEF T

LEMMA AddressEntriesOK ==
  ASSUME KernelOK
  PROVE  /\ AddressEntries \in Seq(NameEntries \cup LabelEntries)
         /\ LabelEntries \subseteq Range(AddressEntries)
<1> DEFINE T == NameEntries \cup LabelEntries
           E(i) == [k \in DOMAIN kernel[i].addrs |-> Entry(i, AddressName(i, k))]
           v == [i \in Indexes |-> IF Present(i) THEN E(i) ELSE <<>>]
<1>1. ASSUME NEW i \in Indexes, Present(i)
      PROVE  /\ E(i) \in Seq(T)
             /\ \A k \in kernel[i].aliases : Entry(i, Label[kernel[i].name]) \in Range(E(i))
  <2> DEFINE addrs == kernel[i].addrs
             e == E(i)
             x == Entry(i, Label[kernel[i].name])
  <2>1. addrs \in Seq(Range(addrs)) /\ kernel[i].aliases \subseteq DOMAIN addrs
    BY <1>1 DEF KernelOK, LinkOK, Present
  <2>2. ASSUME NEW k \in DOMAIN addrs
        PROVE  e[k] \in T /\ (k \in kernel[i].aliases => e[k] = x)
    <3>1. CASE k \in kernel[i].aliases
      <4>1. x \in LabelEntries /\ e[k] = x
        BY <1>1, <3>1 DEF LabelEntries, AddressName
      <4> HIDE DEF e, x
      <4>2. QED BY <4>1
    <3>2. CASE k \notin kernel[i].aliases
      <4>1. e[k] \in NameEntries
        BY <1>1, <3>2 DEF NameEntries, AddressName
      <4> HIDE DEF e
      <4>2. QED BY <3>2, <4>1
    <3>3. QED BY <3>1, <3>2
  <2>3. DOMAIN addrs = 1..Len(addrs) /\ Len(addrs) \in Nat
    <3> HIDE DEF addrs
    <3>1. QED BY <2>1
  <2>4. e = [k \in 1..Len(addrs) |-> e[k]] /\ DOMAIN e = DOMAIN addrs
    BY <2>3
  <2> HIDE DEF e, T, addrs, x
  <2>5. e \in Seq(T)
    BY <2>2, <2>3, <2>4
  <2>6. \A k \in kernel[i].aliases : x \in Range(e)
    BY <2>1, <2>2, <2>4 DEF Range
  <2>7. QED BY <2>5, <2>6 DEF e, x
<1>2. ASSUME NEW i \in Indexes PROVE v[i] = IF Present(i) THEN E(i) ELSE <<>>
  OBVIOUS
<1>3. v = [i \in 1..MaxIndex |-> v[i]] /\ DOMAIN v = Indexes /\ Indexes = 1..MaxIndex
  BY DEF Indexes
<1>4. AddressEntries = FlattenSeq(v)
  BY DEF AddressEntries
<1> HIDE DEF T, v, E
<1>5. \A i \in Indexes : v[i] \in Seq(T)
  <2>1. <<>> \in Seq(T)
    OBVIOUS
  <2>2. QED BY <1>1, <1>2, <2>1
<1>6. v \in Seq(Seq(T))
  BY <1>3, <1>5, IndexAssumption
<1>7. FlattenSeq(v) \in Seq(T)
  BY <1>6, FlattenOK
<1>8. ASSUME NEW i \in Indexes, Present(i), NEW k \in kernel[i].aliases
      PROVE  Entry(i, Label[kernel[i].name]) \in Range(FlattenSeq(v))
  <2> DEFINE x == Entry(i, Label[kernel[i].name])
  <2>1. x \in Range(v[i])
    BY <1>1, <1>2, <1>8
  <2> HIDE DEF x
  <2>2. x \in Range(FlattenSeq(v))
    BY <1>3, <1>6, <2>1, FlattenMembers
  <2>3. QED BY <2>2 DEF x
<1>9. LabelEntries \subseteq Range(FlattenSeq(v))
  BY <1>8 DEF LabelEntries
<1>10. QED BY <1>4, <1>7, <1>9 DEF T

\* An entry of interface i, under its name or under its label.
UnderName(e, i) == kernel[i] # NULL /\ e.name = kernel[i].name /\ e.flags = kernel[i].flags
UnderLabel(e, i) ==
  /\ kernel[i] # NULL /\ kernel[i].aliases # {}
  /\ e.name = Label[kernel[i].name] /\ e.flags = kernel[i].flags

\* getifaddrs() lists the interfaces that are present, and their labels: in its
\* first N entries there are all interfaces and no label.
Complete(ifaddrs, N) ==
  /\ \A n \in DOMAIN ifaddrs : \E i \in Indexes :
       UnderName(ifaddrs[n], i) \/ UnderLabel(ifaddrs[n], i)
  /\ \A n \in DOMAIN ifaddrs : n <= N => \E i \in Indexes : UnderName(ifaddrs[n], i)
  /\ \A i \in Indexes : kernel[i] # NULL =>
       \E n \in DOMAIN ifaddrs : n <= N /\ UnderName(ifaddrs[n], i)
  /\ \A i \in Indexes : kernel[i] # NULL /\ kernel[i].aliases # {} =>
       \E n \in DOMAIN ifaddrs : UnderLabel(ifaddrs[n], i)

LEMMA IfAddrsOK ==
  ASSUME KernelOK
  PROVE  /\ \E T : IfAddrs \in Seq(T)
         /\ \E N \in Nat : Complete(IfAddrs, N)
<1> DEFINE T == NameEntries \cup LabelEntries
           u == LinkEntries
           v == AddressEntries
           w == IfAddrs
           N == Len(u)
<1>1. w = u \o v
  BY DEF IfAddrs, LinkEntries, AddressEntries, Entry
<1>2. /\ u \in Seq(NameEntries) /\ NameEntries \subseteq Range(u)
      /\ v \in Seq(T) /\ LabelEntries \subseteq Range(v)
  BY LinkEntriesOK, AddressEntriesOK
<1>3. \A e \in NameEntries : \E i \in Indexes : UnderName(e, i)
  BY DEF NameEntries, UnderName, Entry, Present
<1>4. \A e \in LabelEntries : \E i \in Indexes : UnderLabel(e, i)
  BY DEF LabelEntries, UnderLabel, Entry, Present
<1>5. ASSUME NEW i \in Indexes, kernel[i] # NULL
      PROVE  \E e \in NameEntries : UnderName(e, i)
  <2>1. Entry(i, kernel[i].name) \in NameEntries
    BY <1>5 DEF NameEntries, Present
  <2>2. UnderName(Entry(i, kernel[i].name), i)
    BY <1>5 DEF UnderName, Entry
  <2>3. QED BY <2>1, <2>2
<1>6. ASSUME NEW i \in Indexes, kernel[i] # NULL, kernel[i].aliases # {}
      PROVE  \E e \in LabelEntries : UnderLabel(e, i)
  <2>1. Entry(i, Label[kernel[i].name]) \in LabelEntries
    BY <1>6 DEF LabelEntries, Present
  <2>2. UnderLabel(Entry(i, Label[kernel[i].name]), i)
    BY <1>6 DEF UnderLabel, Entry
  <2>3. QED BY <2>1, <2>2
<1>7. \A e \in T : e \in NameEntries \/ e \in LabelEntries
  OBVIOUS
<1>8. u \in Seq(T)
  <2>1. NameEntries \subseteq T
    OBVIOUS
  <2> HIDE DEF T, u
  <2>2. QED BY <1>2, <2>1, SeqMonotonic
<1> HIDE DEF T, u, v, w, N
<1>9. /\ w \in Seq(T) /\ N \in Nat /\ DOMAIN u = 1..N /\ DOMAIN w = 1..(N + Len(v))
      /\ DOMAIN v = 1..Len(v) /\ Len(v) \in Nat
      /\ \A n \in 1..N : w[n] = u[n]
      /\ \A n \in 1..Len(v) : w[N + n] = v[n]
  BY <1>1, <1>2, <1>8 DEF N
<1>10. \A n \in DOMAIN w : w[n] \in T
  BY <1>9
<1>11. \A n \in DOMAIN w : n <= N => w[n] \in NameEntries
  BY <1>2, <1>9
<1>12. ASSUME NEW e \in NameEntries PROVE \E n \in DOMAIN w : n <= N /\ w[n] = e
  <2>1. PICK n \in DOMAIN u : u[n] = e
    BY <1>2 DEF Range
  <2>2. n \in DOMAIN w /\ n <= N /\ w[n] = e
    BY <1>9, <2>1
  <2>3. QED BY <2>2
<1>13. ASSUME NEW e \in LabelEntries PROVE \E n \in DOMAIN w : w[n] = e
  <2>1. PICK n \in DOMAIN v : v[n] = e
    BY <1>2 DEF Range
  <2>2. N + n \in DOMAIN w /\ w[N + n] = e
    BY <1>9, <2>1
  <2>3. QED BY <2>2
<1>14. Complete(w, N)
  BY <1>3, <1>4, <1>5, <1>6, <1>7, <1>10, <1>11, <1>12, <1>13 DEF Complete
<1>15. QED BY <1>9, <1>14 DEF w

IsUp(x) ==
  \E i \in Indexes : kernel[i] # NULL /\ kernel[i].name = x /\ Has(kernel[i].flags, "IFF_UP")

\* x is the label of an interface that is up.
IsLabel(x) ==
  \E i \in Indexes : /\ kernel[i] # NULL /\ Has(kernel[i].flags, "IFF_UP")
                      /\ kernel[i].aliases # {} /\ x = Label[kernel[i].name]

\* The interfaces that are up, each of them once, and their labels.
AllUp(sel) ==
  /\ IsInjective(sel) /\ \A x : x \in Range(sel) <=> IsUp(x) \/ IsLabel(x)
  /\ \A j, k \in DOMAIN sel : j < k /\ sel[k] \in Names => sel[j] \in Names

LEMMA NamesAndLabels ==
  ASSUME KernelOK, NEW x
  PROVE  (IsUp(x) => x \in Names) /\ (IsLabel(x) => x \notin Names)
BY LabelAssumption DEF IsUp, IsLabel, KernelOK, LinkOK

\* Without arguments the interfaces that are up are selected, each of them
\* once, and after them their labels.
LEMMA Selection ==
  ASSUME KernelOK
  PROVE  IsSeq(ActiveDevices(IfAddrs)) /\ AllUp(ActiveDevices(IfAddrs))
<1>1. PICK T : IfAddrs \in Seq(T)
  BY IfAddrsOK
<1>2. PICK N \in Nat : Complete(IfAddrs, N)
  BY IfAddrsOK
<1> DEFINE U == {ifa.name : ifa \in T}
           Up(x) == Has(x, "IFF_UP")
           sel == ActiveDevices(IfAddrs)
           w == IfAddrs
<1>3. /\ sel \in Seq(U) /\ IsInjective(sel)
      /\ \A x : x \in Range(sel) <=> \E n \in DOMAIN w : w[n].name = x /\ Up(w[n].flags)
  BY <1>1, ActiveOnce
<1>4. ASSUME NEW j \in DOMAIN sel, NEW k \in DOMAIN sel, j < k
      PROVE  \E m, n \in DOMAIN w : /\ m <= n /\ w[m].name = sel[j] /\ w[n].name = sel[k]
                                     /\ ~InList(w, n) /\ Up(w[n].flags)
  BY <1>1, <1>4, ActiveInOrder
<1>5. DOMAIN w = 1..Len(w) /\ Len(w) \in Nat
  BY <1>1
<1>6. ASSUME NEW n, ~InList(w, n), NEW j \in 1..(n - 1), w[j].name = w[n].name, Up(w[j].flags)
      PROVE  FALSE
  BY <1>6 DEF InList
<1> HIDE DEF U, Up, sel, w
<1>7. IsSeq(sel)
  BY <1>3, SeqOfRange DEF IsSeq
<1>8. ASSUME NEW x
      PROVE  (\E n \in DOMAIN w : w[n].name = x /\ Up(w[n].flags)) <=> IsUp(x) \/ IsLabel(x)
  <2>1. ASSUME NEW n \in DOMAIN w, w[n].name = x, Up(w[n].flags) PROVE IsUp(x) \/ IsLabel(x)
    BY <1>2, <2>1 DEF Complete, UnderName, UnderLabel, IsUp, IsLabel, w, Up
  <2>2. ASSUME IsUp(x) PROVE \E n \in DOMAIN w : w[n].name = x /\ Up(w[n].flags)
    BY <1>2, <2>2 DEF Complete, UnderName, IsUp, w, Up
  <2>3. ASSUME IsLabel(x) PROVE \E n \in DOMAIN w : w[n].name = x /\ Up(w[n].flags)
    BY <1>2, <2>3 DEF Complete, UnderLabel, IsLabel, w, Up
  <2>4. QED BY <2>1, <2>2, <2>3
<1>9. ASSUME NEW j \in DOMAIN sel, NEW k \in DOMAIN sel, j < k, sel[k] \in Names,
             sel[j] \notin Names
      PROVE  FALSE
  <2>1. PICK m, n \in DOMAIN w : /\ m <= n /\ w[m].name = sel[j] /\ w[n].name = sel[k]
                                 /\ ~InList(w, n) /\ Up(w[n].flags)
    BY <1>4, <1>9
  <2>2. m > N
    <3> SUFFICES ASSUME m <= N PROVE FALSE
      BY <1>5
    <3>1. PICK i \in Indexes : UnderName(w[m], i)
      BY <1>2 DEF Complete, w
    <3>2. w[m].name \in Names
      BY <3>1 DEF UnderName, KernelOK, LinkOK
    <3>3. QED BY <1>9, <2>1, <3>2
  <2>3. PICK i \in Indexes : UnderName(w[n], i) \/ UnderLabel(w[n], i)
    BY <1>2 DEF Complete, w
  <2>4. UnderName(w[n], i)
    BY <1>9, <2>1, <2>3, LabelAssumption DEF UnderLabel, KernelOK, LinkOK
  <2>5. PICK a \in DOMAIN w : a <= N /\ UnderName(w[a], i)
    BY <1>2, <2>4 DEF Complete, UnderName, w
  <2>6. a \in 1..(n - 1)
    BY <1>5, <2>1, <2>2, <2>5
  <2>7. w[a].name = w[n].name /\ Up(w[a].flags)
    BY <2>1, <2>4, <2>5 DEF UnderName
  <2>8. QED BY <1>6, <2>1, <2>6, <2>7
<1>10. AllUp(sel)
  BY <1>3, <1>8, <1>9 DEF AllUp
<1>11. QED BY <1>7, <1>10 DEF sel

\* The blocks in out are those of the first devices selected; the devices in
\* todo are the others.
Lists(r) ==
  /\ IsSeq(r.sel) /\ IsSeq(r.todo) /\ IsSeq(r.out)
  /\ r.pc = "start" => r.out = <<>> /\ r.sel = <<>>
  /\ \A k \in 1..Len(r.out) : k <= Len(r.sel) /\ r.out[k].name = r.sel[k]
  /\ r.pc \in Active =>
       /\ r.todo # <<>> /\ Len(r.out) + Len(r.todo) = Len(r.sel)
       /\ \A k \in 1..Len(r.todo) : r.todo[k] = r.sel[Len(r.out) + k]
  /\ r.pc \in Open => r.block.name = Head(r.todo)
  /\ r.pc = "exit" =>
       /\ r.status = 0 => Len(r.out) = Len(r.sel)
       /\ r.status \in {2, 139} => Len(r.out) < Len(r.sel)

LEMMA ListInit ==
  ASSUME Init
  PROVE  Lists(run)
<1>1. run = NotStarted
  BY DEF Init
<1>2. /\ NotStarted.sel = <<>> /\ NotStarted.todo = <<>> /\ NotStarted.out = <<>>
      /\ NotStarted.pc = "start"
  BY DEF NotStarted
<1> HIDE DEF NotStarted
<1>3. IsSeq(<<>>) /\ Len(<<>>) = 0
  BY DEF IsSeq
<1>4. QED BY <1>1, <1>2, <1>3 DEF Lists, Active, Open

LEMMA ListEnded ==
  ASSUME NEW r, Lists(r), NEW s, NEW b, Ended(r, s, b)
  PROVE  Lists(s)
<1>1. /\ IsSeq(r.sel) /\ IsSeq(r.todo) /\ IsSeq(r.out)
      /\ \A k \in 1..Len(r.out) : k <= Len(r.sel) /\ r.out[k].name = r.sel[k]
      /\ r.pc = "inet6" /\ r.todo # <<>> /\ Len(r.out) + Len(r.todo) = Len(r.sel)
      /\ \A k \in 1..Len(r.todo) : r.todo[k] = r.sel[Len(r.out) + k]
      /\ r.block.name = Head(r.todo)
  BY DEF Lists, Ended, Active, Open
<1>2. /\ s.sel = r.sel /\ s.out = Append(r.out, b) /\ s.todo = Tail(r.todo)
      /\ GoesOn(r, s) /\ b.name = Head(r.todo)
  BY <1>1 DEF Ended, Same, RunFields
<1>3. /\ Len(r.sel) \in Nat /\ Len(r.todo) \in Nat /\ Len(r.out) \in Nat /\ Len(r.todo) # 0
  BY <1>1, LenOK
<1> DEFINE out == s.out
           todo == s.todo
           sel == s.sel
           n == Len(r.out)
           m == Len(r.todo)
<1>4. /\ IsSeq(out) /\ Len(out) = n + 1 /\ out[n + 1] = b
      /\ \A k \in 1..n : out[k] = r.out[k]
  BY <1>1, <1>2, AppendOK
<1>5. /\ IsSeq(todo) /\ Len(todo) = m - 1 /\ Head(r.todo) = r.todo[1]
      /\ \A k \in 1..(m - 1) : todo[k] = r.todo[k + 1]
  BY <1>1, <1>2, TailOK
<1>a. m \in Nat /\ n \in Nat /\ m # 0 /\ Len(r.sel) \in Nat
  BY <1>3
<1>b. n + m = Len(r.sel)
  BY <1>1
<1>c. \A k \in 1..m : r.todo[k] = r.sel[n + k]
  BY <1>1
<1>d. \A k \in 1..n : k <= Len(r.sel) /\ r.out[k].name = r.sel[k]
  BY <1>1
<1>e. sel = r.sel /\ b.name = r.todo[1]
  BY <1>2, <1>5
<1> HIDE DEF out, todo, n, m, sel
<1>6. todo = <<>> <=> m = 1
  <2>1. todo = <<>> <=> Len(todo) = 0
    BY <1>5, LenOK
  <2>2. QED BY <1>a, <1>5, <2>1
<1>7. ASSUME NEW k \in 1..Len(out) PROVE k <= Len(sel) /\ out[k].name = sel[k]
  <2>1. CASE k \in 1..n
    BY <1>d, <1>e, <1>4, <2>1
  <2>2. CASE k = n + 1
    <3>1. 1 \in 1..m /\ n + 1 <= Len(r.sel)
      BY <1>a, <1>b
    <3>2. b.name = r.sel[n + 1]
      BY <1>c, <1>e, <3>1
    <3>3. QED BY <1>e, <1>4, <2>2, <3>1, <3>2
  <2>3. QED BY <1>a, <1>4, <2>1, <2>2
<1>8. Len(out) + Len(todo) = Len(sel)
  BY <1>a, <1>b, <1>e, <1>4, <1>5
<1>9. ASSUME NEW k \in 1..Len(todo) PROVE todo[k] = sel[Len(out) + k]
  <2>1. k \in 1..(m - 1) /\ k + 1 \in 1..m /\ n + (k + 1) = Len(out) + k
    BY <1>a, <1>4, <1>5
  <2>2. r.todo[k + 1] = r.sel[n + (k + 1)]
    BY <1>c, <2>1
  <2>3. QED BY <1>e, <1>5, <2>1, <2>2
<1>10. (s.pc = "exit" /\ s.status = 0 /\ todo = <<>>) \/ (s.pc = "flags" /\ todo # <<>>)
  BY <1>2 DEF GoesOn, todo
<1>11. s.pc = "exit" => Len(out) = Len(sel)
  BY <1>a, <1>4, <1>5, <1>6, <1>8, <1>10
<1>12. IsSeq(sel)
  BY <1>1, <1>e
<1>13. QED
  BY <1>4, <1>5, <1>7, <1>8, <1>9, <1>10, <1>11, <1>12 DEF Lists, Active, Open, out, todo, sel

LEMMA ListNext ==
  ASSUME RunOK, KernelOK, Lists(run), [Next]_vars
  PROVE  Lists(run')
<1> DEFINE r == run
           s == run'
<1> SUFFICES Lists(s)
  OBVIOUS
<1>0. Lists(r) /\ r.pc \in {"start", "exit"} \cup Active
  BY DEF RunOK
<1>1. CASE UNCHANGED run
  BY <1>1
<1>2. \/ UNCHANGED run \/ Changed(r, s) \/ Started(r, s) \/ Listed(r, s) \/ Failed(r, s)
      \/ \E i \in Indexes : Begun(r, s, i) \/ Addressed(r, s, i) \/ Found(r, s, i)
      \/ \E b : Ended(r, s, b)
  BY StepShape, ChangeShape DEF Next, vars
<1> HIDE DEF r, s
<1>3. ASSUME s.pc = r.pc, s.sel = r.sel, s.todo = r.todo, s.out = r.out, s.block = r.block,
             s.status = r.status
      PROVE  Lists(s)
  BY <1>0, <1>3 DEF Lists
<1>4. ASSUME r.pc \in Active, s.pc \in Open, s.sel = r.sel, s.todo = r.todo, s.out = r.out,
             s.block.name = Head(r.todo)
      PROVE  Lists(s)
  BY <1>0, <1>4 DEF Lists, Active, Open
<1> USE DEF Same, RunFields
<1>5. CASE Changed(r, s)
  <2>1. /\ s.pc = r.pc /\ s.sel = r.sel /\ s.todo = r.todo /\ s.out = r.out /\ s.block = r.block
        /\ s.status = r.status
    BY <1>5 DEF Changed
  <2> HIDE DEF Same, RunFields
  <2>2. QED BY <1>3, <2>1
<1>6. CASE Started(r, s)
  <2>1. /\ r.pc = "start" /\ s.todo = s.sel /\ s.out = r.out /\ s.args \in ArgLists
        /\ s.sel = IF s.args = <<>> THEN ActiveDevices(IfAddrs) ELSE s.args
        /\ (s.pc = "exit" /\ s.status = 0 /\ s.sel = <<>>) \/ (s.pc = "flags" /\ s.sel # <<>>)
    BY <1>6 DEF Started, GoesOn
  <2>2. IsSeq(s.sel)
    BY <2>1, Selection, ArgsAssumption DEF IsSeq
  <2>3. s.out = <<>> /\ Len(s.out) = 0 /\ Len(<<>>) = 0 /\ IsSeq(s.out)
    BY <1>0, <2>1 DEF Lists
  <2>4. Len(s.sel) \in Nat
    BY <2>2, LenOK
  <2>5. QED BY <2>1, <2>2, <2>3, <2>4 DEF Lists, Active, Open
<1>7. CASE Listed(r, s)
  <2>1. /\ r.pc = "inet" /\ s.pc = "inet6" /\ Added(r.block, s.block, "inet")
        /\ s.sel = r.sel /\ s.todo = r.todo /\ s.out = r.out
    BY <1>7 DEF Listed
  <2>2. DOMAIN r.block = BlockFields
    BY <2>1 DEF RunOK, r, Open
  <2>3. s.block.name = r.block.name
    BY <2>1, <2>2 DEF Added, BlockFields
  <2>4. r.block.name = Head(r.todo)
    BY <1>0, <2>1 DEF Lists, Open
  <2>5. QED BY <1>4, <2>1, <2>3, <2>4 DEF Active, Open
<1>8. CASE Failed(r, s)
  <2>1. /\ s.pc = "exit" /\ s.sel = r.sel /\ s.todo = r.todo /\ s.out = r.out
        /\ (r.pc = "start" /\ s.status = 1) \/ (r.pc \in Active /\ s.status \in {2, 139})
    BY <1>8 DEF Failed
  <2>2. CASE r.pc = "start"
    BY <1>0, <2>1, <2>2 DEF Lists, Active, Open
  <2>3. CASE r.pc \in Active
    <3> DEFINE n == Len(r.out)
               m == Len(r.todo)
    <3>1. n < Len(r.sel)
      <4>1. /\ IsSeq(r.sel) /\ IsSeq(r.todo) /\ IsSeq(r.out)
            /\ r.todo # <<>> /\ n + m = Len(r.sel)
        BY <1>0, <2>3 DEF Lists
      <4>2. Len(r.sel) \in Nat /\ m \in Nat /\ n \in Nat /\ m # 0
        BY <4>1, LenOK
      <4> HIDE DEF n, m
      <4>3. QED BY <4>1, <4>2
    <3>2. s.status # 0 /\ s.status # 1
      BY <2>1, <2>3 DEF Active, Open
    <3>3. QED BY <1>0, <2>1, <3>1, <3>2 DEF Lists, Active, Open
  <2>4. QED BY <2>1, <2>2, <2>3
<1>9. ASSUME NEW i \in Indexes, Begun(r, s, i) PROVE Lists(s)
  <2>1. /\ r.pc = "flags" /\ s.pc \in Open /\ s.block = Block(Head(r.todo))
        /\ s.sel = r.sel /\ s.todo = r.todo /\ s.out = r.out
    BY <1>9 DEF Begun, Open
  <2>2. s.block.name = Head(r.todo)
    BY <2>1 DEF Block
  <2>3. QED BY <1>4, <2>1, <2>2 DEF Active
<1>10. ASSUME NEW i \in Indexes, Addressed(r, s, i) PROVE Lists(s)
  <2>1. /\ r.pc = "hwaddr" /\ s.pc = "index" /\ Added(r.block, s.block, "hwaddr")
        /\ s.sel = r.sel /\ s.todo = r.todo /\ s.out = r.out
    BY <1>10 DEF Addressed
  <2>2. DOMAIN r.block = BlockFields
    BY <2>1 DEF RunOK, r, Open
  <2>3. s.block.name = r.block.name
    BY <2>1, <2>2 DEF Added, BlockFields
  <2>4. r.block.name = Head(r.todo)
    BY <1>0, <2>1 DEF Lists, Open
  <2>5. QED BY <1>4, <2>1, <2>3, <2>4 DEF Active, Open
<1>11. ASSUME NEW i \in Indexes, Found(r, s, i) PROVE Lists(s)
  <2>1. /\ r.pc = "index" /\ s.pc = "inet" /\ s.block = r.block
        /\ s.sel = r.sel /\ s.todo = r.todo /\ s.out = r.out
    BY <1>11 DEF Found
  <2>2. r.block.name = Head(r.todo)
    BY <1>0, <2>1 DEF Lists, Open
  <2>3. QED BY <1>4, <2>1, <2>2 DEF Active, Open
<1>12. (\E b : Ended(r, s, b)) => Lists(s)
  BY <1>0, ListEnded
<1>13. QED BY <1>0, <1>1, <1>2, <1>5, <1>6, <1>7, <1>8, <1>9, <1>10, <1>11, <1>12 DEF r, s

ListOK == Lists(run)

\* What every step relies on.
Basics == KernelOK /\ RunOK /\ ListOK

LEMMA BasicsInductive ==
  /\ Init => Basics
  /\ Basics /\ [Next]_vars => Basics'
<1>1. Init => Basics
  BY KernelInit, RunInit, ListInit DEF Basics, ListOK
<1>2. Basics /\ [Next]_vars => Basics'
  <2> SUFFICES ASSUME KernelOK, RunOK, Lists(run), [Next]_vars PROVE Basics'
    BY DEF Basics, ListOK
  <2>1. KernelOK' /\ RunOK' /\ Lists(run')
    BY KernelNext, RunNext, ListNext
  <2>2. QED BY <2>1 DEF Basics, ListOK
<1>3. QED BY <1>1, <1>2

\* Status 0 means that all selected devices were shown, in order and to the
\* end; otherwise those up to the first failure were.
THEOREM StatusTells == Spec => []ExitStatus
<1>1. Basics => ExitStatus
  <2> SUFFICES ASSUME RunOK, Lists(run), At("exit") PROVE ExitStatus
    BY DEF ExitStatus, Basics, ListOK
  <2> DEFINE names == [k \in DOMAIN run.out |-> run.out[k].name]
             N == Len(run.out)
  <2>1. /\ IsSeq(run.sel) /\ IsSeq(run.out) /\ run.status \in {0, 1, 2, 139}
        /\ \A k \in 1..N : k <= Len(run.sel) /\ run.out[k].name = run.sel[k]
        /\ run.status = 0 => N = Len(run.sel)
        /\ run.status \in {2, 139} => N < Len(run.sel)
    BY DEF Lists, RunOK, At
  <2>2. /\ N \in Nat /\ Len(run.sel) \in Nat /\ DOMAIN run.out = 1..N
        /\ DOMAIN run.sel = 1..Len(run.sel)
    BY <2>1, LenOK
  <2>3. N <= Len(run.sel)
    <3>1. N = 0 \/ N \in 1..N
      BY <2>2
    <3>2. QED BY <2>1, <2>2, <3>1
  <2> DEFINE T == Range(run.sel)
  <2>4. run.sel \in Seq(T) /\ \A k \in 1..N : run.sel[k] \in T
    <3> HIDE DEF N
    <3>1. \A k \in 1..N : k \in DOMAIN run.sel
      BY <2>2, <2>3
    <3>2. QED BY <2>1, <3>1 DEF IsSeq, Range
  <2> HIDE DEF T, N
  <2>5. names \in Seq(T) /\ Len(names) = N /\ \A k \in 1..N : names[k] = run.sel[k]
    <3>1. \A k \in 1..N : run.out[k].name = run.sel[k] /\ run.sel[k] \in T
      BY <2>1, <2>4
    <3>2. names = [k \in 1..N |-> run.sel[k]]
      BY <2>2, <3>1
    <3> HIDE DEF names
    <3>3. QED BY <2>2, <3>1, <3>2
  <2> HIDE DEF names
  <2>6. N = Len(run.sel) => names = run.sel
    BY <2>2, <2>4, <2>5, SeqEqual
  <2>7. N # Len(run.sel) => names # run.sel
    BY <2>5
  <2>8. IsPrefix(names, run.sel)
    <3>1. SubSeq(names, 1, N) = SubSeq(run.sel, 1, N)
      BY <2>2, <2>3, <2>4, <2>5
    <3>2. QED BY <2>3, <2>5, <3>1 DEF IsPrefix
  <2>9. /\ run.status = 0 => names = run.sel
        /\ run.status # 0 /\ run.status # 1 => names # run.sel
    <3>1. run.status = 0 \/ run.status = 1 \/ run.status \in {2, 139}
      BY <2>1
    <3>2. run.status \in {2, 139} => names # run.sel
      BY <2>1, <2>2, <2>7
    <3>3. QED BY <2>1, <2>6, <3>1, <3>2
  <2>10. QED BY <2>8, <2>9 DEF ExitStatus, names
<1>2. QED BY <1>1, BasicsInductive, PTL DEF Spec

-----------------------------------------------------------------------------
(***************************************************************************)
(* All addresses of a block belong to one interface.                       *)
(***************************************************************************)
OfOne(b) == \E i \in Indexes : boot[i] # NULL /\ Shown(b) \subseteq Configured(i)

\* The addresses in a list of lines.
Printed(lines) == {line.address : line \in Range(lines)}

\* What has been printed of the open block belongs to the interface whose
\* addresses are asked for next.
Ones(r) ==
  /\ \A k \in 1..Len(r.out) : OfOne(r.out[k])
  /\ r.pc \in {"inet", "inet6"} => boot[r.index] # NULL
  /\ r.pc = "inet6" => Printed(r.block.inet) \subseteq Configured(r.index)

LEMMA PrintedOK ==
  ASSUME KernelOK, NEW i \in Indexes, NEW flags
  PROVE  Printed(Inet(i, flags)) \subseteq Configured(i) /\ Printed(Inet6(i)) \subseteq Configured(i)
<1>1. ASSUME NEW line \in Range(Inet(i, flags)) PROVE line.address \in Configured(i)
  <2> DEFINE addrs == AddrsOf(i, "AF_INET")
  <2>1. PICK k \in DOMAIN addrs : line = InetLine(addrs[k], flags)
    BY <1>1 DEF Range, Inet
  <2>2. addrs[k] \in Range(boot[i].addrs)
    <3>1. \A a \in Range(addrs) : a \in Range(boot[i].addrs)
      BY AddrsOfOK
    <3> HIDE DEF addrs
    <3>2. addrs[k] \in Range(addrs)
      BY DEF Range
    <3>3. QED BY <3>1, <3>2
  <2>3. line.address = addrs[k].address
    BY <2>1 DEF InetLine
  <2> HIDE DEF addrs
  <2>4. QED BY <2>2, <2>3 DEF Configured
<1>2. ASSUME NEW line \in Range(Inet6(i)) PROVE line.address \in Configured(i)
  <2> DEFINE addrs == AddrsOf(i, "AF_INET6")
  <2>1. PICK k \in DOMAIN addrs : line = Inet6Line(addrs[k])
    BY <1>2 DEF Range, Inet6
  <2>2. addrs[k] \in Range(boot[i].addrs)
    <3>1. \A a \in Range(addrs) : a \in Range(boot[i].addrs)
      BY AddrsOfOK
    <3> HIDE DEF addrs
    <3>2. addrs[k] \in Range(addrs)
      BY DEF Range
    <3>3. QED BY <3>1, <3>2
  <2>3. line.address = addrs[k].address
    BY <2>1 DEF Inet6Line
  <2> HIDE DEF addrs
  <2>4. QED BY <2>2, <2>3 DEF Configured
<1>3. QED BY <1>1, <1>2 DEF Printed

LEMMA OneStep ==
  ASSUME Basics, Ones(run), [Next]_vars
  PROVE  Ones(run')
<1> DEFINE r == run
           s == run'
<1> SUFFICES Ones(s)
  OBVIOUS
<1>0. /\ Ones(r) /\ IsSeq(r.out) /\ KernelOK
      /\ r.pc \in {"inet", "inet6"} => r.index \in Indexes
      /\ r.pc \in Open => DOMAIN r.block = BlockFields
  BY DEF Basics, RunOK, ListOK, Lists
<1>1. \/ UNCHANGED run \/ Changed(r, s) \/ Started(r, s) \/ Listed(r, s) \/ Failed(r, s)
      \/ \E i \in Indexes : Begun(r, s, i) \/ Addressed(r, s, i) \/ Found(r, s, i)
      \/ \E b : Ended(r, s, b)
  BY StepShape, ChangeShape DEF Next, vars, Basics
<1>2. CASE UNCHANGED run
  BY <1>0, <1>2
<1> HIDE DEF r, s
<1>3. ASSUME s.out = r.out, s.pc \notin {"inet", "inet6"} PROVE Ones(s)
  BY <1>0, <1>3 DEF Ones
<1> USE DEF Same, RunFields
<1>4. CASE Changed(r, s)
  <2>1. s.pc = r.pc /\ s.out = r.out /\ s.block = r.block /\ s.index = r.index
    BY <1>4 DEF Changed
  <2>2. QED BY <1>0, <2>1 DEF Ones
<1>5. CASE Started(r, s)
  <2>1. s.out = r.out /\ s.pc \notin {"inet", "inet6"}
    BY <1>5 DEF Started, GoesOn
  <2>2. QED BY <1>3, <2>1
<1>6. CASE Listed(r, s)
  <2>1. /\ r.pc = "inet" /\ s.pc = "inet6" /\ s.out = r.out /\ s.index = r.index
        /\ s.block.inet = Inet(r.index, r.flags)
    BY <1>6 DEF Listed
  <2>2. Printed(s.block.inet) \subseteq Configured(s.index)
    BY <1>0, <2>1, PrintedOK
  <2>3. QED BY <1>0, <2>1, <2>2 DEF Ones
<1>7. CASE Failed(r, s)
  <2>1. s.out = r.out /\ s.pc \notin {"inet", "inet6"}
    BY <1>7 DEF Failed
  <2>2. QED BY <1>3, <2>1
<1>8. ASSUME NEW i \in Indexes, Begun(r, s, i) \/ Addressed(r, s, i) PROVE Ones(s)
  <2>1. s.out = r.out /\ s.pc \notin {"inet", "inet6"}
    BY <1>8 DEF Begun, Addressed
  <2>2. QED BY <1>3, <2>1
<1>9. ASSUME NEW i \in Indexes, Found(r, s, i) PROVE Ones(s)
  <2>1. s.out = r.out /\ s.pc = "inet" /\ s.index = i /\ i \in Named(Head(r.todo))
    BY <1>9 DEF Found
  <2>2. boot[i] # NULL
    BY <1>0, <2>1, NamedOK DEF LinkOK
  <2>3. QED BY <1>0, <2>1, <2>2 DEF Ones
<1>10. ASSUME NEW b, Ended(r, s, b) PROVE Ones(s)
  <2>1. /\ r.pc = "inet6" /\ s.out = Append(r.out, b) /\ s.pc \in {"flags", "exit"}
        /\ b.inet = r.block.inet /\ b.inet6 = Inet6(r.index)
    <3>1. GoesOn(r, s) => s.pc \in {"flags", "exit"}
      BY DEF GoesOn
    <3>2. QED BY <1>10, <3>1 DEF Ended
  <2>2. /\ Printed(b.inet) \subseteq Configured(r.index) /\ boot[r.index] # NULL
        /\ Printed(b.inet6) \subseteq Configured(r.index) /\ r.index \in Indexes
    BY <1>0, <2>1, PrintedOK DEF Ones
  <2>3. Shown(b) = Printed(b.inet) \cup Printed(b.inet6)
    BY DEF Shown, Printed
  <2>4. OfOne(b)
    BY <2>2, <2>3 DEF OfOne
  <2> DEFINE n == Len(r.out)
             out == s.out
  <2>5. /\ Len(out) = n + 1 /\ out[n + 1] = b /\ \A k \in 1..n : out[k] = r.out[k]
    BY <1>0, <2>1, AppendOK
  <2>6. n \in Nat /\ \A k \in 1..n : OfOne(r.out[k])
    BY <1>0, LenOK DEF Ones
  <2> HIDE DEF n, out
  <2>7. \A k \in 1..Len(out) : k \in 1..n \/ k = n + 1
    BY <2>5, <2>6
  <2>8. \A k \in 1..Len(out) : OfOne(out[k])
    BY <2>4, <2>5, <2>6, <2>7
  <2>9. QED BY <2>1, <2>8 DEF Ones, out
<1>11. QED BY <1>1, <1>2, <1>4, <1>5, <1>6, <1>7, <1>8, <1>9, <1>10

OneOK == Ones(run)

\* All addresses in a block belong to one interface, even if the name has gone
\* over to another one: the object asks by the index that it has found first.
THEOREM OneInterfaceEach == Spec => []OneInterface
<1>1. Init => OneOK
  <2> SUFFICES ASSUME Init PROVE OneOK
    OBVIOUS
  <2>1. run = NotStarted
    BY DEF Init
  <2>2. NotStarted.out = <<>> /\ NotStarted.pc = "start"
    BY DEF NotStarted
  <2> HIDE DEF NotStarted
  <2>3. QED BY <2>1, <2>2 DEF OneOK, Ones
<1>2. Basics /\ OneOK /\ [Next]_vars => OneOK'
  <2> SUFFICES ASSUME Basics, Ones(run), [Next]_vars PROVE OneOK'
    BY DEF OneOK
  <2>1. Ones(run') /\ boot' = boot
    BY OneStep DEF Next, RunStep, KernelStep, Unplug, UpDown, Rename, Change, vars
  <2>2. QED BY <2>1 DEF OneOK, Ones, OfOne, Configured, Shown, Printed
<1>3. Basics /\ OneOK => OneInterface
  <2> SUFFICES ASSUME Basics, OneOK, NEW k \in DOMAIN run.out PROVE OfOne(run.out[k])
    BY DEF OneInterface, OfOne
  <2>1. DOMAIN run.out = 1..Len(run.out)
    BY LenOK DEF Basics, ListOK, Lists
  <2>2. QED BY <2>1 DEF OneOK, Ones
<1>4. QED BY <1>1, <1>2, <1>3, BasicsInductive, PTL DEF Spec

-----------------------------------------------------------------------------
(***************************************************************************)
(* If nothing changes and nothing fails, all that is up is shown.          *)
(***************************************************************************)
Undisturbed(r) == r.still = TRUE /\ r.args = <<>> /\ r.fault = FALSE /\ r.pc # "start"

\* The next device is a label, and the program fails at it.
AtLabel(r) ==
  /\ r.status = 2 /\ Len(r.out) + 1 \in DOMAIN r.sel
  /\ r.sel[Len(r.out) + 1] \notin Names

\* No label is shown to the end.
NamesShown(r) ==
  /\ \A k \in 1..Len(r.out) : r.out[k].name \in Names
  /\ r.pc \in {"inet", "inet6"} => Head(r.todo) \in Names

\* The selection is right as long as nothing changes, so that no device can be
\* missing when its turn comes, but a label is.
Ends(r) == r.pc = "exit" => r.status = 0 \/ AtLabel(r)
Stills(r) == Undisturbed(r) => AllUp(r.sel) /\ Ends(r)

LEMMA NamesStep ==
  ASSUME Basics, NamesShown(run), [Next]_vars
  PROVE  NamesShown(run')
<1> DEFINE r == run
           s == run'
<1> SUFFICES NamesShown(s)
  OBVIOUS
<1>0. /\ NamesShown(r) /\ IsSeq(r.out) /\ KernelOK
      /\ r.pc \in Open => r.block.name = Head(r.todo)
  BY DEF Basics, ListOK, Lists
<1>1. \/ UNCHANGED run \/ Changed(r, s) \/ Started(r, s) \/ Listed(r, s) \/ Failed(r, s)
      \/ \E i \in Indexes : Begun(r, s, i) \/ Addressed(r, s, i) \/ Found(r, s, i)
      \/ \E b : Ended(r, s, b)
  BY StepShape, ChangeShape DEF Next, vars, Basics
<1>2. CASE UNCHANGED run
  BY <1>0, <1>2
<1> HIDE DEF r, s
<1>3. ASSUME s.out = r.out, s.pc \notin {"inet", "inet6"} PROVE NamesShown(s)
  BY <1>0, <1>3 DEF NamesShown
<1> USE DEF Same, RunFields
<1>4. CASE Changed(r, s)
  <2>1. s.pc = r.pc /\ s.out = r.out /\ s.todo = r.todo
    BY <1>4 DEF Changed
  <2>2. QED BY <1>0, <2>1 DEF NamesShown
<1>5. CASE Started(r, s)
  <2>1. s.out = r.out /\ s.pc \notin {"inet", "inet6"}
    BY <1>5 DEF Started, GoesOn
  <2>2. QED BY <1>3, <2>1
<1>6. CASE Listed(r, s)
  <2>1. r.pc = "inet" /\ s.pc = "inet6" /\ s.out = r.out /\ s.todo = r.todo
    BY <1>6 DEF Listed
  <2>2. QED BY <1>0, <2>1 DEF NamesShown
<1>7. CASE Failed(r, s)
  <2>1. s.out = r.out /\ s.pc \notin {"inet", "inet6"}
    BY <1>7 DEF Failed
  <2>2. QED BY <1>3, <2>1
<1>8. ASSUME NEW i \in Indexes, Begun(r, s, i) \/ Addressed(r, s, i) PROVE NamesShown(s)
  <2>1. s.out = r.out /\ s.pc \notin {"inet", "inet6"}
    BY <1>8 DEF Begun, Addressed
  <2>2. QED BY <1>3, <2>1
<1>9. ASSUME NEW i \in Indexes, Found(r, s, i) PROVE NamesShown(s)
  <2>1. s.out = r.out /\ s.todo = r.todo /\ i \in Named(Head(r.todo))
    BY <1>9 DEF Found
  <2>2. Head(s.todo) \in Names
    BY <1>0, <2>1, NamedOK DEF LinkOK
  <2>3. QED BY <1>0, <2>1, <2>2 DEF NamesShown
<1>10. ASSUME NEW b, Ended(r, s, b) PROVE NamesShown(s)
  <2>1. /\ r.pc = "inet6" /\ s.out = Append(r.out, b) /\ b.name = r.block.name /\ GoesOn(r, s)
    BY <1>10 DEF Ended
  <2>2. s.pc \in {"flags", "exit"}
    BY <2>1 DEF GoesOn
  <2>3. b.name \in Names
    BY <1>0, <2>1 DEF NamesShown, Open
  <2> DEFINE n == Len(r.out)
             out == s.out
  <2>4. /\ Len(out) = n + 1 /\ out[n + 1] = b /\ \A k \in 1..n : out[k] = r.out[k]
    BY <1>0, <2>1, AppendOK
  <2>5. n \in Nat /\ \A k \in 1..n : r.out[k].name \in Names
    BY <1>0, LenOK DEF NamesShown
  <2> HIDE DEF n, out
  <2>6. \A k \in 1..Len(out) : k \in 1..n \/ k = n + 1
    BY <2>4, <2>5
  <2>7. \A k \in 1..Len(out) : out[k].name \in Names
    BY <2>3, <2>4, <2>5, <2>6
  <2>8. QED BY <2>2, <2>7 DEF NamesShown, out
<1>11. QED BY <1>1, <1>2, <1>4, <1>5, <1>6, <1>7, <1>8, <1>9, <1>10

LEMMA StillStep ==
  ASSUME Basics, Stills(run), RunStep
  PROVE  Stills(run')
<1> DEFINE r == run
           s == run'
<1> SUFFICES ASSUME Undisturbed(s) PROVE AllUp(s.sel) /\ Ends(s)
  BY DEF Stills
<1>0. Stills(r) /\ KernelOK /\ Lists(r)
  BY DEF Basics, ListOK
<1>1. \/ Started(r, s) \/ Listed(r, s) \/ Failed(r, s)
      \/ \E i \in Indexes : Begun(r, s, i) \/ Addressed(r, s, i) \/ Found(r, s, i)
      \/ \E b : Ended(r, s, b)
  BY StepShape DEF Basics
<1> HIDE DEF r, s
<1>2. s.still = TRUE /\ s.args = <<>> /\ s.fault = FALSE
  BY DEF Undisturbed
<1>3. ASSUME s.still = r.still, s.args = r.args, s.fault = r.fault, r.pc # "start",
             s.sel = r.sel
      PROVE  AllUp(s.sel)
  BY <1>0, <1>2, <1>3 DEF Undisturbed, Stills
<1> USE DEF Same, RunFields
<1>4. CASE Started(r, s)
  <2>1. s.sel = ActiveDevices(IfAddrs) /\ Ends(s)
    BY <1>2, <1>4 DEF Started, GoesOn, Ends
  <2>2. AllUp(s.sel)
    BY <1>0, <2>1, Selection
  <2>3. QED BY <2>1, <2>2
<1>5. CASE Listed(r, s)
  <2>1. /\ s.still = r.still /\ s.args = r.args /\ s.fault = r.fault /\ r.pc # "start"
        /\ s.sel = r.sel /\ s.pc # "exit"
    BY <1>5 DEF Listed
  <2>2. QED BY <1>3, <2>1 DEF Ends
<1>6. CASE Failed(r, s)
  <2>1. /\ s.still = r.still /\ s.args = r.args /\ s.fault = r.fault /\ s.sel = r.sel
        /\ s.out = r.out /\ s.status = 2 /\ r.pc \in Active
        /\ Answering(Head(r.todo)) = {} \/ Named(Head(r.todo)) = {}
    BY <1>2, <1>6 DEF Failed
  <2>2. r.pc # "start"
    BY <2>1 DEF Active, Open
  <2>3. AllUp(s.sel)
    BY <1>3, <2>1, <2>2
  <2> DEFINE n == Len(r.out)
             m == Len(r.todo)
  <2>4. /\ IsSeq(r.sel) /\ IsSeq(r.todo) /\ IsSeq(r.out) /\ r.todo # <<>>
        /\ n + m = Len(r.sel) /\ \A k \in 1..m : r.todo[k] = r.sel[n + k]
    BY <1>0, <2>1 DEF Lists
  <2>5. /\ n \in Nat /\ m \in Nat /\ m # 0 /\ Head(r.todo) = r.todo[1]
        /\ DOMAIN r.sel = 1..Len(r.sel)
    BY <2>4, LenOK, TailOK
  <2> HIDE DEF n, m
  <2>6. 1 \in 1..m /\ n + 1 \in DOMAIN r.sel
    BY <2>4, <2>5
  <2>7. Head(r.todo) \in Range(r.sel)
    BY <2>4, <2>5, <2>6 DEF Range
  <2>8. IsUp(Head(r.todo)) \/ IsLabel(Head(r.todo))
    BY <2>1, <2>3, <2>7 DEF AllUp
  <2>9. Answering(Head(r.todo)) # {}
    <3>1. PICK i \in Indexes : /\ kernel[i] # NULL
                               /\ Head(r.todo) \in {kernel[i].name, Label[kernel[i].name]}
      BY <2>8 DEF IsUp, IsLabel
    <3>2. i \in Answering(Head(r.todo))
      BY <3>1 DEF Answering, Present
    <3>3. QED BY <3>2
  <2>10. ~IsUp(Head(r.todo))
    BY <2>1, <2>9 DEF IsUp, Named, Present
  <2>11. Head(r.todo) \notin Names
    BY <1>0, <2>8, <2>10, NamesAndLabels
  <2>12. Head(r.todo) = r.sel[n + 1]
    BY <2>4, <2>5, <2>6
  <2>13. AtLabel(s)
    BY <2>1, <2>6, <2>11, <2>12 DEF AtLabel, n
  <2>14. QED BY <2>3, <2>13 DEF Ends
<1>7. ASSUME NEW i \in Indexes, Begun(r, s, i) \/ Addressed(r, s, i) \/ Found(r, s, i)
      PROVE  AllUp(s.sel) /\ Ends(s)
  <2>1. /\ s.still = r.still /\ s.args = r.args /\ s.fault = r.fault /\ r.pc # "start"
        /\ s.sel = r.sel /\ s.pc # "exit"
    BY <1>7 DEF Begun, Addressed, Found
  <2>2. QED BY <1>3, <2>1 DEF Ends
<1>8. ASSUME NEW b, Ended(r, s, b)
      PROVE  AllUp(s.sel) /\ Ends(s)
  <2>1. /\ Same(r, s, {"pc", "todo", "out", "block", "status"}) /\ r.pc = "inet6"
        /\ GoesOn(r, s)
    BY <1>8 DEF Ended
  <2>2. /\ s.still = r.still /\ s.args = r.args /\ s.fault = r.fault /\ r.pc # "start"
        /\ s.sel = r.sel
    BY <2>1
  <2>3. Ends(s)
    BY <2>1 DEF GoesOn, Ends
  <2>4. QED BY <1>3, <2>2, <2>3
<1>9. QED BY <1>1, <1>4, <1>5, <1>6, <1>7, <1>8

StillOK == NamesShown(run) /\ Stills(run)

LEMMA StillInductive ==
  /\ Init => StillOK
  /\ Basics /\ StillOK /\ [Next]_vars => StillOK'
<1>1. Init => StillOK
  <2>1. NotStarted.pc = "start" /\ NotStarted.out = <<>>
    BY DEF NotStarted
  <2> HIDE DEF NotStarted
  <2>2. QED BY <2>1 DEF Init, StillOK, NamesShown, Stills, Undisturbed
<1>2. Basics /\ StillOK /\ [Next]_vars => StillOK'
  <2> SUFFICES ASSUME Basics, NamesShown(run), Stills(run), [Next]_vars PROVE StillOK'
    BY DEF StillOK
  <2>0. NamesShown(run') /\ (NamesShown(run') => NamesShown(run)')
    BY NamesStep DEF NamesShown
  <2> DEFINE s == run'
  <2>1. ASSUME kernel' = kernel, Stills(s) PROVE StillOK'
    <3>1. \A x : (IsUp(x) <=> IsUp(x)') /\ (IsLabel(x) <=> IsLabel(x)')
      BY <2>1 DEF IsUp, IsLabel
    <3>2. QED BY <2>0, <2>1, <3>1 DEF StillOK, Stills, Undisturbed, AllUp, Ends, AtLabel
  <2>2. CASE UNCHANGED vars
    <3>1. kernel' = kernel /\ Stills(s)
      BY <2>2 DEF vars
    <3>2. QED BY <2>1, <3>1
  <2>3. CASE RunStep
    <3>1. Stills(s) /\ kernel' = kernel
      BY <2>3, StillStep
      DEF RunStep, Start, ListFails, GetFlags, GetHwaddr, FindIndex, GetIpv4, GetIpv6,
          NoDevice, CallFails, DumpKills
    <3>2. QED BY <2>1, <3>1
  <2>4. CASE KernelStep
    <3>1. Changed(run, s)
      BY <2>4, ChangeShape DEF Basics
    <3> SUFFICES ~Undisturbed(s)
      BY <2>0 DEF StillOK, Stills, Undisturbed
    <3> HIDE DEF s
    <3>2. QED BY <3>1 DEF Changed, Same, RunFields, Undisturbed
  <2>5. QED BY <2>2, <2>3, <2>4 DEF Next
<1>3. QED BY <1>1, <1>2

\* If nothing changes and no call fails, the program without arguments shows
\* every interface that is up, and no other, exactly once; it ends with status
\* 0, or with status 2 if an address of such an interface has a label.
THEOREM ShowsAllOnce == Spec => []CompleteWhenStill
<1>1. Basics /\ StillOK => CompleteWhenStill
  <2> SUFFICES ASSUME Basics, NamesShown(run), Stills(run), At("exit"), run.still, ~run.fault,
                      run.args = <<>>
               PROVE  /\ run.status = IF \E i \in Indexes : Labelled(i) THEN 2 ELSE 0
                      /\ \A i \in Indexes : Present(i) =>
                           Cardinality({k \in DOMAIN run.out : run.out[k].name = kernel[i].name}) =
                             IF Has(kernel[i].flags, "IFF_UP") THEN 1 ELSE 0
    BY DEF CompleteWhenStill, StillOK
  <2>1. Undisturbed(run)
    <3>1. run.still \in BOOLEAN /\ run.fault \in BOOLEAN
      BY DEF Basics, RunOK
    <3>2. run.still = TRUE /\ run.fault = FALSE
      BY <3>1, Zenon
    <3>3. QED BY <3>2 DEF Undisturbed, At
  <2>2. AllUp(run.sel) /\ (run.status = 0 \/ AtLabel(run)) /\ KernelOK
    BY <2>1 DEF Stills, At, Ends, Basics
  <2> DEFINE N == Len(run.out)
             out == run.out
             sel == run.sel
  <2>3. /\ IsSeq(sel) /\ IsSeq(out)
        /\ run.status = 0 => N = Len(sel)
        /\ \A k \in 1..N : k <= Len(sel) /\ out[k].name = sel[k]
    BY <2>2 DEF Basics, ListOK, Lists, At
  <2>4. /\ DOMAIN out = 1..N /\ DOMAIN sel = 1..Len(sel) /\ N \in Nat /\ Len(sel) \in Nat
        /\ \A k \in 1..N : out[k].name \in Names
    BY <2>3, LenOK DEF NamesShown
  <2>6. /\ AtLabel(run) => run.status = 2 /\ N + 1 \in DOMAIN sel /\ sel[N + 1] \notin Names
        /\ \A j, k \in DOMAIN sel : j < k /\ sel[k] \in Names => sel[j] \in Names
        /\ \A x : x \in Range(sel) <=> IsUp(x) \/ IsLabel(x)
    BY <2>2 DEF AllUp, AtLabel
  <2> HIDE DEF N, out, sel
  \* All names are among the blocks.
  <2>7. ASSUME NEW k \in DOMAIN sel, sel[k] \in Names PROVE k \in 1..N
    <3>1. CASE run.status = 0
      BY <2>3, <2>4, <3>1
    <3>2. CASE AtLabel(run)
      <4>1. N + 1 \in DOMAIN sel /\ sel[N + 1] \notin Names
        BY <2>6, <3>2
      <4>2. ~(N + 1 < k) /\ k # N + 1
        BY <2>6, <2>7, <4>1
      <4>3. QED BY <2>4, <4>2
    <3>3. QED BY <2>2, <3>1, <3>2
  <2>8. (\E x : IsLabel(x)) <=> \E i \in Indexes : Labelled(i)
    BY DEF IsLabel, Labelled, Present
  <2>9. run.status = IF \E i \in Indexes : Labelled(i) THEN 2 ELSE 0
    <3>1. CASE run.status = 0
      <4>1. ASSUME NEW x, IsLabel(x) PROVE FALSE
        <5>1. PICK k \in DOMAIN sel : sel[k] = x
          BY <2>6, <4>1 DEF Range
        <5>2. x \in Names
          BY <2>3, <2>4, <3>1, <5>1
        <5>3. QED BY <2>2, <4>1, <5>2, NamesAndLabels
      <4>2. QED BY <2>8, <3>1, <4>1
    <3>2. CASE AtLabel(run)
      <4>1. sel[N + 1] \in Range(sel) /\ sel[N + 1] \notin Names /\ run.status = 2
        BY <2>6, <3>2 DEF Range
      <4>2. IsLabel(sel[N + 1])
        BY <2>2, <2>6, <4>1, NamesAndLabels
      <4>3. QED BY <2>8, <4>1, <4>2
    <3>3. QED BY <2>2, <3>1, <3>2
  <2>10. ASSUME NEW i \in Indexes, Present(i)
         PROVE  Cardinality({k \in DOMAIN out : out[k].name = kernel[i].name}) =
                 IF Has(kernel[i].flags, "IFF_UP") THEN 1 ELSE 0
    <3> DEFINE S == {k \in DOMAIN out : out[k].name = kernel[i].name}
               up == Has(kernel[i].flags, "IFF_UP")
    <3>0. kernel[i].name \in Names
      BY <2>2, <2>10 DEF KernelOK, LinkOK, Present
    <3>1. S = {k \in DOMAIN sel : sel[k] = kernel[i].name}
      <4>1. ASSUME NEW k \in S PROVE k \in DOMAIN sel /\ sel[k] = kernel[i].name
        <5>1. k \in 1..N /\ out[k].name = kernel[i].name
          BY <2>4
        <5>2. k <= Len(sel) /\ out[k].name = sel[k]
          BY <2>3, <5>1
        <5>3. QED BY <2>4, <5>1, <5>2
      <4>2. ASSUME NEW k \in DOMAIN sel, sel[k] = kernel[i].name PROVE k \in S
        BY <2>3, <2>4, <2>7, <3>0, <4>2
      <4>3. QED BY <4>1, <4>2
    <3>2. CASE up
      <4>1. IsUp(kernel[i].name)
        BY <2>10, <3>2 DEF IsUp, Present
      <4>2. kernel[i].name \in Range(sel)
        BY <2>6, <4>1
      <4>3. PICK k \in DOMAIN sel : sel[k] = kernel[i].name
        BY <4>2 DEF Range
      <4>4. S = {k}
        BY <2>2, <3>1, <4>3 DEF AllUp, IsInjective, sel
      <4> HIDE DEF S, up
      <4>5. Cardinality(S) = 1
        BY <4>4, FS_Singleton
      <4>6. QED BY <3>2, <4>5 DEF S, up
    <3>3. CASE ~up
      <4>1. ASSUME NEW k \in S PROVE FALSE
        <5>1. kernel[i].name \in Range(sel)
          BY <3>1, <4>1 DEF Range
        <5>2. IsUp(kernel[i].name)
          BY <2>2, <2>6, <3>0, <5>1, NamesAndLabels
        <5>3. PICK j \in Indexes : /\ kernel[j] # NULL /\ kernel[j].name = kernel[i].name
                                   /\ Has(kernel[j].flags, "IFF_UP")
          BY <5>2 DEF IsUp
        <5>4. i = j
          BY <2>10, <5>3 DEF Basics, KernelOK, Present
        <5>5. QED BY <3>3, <5>3, <5>4
      <4> HIDE DEF S, up
      <4>2. S = {}
        BY <4>1
      <4>3. Cardinality(S) = 0
        BY <4>2, FS_EmptySet
      <4>4. QED BY <3>3, <4>3 DEF S, up
    <3>4. QED BY <3>2, <3>3
  <2>11. QED BY <2>9, <2>10 DEF out
<1>2. QED BY <1>1, BasicsInductive, StillInductive, PTL DEF Spec

-----------------------------------------------------------------------------
(***************************************************************************)
(* A block that was printed while nothing changed is true.                 *)
(***************************************************************************)
Words == <<"IFF_UP", "IFF_BROADCAST", "IFF_DEBUG", "IFF_LOOPBACK",
           "IFF_POINTOPOINT", "IFF_NOTRAILERS", "IFF_RUNNING", "IFF_NOARP",
           "IFF_PROMISC", "IFF_ALLMULTI", "IFF_MASTER", "IFF_SLAVE",
           "IFF_MULTICAST", "IFF_PORTSEL", "IFF_AUTOMEDIA", "IFF_DYNAMIC">>

LEMMA WordsOK == Words \in Seq(DOMAIN Bit) /\ Range(Words) = DOMAIN Bit
<1>1. DOMAIN Words = 1..16 /\ Words \in Seq(DOMAIN Bit)
  BY DEF Words, Bit
<1>2. ASSUME NEW word \in DOMAIN Bit PROVE \E k \in 1..16 : Words[k] = word
  <2>1. /\ Words[1] = "IFF_UP" /\ Words[2] = "IFF_BROADCAST" /\ Words[3] = "IFF_DEBUG"
        /\ Words[4] = "IFF_LOOPBACK" /\ Words[5] = "IFF_POINTOPOINT"
        /\ Words[6] = "IFF_NOTRAILERS" /\ Words[7] = "IFF_RUNNING" /\ Words[8] = "IFF_NOARP"
        /\ Words[9] = "IFF_PROMISC" /\ Words[10] = "IFF_ALLMULTI" /\ Words[11] = "IFF_MASTER"
        /\ Words[12] = "IFF_SLAVE" /\ Words[13] = "IFF_MULTICAST" /\ Words[14] = "IFF_PORTSEL"
        /\ Words[15] = "IFF_AUTOMEDIA" /\ Words[16] = "IFF_DYNAMIC"
    BY DEF Words
  <2> HIDE DEF Words
  <2>2. QED BY <2>1 DEF Bit
<1> DEFINE D == DOMAIN Bit
<1> HIDE DEF Words
<1>3. \A k \in DOMAIN Words : Words[k] \in D
  <2>1. Words \in Seq(D)
    BY <1>1
  <2> HIDE DEF D
  <2>2. QED BY <2>1
<1>4. Range(Words) = DOMAIN Bit
  BY <1>1, <1>2, <1>3 DEF Range
<1>5. QED BY <1>1, <1>4

\* flags2str() names the bits that are set.
LEMMA FlagWords ==
  ASSUME NEW flags
  PROVE  Range(Flags2Str(flags)) = {word \in DOMAIN Bit : Has(flags, word)}
<1> DEFINE S == {word \in DOMAIN Bit : Has(flags, word)}
<1>1. Flags2Str(flags) = Those(Words, S)
  BY DEF Flags2Str, Words
<1>2. S \subseteq DOMAIN Bit
  OBVIOUS
<1> HIDE DEF S
<1>3. Range(Those(Words, S)) = Range(Words) \cap S
  BY WordsOK, ThoseOK
<1>4. Range(Those(Words, S)) = S
  BY <1>2, <1>3, WordsOK
<1>5. QED BY <1>1, <1>4 DEF S

\* What is known of the open block, if it is that of interface i.
Part(r, i) ==
  /\ r.flags = GetFlagsOf(i)
  /\ IF r.pc = "hwaddr" THEN ~Has(r.flags, "IFF_LOOPBACK")
     ELSE r.block.hwaddr = IF Has(r.flags, "IFF_LOOPBACK") THEN NULL ELSE kernel[i].mac
  /\ r.pc \in {"inet", "inet6"} => r.index = i /\ i \in Named(r.block.name)
  /\ r.pc = "inet6" => r.block.inet = Inet(i, r.flags)

\* The last block is true, and the open one is, as far as it goes.
Truths(r) ==
  r.calm = TRUE =>
    /\ r.pc \in Open => \E i \in Answering(r.block.name) : Part(r, i)
    /\ r.block = <<>> /\ r.out # <<>> =>
         \E i \in Named(Last(r.out).name) : Report(Last(r.out), i)

LEMMA ReportOK ==
  ASSUME KernelOK, NEW name, NEW i \in Named(name), NEW flags, flags = GetFlagsOf(i), NEW b,
         b.hwaddr = IF Has(flags, "IFF_LOOPBACK") THEN NULL ELSE kernel[i].mac,
         b.inet = Inet(i, flags), b.inet6 = Inet6(i), b.words = Flags2Str(flags)
  PROVE  Report(b, i)
<1> DEFINE link == kernel[i]
           Lines(family) == Those(link.addrs, {a \in Range(link.addrs) : a.family = family})
           On(flag) == (link.flags \div 2^Bit[flag]) % 2 = 1
           u == AddrsOf(i, "AF_INET")
           v == AddrsOf(i, "AF_INET6")
<1>1. i \in Indexes /\ Present(i) /\ LinkOK(link, boot[i])
  BY NamedOK DEF Present
<1>2. Lines("AF_INET") = u /\ Lines("AF_INET6") = v
  BY <1>1 DEF AddrsOf
<1>3. \A flag \in DOMAIN Bit : Has(flags, flag) <=> On(flag)
  BY <1>1, SignKeepsFlags DEF LinkOK
<1>4. Has(flags, "IFF_LOOPBACK") <=> On("IFF_LOOPBACK")
  BY <1>3 DEF Bit
<1>5. Has(flags, "IFF_POINTOPOINT") <=> On("IFF_POINTOPOINT")
  BY <1>3 DEF Bit
<1>6. /\ IsSeq(u) /\ IsSeq(v)
      /\ \A a \in Range(u) : a \in Range(link.addrs) /\ a.family = "AF_INET"
  BY <1>1, AddrsOfOK DEF IsSeq
<1>7. Len(u) \in Nat /\ DOMAIN u = 1..Len(u)
  BY <1>6, LenOK
<1>8. \A k \in DOMAIN u : u[k].bits \in 0..Width
  <2>1. \A k \in DOMAIN u : u[k] \in Range(u)
    BY DEF Range
  <2> HIDE DEF u
  <2>2. QED BY <1>1, <1>6, <2>1 DEF LinkOK
<1> HIDE DEF u, v
<1>9. Len(b.inet) = Len(u) /\ DOMAIN b.inet = DOMAIN u
  <2>1. b.inet = [k \in 1..Len(u) |-> InetLine(u[k], flags)]
    BY <1>7 DEF Inet, u
  <2> DEFINE F(k) == InetLine(u[k], flags)
  <2> HIDE DEF F
  <2>2. b.inet = [k \in 1..Len(u) |-> F(k)]
    BY <2>1 DEF F
  <2>3. QED BY <1>7, <2>2
<1>10. ASSUME NEW k \in DOMAIN b.inet
       PROVE  /\ b.inet[k].address = u[k].address
              /\ b.inet[k].mask = Netmask(u[k].bits)
              /\ b.inet[k].bcast = IF On("IFF_LOOPBACK") \/ On("IFF_POINTOPOINT") THEN NULL
                                   ELSE u[k].broadcast
  <2>1. k \in DOMAIN u
    BY <1>9
  <2>2. b.inet[k] = InetLine(u[k], flags)
    BY <2>1 DEF Inet, u
  <2>3. Bits2Netmask(u[k].bits) = Netmask(u[k].bits)
    BY <1>8, <2>1, NetmaskRight
  <2> HIDE DEF On
  <2>4. QED BY <1>4, <1>5, <2>2, <2>3 DEF InetLine
<1>11. [k \in DOMAIN b.inet6 |-> b.inet6[k].address] = [k \in DOMAIN v |-> v[k].address]
  <2>1. b.inet6 = [k \in DOMAIN v |-> Inet6Line(v[k])]
    BY DEF Inet6, v
  <2>2. DOMAIN b.inet6 = DOMAIN v /\ \A k \in DOMAIN v : b.inet6[k].address = v[k].address
    BY <2>1 DEF Inet6Line
  <2>3. QED BY <2>2
<1>12. Range(b.words) = {flag \in DOMAIN Bit : On(flag)}
  <2>1. Range(b.words) = {flag \in DOMAIN Bit : Has(flags, flag)}
    BY FlagWords
  <2> HIDE DEF On
  <2>2. QED BY <1>3, <2>1
<1>13. b.hwaddr = IF On("IFF_LOOPBACK") THEN NULL ELSE link.mac
  <2> HIDE DEF On
  <2>1. QED BY <1>4
<1> HIDE DEF Lines, On, link
<1>14. /\ b.hwaddr = IF On("IFF_LOOPBACK") THEN NULL ELSE link.mac
       /\ Len(b.inet) = Len(Lines("AF_INET"))
       /\ \A k \in DOMAIN b.inet :
            /\ b.inet[k].address = Lines("AF_INET")[k].address
            /\ b.inet[k].mask = Netmask(Lines("AF_INET")[k].bits)
            /\ b.inet[k].bcast = IF On("IFF_LOOPBACK") \/ On("IFF_POINTOPOINT") THEN NULL
                                 ELSE Lines("AF_INET")[k].broadcast
       /\ [k \in DOMAIN b.inet6 |-> b.inet6[k].address] =
            [k \in DOMAIN Lines("AF_INET6") |-> Lines("AF_INET6")[k].address]
       /\ Range(b.words) = {flag \in DOMAIN Bit : On(flag)}
  BY <1>2, <1>9, <1>10, <1>11, <1>12, <1>13
<1>15. QED BY <1>14 DEF Report, Lines, On, link

LEMMA TruthStep ==
  ASSUME Basics, Truths(run), RunStep
  PROVE  Truths(run')
<1> DEFINE r == run
           s == run'
<1> SUFFICES Truths(s)
  OBVIOUS
<1>0. /\ Truths(r) /\ KernelOK /\ IsSeq(r.out)
      /\ r.pc \in Open => DOMAIN r.block = BlockFields /\ r.block.name = Head(r.todo)
  BY DEF Basics, RunOK, ListOK, Lists
<1>1. \/ Started(r, s) \/ Listed(r, s) \/ Failed(r, s)
      \/ \E i \in Indexes : Begun(r, s, i) \/ Addressed(r, s, i) \/ Found(r, s, i)
      \/ \E b : Ended(r, s, b)
  BY StepShape DEF Basics
<1> HIDE DEF r, s
<1>2. ASSUME NEW b, DOMAIN b = BlockFields PROVE b # <<>>
  BY <1>2 DEF BlockFields
\* The steps that print nothing ...
<1>3. ASSUME s.calm = r.calm, s.block = r.block, s.out = r.out, s.pc \notin Open
      PROVE  Truths(s)
  BY <1>0, <1>3 DEF Truths
\* ... and those that add to the open block.
<1>4. ASSUME s.pc \in Open, DOMAIN s.block = BlockFields,
             s.calm = TRUE => \E i \in Answering(s.block.name) : Part(s, i)
      PROVE  Truths(s)
  BY <1>2, <1>4 DEF Truths
<1>5. \A name : Named(name) \subseteq Answering(name)
  BY DEF Named, Answering
<1> USE DEF Same, RunFields
<1>6. CASE Started(r, s)
  <2>1. s.calm = r.calm /\ s.block = r.block /\ s.out = r.out /\ s.pc \notin Open
    BY <1>6 DEF Started, GoesOn, Open
  <2>2. QED BY <1>3, <2>1
<1>7. CASE Failed(r, s)
  <2>1. s.calm = r.calm /\ s.block = r.block /\ s.out = r.out /\ s.pc \notin Open
    BY <1>7 DEF Failed, Open
  <2>2. QED BY <1>3, <2>1
<1>8. ASSUME NEW i \in Indexes, Begun(r, s, i) PROVE Truths(s)
  <2>1. /\ s.pc = IF Has(s.flags, "IFF_LOOPBACK") THEN "index" ELSE "hwaddr"
        /\ s.block = Block(Head(r.todo)) /\ s.flags = GetFlagsOf(i) /\ i \in Answering(Head(r.todo))
    BY <1>8 DEF Begun
  <2>2. DOMAIN s.block = BlockFields /\ s.block.name = Head(r.todo) /\ s.block.hwaddr = NULL
    BY <2>1 DEF Block, BlockFields
  <2>3. s.pc \in {"index", "hwaddr"} /\ s.pc \in Open
    BY <2>1 DEF Open
  <2>4. Part(s, i)
    BY <2>1, <2>2 DEF Part
  <2>5. QED BY <1>4, <2>1, <2>2, <2>3, <2>4
<1>9. ASSUME NEW i \in Indexes, Addressed(r, s, i) PROVE Truths(s)
  <2>1. /\ r.pc = "hwaddr" /\ s.pc = "index" /\ s.calm = r.calm /\ s.flags = r.flags
        /\ i \in Answering(Head(r.todo)) /\ Added(r.block, s.block, "hwaddr")
        /\ s.block.hwaddr = kernel[i].mac
    BY <1>9 DEF Addressed
  <2>2. DOMAIN r.block = BlockFields /\ r.block.name = Head(r.todo)
    BY <1>0, <2>1 DEF Open
  <2>3. DOMAIN s.block = BlockFields /\ s.block.name = Head(r.todo)
    BY <2>1, <2>2 DEF Added, BlockFields
  <2>4. ASSUME r.calm = TRUE PROVE Part(s, i)
    <3>1. PICK j \in Answering(r.block.name) : Part(r, j)
      BY <1>0, <2>1, <2>4 DEF Truths, Open
    <3>2. i = j
      BY <1>0, <1>5, <2>1, <2>2, <3>1, OneAnswers
    <3>3. r.flags = GetFlagsOf(i) /\ ~Has(r.flags, "IFF_LOOPBACK")
      BY <2>1, <3>1, <3>2 DEF Part
    <3>4. QED BY <2>1, <3>3 DEF Part
  <2>5. QED BY <1>4, <2>1, <2>3, <2>4 DEF Open
<1>10. ASSUME NEW i \in Indexes, Found(r, s, i) PROVE Truths(s)
  <2>1. /\ r.pc = "index" /\ s.pc = "inet" /\ s.calm = r.calm /\ s.flags = r.flags
        /\ i \in Named(Head(r.todo)) /\ s.block = r.block /\ s.index = i
    BY <1>10 DEF Found
  <2>2. DOMAIN r.block = BlockFields /\ r.block.name = Head(r.todo)
    BY <1>0, <2>1 DEF Open
  <2>3. ASSUME r.calm = TRUE PROVE Part(s, i)
    <3>1. PICK j \in Answering(r.block.name) : Part(r, j)
      BY <1>0, <2>1, <2>3 DEF Truths, Open
    <3>2. i = j
      BY <1>0, <1>5, <2>1, <2>2, <3>1, OneAnswers
    <3>3. i \in Named(s.block.name)
      BY <2>1, <2>2
    <3>4. QED BY <2>1, <3>1, <3>2, <3>3 DEF Part
  <2>4. i \in Answering(s.block.name)
    BY <1>5, <2>1, <2>2
  <2>5. QED BY <1>4, <2>1, <2>2, <2>3, <2>4 DEF Open
<1>11. CASE Listed(r, s)
  <2>1. /\ r.pc = "inet" /\ s.pc = "inet6" /\ s.calm = r.calm /\ s.flags = r.flags
        /\ Added(r.block, s.block, "inet") /\ s.index = r.index
        /\ s.block.inet = Inet(r.index, r.flags)
    BY <1>11 DEF Listed
  <2>2. DOMAIN r.block = BlockFields
    BY <1>0, <2>1 DEF Open
  <2>3. /\ DOMAIN s.block = BlockFields /\ s.block.name = r.block.name
        /\ s.block.hwaddr = r.block.hwaddr
    BY <2>1, <2>2 DEF Added, BlockFields
  <2>4. ASSUME r.calm = TRUE PROVE \E i \in Answering(s.block.name) : Part(s, i)
    <3>1. PICK i \in Answering(r.block.name) : Part(r, i)
      BY <1>0, <2>1, <2>4 DEF Truths, Open
    <3>2. Part(s, i)
      BY <2>1, <2>3, <3>1 DEF Part
    <3>3. QED BY <2>3, <3>1, <3>2
  <2>5. QED BY <1>4, <2>1, <2>3, <2>4 DEF Open
<1>12. ASSUME NEW b, Ended(r, s, b) PROVE Truths(s)
  <2>1. /\ r.pc = "inet6" /\ s.out = Append(r.out, b) /\ GoesOn(r, s)
        /\ Same(r, s, {"pc", "todo", "out", "block", "status"})
        /\ b.name = r.block.name /\ b.hwaddr = r.block.hwaddr /\ b.inet = r.block.inet
        /\ b.inet6 = Inet6(r.index) /\ b.words = Flags2Str(r.flags)
    BY <1>12 DEF Ended
  <2>2. s.pc \notin Open /\ s.calm = r.calm
    BY <2>1 DEF GoesOn, Open
  <2>3. Last(s.out) = b
    BY <1>0, <2>1, AppendOK DEF Last
  <2>4. ASSUME r.calm = TRUE PROVE \E i \in Named(b.name) : Report(b, i)
    <3>1. PICK i \in Answering(r.block.name) : Part(r, i)
      BY <1>0, <2>1, <2>4 DEF Truths, Open
    <3>2. /\ r.flags = GetFlagsOf(i) /\ r.index = i /\ b.inet = Inet(i, r.flags)
          /\ b.hwaddr = IF Has(r.flags, "IFF_LOOPBACK") THEN NULL ELSE kernel[i].mac
          /\ i \in Named(r.block.name)
      BY <2>1, <3>1 DEF Part
    <3>3. b.inet6 = Inet6(i)
      BY <2>1, <3>2
    <3>4. Report(b, i)
      BY <1>0, <2>1, <3>1, <3>2, <3>3, ReportOK
    <3>5. QED BY <2>1, <3>2, <3>4
  <2>5. QED BY <2>2, <2>3, <2>4 DEF Truths
<1>13. QED BY <1>1, <1>6, <1>7, <1>8, <1>9, <1>10, <1>11, <1>12

TruthOK == Truths(run)

\* It is about the kernel's interfaces and the program's state only.
LEMMA TruthKept ==
  ASSUME Truths(run'), kernel' = kernel
  PROVE  TruthOK'
<1>1. \A n : Named(n)' = Named(n) /\ Answering(n)' = Answering(n)
  BY DEF Named, Answering, Present
<1>2. \A i : GetFlagsOf(i)' = GetFlagsOf(i)
  BY DEF GetFlagsOf
<1>3. \A i, f : AddrsOf(i, f)' = AddrsOf(i, f)
  BY DEF AddrsOf, Present
<1>4. \A i, f : Inet(i, f)' = Inet(i, f)
  BY <1>3 DEF Inet
<1>5. ASSUME NEW b, NEW i PROVE Report(b, i)' <=> Report(b, i)
  BY DEF Report
<1>6. QED BY <1>1, <1>2, <1>4, <1>5 DEF TruthOK, Truths, Part

\* A block that was printed while nothing changed tells the truth about the
\* interface: hardware address, addresses with their netmasks, and all flags.
THEOREM Truthful == Spec => []TruthfulWhenCalm
<1>1. Init => TruthOK
  <2>1. NotStarted.pc = "start" /\ NotStarted.out = <<>>
    BY DEF NotStarted
  <2> HIDE DEF NotStarted
  <2>2. QED BY <2>1 DEF Init, TruthOK, Truths, Open
<1>2. Basics /\ TruthOK /\ [Next]_vars => TruthOK'
  <2> SUFFICES ASSUME Basics, Truths(run), [Next]_vars PROVE TruthOK'
    BY DEF TruthOK
  <2>1. CASE UNCHANGED vars
    <3>1. Truths(run') /\ kernel' = kernel
      BY <2>1 DEF vars
    <3>2. QED BY <3>1, TruthKept
  <2>2. CASE RunStep
    <3>1. Truths(run') /\ kernel' = kernel
      BY <2>2, TruthStep
      DEF RunStep, Start, ListFails, GetFlags, GetHwaddr, FindIndex, GetIpv4, GetIpv6,
          NoDevice, CallFails, DumpKills
    <3>2. QED BY <3>1, TruthKept
  <2>3. CASE KernelStep
    <3>1. Changed(run, run')
      BY <2>3, ChangeShape DEF Basics
    <3>2. run'.calm = FALSE
      BY <3>1 DEF Changed
    <3>3. QED BY <3>2 DEF TruthOK, Truths
  <2>4. QED BY <2>1, <2>2, <2>3 DEF Next
<1>3. Basics /\ TruthOK => TruthfulWhenCalm
  <2> SUFFICES ASSUME Basics, Truths(run), run.calm, run.block = <<>>, run.out # <<>>
               PROVE  \E i \in Named(Last(run.out).name) : Report(Last(run.out), i)
    BY DEF TruthOK, TruthfulWhenCalm
  <2>1. run.calm \in BOOLEAN
    BY DEF Basics, RunOK
  <2>2. run.calm = TRUE
    BY <2>1, Zenon
  <2>3. QED BY <2>2 DEF Truths
<1>4. QED BY <1>1, <1>2, <1>3, BasicsInductive, PTL DEF Spec
=============================================================================
