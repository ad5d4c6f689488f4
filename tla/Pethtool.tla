------------------------------- MODULE Pethtool -------------------------------
(***************************************************************************)
(* The commands of scripts/pethtool: -C, -G and -K change settings, -c, -g, *)
(* -i and -k show them, on one device or on all of them.  A step is one    *)
(* call of the extension module with the Python code up to the next one:   *)
(* commands of several users, and devices that disappear, interleave       *)
(* between the calls.                                                      *)
(***************************************************************************)
EXTENDS StructDesc, DeviceLists, FiniteSets

CONSTANTS
  Procs,    (* runs of pethtool                                             *)
  Devices,  (* the device names of /proc/net/dev, a sequence                *)
  Long,     (* the devices whose line there is longer than the buffer       *)
  Targets,  (* the interface a user may name, or NULL for none              *)
  Lines,    (* the other words a user may give to -C, -G and -K             *)
  Shows,    (* the commands a user may give to show settings                *)
  On, Off,  (* the words on and off                                         *)
  Number,   (* the words that int() accepts, and what it makes of them      *)
  Kernels,  (* the settings the devices may start with                      *)
  Faults    (* what may fail: "ioctl", "lists"                              *)

\* A long and an unsigned int have room for a bit; command lines are sequences,
\* with any number of words, and NULL is no command.
ASSUME BitAssumption == Mod > 1 /\ LongMax > 0
ASSUME LinesAssumption ==
  /\ DOMAIN Lines \subseteq {"C", "G", "K"} \ {NULL}
  /\ \A cmd \in DOMAIN Lines : \A words \in Lines[cmd] : words \in Seq(Range(words))
\* int() makes integers of words, but not of on and off.
ASSUME NumberAssumption ==
  /\ {On, Off} \cap DOMAIN Number = {}
  /\ \A word \in DOMAIN Number : Number[word] \in Int
ASSUME ShowsAssumption == Shows \subseteq {"c", "g", "i", "k"}
\* The devices are a list, and NULL, for no interface, is not the name of one.
ASSUME NamesAssumption ==
  Devices \in Seq(Range(Devices)) /\ NULL \notin Range(Devices) \cup {Rest}

VARIABLES
  kernel,   (* settings of each device, NULL if it is gone                  *)
  proc,     (* the state of each run                                        *)
  boot      (* history: the settings at the beginning                       *)

vars == <<kernel, proc, boot>>

Devs == Range(Devices)

-----------------------------------------------------------------------------
(***************************************************************************)
(* Options.                                                                *)
(***************************************************************************)

\* ethtool_coalesce_msgs and the two names that get_coalesce_dict_entry()
\* treats by itself: the dict entry of each option.
CoalesceEntry ==
  ("adaptive-rx" :> "use_adaptive_rx_coalesce") @@
  ("adaptive-tx" :> "use_adaptive_tx_coalesce") @@
  ("stats-block-usecs" :> "stats_block_coalesce_usecs") @@
  ("sample-interval" :> "rate_sample_interval") @@
  ("pkt-rate-low" :> "pkt_rate_low") @@
  ("pkt-rate-high" :> "pkt_rate_high") @@
  ("rx-usecs" :> "rx_coalesce_usecs") @@
  ("rx-frames" :> "rx_max_coalesced_frames") @@
  ("rx-usecs-irq" :> "rx_coalesce_usecs_irq") @@
  ("rx-frames-irq" :> "rx_max_coalesced_frames_irq") @@
  ("tx-usecs" :> "tx_coalesce_usecs") @@
  ("tx-frames" :> "tx_max_coalesced_frames") @@
  ("tx-usecs-irq" :> "tx_coalesce_usecs_irq") @@
  ("tx-frames-irq" :> "tx_max_coalesced_frames_irq") @@
  ("rx-usecs-low" :> "rx_coalesce_usecs_low") @@
  ("rx-frame-low" :> "rx_max_coalesced_frames_low") @@
  ("tx-usecs-low" :> "tx_coalesce_usecs_low") @@
  ("tx-frame-low" :> "tx_max_coalesced_frames_low") @@
  ("rx-usecs-high" :> "rx_coalesce_usecs_high") @@
  ("rx-frame-high" :> "rx_max_coalesced_frames_high") @@
  ("tx-usecs-high" :> "tx_coalesce_usecs_high") @@
  ("tx-frame-high" :> "tx_max_coalesced_frames_high")

\* ethtool_ringparam_map
RingEntry ==
  ("rx" :> "rx_pending") @@ ("rx-mini" :> "rx_mini_pending") @@
  ("rx-jumbo" :> "rx_jumbo_pending") @@ ("tx" :> "tx_pending")

\* set_offload() knows the features that can be set.
OffloadEntry == ("tso" :> "tso") @@ ("gso" :> "gso") @@ ("gro" :> "gro")

Entry == [C |-> CoalesceEntry, G |-> RingEntry, K |-> OffloadEntry]

\* The settings a command works on; the features are a group of their own.
Group == [C |-> "coalesce", G |-> "ringparam", K |-> "offload",
          c |-> "coalesce", g |-> "ringparam", k |-> "offload", i |-> "info"]

\* The devices have settings of all groups, or NULL if they do not support them.
ASSUME KernelsAssumption ==
  \A settings \in Kernels :
    /\ DOMAIN settings = Devs
    /\ \A d \in Devs : settings[d] # NULL =>
         /\ DOMAIN settings[d] = Range(Group)
         /\ \A cmd \in {"C", "G"} : settings[d][Group[cmd]] # NULL =>
              settings[d][Group[cmd]] \in [Fields -> UInt32]

\* "on" and "off" are numbers to -C; -G takes numbers only; whatever is not
\* "on" is 0 to -K.  NULL: the pair is skipped.
Value(cmd, v) ==
  CASE cmd = "K"            -> IF v = On THEN 1 ELSE 0
    [] cmd = "C" /\ v = On  -> 1
    [] cmd = "C" /\ v = Off -> 0
    [] OTHER                -> IF v \in DOMAIN Number THEN Number[v] ELSE NULL

\* The entry and value that a pair asks for, if it is not skipped.
Asks(cmd, pair) ==
  IF pair[1] \in DOMAIN Entry[cmd] /\ Value(cmd, pair[2]) # NULL
  THEN {<<Entry[cmd][pair[1]], Value(cmd, pair[2])>>} ELSE {}

\* What each show command asks for, one call after the other.
Reads ==
  [c |-> <<"coalesce">>, g |-> <<"ringparam">>, i |-> <<"driver", "businfo">>,
   k |-> <<"sg", "tso", "ufo", "gso", "gro">>]

\* A table has finitely many entries; of the features and of what is known of
\* the driver, the model has what is asked for.
ASSUME ReadsAssumption ==
  /\ IsFiniteSet(Fields)
  /\ \A settings \in Kernels, d \in Devs, cmd \in {"i", "k"} :
       settings[d] # NULL /\ settings[d][Group[cmd]] # NULL =>
         DOMAIN settings[d][Group[cmd]] \subseteq Range(Reads[cmd])

Adaptive == {"use_adaptive_rx_coalesce", "use_adaptive_tx_coalesce"}

\* ethtool_ringparam_msgs
RingMsgs == {"rx_max_pending", "rx_mini_max_pending", "rx_jumbo_max_pending",
             "tx_max_pending", "rx_pending", "rx_mini_pending",
             "rx_jumbo_pending", "tx_pending"}

\* The entries with a line of their own, as far as the instance has them.
InTable(cmd) == Fields \cap (IF cmd = "c" THEN Range(CoalesceEntry) ELSE RingMsgs)

\* Faulty variant: what the table does not know is left out.
Printed_TableOnly(cmd, dict) == InTable(cmd)

\* The entries that are printed: those of the table, and the others if the
\* dict has more.
Printed(cmd, dict) ==
  InTable(cmd) \cup
    (IF Cardinality(DOMAIN dict) # Cardinality(InTable(cmd))
     THEN DOMAIN dict \ InTable(cmd) ELSE {})

\* A setting as it is printed.
Text(cmd, f, v) ==
  IF cmd = "k" \/ (cmd = "c" /\ f \in Adaptive) THEN (IF v # 0 THEN On ELSE Off)
  ELSE v

-----------------------------------------------------------------------------
\* target is the interface that main() finds in the arguments, line the pairs
\* that it makes of the others, odd whether one is left over; values is what
\* was read of the device so far.  History: the interface the user has named
\* and the other words on the command line (named, words), the devices on which
\* a call has failed (left), what was shown of the last device (block), and
\* the runs that were over when this one began (after).
Fresh == [pc |-> "idle", cmd |-> NULL, target |-> NULL, line |-> <<>>,
          odd |-> FALSE, todo |-> <<>>, dict |-> NULL, named |-> NULL,
          words |-> <<>>, left |-> {}, reads |-> <<>>, values |-> <<>>,
          block |-> NULL, after |-> {}]

Init ==
  /\ kernel \in Kernels
  /\ boot = kernel
  /\ proc = [p \in Procs |-> Fresh]

Present(d) == d \in Devs /\ kernel[d] # NULL
At(p, pc) == proc[p].pc = pc
Device(p) == Head(proc[p].todo)
Supports(d, cmd) == Present(d) /\ kernel[d][Group[cmd]] # NULL

\* The lines of /proc/net/dev.
ProcNetDev ==
  LET names == Those(Devices, {d \in Devs : Present(d)}) IN
    [k \in DOMAIN names |-> [name |-> names[k], long |-> names[k] \in Long]]

\* run_cmd(): the command is run on the devices in todo.
RunCmd(r, todo) ==
  [r EXCEPT !.todo = todo, !.dict = NULL, !.values = <<>>,
            !.reads = IF r.cmd \in DOMAIN Reads /\ todo # <<>> THEN Reads[r.cmd]
                      ELSE <<>>,
            !.pc = CASE todo = <<>>                -> "done"
                     [] r.cmd \in DOMAIN Reads /\ todo # <<>> -> "show"
                     [] OTHER                      -> "device"]

\* Its loop goes on, or the command is over.
NextDevice(r) == RunCmd(r, Tail(r.todo))

\* A call has failed and the device is left out.
LeaveOut(r) == NextDevice([r EXCEPT !.left = @ \cup {Head(r.todo)}])

\* An exception nobody catches, or sys.exit(), ends the process.
Abort(r) == [r EXCEPT !.pc = "aborted", !.dict = NULL]

-----------------------------------------------------------------------------
\* The runs that are over.
Over == {q \in Procs : At(q, "done")}

\* The arguments, and the pairs that are made of a list of words: the words at
\* 0, 2, 4... with the ones that follow them.
Args(target, words) == IF target = NULL THEN words ELSE <<target>> \o words
Pairs(args) == [k \in 1..Len(args) \div 2 |-> <<args[2 * k - 1], args[2 * k]>>]

\* A run on the given interface, which is NULL for all devices, with the other
\* arguments rest.
Begin(cmd, target, words, interface, rest) ==
  [Fresh EXCEPT !.cmd = cmd, !.target = interface, !.line = Pairs(rest),
                !.odd = Len(rest) % 2 = 1, !.named = target, !.words = words,
                !.after = Over]

\* Faulty variant: the first argument is taken for an interface in any case.
Start_AlwaysShifts(p, cmd, target, words) ==
  /\ At(p, "idle")
  /\ LET all == GetDevices(ProcNetDev) IN
       proc' = [proc EXCEPT ![p] =
         IF target \in Range(all)
         THEN RunCmd(Begin(cmd, target, words, target, words), <<target>>)
         ELSE RunCmd(Begin(cmd, target, words, NULL, words), all)]
  /\ UNCHANGED kernel

\* main(): with less than two arguments the usage is shown (sys.exit(1)).  The
\* first argument is the interface if it is the name of a device; otherwise
\* all devices are meant, and it stays in the list as the first option.
Start(p, cmd, target, words) ==
  /\ At(p, "idle")
  /\ LET all == GetDevices(ProcNetDev)
         args == Args(target, words)
     IN  proc' = [proc EXCEPT ![p] =
           CASE Len(args) < 2 -> Abort(Begin(cmd, target, words, NULL, args))
             [] Len(args) >= 2 /\ Head(args) \in Range(all) ->
                  RunCmd(Begin(cmd, target, words, Head(args), Tail(args)),
                         <<Head(args)>>)
             [] Len(args) >= 2 /\ Head(args) \notin Range(all) ->
                  RunCmd(Begin(cmd, target, words, NULL, args), all)]
  /\ UNCHANGED kernel

\* run_cmd_noargs(): an interface is taken as it is.
StartShow(p, cmd, target) ==
  /\ At(p, "idle")
  /\ proc' = [proc EXCEPT ![p] =
       RunCmd([Fresh EXCEPT !.cmd = cmd, !.target = target, !.named = target,
                            !.after = Over],
              IF target # NULL THEN <<target>> ELSE GetDevices(ProcNetDev))]
  /\ UNCHANGED kernel

\* get_devices(), or get_active_devices() in run_cmd(), raises an exception
\* before a device is touched.
ListFails(p) ==
  /\ At(p, "idle") /\ "lists" \in Faults
  /\ proc' = [proc EXCEPT ![p] = Abort(@)]
  /\ UNCHANGED kernel

\* One pair: an entry that differs is changed.
Edit(cmd, acc, pair) ==
  IF Asks(cmd, pair) = {} THEN acc
  ELSE LET ask == CHOOSE a \in Asks(cmd, pair) : TRUE IN
       IF acc.dict[ask[1]] = ask[2] THEN acc
       ELSE [dict |-> [acc.dict EXCEPT ![ask[1]] = ask[2]], changed |-> TRUE]

\* The loop over the pairs.
Edited(cmd, dict, line) ==
  LET after[n \in 0..Len(line)] ==
        IF n = 0 THEN [dict |-> dict, changed |-> FALSE]
        ELSE Edit(cmd, after[n - 1], line[n])
  IN  after[Len(line)]

\* set_coalesce(), set_ringparam(): the settings are read and edited.  With
\* an odd number of arguments the list of pairs cannot be built (IndexError).
ReadSettings(p) ==
  /\ At(p, "device") /\ proc[p].cmd # "K"
  /\ Supports(Device(p), proc[p].cmd)
  /\ LET r == proc[p]
         e == Edited(r.cmd, CreateDict(kernel[Device(p)][Group[r.cmd]]), r.line)
     IN  proc' = [proc EXCEPT ![p] =
           CASE r.odd                  -> Abort(r)
             [] ~r.odd /\ ~e.changed   -> NextDevice(r)
             [] ~r.odd /\ e.changed    -> [r EXCEPT !.pc = "write", !.dict = e.dict]]
  /\ UNCHANGED kernel

\* Faulty variant: the loop over the devices ends here.
ReadFails_Ends(p) ==
  /\ At(p, "device") /\ proc[p].cmd # "K"
  /\ ~Supports(Device(p), proc[p].cmd) \/ "ioctl" \in Faults
  /\ proc' = [proc EXCEPT ![p].pc = "done"]
  /\ UNCHANGED kernel

\* "NOT supported on %s!": the device is left out.
ReadFails(p) ==
  /\ At(p, "device") /\ proc[p].cmd # "K"
  /\ ~Supports(Device(p), proc[p].cmd) \/ "ioctl" \in Faults
  /\ proc' = [proc EXCEPT ![p] = LeaveOut(@)]
  /\ UNCHANGED kernel

\* Faulty variant: only what the user has asked for is sent, the rest as 0.
Sent_OnlyAsked(r) ==
  [f \in Fields |->
     IF \E k \in DOMAIN r.line : \E a \in Asks(r.cmd, r.line[k]) : a[1] = f
     THEN ToUInt32(r.dict[f]) ELSE 0]

\* The struct that ethtool.set_coalesce() or set_ringparam() sends.
Sent(r) == FromDict(r.dict).buf

\* The edited settings are written back, all of them.  A number too large for
\* a C long is sent as (uint32_t)-1, and the exception that the extension
\* module leaves behind ends the process after the write.
WriteSettings(p) ==
  /\ At(p, "write")
  /\ Supports(Device(p), proc[p].cmd)
  /\ kernel' = [kernel EXCEPT ![Device(p)][Group[proc[p].cmd]] = Sent(proc[p])]
  /\ proc' = [proc EXCEPT ![p] =
                IF FromDict(proc[p].dict).exc = NULL THEN NextDevice(@) ELSE Abort(@)]

\* Writing fails: the exception is not caught.
WriteFails(p) ==
  /\ At(p, "write")
  /\ ~Supports(Device(p), proc[p].cmd) \/ "ioctl" \in Faults
  /\ proc' = [proc EXCEPT ![p] = Abort(@)]
  /\ UNCHANGED kernel

\* The feature and value that the arguments of -K name.
Offload(r) == Asks("K", r.line[1])

\* set_offload(): a feature is set and every exception is passed over; an
\* unknown feature changes nothing.  A third argument is a ValueError, and
\* so is a list with more than one pair.
SetOffload(p) ==
  /\ At(p, "device") /\ proc[p].cmd = "K"
  /\ LET r == proc[p] IN
       \/ /\ r.odd \/ Len(r.line) # 1
          /\ proc' = [proc EXCEPT ![p] = Abort(@)]
          /\ UNCHANGED kernel
       \/ /\ ~r.odd /\ Len(r.line) = 1 /\ Supports(Device(p), "K")
          /\ kernel' = [kernel EXCEPT ![Device(p)].offload =
                          [f \in DOMAIN @ |->
                             IF \E a \in Offload(r) : a[1] = f
                             THEN (CHOOSE a \in Offload(r) : TRUE)[2] ELSE @[f]]]
          /\ proc' = [proc EXCEPT ![p] = NextDevice(@)]
       \/ /\ ~r.odd /\ Len(r.line) = 1
          /\ ~Supports(Device(p), "K") \/ "ioctl" \in Faults
          /\ proc' = [proc EXCEPT ![p] = LeaveOut(@)]
          /\ UNCHANGED kernel

\* The device has what the next call of a show command asks for.
Answers(p) ==
  LET r == proc[p] IN
    /\ Supports(Device(p), r.cmd)
    /\ r.cmd \in {"i", "k"} =>
         Head(r.reads) \in DOMAIN kernel[Device(p)][Group[r.cmd]]

\* A show command has something to print; after the last call the block of
\* the device is complete.
ShowNext(r, values) ==
  IF Len(r.reads) > 1
  THEN [r EXCEPT !.reads = Tail(@), !.values = values, !.block = NULL]
  ELSE NextDevice([r EXCEPT !.block = [dev |-> Head(r.todo), values |-> values]])

\* One more line of a block.
With(values, attr, text) ==
  [f \in DOMAIN values \cup {attr} |-> IF f = attr THEN text ELSE values[f]]

\* show_coalesce(), show_ring(), show_driver(), show_offload(): a call returns
\* and its result is printed, at the latest when the others have returned.
Show(p) ==
  /\ At(p, "show") /\ Answers(p)
  /\ LET r == proc[p]
         group == kernel[Device(p)][Group[r.cmd]]
         attr == Head(r.reads)
         dict == CreateDict(group)
     IN  proc' = [proc EXCEPT ![p] = ShowNext(@,
           IF r.cmd \in {"c", "g"}
           THEN [f \in Printed(r.cmd, dict) |-> Text(r.cmd, f, dict[f])]
           ELSE With(r.values, attr, Text(r.cmd, attr, group[attr])))]
  /\ UNCHANGED kernel

\* The call fails: "NOT supported!" for the whole device, or "not supported"
\* for one feature and on with the next.
ShowFails(p) ==
  /\ At(p, "show")
  /\ ~Answers(p) \/ "ioctl" \in Faults
  /\ proc' = [proc EXCEPT ![p] =
       IF @.cmd \in {"c", "g"} THEN LeaveOut([@ EXCEPT !.block = NULL])
       ELSE ShowNext(@, With(@.values, Head(@.reads), NULL))]
  /\ UNCHANGED kernel

\* A device disappears.
Unplug(d) ==
  /\ Present(d)
  /\ kernel' = [kernel EXCEPT ![d] = NULL]
  /\ UNCHANGED proc

Step(p) ==
  \/ ReadSettings(p) \/ ReadFails(p) \/ WriteSettings(p) \/ WriteFails(p)
  \/ SetOffload(p) \/ Show(p) \/ ShowFails(p)

Next ==
  /\ \/ \E p \in Procs :
          \/ \E cmd \in DOMAIN Lines, target \in Targets :
               \E words \in Lines[cmd] : Start(p, cmd, target, words)
          \/ \E cmd \in Shows, target \in Targets : StartShow(p, cmd, target)
          \/ ListFails(p) \/ Step(p)
     \/ \E d \in Devs : Unplug(d)
  /\ UNCHANGED boot

Spec == Init /\ [][Next]_vars

-----------------------------------------------------------------------------
(***************************************************************************)
(* Properties.                                                             *)
(***************************************************************************)

\* Every variable has its type: settings keep their width whatever number the
\* user has typed.
TypeOK ==
  /\ \A d \in Devs, cmd \in {"C", "G"} : Supports(d, cmd) =>
       kernel[d][Group[cmd]] \in [Fields -> UInt32]
  /\ \A p \in Procs : proc[p].pc \in {"idle", "device", "write", "show", "done", "aborted"}

Running(p) == proc[p].pc # "idle"
Aims(p, d) == Running(p) /\ proc[p].target \in {d, NULL}

\* The values a run of a command asks for a setting; the last one counts.
AskedIn(r, f) ==
  {k \in DOMAIN r.line : \E a \in Asks(r.cmd, r.line[k]) : a[1] = f}
Wanted(r, f) ==
  LET last == CHOOSE k \in AskedIn(r, f) : \A j \in AskedIn(r, f) : j <= k
  IN  Value(r.cmd, r.line[last][2])

\* The settings that the devices have are those they had at the beginning or
\* values that somebody asked for, for that very setting and device: to write
\* back a whole struct that was read before changes nothing else, although
\* other users write in between.
OnlyAskedValues ==
  \A d \in Devs, cmd \in {"C", "G", "K"} : Supports(d, cmd) =>
    \A f \in DOMAIN kernel[d][Group[cmd]] :
      \/ kernel[d][Group[cmd]][f] = boot[d][Group[cmd]][f]
      \/ \E p \in Procs :
           /\ Aims(p, d) /\ proc[p].cmd = cmd
           /\ \E k \in DOMAIN proc[p].line :
                \E a \in Asks(cmd, proc[p].line[k]) :
                  a[1] = f /\ kernel[d][Group[cmd]][f] = ToUInt32(a[2])

\* The options that the user has typed come in pairs.
InPairs(r) == Len(r.words) % 2 = 0

\* The step of p changes no other device than the one that its user has named.
StaysOnNamed(p) ==
  proc'[p] # proc[p] /\ proc'[p].named # NULL =>
    \A d \in Devs \ {proc'[p].named} : kernel'[d] = kernel[d]

\* A command that names an interface changes no other device if each of its
\* options has a value; in particular it changes nothing at all if the name is
\* mistyped, or the device is gone when the command starts, although it then
\* goes through all the devices.
OnlyNamedDevice == [][\A p \in Procs : InPairs(proc'[p]) => StaysOnNamed(p)]_vars

\* man/pethtool.8.asciidoc:25: INTERFACE "Is the name of the ethernet device on
\* which pethtool should operate."  A command that names an interface changes
\* no other device, whatever the rest of the command line is like.
OperatesOnInterface == [][\A p \in Procs : StaysOnNamed(p)]_vars

\* A command that has come to its end without a traceback, and had no rival,
\* has set what it was asked to set on every device it was meant for that is
\* still there, except where a call failed: a device that is left out, as it
\* lacks support or refuses, does not keep the loop from the others.
TakesEffect ==
  \A p \in Procs :
    /\ At(p, "done")
    /\ \A q \in Procs \ {p} : proc[q].cmd # proc[p].cmd
    => \A d \in Devs \ proc[p].left : Aims(p, d) /\ Supports(d, proc[p].cmd) =>
         LET group == kernel[d][Group[proc[p].cmd]] IN
           \A f \in DOMAIN group :
             AskedIn(proc[p], f) # {} => group[f] = ToUInt32(Wanted(proc[p], f))

\* The runs that set something in the group that cmd shows.
Setters(cmd) ==
  {q \in Procs : proc[q].cmd \in DOMAIN Lines /\ Group[proc[q].cmd] = Group[cmd]}

\* The values that the run r of a show command may find for a setting f of d:
\* those asked for, or the one at the beginning; but only the one that q was
\* asked to set if q was over before r began, without a failure or a rival.
MayShow(r, d, f) ==
  LET asking == {q \in Setters(r.cmd) : Aims(q, d) /\ AskedIn(proc[q], f) # {}}
      settled == {q \in asking \cap r.after :
                    Setters(r.cmd) = {q} /\ d \notin proc[q].left}
  IN  IF settled # {} THEN {ToUInt32(Wanted(proc[q], f)) : q \in settled}
      ELSE {boot[d][Group[r.cmd]][f]} \cup
           UNION {{ToUInt32(Value(proc[q].cmd, proc[q].line[k][2])) :
                     k \in AskedIn(proc[q], f)} : q \in asking}

\* What a show command prints of a device is complete, and each setting is one
\* that the device had at the beginning or that somebody has asked for.  What
\* a command has set that was over when the show command began is shown.
ShowsSettings ==
  \A p \in Procs :
    LET r == proc[p]
        Python(v) == IF r.cmd \in {"c", "g"} THEN FromUInt32(v) ELSE v
    IN  r.block # NULL /\ r.block.dev \in Devs =>
          LET d == r.block.dev IN
            boot[d] # NULL /\ boot[d][Group[r.cmd]] # NULL =>
              \A f \in DOMAIN boot[d][Group[r.cmd]] :
                /\ f \in DOMAIN r.block.values
                /\ r.block.values[f] \in
                     {NULL} \cup {Text(r.cmd, f, Python(v)) : v \in MayShow(r, d, f)}

=============================================================================
