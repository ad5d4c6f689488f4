---------------------------- MODULE ControlSocket ----------------------------
(***************************************************************************)
(* The functions of src/python-ethtool/ethtool.c that ask the kernel about *)
(* one device, or change it, with an ioctl() on a control socket that is   *)
(* opened and closed within the call.                                      *)
(*                                                                         *)
(* A process runs one call at a time, as the GIL is held throughout; the   *)
(* calls of several processes, and devices that come and go, interleave.   *)
(* Widths are scaled down: Mod stands for 2^32.                            *)
(***************************************************************************)
EXTENDS StructDesc

CONSTANTS
  Procs,    (* Python processes                                             *)
  Devs,     (* the device names the kernel may know                         *)
  Names,    (* the device names a caller may pass                           *)
  IfName,   (* ifr_name of each name: cut after IFNAMSIZ - 1 characters     *)
  None,     (* Python's None                                                *)
  Fns,      (* the functions that are called, a part of DOMAIN Attr         *)
  Numbers,  (* what a caller may pass to a feature setter                   *)
  Dicts,    (* what a caller may pass to set_coalesce() or set_ringparam(): *)
            (* an object that is no dict has no entries                     *)
  Fds,      (* the descriptors a process may have open                      *)
  Faults,   (* what may fail: "socket", "ioctl"                             *)
  Stab,     (* the driver /var/lib/pcmcia/stab has for a name, or NULL      *)
  Configs   (* the configurations a device may have                         *)

ASSUME FdsAssumption == Fds # {}

\* A char has eight bits, of an unsigned int with a multiple of them.
ASSUME ByteAssumption == Mod % 256 = 0

\* The exceptions a call may set.
Exceptions == {"OSError", "IOError", "OverflowError", "TypeError"}

\* The null pointer is no Python object, no exception, no descriptor and
\* nothing that the kernel delivers.
ASSUME NullAssumption ==
  /\ NULL # None /\ NULL \notin Exceptions /\ NULL \notin Int
  /\ NULL \notin [Fields -> Int] /\ NULL \notin Fds /\ NULL \notin Configs

VARIABLES
  kernel,   (* each device: the value of its attributes, NULL if absent     *)
  fds,      (* descriptors of control sockets open in each process          *)
  call      (* the call each process is in                                  *)

vars == <<kernel, fds, call>>

-----------------------------------------------------------------------------
(***************************************************************************)
(* The functions and the attribute of a device each one is about.          *)
(***************************************************************************)
Attr ==
  [get_hwaddr |-> "hwaddr", get_ipaddr |-> "ipaddr", get_flags |-> "flags",
   get_netmask |-> "netmask", get_broadcast |-> "broadcast",
   get_wireless_protocol |-> "wireless", get_module |-> "driver",
   get_businfo |-> "businfo",
   get_tso |-> "tso", get_ufo |-> "ufo", get_gso |-> "gso", get_gro |-> "gro",
   get_sg |-> "sg", set_tso |-> "tso", set_gso |-> "gso", set_gro |-> "gro",
   get_coalesce |-> "coalesce", set_coalesce |-> "coalesce",
   get_ringparam |-> "ringparam", set_ringparam |-> "ringparam"]

AddressFns == {"get_hwaddr", "get_ipaddr", "get_netmask", "get_broadcast"}
FeatureSetters == {"set_tso", "set_gso", "set_gro"}
StructGetters == {"get_coalesce", "get_ringparam"}
StructSetters == {"set_coalesce", "set_ringparam"}
Setters == FeatureSetters \cup StructSetters

\* What the kernel has of a device: attributes it does not support are NULL,
\* the others have the width of the C type.
IsConfig(c) ==
  /\ DOMAIN c = {Attr[fn] : fn \in DOMAIN Attr}
  /\ \A fn \in AddressFns : c[Attr[fn]] \in (0..255) \cup {NULL}
  /\ c[Attr["get_flags"]] \in (0..(2^16 - 1)) \cup {NULL}
  /\ \A fn \in FeatureSetters : c[Attr[fn]] \in {0, 1, NULL}
  /\ \A fn \in StructSetters : c[Attr[fn]] \in [Fields -> UInt32] \cup {NULL}

ASSUME ConfigsAssumption == \A c \in Configs : IsConfig(c)
ASSUME FnsAssumption == Fns \subseteq DOMAIN Attr

-----------------------------------------------------------------------------
(***************************************************************************)
(* Conversions between kernel values and Python objects.                   *)
(***************************************************************************)

\* Faulty variant: the sign that a char carries into the int stays.
Byte_Signed(b) == (IF b < 128 THEN b ELSE b - 256) % Mod

\* (unsigned int)sa_data[i] % 256, where sa_data holds chars, which are signed.
Byte(b) == ((IF b < 128 THEN b ELSE b - 256) % Mod) % 256

\* Py_BuildValue("h", ifr_flags): ifr_flags is a short.
Short(flags) == IF flags < 32768 THEN flags ELSE flags - 65536

\* The numbers that fit into a C int.
IsInt(x) == x \in (-(Mod \div 2))..((Mod \div 2) - 1)

\* dev_set_int_value(): PyArg_ParseTuple("si") stores an int in a u32.  (For
\* what is no number the exception is a TypeError; nothing depends on which.)
ParseInt(x) ==
  IF IsInt(x) THEN [ok |-> TRUE, buf |-> x % Mod, exc |-> NULL]
  ELSE [ok |-> FALSE, buf |-> NULL, exc |-> "OverflowError"]

\* The request a call prepares before it opens the socket.
Request(fn, arg) ==
  CASE fn \in FeatureSetters -> ParseInt(arg)
    [] fn \in StructSetters  -> FromDict(arg)
    [] OTHER                 -> [ok |-> TRUE, buf |-> NULL, exc |-> NULL]

\* What a successful call returns for the buffer the ioctl has left.
Convert(fn, buf) ==
  CASE fn \in Setters       -> None
    [] fn \in AddressFns    -> Byte(buf)
    [] fn = "get_flags"     -> Short(buf)
    [] fn \in StructGetters -> CreateDict(buf)
    [] OTHER                -> buf

-----------------------------------------------------------------------------
Idle == [pc |-> "idle", fn |-> NULL, name |-> NULL, arg |-> NULL, buf |-> NULL,
         fd |-> NULL, failed |-> FALSE, exc |-> NULL]

Init ==
  /\ kernel \in [Devs -> Configs \cup {NULL}]
  /\ fds = [p \in Procs |-> {}]
  /\ call = [p \in Procs |-> Idle]

At(p, pc) == call[p].pc = pc

ArgsOf(fn) == CASE fn \in FeatureSetters -> Numbers
                [] fn \in StructSetters  -> Dicts
                [] OTHER                 -> {NULL}

\* A function is called; its arguments are parsed.
Begin(p, fn, name, arg) ==
  /\ At(p, "idle")
  /\ LET req == Request(fn, arg) IN
       call' = [call EXCEPT ![p] =
                  [Idle EXCEPT !.pc = IF req.ok THEN "socket" ELSE "return",
                               !.fn = fn, !.name = name, !.arg = arg,
                               !.buf = req.buf, !.failed = ~req.ok,
                               !.exc = req.exc]]
  /\ UNCHANGED <<kernel, fds>>

\* socket(AF_INET, SOCK_DGRAM, 0)
OpenSocket(p) ==
  /\ At(p, "socket")
  /\ \E fd \in Fds \ fds[p] :
       /\ fds' = [fds EXCEPT ![p] = @ \cup {fd}]
       /\ call' = [call EXCEPT ![p].pc = "ioctl", ![p].fd = fd]
  /\ UNCHANGED kernel

\* The process is out of descriptors, or out of luck.
SocketFails(p) ==
  /\ At(p, "socket")
  /\ Fds = fds[p] \/ "socket" \in Faults
  /\ call' = [call EXCEPT ![p].pc = "return", ![p].failed = TRUE,
                          ![p].exc = "OSError"]
  /\ UNCHANGED <<kernel, fds>>

\* The device the kernel finds has the attribute.
Supported(c) ==
  LET d == IfName[c.name] IN
    d \in Devs /\ kernel[d] # NULL /\ kernel[d][Attr[c.fn]] # NULL

\* What the kernel stores: a feature is on or off.
Stored(c) ==
  IF c.fn \in FeatureSetters THEN (IF c.buf = 0 THEN 0 ELSE 1) ELSE c.buf

\* ioctl(): a setter changes the device, a getter fills the buffer.
Ioctl(p) ==
  /\ At(p, "ioctl")
  /\ Supported(call[p])
  /\ LET c == call[p]
         d == IfName[c.name]
     IN  IF c.fn \in Setters
         THEN /\ kernel' = [kernel EXCEPT ![d][Attr[c.fn]] = Stored(c)]
              /\ call' = [call EXCEPT ![p].pc = "close"]
         ELSE /\ call' = [call EXCEPT ![p].pc = "close",
                                      ![p].buf = kernel[d][Attr[c.fn]]]
              /\ UNCHANGED kernel
  /\ UNCHANGED fds

\* ioctl() fails: no such device, not supported, or not permitted.
IoctlFails(p) ==
  /\ At(p, "ioctl")
  /\ ~Supported(call[p]) \/ "ioctl" \in Faults
  /\ call' = [call EXCEPT ![p].pc = "close", ![p].failed = TRUE,
                          ![p].exc = "IOError"]
  /\ UNCHANGED <<kernel, fds>>

\* Faulty variant: the error path returns without close().
CloseSocket_NotOnError(p) ==
  /\ At(p, "close")
  /\ fds' = [fds EXCEPT ![p] = IF call[p].failed THEN @ ELSE @ \ {call[p].fd}]
  /\ call' = [call EXCEPT ![p].fd = NULL,
                          ![p].pc = IF call[p].fn = "get_module" /\ call[p].failed
                                    THEN "stab" ELSE "return"]
  /\ UNCHANGED kernel

\* close(fd), on the way out of every path.
CloseSocket(p) ==
  /\ At(p, "close")
  /\ fds' = [fds EXCEPT ![p] = @ \ {call[p].fd}]
  /\ call' = [call EXCEPT ![p].fd = NULL,
                          ![p].pc = IF call[p].fn = "get_module" /\ call[p].failed
                                    THEN "stab" ELSE "return"]
  /\ UNCHANGED kernel

\* Faulty variant: PyErr_Clear() is left out.
ReadStab_KeepsError(p) ==
  /\ At(p, "stab")
  /\ LET driver == Stab[call[p].name] IN
       call' = IF driver = NULL THEN [call EXCEPT ![p].pc = "return"]
               ELSE [call EXCEPT ![p].pc = "return", ![p].failed = FALSE,
                                 ![p].buf = driver]
  /\ UNCHANGED <<kernel, fds>>

\* get_module(), "Before bailing, maybe it is a PCMCIA/PC Card?": a driver
\* found in the file replaces the error.
ReadStab(p) ==
  /\ At(p, "stab")
  /\ LET driver == Stab[call[p].name] IN
       call' = IF driver = NULL THEN [call EXCEPT ![p].pc = "return"]
               ELSE [call EXCEPT ![p].pc = "return", ![p].failed = FALSE,
                                 ![p].buf = driver, ![p].exc = NULL]
  /\ UNCHANGED <<kernel, fds>>

\* What the interpreter gets from a call that is at its end.
ReturnValue(c) == IF c.failed THEN NULL ELSE Convert(c.fn, c.buf)

\* The function returns to the interpreter.
Return(p) ==
  /\ At(p, "return")
  /\ call' = [call EXCEPT ![p] = Idle]
  /\ UNCHANGED <<kernel, fds>>

\* A device appears, or it disappears.
Hotplug(d) ==
  /\ IF kernel[d] = NULL THEN \E c \in Configs : kernel' = [kernel EXCEPT ![d] = c]
     ELSE kernel' = [kernel EXCEPT ![d] = NULL]
  /\ UNCHANGED <<fds, call>>

Next ==
  \/ \E p \in Procs :
       \/ \E fn \in Fns, name \in Names : \E arg \in ArgsOf(fn) :
            Begin(p, fn, name, arg)
       \/ OpenSocket(p) \/ SocketFails(p) \/ Ioctl(p) \/ IoctlFails(p)
       \/ CloseSocket(p) \/ ReadStab(p) \/ Return(p)
  \/ \E d \in Devs : Hotplug(d)

Spec == Init /\ [][Next]_vars

-----------------------------------------------------------------------------
(***************************************************************************)
(* Properties.                                                             *)
(***************************************************************************)
\* Every variable has its type: a configuration written by a setter holds
\* only values of its width, whatever Python numbers were passed.
TypeOK ==
  /\ \A p \in Procs : fds[p] \subseteq Fds
  /\ \A p \in Procs : call[p].fd \in fds[p] \cup {NULL}
  /\ \A d \in Devs : kernel[d] # NULL => IsConfig(kernel[d])

\* A process that may have a single control socket open finds a descriptor
\* whenever a call asks for one, however many calls have failed before it:
\* every error path closes the socket it has opened.
NeverOutOfDescriptors == \A p \in Procs : At(p, "socket") => fds[p] # Fds

\* The entries of a dict that PyLong_AsLong() can convert.
Convertible(c) == c.fn \in StructSetters => \A f \in DOMAIN c.arg : IsLong(c.arg[f])

\* The contract of a C function with the interpreter, NULL if and only if an
\* exception is set, on every path; except that set_coalesce() and
\* set_ringparam() break it when an entry is no C long.
ResultContract ==
  \A p \in Procs : At(p, "return") /\ Convertible(call[p])
    => (ReturnValue(call[p]) = NULL <=> call[p].exc # NULL)

\* A call that raises has not changed the device: nothing is sent once an
\* exception is set, with the exception that ResultContract makes.
RaisingChangesNothing ==
  [][\A p \in Procs : call'[p] # call[p] /\ Convertible(call[p])
       => kernel' = kernel \/ call'[p].exc = NULL]_vars

\* Whatever configuration a device has come to, also from numbers that were
\* negative, too large or no numbers, the dict of get_coalesce() can be given
\* to set_coalesce() and stands for exactly that configuration; and so with
\* get_ringparam() and set_ringparam().
Restorable ==
  \A d \in Devs, a \in {"coalesce", "ringparam"} :
    kernel[d] # NULL /\ kernel[d][a] # NULL =>
      LET req == FromDict(CreateDict(kernel[d][a])) IN
        req.ok /\ req.exc = NULL /\ req.buf = kernel[d][a]

\* The bytes of an address survive their way through signed chars.
BytesIntact ==
  \A p \in Procs :
    At(p, "return") /\ call[p].fn \in AddressFns /\ ~call[p].failed
      => ReturnValue(call[p]) = call[p].buf

=============================================================================
