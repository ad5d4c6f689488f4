------------------------- MODULE ControlSocketProofs -------------------------
(***************************************************************************)
(* Machine-checked facts about ControlSocket, for any processes, devices   *)
(* and tables.                                                             *)
(***************************************************************************)
EXTENDS ControlSocket, StructDescProofs

CallFields == {"pc", "fn", "name", "arg", "buf", "fd", "failed", "exc"}

-----------------------------------------------------------------------------
(***************************************************************************)
(* Descriptors.                                                            *)
(***************************************************************************)

\* A process has a control socket open between socket() and close() and at no
\* other time, and it is the one its call knows.
Holds(p) == IF call[p].pc \in {"ioctl", "close"} THEN {call[p].fd} ELSE {}

DescriptorInv ==
  /\ DOMAIN call = Procs /\ DOMAIN fds = Procs
  /\ \A p \in Procs : DOMAIN call[p] = CallFields
  /\ \A p \in Procs : fds[p] = Holds(p)

\* Process p moves to call c with descriptors s, the others stay.
Moves(p, c, s) ==
  /\ DOMAIN call' = Procs /\ call'[p] = c
  /\ DOMAIN fds' = Procs /\ fds'[p] = s
  /\ \A q \in Procs \ {p} : call'[q] = call[q] /\ fds'[q] = fds[q]

\* The invariant is kept if c and s agree.
LEMMA DescriptorUpdate ==
  ASSUME DescriptorInv, NEW p \in Procs, NEW c, NEW s, Moves(p, c, s),
         DOMAIN c = CallFields,
         s = IF c.pc \in {"ioctl", "close"} THEN {c.fd} ELSE {}
  PROVE  DescriptorInv'
BY DEF DescriptorInv, Holds, Moves

\* Each step keeps every process's descriptors in balance.
LEMMA DescriptorStep ==
  ASSUME DescriptorInv, [Next]_vars
  PROVE  DescriptorInv'
<1>1. ASSUME NEW p \in Procs, NEW fn \in Fns, NEW name \in Names,
             NEW arg \in ArgsOf(fn), Begin(p, fn, name, arg)
      PROVE  DescriptorInv'
  <2> DEFINE req == Request(fn, arg)
             c == [Idle EXCEPT !.pc = IF req.ok THEN "socket" ELSE "return",
                               !.fn = fn, !.name = name, !.arg = arg,
                               !.buf = req.buf, !.failed = ~req.ok,
                               !.exc = req.exc]
  <2> HIDE DEF req
  <2>2. DOMAIN c = CallFields /\ c.pc \notin {"ioctl", "close"}
    BY DEF Idle, CallFields
  <2>3. call' = [call EXCEPT ![p] = c] /\ fds' = fds /\ call[p].pc = "idle"
    BY <1>1 DEF Begin, At, req
  <2> HIDE DEF c
  <2>4. Moves(p, c, {})
    BY <2>3 DEF Moves, DescriptorInv, Holds
  <2>5. QED BY <2>2, <2>4, DescriptorUpdate
<1>2. ASSUME NEW p \in Procs, OpenSocket(p)
      PROVE  DescriptorInv'
  <2>1. PICK fd \in Fds \ fds[p] :
          /\ fds' = [fds EXCEPT ![p] = @ \cup {fd}]
          /\ call' = [call EXCEPT ![p].pc = "ioctl", ![p].fd = fd]
    BY <1>2 DEF OpenSocket
  <2>2. fds[p] = {} /\ DOMAIN call[p] = CallFields
    BY <1>2 DEF OpenSocket, At, DescriptorInv, Holds
  <2> DEFINE c == [call[p] EXCEPT !.pc = "ioctl", !.fd = fd]
  <2>3. DOMAIN c = CallFields /\ c.pc = "ioctl" /\ c.fd = fd
    BY <2>2 DEF CallFields
  <2>4. call' = [call EXCEPT ![p] = c]
    BY <2>1
  <2> HIDE DEF c
  <2>5. Moves(p, c, {fd})
    BY <2>1, <2>2, <2>4 DEF Moves, DescriptorInv
  <2>6. QED BY <2>3, <2>5, DescriptorUpdate
<1>3. ASSUME NEW p \in Procs, SocketFails(p)
      PROVE  DescriptorInv'
  BY <1>3 DEF SocketFails, At, DescriptorInv, Holds, CallFields
<1>4. ASSUME NEW p \in Procs, Ioctl(p) \/ IoctlFails(p)
      PROVE  DescriptorInv'
  <2>1. /\ call[p].pc = "ioctl" /\ DOMAIN call[p] = CallFields
        /\ fds[p] = {call[p].fd} /\ fds' = fds
    BY <1>4 DEF Ioctl, IoctlFails, At, DescriptorInv, Holds
  <2>2. ASSUME NEW c, call' = [call EXCEPT ![p] = c], DOMAIN c = CallFields,
               c.pc = "close", c.fd = call[p].fd
        PROVE  DescriptorInv'
    <3>1. Moves(p, c, {call[p].fd})
      BY <2>1, <2>2 DEF Moves, DescriptorInv
    <3>2. QED BY <2>2, <3>1, DescriptorUpdate
  <2>3. CASE call' = [call EXCEPT ![p].pc = "close"]
    <3> DEFINE c == [call[p] EXCEPT !.pc = "close"]
    <3>1. DOMAIN c = CallFields /\ c.pc = "close" /\ c.fd = call[p].fd
      BY <2>1 DEF CallFields
    <3>2. call' = [call EXCEPT ![p] = c]
      BY <2>3
    <3> HIDE DEF c
    <3>3. QED BY <2>2, <3>1, <3>2
  <2>4. ASSUME NEW v, call' = [call EXCEPT ![p].pc = "close", ![p].buf = v]
        PROVE  DescriptorInv'
    <3> DEFINE c == [call[p] EXCEPT !.pc = "close", !.buf = v]
    <3>1. DOMAIN c = CallFields /\ c.pc = "close" /\ c.fd = call[p].fd
      BY <2>1 DEF CallFields
    <3>2. call' = [call EXCEPT ![p] = c]
      BY <2>4
    <3> HIDE DEF c
    <3>3. QED BY <2>2, <3>1, <3>2
  <2>5. CASE call' = [call EXCEPT ![p].pc = "close", ![p].failed = TRUE,
                                  ![p].exc = "IOError"]
    <3> DEFINE c == [call[p] EXCEPT !.pc = "close", !.failed = TRUE,
                                  !.exc = "IOError"]
    <3>1. DOMAIN c = CallFields /\ c.pc = "close" /\ c.fd = call[p].fd
      BY <2>1 DEF CallFields
    <3>2. call' = [call EXCEPT ![p] = c]
      BY <2>5
    <3> HIDE DEF c
    <3>3. QED BY <2>2, <3>1, <3>2
  <2>6. QED BY <1>4, <2>3, <2>4, <2>5 DEF Ioctl, IoctlFails
<1>5. ASSUME NEW p \in Procs, CloseSocket(p)
      PROVE  DescriptorInv'
  BY <1>5 DEF CloseSocket, At, DescriptorInv, Holds, CallFields
<1>6. ASSUME NEW p \in Procs, ReadStab(p)
      PROVE  DescriptorInv'
  BY <1>6 DEF ReadStab, At, DescriptorInv, Holds, CallFields
<1>7. ASSUME NEW p \in Procs, Return(p)
      PROVE  DescriptorInv'
  BY <1>7 DEF Return, Idle, At, DescriptorInv, Holds, CallFields
<1>8. ASSUME NEW d \in Devs, Hotplug(d)
      PROVE  DescriptorInv'
  BY <1>8 DEF Hotplug, DescriptorInv, Holds
<1>9. CASE UNCHANGED vars
  BY <1>9 DEF vars, DescriptorInv, Holds
<1>10. QED
  BY <1>1, <1>2, <1>3, <1>4, <1>5, <1>6, <1>7, <1>8, <1>9 DEF Next

\* No path of any function leaks its control socket, whatever calls fail: a
\* process that may have a single descriptor never runs out of it.
THEOREM DescriptorsSuffice == Spec => []NeverOutOfDescriptors
<1>1. Init => DescriptorInv
  BY DEF Init, Idle, DescriptorInv, Holds, CallFields
<1>2. DescriptorInv /\ [Next]_vars => DescriptorInv'
  BY DescriptorStep
<1>3. DescriptorInv => NeverOutOfDescriptors
  BY FdsAssumption DEF DescriptorInv, Holds, At, NeverOutOfDescriptors
<1>4. QED BY <1>1, <1>2, <1>3, PTL DEF Spec

-----------------------------------------------------------------------------
(***************************************************************************)
(* What a call knows at each of its steps.                                 *)
(***************************************************************************)

\* What an ioctl() may leave in the buffer of a getter.
IsAnswer(fn, b) ==
  /\ fn \in AddressFns => b \in 0..255
  /\ fn = "get_flags" => b \in 0..(2^16 - 1)
  /\ fn \in StructGetters => b \in [Fields -> UInt32]
  /\ b # NULL

\* A request is a struct of the member's width; a call that has failed has an
\* exception, one that has not has none, unless an entry of the dict was no
\* long; a successful getter has an answer.
CallOK(c) ==
  /\ DOMAIN c = CallFields
  /\ c.failed \in BOOLEAN
  /\ c.pc \in {"idle", "socket", "ioctl", "close", "stab", "return"}
  /\ c.fd \in IF c.pc \in {"ioctl", "close"} THEN Fds ELSE {NULL}
  /\ c.pc # "idle" => c.fn \in DOMAIN Attr
  /\ c.pc \in {"socket", "ioctl"} =>
       ~c.failed /\ (c.fn \in StructSetters => c.buf \in [Fields -> UInt32])
  /\ c.pc \in {"close", "return"} /\ ~c.failed =>
       c.fn \in Setters \/ IsAnswer(c.fn, c.buf)
  /\ c.pc = "stab" => c.failed /\ c.fn = "get_module"
  /\ c.failed => c.exc # NULL
  /\ ~c.failed /\ Convertible(c) => c.exc = NULL

CallInv == DOMAIN call = Procs /\ \A p \in Procs : CallOK(call[p])

KernelInv ==
  /\ DOMAIN kernel = Devs
  /\ \A d \in Devs : kernel[d] # NULL => IsConfig(kernel[d])

\* Whether the entries are longs depends on the arguments only.
LEMMA SameArguments ==
  ASSUME NEW b, NEW c, b.fn = c.fn, b.arg = c.arg
  PROVE  Convertible(b) <=> Convertible(c)
BY DEF Convertible

\* A process whose call stays as it should be.
LEMMA CallUpdate ==
  ASSUME CallInv, NEW p \in Procs, NEW c, CallOK(c),
         call' = [call EXCEPT ![p] = c]
  PROVE  CallInv'
<1>1. \A q \in Procs : call'[q] = IF q = p THEN c ELSE call[q]
  BY DEF CallInv
<1>2. QED BY <1>1 DEF CallInv

\* The request of a new call.
LEMMA RequestFacts ==
  ASSUME NEW fn \in DOMAIN Attr, NEW arg
  PROVE  LET req == Request(fn, arg) IN
           /\ req.ok \in BOOLEAN
           /\ req.ok /\ fn \in StructSetters => req.buf \in [Fields -> UInt32]
           /\ ~req.ok => req.exc # NULL
           /\ req.ok /\ (fn \in StructSetters => \A f \in DOMAIN arg : IsLong(arg[f]))
                => req.exc = NULL
<1>1. CASE fn \in FeatureSetters
  <2>1. Request(fn, arg) = ParseInt(arg) /\ fn \notin StructSetters
    BY <1>1 DEF Request, FeatureSetters, StructSetters
  <2>2. /\ ParseInt(arg).ok \in BOOLEAN
        /\ ParseInt(arg).ok => ParseInt(arg).exc = NULL
        /\ ~ParseInt(arg).ok => ParseInt(arg).exc = "OverflowError"
    BY DEF ParseInt
  <2>3. QED BY <2>1, <2>2, NullAssumption DEF Exceptions
<1>2. CASE fn \in StructSetters
  <2>1. Request(fn, arg) = FromDict(arg)
    BY <1>2 DEF Request, FeatureSetters, StructSetters
  <2>2. /\ FromDict(arg).ok \in BOOLEAN
        /\ FromDict(arg).ok <=> Fields \subseteq DOMAIN arg
        /\ ~FromDict(arg).ok => FromDict(arg).exc = "IOError"
        /\ FromDict(arg).ok /\ (\A f \in Fields : IsLong(arg[f]))
             => FromDict(arg).exc = NULL
    BY DEF FromDict
  <2>3. QED BY <1>2, <2>1, <2>2, RequestIsStruct, NullAssumption DEF Exceptions
<1>3. CASE fn \notin FeatureSetters \cup StructSetters
  BY <1>3 DEF Request
<1>4. QED BY <1>1, <1>2, <1>3

\* What the kernel has for a getter is an answer.
LEMMA ConfigAnswers ==
  ASSUME NEW k, IsConfig(k), NEW fn \in DOMAIN Attr, k[Attr[fn]] # NULL
  PROVE  IsAnswer(fn, k[Attr[fn]])
<1>1. CASE fn \in AddressFns
  BY <1>1 DEF IsConfig, IsAnswer, AddressFns, StructGetters
<1>2. CASE fn = "get_flags"
  BY <1>2 DEF IsConfig, IsAnswer, AddressFns, StructGetters
<1>3. CASE fn \in StructGetters
  <2>1. \E g \in StructSetters : Attr[fn] = Attr[g]
    BY <1>3 DEF Attr, StructGetters, StructSetters
  <2>2. k[Attr[fn]] \in [Fields -> UInt32]
    BY <2>1 DEF IsConfig
  <2>3. QED BY <1>3, <2>2 DEF IsAnswer, AddressFns, StructGetters
<1>4. CASE fn \notin AddressFns \cup {"get_flags"} \cup StructGetters
  BY <1>4 DEF IsAnswer
<1>5. QED BY <1>1, <1>2, <1>3, <1>4

\* A setter leaves the device with a configuration.
LEMMA ConfigUpdate ==
  ASSUME NEW k, IsConfig(k), NEW fn \in Setters, NEW v,
         fn \in FeatureSetters => v \in {0, 1},
         fn \in StructSetters => v \in [Fields -> UInt32]
  PROVE  IsConfig([k EXCEPT ![Attr[fn]] = v])
<1> DEFINE n == [k EXCEPT ![Attr[fn]] = v]
<1>1. /\ fn \in DOMAIN Attr
      /\ \A g \in AddressFns : Attr[g] # Attr[fn]
      /\ Attr[fn] # Attr["get_flags"]
      /\ \A g \in FeatureSetters : Attr[g] = Attr[fn] => fn \in FeatureSetters
      /\ \A g \in StructSetters : Attr[g] = Attr[fn] => fn \in StructSetters
  BY DEF Attr, AddressFns, FeatureSetters, StructSetters, Setters
<1>2. /\ DOMAIN n = DOMAIN k
      /\ \A a \in DOMAIN k : n[a] = IF a = Attr[fn] THEN v ELSE k[a]
  OBVIOUS
<1>3. /\ \A g \in AddressFns \cup FeatureSetters \cup StructSetters : Attr[g] \in DOMAIN k
      /\ Attr["get_flags"] \in DOMAIN k
  <2>1. /\ AddressFns \cup FeatureSetters \cup StructSetters \subseteq DOMAIN Attr
        /\ "get_flags" \in DOMAIN Attr
    BY DEF Attr, AddressFns, FeatureSetters, StructSetters
  <2>2. QED BY <2>1 DEF IsConfig
<1> HIDE DEF n
<1>4. /\ DOMAIN n = {Attr[g] : g \in DOMAIN Attr}
      /\ \A g \in AddressFns : n[Attr[g]] \in (0..255) \cup {NULL}
      /\ n[Attr["get_flags"]] \in (0..(2^16 - 1)) \cup {NULL}
  BY <1>1, <1>2, <1>3 DEF IsConfig
<1>5. \A g \in FeatureSetters : n[Attr[g]] \in {0, 1, NULL}
  BY <1>1, <1>2, <1>3 DEF IsConfig
<1>6. \A g \in StructSetters : n[Attr[g]] \in [Fields -> UInt32] \cup {NULL}
  BY <1>1, <1>2, <1>3 DEF IsConfig
<1>7. IsConfig(n) BY <1>4, <1>5, <1>6 DEF IsConfig
<1>8. QED BY <1>7 DEF n

\* Each step keeps every call as it should be.
LEMMA CallStep ==
  ASSUME KernelInv, CallInv, [Next]_vars
  PROVE  CallInv'
<1>1. ASSUME NEW p \in Procs, NEW fn \in Fns, NEW name \in Names,
             NEW arg \in ArgsOf(fn), Begin(p, fn, name, arg)
      PROVE  CallInv'
  <2> DEFINE req == Request(fn, arg)
             c == [Idle EXCEPT !.pc = IF req.ok THEN "socket" ELSE "return",
                               !.fn = fn, !.name = name, !.arg = arg,
                               !.buf = req.buf, !.failed = ~req.ok,
                               !.exc = req.exc]
  <2>1. fn \in DOMAIN Attr
    BY FnsAssumption
  <2>2. /\ req.ok \in BOOLEAN
        /\ req.ok /\ fn \in StructSetters => req.buf \in [Fields -> UInt32]
        /\ ~req.ok => req.exc # NULL
        /\ req.ok /\ (fn \in StructSetters => \A f \in DOMAIN arg : IsLong(arg[f]))
             => req.exc = NULL
    BY <2>1, RequestFacts
  <2> HIDE DEF req
  <2>3. /\ DOMAIN c = CallFields /\ c.fn = fn /\ c.arg = arg /\ c.buf = req.buf
        /\ c.exc = req.exc /\ c.fd = NULL
        /\ c.failed = ~req.ok /\ c.pc = IF req.ok THEN "socket" ELSE "return"
    BY DEF Idle, CallFields
  <2>4. call' = [call EXCEPT ![p] = c]
    BY <1>1 DEF Begin, req
  <2> HIDE DEF c
  <2>5. CallOK(c)
    BY <2>1, <2>2, <2>3 DEF CallOK, Convertible
  <2>6. QED BY <2>4, <2>5, CallUpdate
<1>2. ASSUME NEW p \in Procs, OpenSocket(p)
      PROVE  CallInv'
  <2>1. PICK fd \in Fds : call' = [call EXCEPT ![p].pc = "ioctl", ![p].fd = fd]
    BY <1>2 DEF OpenSocket
  <2> DEFINE c == [call[p] EXCEPT !.pc = "ioctl", !.fd = fd]
  <2>2. CallOK(call[p]) /\ call[p].pc = "socket"
    BY <1>2 DEF OpenSocket, At, CallInv
  <2>3. /\ DOMAIN c = CallFields /\ c.pc = "ioctl" /\ c.fd = fd
        /\ c.fn = call[p].fn /\ c.arg = call[p].arg /\ c.buf = call[p].buf
        /\ c.exc = call[p].exc /\ c.failed = call[p].failed
    BY <2>2 DEF CallOK, CallFields
  <2>4. call' = [call EXCEPT ![p] = c]
    BY <2>1
  <2> HIDE DEF c
  <2>5. CallOK(c)
    BY <2>2, <2>3, SameArguments DEF CallOK
  <2>6. QED BY <2>4, <2>5, CallUpdate
<1>3. ASSUME NEW p \in Procs, SocketFails(p)
      PROVE  CallInv'
  <2> DEFINE c == [call[p] EXCEPT !.pc = "return", !.failed = TRUE,
                                  !.exc = "OSError"]
  <2>1. CallOK(call[p]) /\ call[p].pc = "socket"
    BY <1>3 DEF SocketFails, At, CallInv
  <2>2. /\ DOMAIN c = CallFields /\ c.pc = "return" /\ c.failed = TRUE
        /\ c.fn = call[p].fn /\ c.exc = "OSError" /\ c.fd = call[p].fd
    BY <2>1 DEF CallOK, CallFields
  <2>3. call' = [call EXCEPT ![p] = c]
    BY <1>3 DEF SocketFails
  <2> HIDE DEF c
  <2>4. CallOK(c)
    BY <2>1, <2>2, NullAssumption DEF CallOK, Exceptions
  <2>5. QED BY <2>3, <2>4, CallUpdate
<1>4. ASSUME NEW p \in Procs, Ioctl(p)
      PROVE  CallInv'
  <2> DEFINE b == IF call[p].fn \in Setters THEN call[p].buf
                  ELSE kernel[IfName[call[p].name]][Attr[call[p].fn]]
             c == [call[p] EXCEPT !.pc = "close", !.buf = b]
  <2>1. CallOK(call[p]) /\ call[p].pc = "ioctl"
    BY <1>4 DEF Ioctl, At, CallInv
  <2>2. call[p].fn \in Setters \/ IsAnswer(call[p].fn, b)
    BY <1>4, <2>1, ConfigAnswers DEF Ioctl, Supported, KernelInv, CallOK
  <2>3. call' = [call EXCEPT ![p] = c]
    <3>1. CASE call[p].fn \in Setters
      <4>1. [call[p] EXCEPT !.pc = "close"] = c
        BY <2>1, <3>1 DEF CallOK, CallFields
      <4>2. QED BY <1>4, <3>1, <4>1 DEF Ioctl
    <3>2. CASE call[p].fn \notin Setters
      BY <1>4, <3>2 DEF Ioctl
    <3>3. QED BY <3>1, <3>2
  <2> HIDE DEF b
  <2>4. /\ DOMAIN c = CallFields /\ c.pc = "close" /\ c.buf = b
        /\ c.fn = call[p].fn /\ c.arg = call[p].arg /\ c.fd = call[p].fd
        /\ c.exc = call[p].exc /\ c.failed = call[p].failed
    BY <2>1 DEF CallOK, CallFields
  <2> HIDE DEF c
  <2>5. CallOK(c)
    BY <2>1, <2>2, <2>4, SameArguments DEF CallOK
  <2>6. QED BY <2>3, <2>5, CallUpdate
<1>5. ASSUME NEW p \in Procs, IoctlFails(p)
      PROVE  CallInv'
  <2> DEFINE c == [call[p] EXCEPT !.pc = "close", !.failed = TRUE,
                                  !.exc = "IOError"]
  <2>1. CallOK(call[p]) /\ call[p].pc = "ioctl"
    BY <1>5 DEF IoctlFails, At, CallInv
  <2>2. /\ DOMAIN c = CallFields /\ c.pc = "close" /\ c.failed = TRUE
        /\ c.fn = call[p].fn /\ c.exc = "IOError" /\ c.fd = call[p].fd
    BY <2>1 DEF CallOK, CallFields
  <2>3. call' = [call EXCEPT ![p] = c]
    BY <1>5 DEF IoctlFails
  <2> HIDE DEF c
  <2>4. CallOK(c)
    BY <2>1, <2>2, NullAssumption DEF CallOK, Exceptions
  <2>5. QED BY <2>3, <2>4, CallUpdate
<1>6. ASSUME NEW p \in Procs, CloseSocket(p)
      PROVE  CallInv'
  <2> DEFINE pc == IF call[p].fn = "get_module" /\ call[p].failed
                   THEN "stab" ELSE "return"
             c == [call[p] EXCEPT !.fd = NULL, !.pc = pc]
  <2>1. CallOK(call[p]) /\ call[p].pc = "close"
    BY <1>6 DEF CloseSocket, At, CallInv
  <2>2. call' = [call EXCEPT ![p] = c]
    BY <1>6 DEF CloseSocket
  <2>3. /\ pc \in {"stab", "return"}
        /\ pc = "stab" => call[p].fn = "get_module" /\ call[p].failed
    OBVIOUS
  <2> HIDE DEF pc
  <2>4. /\ DOMAIN c = CallFields /\ c.pc = pc /\ c.buf = call[p].buf
        /\ c.fn = call[p].fn /\ c.arg = call[p].arg /\ c.fd = NULL
        /\ c.exc = call[p].exc /\ c.failed = call[p].failed
    BY <2>1 DEF CallOK, CallFields
  <2> HIDE DEF c
  <2>5. CallOK(c)
    BY <2>1, <2>3, <2>4, SameArguments DEF CallOK
  <2>6. QED BY <2>2, <2>5, CallUpdate
<1>7. ASSUME NEW p \in Procs, ReadStab(p)
      PROVE  CallInv'
  <2> DEFINE driver == Stab[call[p].name]
  <2>1. CallOK(call[p]) /\ call[p].pc = "stab"
    BY <1>7 DEF ReadStab, At, CallInv
  <2>2. CASE driver = NULL
    <3> DEFINE c == [call[p] EXCEPT !.pc = "return"]
    <3>1. call' = [call EXCEPT ![p] = c]
      BY <1>7, <2>2 DEF ReadStab
    <3>2. /\ DOMAIN c = CallFields /\ c.pc = "return" /\ c.fd = call[p].fd
          /\ c.fn = call[p].fn /\ c.exc = call[p].exc /\ c.failed = call[p].failed
      BY <2>1 DEF CallOK, CallFields
    <3> HIDE DEF c
    <3>3. CallOK(c)
      BY <2>1, <3>2 DEF CallOK
    <3>4. QED BY <3>1, <3>3, CallUpdate
  <2>3. CASE driver # NULL
    <3> DEFINE c == [call[p] EXCEPT !.pc = "return", !.failed = FALSE,
                                    !.buf = driver, !.exc = NULL]
    <3>1. call' = [call EXCEPT ![p] = c]
      BY <1>7, <2>3 DEF ReadStab
    <3>2. /\ DOMAIN c = CallFields /\ c.pc = "return" /\ c.fd = call[p].fd
          /\ c.fn = call[p].fn /\ c.buf = driver /\ c.exc = NULL
          /\ c.failed = FALSE
      BY <2>1 DEF CallOK, CallFields
    <3>3. IsAnswer("get_module", driver)
      BY <2>3 DEF IsAnswer, AddressFns, StructGetters
    <3> HIDE DEF c, driver
    <3>4. CallOK(c)
      BY <2>1, <3>2, <3>3 DEF CallOK
    <3>5. QED BY <3>1, <3>4, CallUpdate
  <2>4. QED BY <2>2, <2>3
<1>8. ASSUME NEW p \in Procs, Return(p)
      PROVE  CallInv'
  <2>1. CallOK(Idle)
    BY DEF CallOK, Idle, CallFields
  <2>2. QED BY <1>8, <2>1, CallUpdate DEF Return
<1>9. ASSUME NEW d \in Devs, Hotplug(d)
      PROVE  CallInv'
  BY <1>9 DEF Hotplug, CallInv
<1>10. CASE UNCHANGED vars
  BY <1>10 DEF vars, CallInv
<1>11. QED
  BY <1>1, <1>2, <1>3, <1>4, <1>5, <1>6, <1>7, <1>8, <1>9, <1>10 DEF Next

\* Each step leaves the devices with configurations.
LEMMA KernelStep ==
  ASSUME KernelInv, CallInv, [Next]_vars
  PROVE  KernelInv'
<1>1. ASSUME NEW p \in Procs, Ioctl(p), call[p].fn \in Setters
      PROVE  KernelInv'
  <2> DEFINE c == call[p]
             d == IfName[c.name]
             k == [kernel[d] EXCEPT ![Attr[c.fn]] = Stored(c)]
  <2>1. /\ CallOK(c) /\ c.pc = "ioctl"
        /\ d \in Devs /\ kernel[d] # NULL
        /\ kernel' = [kernel EXCEPT ![d] = k]
    BY <1>1 DEF Ioctl, At, Supported, CallInv
  <2>2. /\ c.fn \in FeatureSetters => Stored(c) \in {0, 1}
        /\ c.fn \in StructSetters => Stored(c) \in [Fields -> UInt32]
    BY <2>1 DEF Stored, CallOK, FeatureSetters, StructSetters
  <2>3. IsConfig(k)
    BY <1>1, <2>1, <2>2, ConfigUpdate DEF KernelInv
  <2> HIDE DEF k, c, d
  <2>4. QED BY <2>1, <2>3 DEF KernelInv
<1>2. ASSUME NEW d \in Devs, Hotplug(d)
      PROVE  KernelInv'
  BY <1>2, ConfigsAssumption DEF Hotplug, KernelInv
<1>3. CASE UNCHANGED kernel
  BY <1>3 DEF KernelInv
<1>4. QED
  BY <1>1, <1>2, <1>3 DEF Next, Begin, OpenSocket, SocketFails, Ioctl, IoctlFails,
     CloseSocket, ReadStab, Return, vars

\* The invariant of the processes and the devices.
Inv == KernelInv /\ CallInv /\ DescriptorInv

LEMMA InvHolds == Spec => []Inv
<1>1. Init => Inv
  <2> SUFFICES ASSUME Init PROVE Inv
    OBVIOUS
  <2>1. DescriptorInv
    BY DEF Init, Idle, DescriptorInv, Holds, CallFields
  <2>2. KernelInv
    BY ConfigsAssumption DEF Init, KernelInv
  <2>3. CallOK(Idle)
    BY DEF CallOK, Idle, CallFields
  <2>4. QED BY <2>1, <2>2, <2>3 DEF Init, Inv, CallInv
<1>2. Inv /\ [Next]_vars => Inv'
  BY DescriptorStep, CallStep, KernelStep DEF Inv
<1>3. QED BY <1>1, <1>2, PTL DEF Spec

\* Every variable keeps its type: descriptors are those of open sockets, and a
\* device has only settings of their width, whatever Python numbers are passed
\* to the setters.
THEOREM TypeCorrect == Spec => []TypeOK
<1>1. Inv => TypeOK
  BY DEF Inv, KernelInv, CallInv, DescriptorInv, Holds, CallOK, TypeOK
<1>2. QED BY <1>1, InvHolds, PTL

-----------------------------------------------------------------------------
(***************************************************************************)
(* Results.                                                                *)
(***************************************************************************)

\* The signed char of a byte and the unsigned int made of it: the sign is cut
\* off again.
LEMMA ByteIntact ==
  ASSUME NEW b \in 0..255
  PROVE  Byte(b) = b
<1>1. Mod \in Nat /\ Mod >= 256
  BY WidthAssumption, ByteAssumption
<1>2. CASE b < 128
  <2>1. b % Mod = b
    BY <1>1
  <2>2. QED BY <1>2, <2>1 DEF Byte
<1>3. CASE b >= 128
  <2>1. (b - 256) % Mod = b - 256 + Mod
    BY <1>1
  <2>2. (b - 256 + Mod) % 256 = b
    BY <1>1, ByteAssumption
  <2>3. QED BY <1>3, <2>1, <2>2 DEF Byte
<1>4. QED BY <1>2, <1>3

\* A call that succeeds has a Python object to return.
LEMMA ConvertGives ==
  ASSUME NEW fn \in DOMAIN Attr, NEW b, fn \in Setters \/ IsAnswer(fn, b)
  PROVE  Convert(fn, b) # NULL
<1>1. CASE fn \in Setters
  <2>1. Convert(fn, b) = None
    BY <1>1 DEF Convert, Setters, FeatureSetters, StructSetters,
       StructGetters, AddressFns
  <2>2. QED BY <2>1, NullAssumption
<1>2. CASE fn \in AddressFns
  <2>1. b \in 0..255 /\ Convert(fn, b) = Byte(b)
    BY <1>2 DEF IsAnswer, Convert, Setters, FeatureSetters, StructSetters,
       StructGetters, AddressFns
  <2>2. QED BY <2>1, ByteIntact, NullAssumption
<1>3. CASE fn = "get_flags"
  <2>1. b \in Int /\ Convert(fn, b) = Short(b)
    BY <1>3 DEF IsAnswer, Convert, Setters, FeatureSetters, StructSetters,
       StructGetters, AddressFns
  <2>2. Short(b) \in Int
    BY <2>1 DEF Short
  <2>3. QED BY <2>1, <2>2, NullAssumption
<1>4. CASE fn \in StructGetters
  <2>1. b \in [Fields -> UInt32] /\ Convert(fn, b) = CreateDict(b)
    BY <1>4 DEF IsAnswer, Convert, Setters, FeatureSetters, StructSetters,
       StructGetters, AddressFns
  <2>2. CreateDict(b) \in [Fields -> Int]
    BY <2>1, FromUInt32IsLong DEF CreateDict
  <2>3. QED BY <2>1, <2>2, NullAssumption
<1>5. CASE fn \notin Setters \cup AddressFns \cup {"get_flags"} \cup StructGetters
  BY <1>5 DEF IsAnswer, Convert
<1>6. QED BY <1>1, <1>2, <1>3, <1>4, <1>5

\* Every function of the module that asks about a device or changes it meets
\* its contract with the interpreter on every path, NULL if and only if an
\* exception is set, whatever is passed to it, whatever fails and however
\* devices come and go; except for dicts with an entry that is no long.
THEOREM ContractMet == Spec => []ResultContract
<1>1. Inv => ResultContract
  <2> SUFFICES ASSUME Inv, NEW p \in Procs, At(p, "return"), Convertible(call[p])
               PROVE  ReturnValue(call[p]) = NULL <=> call[p].exc # NULL
    BY DEF ResultContract
  <2>1. CallOK(call[p]) /\ call[p].pc = "return"
    BY DEF Inv, CallInv, At
  <2>2. CASE call[p].failed
    BY <2>1, <2>2 DEF CallOK, ReturnValue
  <2>3. CASE ~call[p].failed
    <3>1. Convert(call[p].fn, call[p].buf) # NULL
      BY <2>1, <2>3, ConvertGives DEF CallOK
    <3>2. QED BY <2>1, <2>3, <3>1 DEF CallOK, ReturnValue
  <2>4. QED BY <2>2, <2>3
<1>2. QED BY <1>1, InvHolds, PTL

\* The bytes of hardware and IP addresses survive their way through signed
\* chars, for any width of an unsigned int.
THEOREM BytesSurvive == Spec => []BytesIntact
<1>1. Inv => BytesIntact
  <2> SUFFICES ASSUME Inv, NEW p \in Procs, At(p, "return"),
                      call[p].fn \in AddressFns, ~call[p].failed
               PROVE  ReturnValue(call[p]) = call[p].buf
    BY DEF BytesIntact
  <2>1. call[p].buf \in 0..255 /\ call[p].fn \notin Setters
    BY DEF Inv, CallInv, CallOK, At, IsAnswer, AddressFns, Setters,
       FeatureSetters, StructSetters
  <2>2. ReturnValue(call[p]) = Byte(call[p].buf)
    BY DEF ReturnValue, Convert, Setters, FeatureSetters, StructSetters,
       StructGetters, AddressFns
  <2>3. QED BY <2>1, <2>2, ByteIntact
<1>2. QED BY <1>1, InvHolds, PTL

\* What get_coalesce() and get_ringparam() return restores the device exactly,
\* whatever values of whatever width its settings have come to.
THEOREM AlwaysRestorable == Spec => []Restorable
<1>1. Inv => Restorable
  <2> SUFFICES ASSUME Inv, NEW d \in Devs, NEW a \in {"coalesce", "ringparam"},
                      kernel[d] # NULL, kernel[d][a] # NULL
               PROVE  LET req == FromDict(CreateDict(kernel[d][a])) IN
                        req.ok /\ req.exc = NULL /\ req.buf = kernel[d][a]
    BY DEF Restorable
  <2>1. PICK fn \in StructSetters : Attr[fn] = a
    BY DEF StructSetters, Attr
  <2>2. kernel[d][Attr[fn]] \in [Fields -> UInt32] \cup {NULL}
    BY DEF Inv, KernelInv, IsConfig
  <2>3. QED BY <2>1, <2>2, DictRoundTrip
<1>2. QED BY <1>1, InvHolds, PTL

\* A call that raises an exception has left the device alone: only an ioctl()
\* of a setter changes it, and none is sent with an exception set, except for
\* dicts with an entry that is no long.
THEOREM RaisingIsHarmless == Spec => RaisingChangesNothing
<1>1. Inv /\ [Next]_vars =>
        [\A p \in Procs : call'[p] # call[p] /\ Convertible(call[p])
           => kernel' = kernel \/ call'[p].exc = NULL]_vars
  <2> SUFFICES ASSUME Inv, Next, NEW p \in Procs, call'[p] # call[p],
                      Convertible(call[p]), kernel' # kernel
               PROVE  call'[p].exc = NULL
    OBVIOUS
  <2>1. PICK q \in Procs : Ioctl(q)
    BY DEF Next, Begin, OpenSocket, SocketFails, IoctlFails, CloseSocket,
       ReadStab, Return, Hotplug
  <2>2. /\ p = q /\ CallOK(call[p]) /\ call[p].pc = "ioctl"
        /\ call' = [call EXCEPT ![p].pc = "close"]
    BY <2>1 DEF Ioctl, At, Inv, CallInv
  <2>3. call[p].exc = NULL
    BY <2>2 DEF CallOK
  <2>4. call'[p] = [call[p] EXCEPT !.pc = "close"]
    BY <2>2 DEF Inv, CallInv
  <2>5. QED BY <2>2, <2>3, <2>4 DEF CallOK, CallFields
<1>2. QED BY <1>1, InvHolds, PTL DEF Spec, RaisingChangesNothing

=============================================================================
