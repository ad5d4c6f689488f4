---------------------------- MODULE PethtoolProofs ----------------------------
(***************************************************************************)
(* Machine-checked facts about Pethtool, for any number of users, devices  *)
(* and settings, any command lines and whatever fails.                     *)
(***************************************************************************)
EXTENDS Pethtool, StructDescProofs, DeviceListsProofs, FiniteSetTheorems, TLAPS

\* The fields of a run, and where it can be.
RunFields == {"pc", "cmd", "target", "line", "odd", "todo", "dict", "named",
              "words", "left", "reads", "values", "block", "after"}
Places == {"idle", "device", "write", "show", "done", "aborted"}

\* What a run is about never changes.
SameRun(r, s) ==
  /\ s.cmd = r.cmd /\ s.target = r.target /\ s.line = r.line /\ s.odd = r.odd
  /\ s.named = r.named /\ s.words = r.words

\* A run on one device has no other one in its list.  If its user has named
\* another one, and options in pairs, one word is left over, and it never comes
\* to a write.
Heeded(r) == r.named # NULL /\ InPairs(r) => r.odd \/ r.target = r.named

RunOK(r) ==
  /\ DOMAIN r = RunFields
  /\ r.pc \in Places
  /\ r.target # NULL => r.todo \in {<<>>, <<r.target>>}
  /\ Heeded(r)
  /\ r.pc \in {"device", "write", "show"} => r.todo # <<>>
  /\ r.pc \in {"device", "write"} => r.cmd \in DOMAIN Lines /\ r.line \in Seq(Range(r.line))
  /\ r.pc = "show" => r.cmd \in DOMAIN Reads
  /\ r.pc = "write" => ~r.odd /\ r.cmd # "K" /\ DOMAIN r.dict = Fields

ProcsOK == DOMAIN proc = Procs /\ \A p \in Procs : RunOK(proc[p])

-----------------------------------------------------------------------------
(***************************************************************************)
(* The steps of the loop over the devices.                                 *)
(***************************************************************************)

\* The loop begins, or goes on.
LEMMA RunCmdOK ==
  ASSUME NEW r, DOMAIN r = RunFields, NEW todo,
         r.target # NULL => todo \in {<<>>, <<r.target>>}, Heeded(r),
         \/ r.cmd \in DOMAIN Lines /\ r.line \in Seq(Range(r.line))
         \/ r.cmd \in DOMAIN Reads
  PROVE  /\ RunOK(RunCmd(r, todo)) /\ SameRun(r, RunCmd(r, todo))
         /\ RunCmd(r, todo).pc \in {"done", "show", "device"}
<1> DEFINE s == RunCmd(r, todo)
<1>1. /\ DOMAIN s = RunFields /\ s.target = r.target /\ s.odd = r.odd
      /\ s.named = r.named /\ s.words = r.words
      /\ s.cmd = r.cmd /\ s.line = r.line /\ s.todo = todo
      /\ s.pc = CASE todo = <<>>                           -> "done"
                  [] r.cmd \in DOMAIN Reads /\ todo # <<>> -> "show"
                  [] OTHER                                 -> "device"
  BY DEF RunCmd, RunFields
<1> HIDE DEF s
<1>1a. Heeded(s)
  BY <1>1 DEF Heeded, InPairs
<1>2. CASE todo = <<>>
  <2>1. s.pc = "done"
    BY <1>1, <1>2
  <2>2. QED BY <1>1, <1>1a, <2>1 DEF RunOK, SameRun, Places, s
<1>3. CASE todo # <<>> /\ r.cmd \in DOMAIN Reads
  <2>1. s.pc = "show"
    BY <1>1, <1>3
  <2>2. QED BY <1>1, <1>1a, <1>3, <2>1 DEF RunOK, SameRun, Places, s
<1>4. CASE todo # <<>> /\ r.cmd \notin DOMAIN Reads
  <2>1. s.pc = "device"
    BY <1>1, <1>4
  <2>2. QED BY <1>1, <1>1a, <1>4, <2>1 DEF RunOK, SameRun, Places, s
<1>5. QED BY <1>2, <1>3, <1>4

\* A run r that is at work is left with the fields in r2 that the loop reads.
LEMMA NextDeviceOK ==
  ASSUME NEW r, RunOK(r), r.pc \in {"device", "write", "show"},
         NEW s, DOMAIN s = RunFields, SameRun(r, s), s.todo = r.todo
  PROVE  RunOK(NextDevice(s)) /\ SameRun(r, NextDevice(s)) /\ NextDevice(s).pc \notin {"idle", "write"}
<1>1. s.target # NULL => Tail(s.todo) \in {<<>>, <<s.target>>}
  <2>1. s.target # NULL => s.todo = <<s.target>>
    BY DEF RunOK, SameRun
  <2>2. Tail(<<s.target>>) = <<>>
    OBVIOUS
  <2>3. QED BY <2>1, <2>2
<1>2. \/ s.cmd \in DOMAIN Lines /\ s.line \in Seq(Range(s.line))
      \/ s.cmd \in DOMAIN Reads
  BY DEF RunOK, SameRun
<1>2a. Heeded(s)
  BY DEF RunOK, SameRun, Heeded, InPairs
<1>3. /\ RunOK(RunCmd(s, Tail(s.todo))) /\ SameRun(s, RunCmd(s, Tail(s.todo)))
      /\ RunCmd(s, Tail(s.todo)).pc \notin {"idle", "write"}
  BY <1>1, <1>2, <1>2a, RunCmdOK
<1>4. QED BY <1>3 DEF NextDevice, SameRun

LEMMA LeaveOutOK ==
  ASSUME NEW r, RunOK(r), r.pc \in {"device", "write", "show"},
         NEW s, DOMAIN s = RunFields, SameRun(r, s), s.todo = r.todo
  PROVE  RunOK(LeaveOut(s)) /\ SameRun(r, LeaveOut(s)) /\ LeaveOut(s).pc \notin {"idle", "write"}
<1> DEFINE t == [s EXCEPT !.left = @ \cup {Head(s.todo)}]
<1>1. DOMAIN t = RunFields /\ SameRun(r, t) /\ t.todo = r.todo
  BY DEF RunFields, SameRun
<1> HIDE DEF t
<1>2. RunOK(NextDevice(t)) /\ SameRun(r, NextDevice(t)) /\ NextDevice(t).pc \notin {"idle", "write"}
  BY <1>1, NextDeviceOK
<1>3. QED BY <1>2 DEF LeaveOut, t

LEMMA AbortOK ==
  ASSUME NEW r, RunOK(r)
  PROVE  RunOK(Abort(r)) /\ SameRun(r, Abort(r)) /\ Abort(r).pc \notin {"idle", "write"}
<1> DEFINE s == Abort(r)
<1>1. /\ DOMAIN s = RunFields /\ SameRun(r, s) /\ s.todo = r.todo /\ s.pc = "aborted"
  BY DEF Abort, RunOK, RunFields, SameRun
<1> HIDE DEF s
<1>2. RunOK(s) /\ s.pc \notin {"idle", "write"}
  BY <1>1 DEF RunOK, SameRun, Heeded, InPairs, Places
<1>3. QED BY <1>1, <1>2 DEF s

LEMMA ShowNextOK ==
  ASSUME NEW r, RunOK(r), r.pc = "show", NEW values
  PROVE  /\ RunOK(ShowNext(r, values)) /\ SameRun(r, ShowNext(r, values))
         /\ ShowNext(r, values).pc \notin {"idle", "write"}
<1>1. CASE Len(r.reads) > 1
  <2> DEFINE s == [r EXCEPT !.reads = Tail(@), !.values = values, !.block = NULL]
  <2>1. /\ DOMAIN s = RunFields /\ SameRun(r, s) /\ s.todo = r.todo /\ s.pc = "show"
    BY DEF RunOK, RunFields, SameRun
  <2> HIDE DEF s
  <2>2. RunOK(s)
    BY <2>1 DEF RunOK, SameRun, Heeded, InPairs, Places
  <2>3. QED BY <1>1, <2>1, <2>2 DEF ShowNext, s
<1>2. CASE ~(Len(r.reads) > 1)
  <2> DEFINE s == [r EXCEPT !.block = [dev |-> Head(r.todo), values |-> values]]
  <2>1. DOMAIN s = RunFields /\ SameRun(r, s) /\ s.todo = r.todo
    BY DEF RunOK, RunFields, SameRun
  <2> HIDE DEF s
  <2>2. RunOK(NextDevice(s)) /\ SameRun(r, NextDevice(s)) /\ NextDevice(s).pc \notin {"idle", "write"}
    BY <2>1, NextDeviceOK
  <2>3. QED BY <1>2, <2>2 DEF ShowNext, s
<1>3. QED BY <1>1, <1>2

-----------------------------------------------------------------------------
(***************************************************************************)
(* The loop over the pairs.                                                *)
(***************************************************************************)

\* What a pair asks for is one entry with one value.
LEMMA AsksOne ==
  ASSUME NEW cmd, NEW pair, Asks(cmd, pair) # {}
  PROVE  /\ (CHOOSE a \in Asks(cmd, pair) : TRUE) \in Asks(cmd, pair)
         /\ \E x, v : Asks(cmd, pair) = {<<x, v>>}
BY DEF Asks

\* The entry x of an edited dict is the one that was read, or one that a pair
\* asks for.
TracesBack(cmd, dict, line, x, v) ==
  \/ v = dict[x]
  \/ \E k \in DOMAIN line : \E a \in Asks(cmd, line[k]) : a[1] = x /\ v = a[2]

\* h is the history of the loop over the pairs.
IsEditing(cmd, dict, line, h) ==
  /\ h[0] = [dict |-> dict, changed |-> FALSE]
  /\ Edited(cmd, dict, line) = h[Len(line)]
  /\ \A n \in 1..Len(line) : h[n] = Edit(cmd, h[n - 1], line[n])
  /\ \A n \in 0..Len(line) :
       /\ DOMAIN h[n].dict = Fields /\ h[n].changed \in BOOLEAN
       /\ \A f \in Fields : TracesBack(cmd, dict, line, f, h[n].dict[f])

LEMMA EditingExists ==
  ASSUME NEW cmd, NEW T, NEW line \in Seq(T), NEW D, NEW dict \in [Fields -> D]
  PROVE  \E h : IsEditing(cmd, dict, line, h)
<1> DEFINE N == Len(line)
           Traced(f, v) == TracesBack(cmd, dict, line, f, v)
           V == D \cup UNION {{a[2] : a \in Asks(cmd, line[k])} : k \in DOMAIN line}
           S == {acc \in [dict : [Fields -> V], changed : BOOLEAN] :
                   \A f \in Fields : Traced(f, acc.dict[f])}
           start == [dict |-> dict, changed |-> FALSE]
           round == [x \in S \X (1..N) |-> Edit(cmd, x[1], line[x[2]])]
<1>0. N \in Nat /\ DOMAIN line = 1..N
  OBVIOUS
<1>1. start \in S
  BY DEF TracesBack
<1>2. ASSUME NEW acc \in S, NEW n \in 1..N PROVE Edit(cmd, acc, line[n]) \in S
  <2>1. CASE Asks(cmd, line[n]) = {}
    BY <2>1 DEF Edit
  <2>2. CASE Asks(cmd, line[n]) # {}
    <3> DEFINE ask == CHOOSE a \in Asks(cmd, line[n]) : TRUE
    <3>1. ask \in Asks(cmd, line[n]) /\ n \in DOMAIN line
      BY <1>0, <2>2, AsksOne
    <3> HIDE DEF ask
    <3>2. ask[2] \in V
      BY <3>1
    <3>2a. Traced(ask[1], ask[2])
      BY <3>1 DEF TracesBack
    <3>3. CASE acc.dict[ask[1]] = ask[2]
      BY <2>2, <3>3 DEF Edit, ask
    <3>4. CASE acc.dict[ask[1]] # ask[2]
      <4> DEFINE new == [acc.dict EXCEPT ![ask[1]] = ask[2]]
      <4>1. Edit(cmd, acc, line[n]) = [dict |-> new, changed |-> TRUE]
        BY <2>2, <3>4 DEF Edit, ask
      <4>2. acc.dict \in [Fields -> V] /\ \A f \in Fields : Traced(f, acc.dict[f])
        BY <1>2
      <4> HIDE DEF V, Traced
      <4>3. new \in [Fields -> V]
        BY <3>2, <4>2
      <4>4. \A f \in Fields : new[f] = IF f = ask[1] THEN ask[2] ELSE acc.dict[f]
        BY <4>2
      <4>5. \A f \in Fields : Traced(f, new[f])
        BY <3>2a, <4>2, <4>4
      <4>6. QED BY <4>1, <4>3, <4>5
    <3>5. QED BY <3>3, <3>4
  <2>3. QED BY <2>1, <2>2
<1> HIDE DEF S
<1>3. round \in [S \X (1..N) -> S]
  BY <1>2
<1>4. PICK f : IsHistory(f, S, start, N, round)
  <2> HIDE DEF round, start, N
  <2>1. N \in Nat /\ start \in S /\ round \in [S \X (1..N) -> S]
    BY <1>0, <1>1, <1>3
  <2>2. QED BY <2>1, LoopExists
<1>4a. /\ f \in [0..N -> S] /\ f[0] = start
       /\ \A n \in 1..N : f[n] = round[<<f[n - 1], n>>]
  BY <1>4 DEF IsHistory
<1> DEFINE Body(g) == [n \in 0..N |-> IF n = 0 THEN start
                                      ELSE Edit(cmd, g[n - 1], line[n])]
           h == CHOOSE g : g = Body(g)
<1>5. f = Body(f)
  <2>1. ASSUME NEW n \in 1..N PROVE f[n] = Edit(cmd, f[n - 1], line[n])
    <3>1. n - 1 \in 0..N
      BY <1>0
    <3>2. <<f[n - 1], n>> \in S \X (1..N)
      BY <1>4a, <3>1
    <3>3. round[<<f[n - 1], n>>] = Edit(cmd, f[n - 1], line[n])
      BY <3>2
    <3>4. QED BY <1>4a, <3>3
  <2> HIDE DEF start
  <2>2. QED BY <1>0, <1>4a, <2>1
<1>6. h = Body(h)
  BY <1>5
<1>7. Edited(cmd, dict, line) = h[N]
  BY DEF Edited
<1> HIDE DEF h
<1>8. h[0] = start /\ \A n \in 1..N : h[n] = Edit(cmd, h[n - 1], line[n])
  <2> HIDE DEF start
  <2>1. QED BY <1>0, <1>6
<1>9. \A n \in 0..N : h[n] \in S
  <2>1. \A n \in 1..N : h[n - 1] \in S => h[n] \in S
    BY <1>2, <1>8
  <2> HIDE DEF N
  <2>2. QED BY <1>0, <1>1, <1>8, <2>1, LoopStays
<1>10. ASSUME NEW n \in 0..N
       PROVE  /\ DOMAIN h[n].dict = Fields /\ h[n].changed \in BOOLEAN
              /\ \A g \in Fields : Traced(g, h[n].dict[g])
  BY <1>9 DEF S
<1>11. IsEditing(cmd, dict, line, h)
  BY <1>7, <1>8, <1>10 DEF IsEditing
<1>12. QED BY <1>11

\* The entries of the dict after the loop: each is the one that was read, or
\* one that a pair asks for.
LEMMA EditedOK ==
  ASSUME NEW cmd, NEW T, NEW line \in Seq(T), NEW D, NEW dict \in [Fields -> D]
  PROVE  /\ DOMAIN Edited(cmd, dict, line).dict = Fields
         /\ \A f \in Fields :
              TracesBack(cmd, dict, line, f, Edited(cmd, dict, line).dict[f])
<1>1. PICK h : IsEditing(cmd, dict, line, h)
  BY EditingExists
<1>2. Len(line) \in 0..Len(line)
  OBVIOUS
<1>3. QED BY <1>1, <1>2 DEF IsEditing

\* The pairs up to the n-th one that ask for the entry x.
Asking(cmd, line, x, n) == {k \in 1..n : \E a \in Asks(cmd, line[k]) : a[1] = x}

\* v is what the last of them asks for, or what was there if there is none.
IsLast(cmd, dict, line, x, n, v) ==
  \/ Asking(cmd, line, x, n) = {} /\ v = dict[x]
  \/ \E k \in Asking(cmd, line, x, n) :
       /\ \A j \in Asking(cmd, line, x, n) : j <= k
       /\ v = Value(cmd, line[k][2])

\* One more pair.
LEMMA EditLast ==
  ASSUME NEW cmd, NEW line, NEW dict, NEW x \in Fields, NEW n \in Nat, NEW acc,
         DOMAIN acc.dict = Fields, IsLast(cmd, dict, line, x, n, acc.dict[x])
  PROVE  IsLast(cmd, dict, line, x, n + 1, Edit(cmd, acc, line[n + 1]).dict[x])
<1> DEFINE pair == line[n + 1]
           new == Edit(cmd, acc, pair).dict
           A == Asking(cmd, line, x, n)
           B == Asking(cmd, line, x, n + 1)
<1>1. A \subseteq 1..n
  BY DEF Asking
<1>2. CASE \E a \in Asks(cmd, pair) : a[1] = x
  <2>1. PICK a \in Asks(cmd, pair) : a[1] = x
    BY <1>2
  <2>2. a[2] = Value(cmd, pair[2]) /\ (CHOOSE b \in Asks(cmd, pair) : TRUE) = a
    BY DEF Asks
  <2>3. Asks(cmd, pair) # {}
    BY <2>1
  <2>4. new[x] = a[2]
    <3> HIDE DEF pair
    <3>1. CASE acc.dict[x] = a[2]
      BY <2>1, <2>2, <2>3, <3>1 DEF Edit
    <3>2. CASE acc.dict[x] # a[2]
      <4>1. new = [acc.dict EXCEPT ![x] = a[2]]
        BY <2>1, <2>2, <2>3, <3>2 DEF Edit
      <4>2. QED BY <4>1
    <3>3. QED BY <3>1, <3>2
  <2>5. n + 1 \in B /\ \A j \in B : j <= n + 1
    BY <1>2 DEF Asking
  <2>6. QED BY <2>2, <2>4, <2>5 DEF IsLast
<1>3. CASE ~ \E a \in Asks(cmd, pair) : a[1] = x
  <2>1. B = A
    BY <1>3 DEF Asking
  <2>2. new[x] = acc.dict[x]
    <3> HIDE DEF pair
    <3>1. CASE Asks(cmd, pair) = {}
      BY <3>1 DEF Edit
    <3>2. CASE Asks(cmd, pair) # {}
      <4> DEFINE ask == CHOOSE a \in Asks(cmd, pair) : TRUE
      <4>1. ask \in Asks(cmd, pair)
        BY <3>2, AsksOne
      <4>2. ask[1] # x
        BY <1>3, <4>1
      <4> HIDE DEF ask
      <4>3. \/ Edit(cmd, acc, pair) = acc
            \/ new = [acc.dict EXCEPT ![ask[1]] = ask[2]]
        BY <3>2 DEF Edit, ask
      <4>4. QED BY <4>2, <4>3
    <3>3. QED BY <3>1, <3>2
  <2>3. QED BY <2>1, <2>2 DEF IsLast
<1>4. QED BY <1>2, <1>3

\* After the loop an entry has the value that the last pair about it asks for;
\* and where nothing is to be written, the dict is as it was read.
LEMMA EditedLast ==
  ASSUME NEW cmd, NEW T, NEW line \in Seq(T), NEW D, NEW dict \in [Fields -> D]
  PROVE  /\ Edited(cmd, dict, line).changed \in BOOLEAN
         /\ ~Edited(cmd, dict, line).changed => Edited(cmd, dict, line).dict = dict
         /\ \A x \in Fields : IsLast(cmd, dict, line, x, Len(line),
                                     Edited(cmd, dict, line).dict[x])
<1> DEFINE N == Len(line)
<1>1. PICK h : IsEditing(cmd, dict, line, h)
  BY EditingExists
<1>2. /\ N \in Nat /\ N \in 0..N
      /\ h[0].dict = dict /\ h[0].changed = FALSE /\ Edited(cmd, dict, line) = h[N]
      /\ \A n \in 1..N : h[n] = Edit(cmd, h[n - 1], line[n])
      /\ \A n \in 0..N : DOMAIN h[n].dict = Fields /\ h[n].changed \in BOOLEAN
  BY <1>1 DEF IsEditing
<1> HIDE DEF N
<1> DEFINE Good(n) == /\ h[n].changed = FALSE => h[n].dict = dict
                      /\ \A x \in Fields : IsLast(cmd, dict, line, x, n, h[n].dict[x])
           M == {n \in Nat : n <= N => Good(n)}
<1>3. 0 \in M
  <2>1. \A x \in Fields : Asking(cmd, line, x, 0) = {}
    BY DEF Asking
  <2>2. QED BY <1>2, <2>1 DEF IsLast
<1>4. ASSUME NEW n \in Nat, n \in M PROVE n + 1 \in M
  <2> SUFFICES ASSUME n + 1 <= N PROVE Good(n + 1)
    <3> HIDE DEF Good
    <3>1. QED OBVIOUS
  <2>1. n + 1 \in 1..N /\ n \in 0..N /\ n <= N /\ (n + 1) - 1 = n
    BY <1>2
  <2>2. h[n + 1] = Edit(cmd, h[n], line[n + 1]) /\ DOMAIN h[n].dict = Fields
    BY <1>2, <2>1
  <2>3. h[n].changed = FALSE => h[n].dict = dict
    BY <1>4, <2>1
  <2>4. h[n + 1].changed = FALSE => h[n + 1].dict = dict
    <3>1. h[n + 1] = h[n] \/ h[n + 1].changed = TRUE
      BY <2>2 DEF Edit
    <3>2. QED BY <2>3, <3>1
  <2>5. ASSUME NEW x \in Fields
        PROVE  IsLast(cmd, dict, line, x, n + 1, h[n + 1].dict[x])
    <3>1. IsLast(cmd, dict, line, x, n, h[n].dict[x])
      BY <1>4, <2>1
    <3>2. QED BY <2>2, <3>1, EditLast
  <2>6. QED BY <2>4, <2>5
<1> HIDE DEF M
<1>5. \A n \in Nat : n \in M => n + 1 \in M
  BY <1>4
<1>6. N \in M
  BY <1>2, <1>3, <1>5, SetInduction, Zenon
<1>7. Good(N)
  BY <1>2, <1>6 DEF M
<1>8. h[N].changed \in BOOLEAN
  BY <1>2
<1>9. ~h[N].changed => h[N].dict = dict
  BY <1>7, <1>8
<1> HIDE DEF Good
<1>10. QED BY <1>2, <1>7, <1>8, <1>9 DEF N, Good

-----------------------------------------------------------------------------
(***************************************************************************)
(* Every step of a run leaves it as it must be.                            *)
(***************************************************************************)

\* The run r becomes s, which is about the same command and not at a write.
Follows(r, s) == RunOK(s) /\ SameRun(r, s) /\ s.pc \notin {"idle", "write"}

\* The run p becomes s, which is about to write what it has edited.
Edits(p, s) ==
  LET r == proc[p] IN
    /\ RunOK(s) /\ SameRun(r, s) /\ s.pc = "write" /\ s.todo = r.todo
    /\ r.pc = "device" /\ Supports(Device(p), r.cmd)
    /\ s.dict = Edited(r.cmd, CreateDict(kernel[Device(p)][Group[r.cmd]]), r.line).dict

\* The run p becomes s, the others stay as they are.
Becomes(p, s) == proc' = [proc EXCEPT ![p] = s]

\* The settings of all devices are structs of the right width, and the groups
\* that a device has never change.
KernelOK ==
  /\ DOMAIN kernel = Devs
  /\ \A d \in Devs : kernel[d] # NULL =>
       /\ DOMAIN kernel[d] = Range(Group)
       /\ \A cmd \in {"C", "G"} : kernel[d][Group[cmd]] # NULL =>
            kernel[d][Group[cmd]] \in [Fields -> UInt32]

\* The pairs are a list.
LEMMA PairsOK ==
  ASSUME NEW T, NEW args \in Seq(T)
  PROVE  Pairs(args) \in Seq(Range(Pairs(args)))
<1> DEFINE n == Len(args) \div 2
           pairs == [k \in 1..n |-> <<args[2 * k - 1], args[2 * k]>>]
<1>1. n \in Nat
  OBVIOUS
<1> HIDE DEF n
<1>2. \A k \in 1..n : pairs[k] \in Range(pairs)
  BY DEF Range
<1>3. pairs = [k \in 1..n |-> pairs[k]]
  OBVIOUS
<1> HIDE DEF pairs
<1>4. pairs \in Seq(Range(pairs))
  BY <1>1, <1>2, <1>3
<1>5. QED BY <1>4 DEF Pairs, pairs, n

LEMMA ArgsOK ==
  ASSUME NEW T, NEW words \in Seq(T), NEW target
  PROVE  /\ Args(target, words) \in Seq(T \cup {target})
         /\ target # NULL => /\ Head(Args(target, words)) = target
                             /\ Len(Args(target, words)) = Len(words) + 1
<1>1. words \in Seq(T \cup {target}) /\ <<target>> \in Seq(T \cup {target})
  OBVIOUS
<1>2. CASE target = NULL
  BY <1>1, <1>2 DEF Args
<1>3. CASE target # NULL
  <2>1. Args(target, words) = <<target>> \o words
    BY <1>3 DEF Args
  <2>2. QED BY <1>1, <2>1
<1>4. QED BY <1>2, <1>3

\* The run r is about to begin with the devices in todo.
Begun(r, cmd, todo) ==
  /\ DOMAIN r = RunFields /\ r.cmd = cmd /\ r.line \in Seq(Range(r.line))
  /\ r.pc = "idle" /\ r.todo = <<>> /\ r.block = NULL /\ r.after = Over /\ Heeded(r)
  /\ \/ r.target = NULL /\ todo = GetDevices(ProcNetDev)
     \/ r.target \in Range(GetDevices(ProcNetDev)) /\ todo = <<r.target>>

\* main() begins a run, or ends it with the usage message.
LEMMA StartBegins ==
  ASSUME NEW p, NEW cmd \in DOMAIN Lines, NEW target, NEW words \in Lines[cmd],
         Start(p, cmd, target, words)
  PROVE  \E r, todo : /\ Begun(r, cmd, todo)
                      /\ Becomes(p, Abort(r)) \/ Becomes(p, RunCmd(r, todo))
<1> DEFINE all == GetDevices(ProcNetDev)
           args == Args(target, words)
           T == Range(words) \cup {target}
           B(interface, rest) == Begin(cmd, target, words, interface, rest)
<1>1. words \in Seq(Range(words))
  BY LinesAssumption
<1>2. /\ args \in Seq(T)
      /\ target # NULL => Head(args) = target /\ Len(args) = Len(words) + 1
  BY <1>1, ArgsOK
<1> DEFINE usage == Abort(B(NULL, args))
           one == RunCmd(B(Head(args), Tail(args)), <<Head(args)>>)
           each == RunCmd(B(NULL, args), all)
<1>3. Becomes(p, CASE Len(args) < 2 -> usage
                   [] Len(args) >= 2 /\ Head(args) \in Range(all) -> one
                   [] Len(args) >= 2 /\ Head(args) \notin Range(all) -> each)
  BY DEF Start, Becomes
<1>3a. /\ Len(args) < 2 => Becomes(p, usage)
       /\ Len(args) >= 2 /\ Head(args) \in Range(all) => Becomes(p, one)
       /\ Len(args) >= 2 /\ Head(args) \notin Range(all) => Becomes(p, each)
       /\ Len(args) \in Nat
  <2>1. Len(args) \in Nat
    BY <1>2
  <2> HIDE DEF usage, one, each, args, all
  <2>2. CASE Len(args) < 2
    BY <1>3, <2>1, <2>2
  <2>3. CASE Len(args) >= 2 /\ Head(args) \in Range(all)
    BY <1>3, <2>1, <2>3
  <2>4. CASE Len(args) >= 2 /\ Head(args) \notin Range(all)
    BY <1>3, <2>1, <2>4
  <2>5. QED BY <2>1, <2>2, <2>3, <2>4
<1>4. ASSUME NEW interface, NEW rest
      PROVE  /\ DOMAIN B(interface, rest) = RunFields
             /\ B(interface, rest).cmd = cmd /\ B(interface, rest).line = Pairs(rest)
             /\ B(interface, rest).target = interface
             /\ B(interface, rest).odd = (Len(rest) % 2 = 1)
             /\ B(interface, rest).named = target /\ B(interface, rest).words = words
             /\ B(interface, rest).pc = "idle" /\ B(interface, rest).todo = <<>>
             /\ B(interface, rest).block = NULL /\ B(interface, rest).after = Over
  BY DEF Begin, Fresh, RunFields
<1> HIDE DEF all, args, T, B
<1>5. Begun(B(NULL, args), cmd, all)
  <2>1. Heeded(B(NULL, args))
    <3>1. target # NULL /\ Len(words) % 2 = 0 => Len(args) % 2 = 1
      BY <1>1, <1>2
    <3>2. QED BY <1>4, <3>1 DEF Heeded, InPairs
  <2>2. QED BY <1>2, <1>4, <2>1, PairsOK DEF Begun, all
<1>6. CASE Len(args) < 2
  <2>1. Becomes(p, Abort(B(NULL, args)))
    BY <1>3a, <1>6
  <2>2. QED BY <1>5, <2>1
<1>7. CASE Len(args) >= 2 /\ Head(args) \in Range(all)
  <2> DEFINE r == B(Head(args), Tail(args))
  <2>1. Becomes(p, RunCmd(r, <<Head(args)>>))
    BY <1>3a, <1>7
  <2>2. Tail(args) \in Seq(T)
    BY <1>2, <1>7
  <2>3. Heeded(r)
    BY <1>2, <1>4 DEF Heeded
  <2>3a. Pairs(Tail(args)) \in Seq(Range(Pairs(Tail(args))))
    BY <2>2, PairsOK
  <2>3b. r.target = Head(args) /\ r.line = Pairs(Tail(args))
    BY <1>4
  <2>4. Begun(r, cmd, <<Head(args)>>)
    BY <1>4, <1>7, <2>3, <2>3a, <2>3b DEF Begun, all
  <2>5. QED BY <2>1, <2>4
<1>8. CASE Len(args) >= 2 /\ Head(args) \notin Range(all)
  <2>1. Becomes(p, RunCmd(B(NULL, args), all))
    BY <1>3a, <1>8
  <2>2. QED BY <1>5, <2>1
<1>9. QED BY <1>3a, <1>6, <1>7, <1>8

LEMMA BegunOK ==
  ASSUME NEW r, NEW cmd \in DOMAIN Lines, NEW todo, Begun(r, cmd, todo)
  PROVE  /\ RunOK(Abort(r)) /\ Abort(r).pc = "aborted"
         /\ RunOK(RunCmd(r, todo)) /\ RunCmd(r, todo).pc \in {"done", "show", "device"}
<1>1. RunOK(r)
  BY DEF Begun, RunOK, Places
<1>2. Abort(r).pc = "aborted"
  BY DEF Begun, Abort, RunFields
<1>3. /\ DOMAIN r = RunFields
      /\ r.target # NULL => todo \in {<<>>, <<r.target>>}
      /\ Heeded(r) /\ r.cmd \in DOMAIN Lines /\ r.line \in Seq(Range(r.line))
  BY DEF Begun
<1>4. QED BY <1>1, <1>2, <1>3, AbortOK, RunCmdOK

LEMMA StartOK ==
  ASSUME NEW p, NEW cmd \in DOMAIN Lines, NEW target, NEW words \in Lines[cmd],
         Start(p, cmd, target, words)
  PROVE  \E s : Becomes(p, s) /\ RunOK(s) /\ s.pc \notin {"idle", "write"}
BY StartBegins, BegunOK

LEMMA StartShowOK ==
  ASSUME NEW p, NEW cmd \in Shows, NEW target, StartShow(p, cmd, target)
  PROVE  \E s : Becomes(p, s) /\ RunOK(s) /\ s.pc \notin {"idle", "write"}
<1> DEFINE all == GetDevices(ProcNetDev)
           r == [Fresh EXCEPT !.cmd = cmd, !.target = target, !.named = target,
                              !.after = Over]
           todo == IF target # NULL THEN <<target>> ELSE all
<1>1. proc' = [proc EXCEPT ![p] = RunCmd(r, todo)]
  BY DEF StartShow
<1> HIDE DEF all
<1>2. DOMAIN r = RunFields /\ r.cmd = cmd /\ r.target = target /\ r.named = target
  BY DEF Fresh, RunFields
<1> HIDE DEF r
<1>3. (r.target # NULL => todo \in {<<>>, <<r.target>>}) /\ Heeded(r)
  BY <1>2 DEF Heeded
<1> HIDE DEF todo
<1>4. r.cmd \in DOMAIN Reads
  BY <1>2, ShowsAssumption DEF Reads
<1>5. RunOK(RunCmd(r, todo)) /\ RunCmd(r, todo).pc \in {"done", "show", "device"}
  BY <1>2, <1>3, <1>4, RunCmdOK
<1>6. QED BY <1>1, <1>5 DEF Becomes

\* What a group of settings looks like to Python.
LEMMA CreateDictOK ==
  ASSUME NEW struct
  PROVE  CreateDict(struct) \in [Fields -> {FromUInt32(struct[f]) : f \in Fields}]
BY DEF CreateDict

LEMMA ReadSettingsOK ==
  ASSUME NEW p, RunOK(proc[p]), ReadSettings(p)
  PROVE  \E s : Becomes(p, s) /\ (Follows(proc[p], s) \/ Edits(p, s))
<1> DEFINE r == proc[p]
           struct == kernel[Device(p)][Group[r.cmd]]
           e == Edited(r.cmd, CreateDict(struct), r.line)
<1>1. /\ r.pc = "device" /\ r.cmd # "K"
      /\ Supports(Device(p), r.cmd)
      /\ proc' = [proc EXCEPT ![p] =
           CASE r.odd                  -> Abort(r)
             [] ~r.odd /\ ~e.changed   -> NextDevice(r)
             [] ~r.odd /\ e.changed    -> [r EXCEPT !.pc = "write", !.dict = e.dict]]
  BY DEF ReadSettings, At
<1>2. r.line \in Seq(Range(r.line))
  BY <1>1, LinesAssumption DEF RunOK
<1> HIDE DEF struct
<1>3. DOMAIN e.dict = Fields
  <2> DEFINE D == {FromUInt32(struct[f]) : f \in Fields}
  <2>1. CreateDict(struct) \in [Fields -> D]
    BY CreateDictOK
  <2> HIDE DEF D, r
  <2>2. QED BY <1>2, <2>1, EditedOK
<1> HIDE DEF e, r
<1>4. RunOK(r) /\ DOMAIN r = RunFields
  BY DEF r, RunOK
<1>5. CASE r.odd
  <2>1. Becomes(p, Abort(r))
    BY <1>1, <1>5 DEF Becomes
  <2>2. QED BY <1>4, <2>1, AbortOK DEF Follows, r
<1>6. CASE ~r.odd /\ ~e.changed
  <2>1. Becomes(p, NextDevice(r))
    BY <1>1, <1>6 DEF Becomes
  <2>2. Follows(r, NextDevice(r))
    BY <1>1, <1>4, NextDeviceOK DEF Follows, SameRun
  <2>3. QED BY <2>1, <2>2 DEF r
<1>7. CASE ~r.odd /\ e.changed
  <2> DEFINE s == [r EXCEPT !.pc = "write", !.dict = e.dict]
  <2>1. Becomes(p, s)
    BY <1>1, <1>7 DEF Becomes
  <2>2. /\ DOMAIN s = RunFields /\ SameRun(r, s) /\ s.todo = r.todo
        /\ s.pc = "write" /\ s.dict = e.dict
    BY <1>4 DEF RunFields, SameRun
  <2> HIDE DEF s
  <2>3. RunOK(s)
    BY <1>1, <1>3, <1>4, <1>7, <2>2 DEF RunOK, SameRun, Heeded, InPairs, Places
  <2>4. Edits(p, s)
    BY <1>1, <2>2, <2>3 DEF Edits, r, e, struct
  <2>5. QED BY <2>1, <2>4
<1>8. QED BY <1>5, <1>6, <1>7

\* The next device, with or without a call that has failed; the end.
LEMMA LoopStepOK ==
  ASSUME NEW r, RunOK(r), r.pc \in {"device", "write", "show"}
  PROVE  Follows(r, NextDevice(r)) /\ Follows(r, LeaveOut(r)) /\ Follows(r, Abort(r))
<1>1. DOMAIN r = RunFields /\ SameRun(r, r)
  BY DEF RunOK, SameRun
<1>2. QED BY <1>1, NextDeviceOK, LeaveOutOK, AbortOK DEF Follows

LEMMA ReadFailsOK ==
  ASSUME NEW p, RunOK(proc[p]), ReadFails(p)
  PROVE  \E s : Becomes(p, s) /\ Follows(proc[p], s)
BY LoopStepOK DEF ReadFails, At, Becomes

LEMMA WriteSettingsOK ==
  ASSUME NEW p, RunOK(proc[p]), WriteSettings(p)
  PROVE  \E s : Becomes(p, s) /\ Follows(proc[p], s)
BY LoopStepOK DEF WriteSettings, At, Becomes

LEMMA WriteFailsOK ==
  ASSUME NEW p, RunOK(proc[p]), WriteFails(p)
  PROVE  \E s : Becomes(p, s) /\ Follows(proc[p], s)
BY LoopStepOK DEF WriteFails, At, Becomes

LEMMA SetOffloadOK ==
  ASSUME NEW p, RunOK(proc[p]), SetOffload(p)
  PROVE  \E s : Becomes(p, s) /\ Follows(proc[p], s)
<1>1. /\ proc[p].pc = "device"
      /\ \/ Becomes(p, Abort(proc[p]))
         \/ Becomes(p, NextDevice(proc[p]))
         \/ Becomes(p, LeaveOut(proc[p]))
  BY DEF SetOffload, At, Becomes
<1>2. QED BY <1>1, LoopStepOK

LEMMA ShowOK ==
  ASSUME NEW p, RunOK(proc[p]), Show(p)
  PROVE  \E s : Becomes(p, s) /\ Follows(proc[p], s)
<1>1. proc[p].pc = "show" /\ \E values : Becomes(p, ShowNext(proc[p], values))
  BY DEF Show, At, Becomes
<1>2. QED BY <1>1, ShowNextOK DEF Follows

LEMMA ShowFailsOK ==
  ASSUME NEW p, RunOK(proc[p]), ShowFails(p)
  PROVE  \E s : Becomes(p, s) /\ Follows(proc[p], s)
<1> DEFINE r == proc[p]
           s == [r EXCEPT !.block = NULL]
<1>1. /\ r.pc = "show"
      /\ proc' = [proc EXCEPT ![p] =
            IF r.cmd \in {"c", "g"} THEN LeaveOut(s)
            ELSE ShowNext(r, With(r.values, Head(r.reads), NULL))]
  BY DEF ShowFails, At
<1>2. DOMAIN s = RunFields /\ SameRun(r, s) /\ s.todo = r.todo
  BY DEF RunOK, RunFields, SameRun
<1> HIDE DEF s, r
<1>3. RunOK(r)
  BY DEF r
<1>4. CASE r.cmd \in {"c", "g"}
  <2>1. Becomes(p, LeaveOut(s))
    BY <1>1, <1>4 DEF Becomes
  <2>2. Follows(r, LeaveOut(s))
    BY <1>1, <1>2, <1>3, LeaveOutOK DEF Follows
  <2>3. QED BY <2>1, <2>2 DEF r
<1>5. CASE r.cmd \notin {"c", "g"}
  <2> DEFINE values == With(r.values, Head(r.reads), NULL)
  <2>1. Becomes(p, ShowNext(r, values))
    BY <1>1, <1>5 DEF Becomes
  <2> HIDE DEF values
  <2>2. Follows(r, ShowNext(r, values))
    BY <1>1, <1>3, ShowNextOK DEF Follows
  <2>3. QED BY <2>1, <2>2 DEF r
<1>6. QED BY <1>4, <1>5

LEMMA StepOK ==
  ASSUME NEW p, RunOK(proc[p]), Step(p)
  PROVE  \E s : Becomes(p, s) /\ (Follows(proc[p], s) \/ Edits(p, s))
BY ReadSettingsOK, ReadFailsOK, WriteSettingsOK, WriteFailsOK, SetOffloadOK,
   ShowOK, ShowFailsOK DEF Step

-----------------------------------------------------------------------------
(***************************************************************************)
(* All runs.                                                               *)
(***************************************************************************)

\* A run that has begun stays about the same command.
Kept == \A q \in Procs : Running(q) => /\ SameRun(proc[q], proc'[q])
                                       /\ proc'[q].pc # "idle"

\* A run comes to a write only by editing what it has read.
NewWrites == \A q \in Procs : proc'[q].pc = "write" =>
               proc'[q] = proc[q] \/ Edits(q, proc'[q])

LEMMA UpdateOK ==
  ASSUME ProcsOK, NEW p \in Procs, NEW s, Becomes(p, s), RunOK(s), s.pc # "idle",
         Running(p) => SameRun(proc[p], s), s.pc = "write" => Edits(p, s)
  PROVE  ProcsOK' /\ Kept /\ NewWrites
<1>1. DOMAIN proc' = Procs /\ \A q \in Procs : proc'[q] = IF q = p THEN s ELSE proc[q]
  BY DEF ProcsOK, Becomes
<1>2. \A q \in Procs : RunOK(proc'[q])
  BY <1>1 DEF ProcsOK
<1>3. ProcsOK'
  BY <1>1, <1>2 DEF ProcsOK
<1>4. ASSUME NEW q \in Procs, Running(q)
      PROVE  SameRun(proc[q], proc'[q]) /\ proc'[q].pc # "idle"
  BY <1>1, <1>4 DEF Running, SameRun
<1>5. NewWrites
  BY <1>1 DEF NewWrites
<1>6. QED BY <1>3, <1>4, <1>5 DEF Kept

LEMMA ProcsInit ==
  ASSUME Init
  PROVE  ProcsOK
<1>1. RunOK(Fresh)
  BY DEF RunOK, Heeded, Fresh, RunFields, Places
<1>2. QED BY <1>1 DEF Init, ProcsOK

LEMMA ProcsNext ==
  ASSUME ProcsOK, [Next]_vars
  PROVE  ProcsOK' /\ Kept /\ NewWrites
<1>1. ASSUME NEW p \in Procs, NEW cmd \in DOMAIN Lines, NEW target \in Targets,
             NEW words \in Lines[cmd], Start(p, cmd, target, words)
      PROVE  ProcsOK' /\ Kept /\ NewWrites
  <2>1. ~Running(p)
    BY <1>1 DEF Start, At, Running
  <2>2. QED BY <1>1, <2>1, StartOK, UpdateOK
<1>2. ASSUME NEW p \in Procs, NEW cmd \in Shows, NEW target \in Targets,
             StartShow(p, cmd, target)
      PROVE  ProcsOK' /\ Kept /\ NewWrites
  <2>1. ~Running(p)
    BY <1>2 DEF StartShow, At, Running
  <2>2. QED BY <1>2, <2>1, StartShowOK, UpdateOK
<1>3. ASSUME NEW p \in Procs, ListFails(p)
      PROVE  ProcsOK' /\ Kept /\ NewWrites
  <2>1. RunOK(proc[p])
    BY DEF ProcsOK
  <2>2. Becomes(p, Abort(proc[p]))
    BY <1>3 DEF ListFails, Becomes
  <2>3. QED BY <2>1, <2>2, AbortOK, UpdateOK
<1>4. ASSUME NEW p \in Procs, Step(p)
      PROVE  ProcsOK' /\ Kept /\ NewWrites
  <2>1. PICK s : Becomes(p, s) /\ (Follows(proc[p], s) \/ Edits(p, s))
    BY <1>4, StepOK DEF ProcsOK
  <2>2. /\ RunOK(s) /\ SameRun(proc[p], s) /\ s.pc # "idle"
        /\ s.pc = "write" => Edits(p, s)
    BY <2>1 DEF Follows, Edits
  <2>3. QED BY <2>1, <2>2, UpdateOK
<1>5. ASSUME UNCHANGED proc
      PROVE  ProcsOK' /\ Kept /\ NewWrites
  BY <1>5 DEF ProcsOK, Kept, NewWrites, Running, SameRun
<1>6. QED BY <1>1, <1>2, <1>3, <1>4, <1>5 DEF Next, Unplug, vars

-----------------------------------------------------------------------------
(***************************************************************************)
(* The settings of the devices.                                            *)
(***************************************************************************)

LEMMA GroupOK ==
  /\ Group["C"] = "coalesce" /\ Group["G"] = "ringparam" /\ Group["K"] = "offload"
  /\ {"coalesce", "ringparam", "offload"} \subseteq Range(Group)
<1>1. /\ Group["C"] = "coalesce" /\ Group["G"] = "ringparam" /\ Group["K"] = "offload"
      /\ {"C", "G", "K"} \subseteq DOMAIN Group
  BY DEF Group
<1>2. QED BY <1>1 DEF Range

\* The struct that is sent is the edited dict, member by member.
LEMMA SentOK ==
  ASSUME NEW r, DOMAIN r.dict = Fields
  PROVE  Sent(r) \in [Fields -> UInt32] /\ \A f \in Fields : Sent(r)[f] = ToUInt32(r.dict[f])
<1>1. FromDict(r.dict).ok /\ FromDict(r.dict).buf = [f \in Fields |-> ToUInt32(r.dict[f])]
  BY DEF FromDict
<1>2. QED BY <1>1, RequestIsStruct DEF Sent

\* A step of a run p, or a device that disappears, and what it does to the
\* settings: nothing; one group of its device is replaced, by the dict that
\* was edited or with a feature set; or they are gone.
Writes(p, d) ==
  /\ proc[p].pc = "write" /\ d = Device(p) /\ Supports(d, proc[p].cmd)
  /\ kernel' = [kernel EXCEPT ![d] = [@ EXCEPT ![Group[proc[p].cmd]] = Sent(proc[p])]]

Sets(p, d) ==
  /\ proc[p].pc = "device" /\ proc[p].cmd = "K" /\ d = Device(p) /\ Supports(d, "K")
  /\ ~proc[p].odd /\ Len(proc[p].line) = 1
  /\ kernel' = [kernel EXCEPT ![d] = [@ EXCEPT !["offload"] =
                  [f \in DOMAIN kernel[d]["offload"] |->
                     IF \E a \in Offload(proc[p]) : a[1] = f
                     THEN (CHOOSE a \in Offload(proc[p]) : TRUE)[2]
                     ELSE kernel[d]["offload"][f]]]]

\* A step of the run p.
RunSteps(p) ==
  \/ \E cmd \in DOMAIN Lines, target \in Targets :
       \E words \in Lines[cmd] : Start(p, cmd, target, words)
  \/ \E cmd \in Shows, target \in Targets : StartShow(p, cmd, target)
  \/ ListFails(p) \/ Step(p)

LEMMA RunStepOK ==
  ASSUME NEW p \in Procs, RunSteps(p)
  PROVE  /\ \E s : Becomes(p, s)
         /\ UNCHANGED kernel \/ \E d \in Devs : Writes(p, d) \/ Sets(p, d)
<1>1. ASSUME WriteSettings(p)
      PROVE  \E d \in Devs : Writes(p, d) /\ \E s : Becomes(p, s)
  BY <1>1 DEF WriteSettings, Writes, Supports, Present, At, Becomes
<1>2. ASSUME SetOffload(p)
      PROVE  /\ \E s : Becomes(p, s)
             /\ UNCHANGED kernel \/ \E d \in Devs : Sets(p, d)
  <2>1. \E s : Becomes(p, s)
    BY <1>2 DEF SetOffload, Becomes
  <2>2. CASE UNCHANGED kernel
    BY <2>1, <2>2
  <2>3. CASE /\ ~proc[p].odd /\ Len(proc[p].line) = 1 /\ Supports(Device(p), "K")
             /\ kernel' = [kernel EXCEPT ![Device(p)].offload =
                          [f \in DOMAIN @ |->
                             IF \E a \in Offload(proc[p]) : a[1] = f
                             THEN (CHOOSE a \in Offload(proc[p]) : TRUE)[2] ELSE @[f]]]
             /\ proc' = [proc EXCEPT ![p] = NextDevice(@)]
    BY <1>2, <2>1, <2>3 DEF SetOffload, Sets, Supports, Present, At
  <2>4. QED BY <1>2, <2>2, <2>3 DEF SetOffload
<1>3. QED BY <1>1, <1>2 DEF RunSteps, Step, Start, StartShow, ListFails, ReadSettings,
        ReadFails, WriteFails, Show, ShowFails, Becomes

\* Who takes a step.
LEMMA StepKinds ==
  ASSUME [Next]_vars
  PROVE  /\ UNCHANGED boot
         /\ \/ \E p \in Procs : RunSteps(p)
            \/ \E d \in Devs : UNCHANGED proc /\ kernel' = [kernel EXCEPT ![d] = NULL]
            \/ UNCHANGED <<proc, kernel>>
BY DEF Next, RunSteps, Unplug, vars

LEMMA KernelSteps ==
  ASSUME [Next]_vars
  PROVE  \/ UNCHANGED kernel
         \/ \E d \in Devs : UNCHANGED proc /\ kernel' = [kernel EXCEPT ![d] = NULL]
         \/ \E p \in Procs, d \in Devs :
              (Writes(p, d) \/ Sets(p, d)) /\ \E s : Becomes(p, s)
BY RunStepOK, StepKinds

LEMMA KernelInit ==
  ASSUME Init
  PROVE  KernelOK
BY KernelsAssumption DEF Init, KernelOK

LEMMA KernelNext ==
  ASSUME ProcsOK, KernelOK, [Next]_vars
  PROVE  KernelOK'
<1>1. CASE UNCHANGED kernel
  BY <1>1 DEF KernelOK
<1>2. ASSUME NEW d \in Devs, kernel' = [kernel EXCEPT ![d] = NULL]
      PROVE  KernelOK'
  BY <1>2 DEF KernelOK
<1>3. ASSUME NEW p \in Procs, NEW d \in Devs, NEW x, NEW g \in Range(Group),
             \A cmd \in {"C", "G"} : g = Group[cmd] => x \in [Fields -> UInt32],
             kernel[d] # NULL, kernel' = [kernel EXCEPT ![d] = [@ EXCEPT ![g] = x]]
      PROVE  KernelOK'
  <2>1. /\ DOMAIN kernel' = Devs
        /\ \A e \in Devs : e # d => kernel'[e] = kernel[e]
        /\ kernel'[d] = [kernel[d] EXCEPT ![g] = x]
    BY <1>3 DEF KernelOK
  <2>2. /\ DOMAIN kernel'[d] = Range(Group) /\ kernel'[d][g] = x
        /\ \A h \in Range(Group) : h # g => kernel'[d][h] = kernel[d][h]
    BY <1>3, <2>1 DEF KernelOK
  <2>3. \A cmd \in {"C", "G"} : Group[cmd] \in Range(Group)
    BY GroupOK
  <2>4. \A cmd \in {"C", "G"} : kernel'[d][Group[cmd]] # NULL =>
          kernel'[d][Group[cmd]] \in [Fields -> UInt32]
    BY <1>3, <2>2, <2>3 DEF KernelOK
  <2>5. QED BY <2>1, <2>2, <2>4 DEF KernelOK
<1>4. ASSUME NEW p \in Procs, NEW d \in Devs, Writes(p, d)
      PROVE  KernelOK'
  <2>1. Sent(proc[p]) \in [Fields -> UInt32] /\ proc[p].cmd \in {"C", "G"}
    BY <1>4, SentOK, LinesAssumption DEF Writes, ProcsOK, RunOK
  <2>2. Group[proc[p].cmd] \in Range(Group)
    BY <2>1, GroupOK
  <2>3. QED BY <1>3, <1>4, <2>1, <2>2 DEF Writes, Supports, Present
<1>5. ASSUME NEW p \in Procs, NEW d \in Devs, Sets(p, d)
      PROVE  KernelOK'
  <2>1. "offload" \in Range(Group) /\ \A cmd \in {"C", "G"} : "offload" # Group[cmd]
    BY GroupOK
  <2>2. QED BY <1>3, <1>5, <2>1 DEF Sets, Supports, Present
<1>6. QED BY <1>1, <1>2, <1>4, <1>5, KernelSteps

\* What was read keeps its width, whatever the users type: the settings of
\* the devices are always structs that the kernel can hold, and every run of
\* pethtool is at one of its steps.
THEOREM TypeCorrect == Spec => []TypeOK
<1>1. Init => ProcsOK /\ KernelOK
  BY ProcsInit, KernelInit
<1>2. ProcsOK /\ KernelOK /\ [Next]_vars => (ProcsOK /\ KernelOK)'
  BY ProcsNext, KernelNext
<1>3. ProcsOK /\ KernelOK => TypeOK
  BY DEF ProcsOK, RunOK, Places, KernelOK, TypeOK, Supports, Present
<1>4. QED BY <1>1, <1>2, <1>3, PTL DEF Spec

-----------------------------------------------------------------------------
(***************************************************************************)
(* The device a command names.                                             *)
(***************************************************************************)

\* A run that changes settings is at a device it was meant for.
LEMMA AimsAtDevice ==
  ASSUME ProcsOK, NEW p \in Procs, proc[p].pc \in {"device", "write"}
  PROVE  proc[p].target \in {Device(p), NULL}
<1>1. proc[p].target # NULL => proc[p].todo = <<proc[p].target>>
  BY DEF ProcsOK, RunOK
<1>2. Head(<<proc[p].target>>) = proc[p].target
  OBVIOUS
<1>3. QED BY <1>1, <1>2 DEF Device

LEMMA NamedDevice ==
  ASSUME ProcsOK, KernelOK, [Next]_vars, NEW p \in Procs, proc'[p] # proc[p],
         InPairs(proc'[p]), proc'[p].named # NULL, NEW d \in Devs, d # proc'[p].named
  PROVE  kernel'[d] = kernel[d]
<1>1. CASE UNCHANGED kernel
  BY <1>1
<1>2. CASE UNCHANGED proc
  BY <1>2
<1>3. ASSUME NEW q \in Procs, NEW e \in Devs, Writes(q, e) \/ Sets(q, e),
             NEW s, Becomes(q, s)
      PROVE  kernel'[d] = kernel[d]
  <2>1. q = p
    BY <1>3 DEF Becomes, ProcsOK
  <2>2. e = Device(p) /\ proc[p].pc \in {"device", "write"} /\ ~proc[p].odd
    BY <1>3, <2>1 DEF Writes, Sets, ProcsOK, RunOK
  <2>3. proc[p].target \in {e, NULL}
    BY <2>2, AimsAtDevice
  <2>4. /\ proc'[p].named = proc[p].named /\ proc'[p].words = proc[p].words
    BY <2>2, ProcsNext DEF Kept, Running, SameRun
  <2>4a. proc[p].target = proc[p].named
    BY <2>2, <2>4 DEF InPairs, ProcsOK, RunOK, Heeded
  <2>5. d # e
    BY <2>3, <2>4, <2>4a
  <2>6. QED BY <1>3, <2>5 DEF Writes, Sets, KernelOK
<1>4. QED BY <1>1, <1>2, <1>3, KernelSteps

\* A command that names an interface, and a value for each of its options,
\* changes no other device: with an unknown name it goes through all of them,
\* one word is left over, and it never comes to a write.
THEOREM NamedDeviceOnly == Spec => OnlyNamedDevice
<1>1. Init => ProcsOK /\ KernelOK
  BY ProcsInit, KernelInit
<1>2. ProcsOK /\ KernelOK /\ [Next]_vars => (ProcsOK /\ KernelOK)'
  BY ProcsNext, KernelNext
<1>3. ProcsOK /\ KernelOK /\ [Next]_vars =>
        [\A p \in Procs : InPairs(proc'[p]) => StaysOnNamed(p)]_vars
  BY NamedDevice DEF StaysOnNamed
<1>4. QED BY <1>1, <1>2, <1>3, PTL DEF Spec, OnlyNamedDevice

-----------------------------------------------------------------------------
(***************************************************************************)
(* Where the settings come from.                                           *)
(***************************************************************************)

\* v is the value of the setting f of the device d at the beginning, or one
\* that a run in P of the command cmd asks for.
Asked(P, b, d, cmd, f, v) ==
  \/ v = b[d][Group[cmd]][f]
  \/ \E p \in Procs :
       /\ P[p].pc # "idle" /\ P[p].target \in {d, NULL} /\ P[p].cmd = cmd
       /\ \E k \in DOMAIN P[p].line : \E a \in Asks(cmd, P[p].line[k]) :
            a[1] = f /\ v = ToUInt32(a[2])

\* The settings in k are asked for.
KernelAsked(k, P, b) ==
  \A d \in Devs, cmd \in {"C", "G", "K"} :
    k[d] # NULL /\ k[d][Group[cmd]] # NULL =>
      \A f \in DOMAIN k[d][Group[cmd]] : Asked(P, b, d, cmd, f, k[d][Group[cmd]][f])

\* So is what a run is about to write: what it has read may be stale, but it
\* was asked for too.
WritesAsked ==
  \A p \in Procs : proc[p].pc = "write" =>
    \A f \in Fields : Asked(proc, boot, Device(p), proc[p].cmd, f, ToUInt32(proc[p].dict[f]))

AskedInv ==
  ProcsOK /\ KernelOK /\ KernelAsked(kernel, proc, boot) /\ WritesAsked

LEMMA AskedOnlyValues ==
  ASSUME KernelAsked(kernel, proc, boot)
  PROVE  OnlyAskedValues
BY DEF KernelAsked, Asked, OnlyAskedValues, Supports, Present, Aims, Running

\* What was asked for stays so.
LEMMA AskedStays ==
  ASSUME Kept, UNCHANGED boot, NEW d, NEW cmd, NEW f, NEW v,
         Asked(proc, boot, d, cmd, f, v)
  PROVE  Asked(proc', boot', d, cmd, f, v)
<1>1. CASE v = boot[d][Group[cmd]][f]
  BY <1>1 DEF Asked
<1>2. ASSUME NEW p \in Procs, proc[p].pc # "idle", proc[p].target \in {d, NULL},
             proc[p].cmd = cmd, NEW k \in DOMAIN proc[p].line,
             NEW a \in Asks(cmd, proc[p].line[k]), a[1] = f, v = ToUInt32(a[2])
      PROVE  Asked(proc', boot', d, cmd, f, v)
  <2>1. /\ proc'[p].pc # "idle" /\ proc'[p].target = proc[p].target
        /\ proc'[p].cmd = proc[p].cmd /\ proc'[p].line = proc[p].line
    BY <1>2 DEF Kept, Running, SameRun
  <2>2. QED BY <1>2, <2>1 DEF Asked
<1>3. QED BY <1>1, <1>2 DEF Asked

\* A run asks for the values in its own line, on the devices it is meant for.
LEMMA AsksItself ==
  ASSUME NEW p \in Procs, proc[p].pc # "idle", NEW d, proc[p].target \in {d, NULL},
         NEW k \in DOMAIN proc[p].line, NEW a \in Asks(proc[p].cmd, proc[p].line[k])
  PROVE  Asked(proc, boot, d, proc[p].cmd, a[1], ToUInt32(a[2]))
BY DEF Asked

\* The values of -K are bits.
LEMMA OffloadBits ==
  ASSUME NEW pair, NEW a \in Asks("K", pair)
  PROVE  ToUInt32(a[2]) = a[2]
<1>1. a[2] = Value("K", pair[2])
  BY DEF Asks
<1>2. Value("K", pair[2]) = IF pair[2] = On THEN 1 ELSE 0
  BY DEF Value
<1>3. a[2] \in {0, 1}
  BY <1>1, <1>2
<1>4. 0 % Mod = 0 /\ 1 % Mod = 1
  BY BitAssumption, WidthAssumption
<1>5. QED BY <1>3, <1>4, BitAssumption, WidthAssumption DEF ToUInt32, IsLong

\* What is edited is asked for: the entries that were read, and the new ones.
LEMMA EditsAsked ==
  ASSUME AskedInv, NEW p \in Procs, NEW s, Edits(p, s), NEW f \in Fields
  PROVE  Asked(proc, boot, Device(p), proc[p].cmd, f, ToUInt32(s.dict[f]))
<1> DEFINE r == proc[p]
           d == Device(p)
           struct == kernel[d][Group[r.cmd]]
           D == {FromUInt32(struct[g]) : g \in Fields}
           e == Edited(r.cmd, CreateDict(struct), r.line).dict
<1>1. /\ r.pc = "device" /\ s.pc = "write" /\ SameRun(r, s) /\ RunOK(s)
      /\ Supports(d, r.cmd) /\ s.dict = e
  BY DEF Edits
<1>2. ~r.odd /\ r.cmd \in {"C", "G"} /\ r.line \in Seq(Range(r.line))
  BY <1>1, LinesAssumption DEF RunOK, SameRun
<1>3. struct \in [Fields -> UInt32]
  BY <1>1, <1>2 DEF AskedInv, KernelOK, Supports, Present
<1>4. CreateDict(struct) \in [Fields -> D] /\ CreateDict(struct)[f] = FromUInt32(struct[f])
  BY CreateDictOK DEF CreateDict
<1>5. r.target \in {d, NULL}
  BY <1>1, <1>2, AimsAtDevice DEF AskedInv
<1>6. \/ e[f] = CreateDict(struct)[f]
      \/ \E k \in DOMAIN r.line : \E a \in Asks(r.cmd, r.line[k]) :
           a[1] = f /\ e[f] = a[2]
  <2> DEFINE dict == CreateDict(struct)
  <2> HIDE DEF D, dict, r
  <2>1. dict \in [Fields -> D]
    BY <1>4 DEF dict
  <2>2. TracesBack(r.cmd, dict, r.line, f, Edited(r.cmd, dict, r.line).dict[f])
    BY <1>2, <2>1, EditedOK
  <2>3. QED BY <2>2 DEF dict, TracesBack
<1> HIDE DEF e
<1>7. CASE e[f] = CreateDict(struct)[f]
  <2>1. ToUInt32(e[f]) = struct[f]
    BY <1>3, <1>4, <1>7, MemberRoundTrip
  <2>2. Asked(proc, boot, d, r.cmd, f, struct[f])
    BY <1>1, <1>2, <1>3 DEF AskedInv, KernelAsked, Supports, Present
  <2>3. QED BY <1>1, <2>1, <2>2
<1>8. ASSUME NEW k \in DOMAIN r.line, NEW a \in Asks(r.cmd, r.line[k]),
             a[1] = f, e[f] = a[2]
      PROVE  Asked(proc, boot, d, r.cmd, f, ToUInt32(e[f]))
  BY <1>1, <1>5, <1>8, AsksItself
<1>9. QED BY <1>1, <1>6, <1>7, <1>8

LEMMA AskedInit ==
  ASSUME Init
  PROVE  AskedInv
<1>1. KernelAsked(kernel, proc, boot)
  BY DEF KernelAsked, Asked, Init
<1>2. WritesAsked
  BY DEF WritesAsked, Init, Fresh
<1>3. QED BY <1>1, <1>2, ProcsInit, KernelInit DEF AskedInv

\* One group of one device is replaced by something that was asked for.
LEMMA ReplaceAsked ==
  ASSUME AskedInv, Kept, UNCHANGED boot, NEW d \in Devs, NEW c \in {"C", "G", "K"}, NEW x,
         kernel[d] # NULL, kernel[d][Group[c]] # NULL,
         kernel' = [kernel EXCEPT ![d] = [@ EXCEPT ![Group[c]] = x]],
         \A f \in DOMAIN x : Asked(proc, boot, d, c, f, x[f])
  PROVE  KernelAsked(kernel', proc', boot')
<1>1. /\ \A e \in Devs : e # d => kernel'[e] = kernel[e]
      /\ kernel'[d] = [kernel[d] EXCEPT ![Group[c]] = x]
  BY DEF AskedInv, KernelOK
<1>2. /\ kernel'[d][Group[c]] = x
      /\ \A cmd \in {"C", "G", "K"} : cmd # c =>
           kernel'[d][Group[cmd]] = kernel[d][Group[cmd]]
  BY <1>1, GroupOK DEF AskedInv, KernelOK
<1>3. ASSUME NEW e \in Devs, NEW cmd \in {"C", "G", "K"},
             kernel'[e] # NULL, kernel'[e][Group[cmd]] # NULL,
             NEW f \in DOMAIN kernel'[e][Group[cmd]]
      PROVE  Asked(proc, boot, e, cmd, f, kernel'[e][Group[cmd]][f])
  <2>1. CASE e = d /\ cmd = c
    BY <1>2, <1>3, <2>1
  <2>2. CASE ~(e = d /\ cmd = c)
    <3>1. kernel'[e][Group[cmd]] = kernel[e][Group[cmd]] /\ kernel[e] # NULL
      BY <1>1, <1>2, <1>3, <2>2
    <3>2. QED BY <1>3, <3>1 DEF AskedInv, KernelAsked
  <2>3. QED BY <2>1, <2>2
<1>4. QED BY <1>3, AskedStays DEF KernelAsked

LEMMA AskedNext ==
  ASSUME AskedInv, [Next]_vars
  PROVE  AskedInv'
<1>1. ProcsOK' /\ KernelOK' /\ Kept /\ NewWrites /\ UNCHANGED boot
  BY ProcsNext, KernelNext DEF AskedInv, Next, vars
<1>2. KernelAsked(kernel', proc', boot')
  <2>1. CASE UNCHANGED kernel
    BY <1>1, <2>1, AskedStays DEF AskedInv, KernelAsked
  <2>2. ASSUME NEW d \in Devs, kernel' = [kernel EXCEPT ![d] = NULL]
        PROVE  KernelAsked(kernel', proc', boot')
    <3>1. \A e \in Devs : kernel'[e] # NULL => kernel'[e] = kernel[e]
      BY <2>2 DEF AskedInv, KernelOK
    <3>2. QED BY <1>1, <3>1, AskedStays DEF AskedInv, KernelAsked
  <2>3. ASSUME NEW p \in Procs, NEW d \in Devs, Writes(p, d)
        PROVE  KernelAsked(kernel', proc', boot')
    <3> DEFINE x == Sent(proc[p])
               c == proc[p].cmd
    <3>1. DOMAIN proc[p].dict = Fields /\ c \in {"C", "G"}
      BY <2>3, LinesAssumption DEF Writes, AskedInv, ProcsOK, RunOK
    <3>2. DOMAIN x = Fields /\ \A f \in Fields : x[f] = ToUInt32(proc[p].dict[f])
      BY <3>1, SentOK
    <3>3. \A f \in Fields : Asked(proc, boot, d, c, f, x[f])
      BY <2>3, <3>2 DEF Writes, AskedInv, WritesAsked
    <3>4. /\ kernel[d] # NULL /\ kernel[d][Group[c]] # NULL
          /\ kernel' = [kernel EXCEPT ![d] = [@ EXCEPT ![Group[c]] = x]]
      BY <2>3 DEF Writes, Supports, Present
    <3> HIDE DEF x, c
    <3>5. QED BY <1>1, <3>1, <3>2, <3>3, <3>4, ReplaceAsked
  <2>4. ASSUME NEW p \in Procs, NEW d \in Devs, Sets(p, d)
        PROVE  KernelAsked(kernel', proc', boot')
    <3> DEFINE old == kernel[d]["offload"]
               ask == CHOOSE a \in Offload(proc[p]) : TRUE
               x == [f \in DOMAIN old |->
                       IF \E a \in Offload(proc[p]) : a[1] = f THEN ask[2] ELSE old[f]]
    <3>1. /\ kernel[d] # NULL /\ kernel[d][Group["K"]] # NULL
          /\ kernel' = [kernel EXCEPT ![d] = [@ EXCEPT ![Group["K"]] = x]]
          /\ proc[p].pc = "device" /\ proc[p].cmd = "K" /\ d = Device(p)
          /\ ~proc[p].odd /\ Len(proc[p].line) = 1
      BY <2>4, GroupOK DEF Sets, Supports, Present
    <3>2. 1 \in DOMAIN proc[p].line /\ proc[p].target \in {d, NULL}
      <4>1. proc[p].line \in Seq(Range(proc[p].line))
        BY <3>1, LinesAssumption DEF AskedInv, ProcsOK, RunOK
      <4>2. QED BY <3>1, <4>1, AimsAtDevice DEF AskedInv
    <3>3. ASSUME NEW f \in DOMAIN old PROVE Asked(proc, boot, d, "K", f, x[f])
      <4>1. CASE \E a \in Offload(proc[p]) : a[1] = f
        <5>1. PICK a \in Offload(proc[p]) : a[1] = f
          BY <4>1
        <5>2. ask = a
          BY AsksOne DEF Offload
        <5>3. x[f] = a[2]
          BY <4>1, <5>2
        <5>4. Asked(proc, boot, d, "K", a[1], ToUInt32(a[2]))
          <6>1. a \in Asks(proc[p].cmd, proc[p].line[1]) /\ proc[p].pc # "idle"
            BY <3>1 DEF Offload
          <6>2. Asked(proc, boot, d, proc[p].cmd, a[1], ToUInt32(a[2]))
            BY <3>2, <6>1, AsksItself
          <6>3. QED BY <3>1, <6>2
        <5>5. ToUInt32(a[2]) = a[2]
          BY OffloadBits DEF Offload
        <5>6. QED BY <5>1, <5>3, <5>4, <5>5
      <4>2. CASE ~ \E a \in Offload(proc[p]) : a[1] = f
        <5>1. x[f] = old[f]
          BY <4>2
        <5>2. QED BY <3>1, <5>1, GroupOK DEF AskedInv, KernelAsked
      <4>3. QED BY <4>1, <4>2
    <3>4. DOMAIN x = DOMAIN old
      OBVIOUS
    <3> HIDE DEF x
    <3>5. QED BY <1>1, <3>1, <3>3, <3>4, ReplaceAsked
  <2>5. QED BY <2>1, <2>2, <2>3, <2>4, KernelSteps DEF AskedInv
<1>3. WritesAsked'
  <2>1. ASSUME NEW p \in Procs, proc'[p].pc = "write", NEW f \in Fields
        PROVE  Asked(proc, boot, Head(proc'[p].todo), proc'[p].cmd, f,
                     ToUInt32(proc'[p].dict[f]))
    <3>1. CASE proc'[p] = proc[p]
      BY <2>1, <3>1 DEF AskedInv, WritesAsked, Device
    <3>2. CASE Edits(p, proc'[p])
      <4>1. proc'[p].cmd = proc[p].cmd /\ Head(proc'[p].todo) = Device(p)
        BY <3>2 DEF Edits, SameRun, Device
      <4>2. QED BY <3>2, <4>1, EditsAsked
    <3>3. QED BY <1>1, <2>1, <3>1, <3>2 DEF NewWrites
  <2>2. QED BY <1>1, <2>1, AskedStays DEF WritesAsked, Device
<1>4. QED BY <1>1, <1>2, <1>3 DEF AskedInv

\* A setting is the one the device has started with, or one that somebody has
\* asked for, for this very setting and device: writing back whole structs
\* that were read before other users wrote changes nothing else.
THEOREM AskedValuesOnly == Spec => []OnlyAskedValues
<1>1. Init => AskedInv
  BY AskedInit
<1>2. AskedInv /\ [Next]_vars => AskedInv'
  BY AskedNext
<1>3. AskedInv => OnlyAskedValues
  BY AskedOnlyValues DEF AskedInv
<1>4. QED BY <1>1, <1>2, <1>3, PTL DEF Spec


-----------------------------------------------------------------------------
(***************************************************************************)
(* What a command has set.                                                 *)
(***************************************************************************)

\* The device d has the settings in k that the run r asks for.
IsSet(k, r, d) ==
  \A f \in DOMAIN k[d][Group[r.cmd]] :
    AskedIn(r, f) # {} => k[d][Group[r.cmd]][f] = ToUInt32(Wanted(r, f))

\* So have all devices that the run is meant for, except the ones that are
\* left out, are gone, lack support, or are still to come.
Covers(k, r) ==
  \A d \in Devs \ r.left :
    /\ r.target \in {d, NULL} /\ d \notin Range(r.todo)
    /\ k[d] # NULL /\ k[d][Group[r.cmd]] # NULL
    => IsSet(k, r, d)

\* The run is one of a command that sets, and no exception has ended it.
AtWork(r) == r.pc \in {"device", "write", "done"} /\ r.cmd \in DOMAIN Lines

\* The dict that the run is about to write has what is asked for.
Prepared(r) == \A f \in Fields : AskedIn(r, f) # {} => r.dict[f] = Wanted(r, f)

WorkOK(r) ==
  /\ r.cmd \notin DOMAIN Lines => r.line = <<>>
  /\ AtWork(r) => /\ r.todo \in Seq(Range(r.todo))
                  /\ r.pc = "done" => r.todo = <<>>
                  /\ r.pc = "write" => Prepared(r)

\* No other run of the same command has begun.
Alone(p) == \A q \in Procs \ {p} : Running(q) => proc[q].cmd # proc[p].cmd

EffectInv ==
  /\ ProcsOK /\ KernelOK
  /\ \A p \in Procs :
       /\ WorkOK(proc[p])
       /\ Alone(p) /\ AtWork(proc[p]) => Covers(kernel, proc[p])

LEMMA EffectTaken ==
  ASSUME EffectInv
  PROVE  TakesEffect
<1> SUFFICES ASSUME NEW p \in Procs, At(p, "done"),
                    \A q \in Procs \ {p} : proc[q].cmd # proc[p].cmd,
                    NEW d \in Devs \ proc[p].left, Aims(p, d),
                    Supports(d, proc[p].cmd),
                    NEW f \in DOMAIN kernel[d][Group[proc[p].cmd]],
                    AskedIn(proc[p], f) # {}
             PROVE  kernel[d][Group[proc[p].cmd]][f] = ToUInt32(Wanted(proc[p], f))
  BY DEF TakesEffect
<1>1. CASE proc[p].cmd \notin DOMAIN Lines
  <2>1. DOMAIN proc[p].line = {}
    BY <1>1 DEF EffectInv, WorkOK
  <2>2. QED BY <2>1 DEF AskedIn
<1>2. CASE proc[p].cmd \in DOMAIN Lines
  <2>1. AtWork(proc[p]) /\ Alone(p)
    BY <1>2 DEF AtWork, At, Alone
  <2>2. Range(proc[p].todo) = {}
    BY <2>1, NoElement DEF EffectInv, WorkOK, At
  <2>3. Covers(kernel, proc[p])
    BY <2>1 DEF EffectInv
  <2>4. IsSet(kernel, proc[p], d)
    BY <2>2, <2>3 DEF Covers, Aims, Supports, Present
  <2>5. QED BY <2>4 DEF IsSet
<1>3. QED BY <1>1, <1>2

\* What is asked for depends only on what the run is about.
LEMMA SameAsked ==
  ASSUME NEW r, NEW s, SameRun(r, s)
  PROVE  \A f : AskedIn(s, f) = AskedIn(r, f) /\ Wanted(s, f) = Wanted(r, f)
<1>1. s.cmd = r.cmd /\ s.line = r.line
  BY DEF SameRun
<1>2. \A f : AskedIn(s, f) = AskedIn(r, f)
  BY <1>1 DEF AskedIn
<1>3. ASSUME NEW f PROVE Wanted(s, f) = Wanted(r, f)
  <2> DEFINE Latest(S) == CHOOSE k \in S : \A j \in S : j <= k
  <2>1. /\ Wanted(s, f) = Value(s.cmd, s.line[Latest(AskedIn(s, f))][2])
        /\ Wanted(r, f) = Value(r.cmd, r.line[Latest(AskedIn(r, f))][2])
    BY DEF Wanted
  <2> HIDE DEF Latest
  <2>2. QED BY <1>1, <1>2, <2>1
<1>4. QED BY <1>2, <1>3

LEMMA SameSet ==
  ASSUME NEW r, NEW s, SameRun(r, s), NEW k, NEW d, IsSet(k, r, d)
  PROVE  IsSet(k, s, d)
<1>1. s.cmd = r.cmd
  BY DEF SameRun
<1>2. QED BY <1>1, SameAsked DEF IsSet

\* The first device of a list, and the others.
LEMMA HeadTail ==
  ASSUME NEW T, NEW todo \in Seq(T), todo # <<>>
  PROVE  /\ Tail(todo) \in Seq(Range(Tail(todo)))
         /\ Head(todo) \in Range(todo)
         /\ \A x \in Range(todo) : x = Head(todo) \/ x \in Range(Tail(todo))
<1> DEFINE n == Len(todo)
           t == Tail(todo)
<1>1. n \in Nat \ {0} /\ DOMAIN todo = 1..n /\ Head(todo) = todo[1]
  OBVIOUS
<1>2. t \in Seq(T) /\ Len(t) = n - 1 /\ DOMAIN t = 1..(n - 1)
      /\ \A i \in 1..(n - 1) : t[i] = todo[i + 1]
  OBVIOUS
<1> HIDE DEF n, t
<1>3. Head(todo) \in Range(todo)
  BY <1>1 DEF Range
<1>4. ASSUME NEW i \in 1..n, i # 1 PROVE todo[i] \in Range(t)
  <2>1. i - 1 \in 1..(n - 1) /\ (i - 1) + 1 = i
    BY <1>1, <1>4
  <2>2. t[i - 1] = todo[i]
    BY <1>2, <2>1
  <2>3. QED BY <1>2, <2>1, <2>2 DEF Range
<1>5. t \in Seq(Range(t))
  <2>1. \A i \in 1..Len(t) : t[i] \in Range(t)
    BY <1>2 DEF Range
  <2>2. QED BY <1>2, <2>1
<1>6. QED BY <1>1, <1>3, <1>4, <1>5 DEF Range, t

\* The last pair that asks for a setting is the one that counts.
LEMMA LastWanted ==
  ASSUME NEW r, r.line \in Seq(Range(r.line)), NEW dict, NEW f, NEW v,
         IsLast(r.cmd, dict, r.line, f, Len(r.line), v), AskedIn(r, f) # {}
  PROVE  v = Wanted(r, f)
<1> DEFINE A == Asking(r.cmd, r.line, f, Len(r.line))
           last == CHOOSE k \in A : \A j \in A : j <= k
<1>1. AskedIn(r, f) = A /\ A \subseteq Nat
  BY DEF AskedIn, Asking
<1>2. Wanted(r, f) = Value(r.cmd, r.line[last][2])
  <2> DEFINE Latest(S) == CHOOSE k \in S : \A j \in S : j <= k
  <2>1. Wanted(r, f) = Value(r.cmd, r.line[Latest(AskedIn(r, f))][2])
    BY DEF Wanted
  <2>2. last = Latest(A)
    OBVIOUS
  <2> HIDE DEF Latest, last, A
  <2>3. QED BY <1>1, <2>1, <2>2
<1>3. PICK k \in A : (\A j \in A : j <= k) /\ v = Value(r.cmd, r.line[k][2])
  BY <1>1 DEF IsLast
<1> HIDE DEF A
<1>4. last \in A /\ \A j \in A : j <= last
  BY <1>3
<1> HIDE DEF last
<1>5. last = k
  BY <1>1, <1>3, <1>4
<1>6. QED BY <1>2, <1>3, <1>5

\* The loop goes on: the first device has what is asked for, or is left out.
LEMMA GoesOn ==
  ASSUME NEW r, NEW s, SameRun(r, s), NEW T, r.todo \in Seq(T), r.todo # <<>>,
         s.todo = Tail(r.todo), r.left \subseteq s.left, NEW k, NEW l, Covers(k, r),
         \A d \in Devs : d # Head(r.todo) => l[d] = k[d],
         \/ Head(r.todo) \in s.left
         \/ Head(r.todo) \in Devs => IsSet(l, r, Head(r.todo))
  PROVE  Covers(l, s)
<1> SUFFICES ASSUME NEW d \in Devs \ s.left, s.target \in {d, NULL}, d \notin Range(s.todo),
                    l[d] # NULL, l[d][Group[s.cmd]] # NULL
             PROVE  IsSet(l, s, d)
  BY DEF Covers
<1>1. r.cmd = s.cmd /\ r.target = s.target
  BY DEF SameRun
<1>2. CASE d = Head(r.todo)
  BY <1>2, SameSet
<1>3. CASE d # Head(r.todo)
  <2>1. d \notin Range(r.todo)
    BY <1>3, HeadTail
  <2>2. IsSet(k, r, d) /\ l[d] = k[d]
    BY <1>1, <1>3, <2>1 DEF Covers
  <2>3. IsSet(l, r, d)
    BY <2>2 DEF IsSet
  <2>4. QED BY <2>3, SameSet
<1>4. QED BY <1>2, <1>3

\* The run s is one whose loop goes through the devices in todo.
Loops(s, todo, left) ==
  /\ s.todo = todo /\ s.left = left /\ s.pc # "write"
  /\ s.pc = "done" => todo = <<>>

\* The fields that the loop changes, and the ones it keeps.
LEMMA RunCmdFields ==
  ASSUME NEW r, DOMAIN r = RunFields, NEW todo
  PROVE  /\ Loops(RunCmd(r, todo), todo, r.left)
         /\ RunCmd(r, todo).cmd = r.cmd /\ RunCmd(r, todo).target = r.target
         /\ RunCmd(r, todo).line = r.line
<1> DEFINE s == RunCmd(r, todo)
<1>1. /\ s.todo = todo /\ s.left = r.left /\ s.cmd = r.cmd /\ s.target = r.target
      /\ s.line = r.line
      /\ s.pc = CASE todo = <<>>                           -> "done"
                  [] r.cmd \in DOMAIN Reads /\ todo # <<>> -> "show"
                  [] OTHER                                 -> "device"
  BY DEF RunCmd, RunFields
<1> HIDE DEF s
<1>2. CASE todo = <<>>
  BY <1>1, <1>2 DEF s, Loops
<1>3. CASE todo # <<>> /\ r.cmd \in DOMAIN Reads
  <2>1. s.pc = "show"
    BY <1>1, <1>3
  <2>2. QED BY <1>1, <2>1 DEF s, Loops
<1>4. CASE todo # <<>> /\ r.cmd \notin DOMAIN Reads
  <2>1. s.pc = "device"
    BY <1>1, <1>4
  <2>2. QED BY <1>1, <2>1 DEF s, Loops
<1>5. QED BY <1>2, <1>3, <1>4

LEMMA LoopFields ==
  ASSUME NEW r, DOMAIN r = RunFields
  PROVE  /\ Loops(NextDevice(r), Tail(r.todo), r.left)
         /\ Loops(LeaveOut(r), Tail(r.todo), r.left \cup {Head(r.todo)})
<1>1. Loops(NextDevice(r), Tail(r.todo), r.left)
  BY RunCmdFields DEF NextDevice
<1> DEFINE s == [r EXCEPT !.left = @ \cup {Head(r.todo)}]
<1>2. DOMAIN s = RunFields /\ s.todo = r.todo /\ s.left = r.left \cup {Head(r.todo)}
  BY DEF RunFields
<1>3. LeaveOut(r) = RunCmd(s, Tail(s.todo))
  BY DEF LeaveOut, NextDevice
<1> HIDE DEF s
<1>4. Loops(RunCmd(s, Tail(s.todo)), Tail(s.todo), s.left)
  BY <1>2, RunCmdFields
<1>5. QED BY <1>1, <1>2, <1>3, <1>4

\* A step of the run p that goes on to the next device.
LEMMA StepOn ==
  ASSUME ProcsOK, NEW p \in Procs, proc[p].pc \in {"device", "write"}, WorkOK(proc[p]),
         NEW s, Becomes(p, s), SameRun(proc[p], s), NEW left, proc[p].left \subseteq left,
         Loops(s, Tail(proc[p].todo), left),
         \A d \in Devs : d # Device(p) => kernel'[d] = kernel[d],
         \/ Device(p) \in left
         \/ Device(p) \in Devs => IsSet(kernel', proc[p], Device(p))
  PROVE  /\ WorkOK(proc'[p])
         /\ Covers(kernel, proc[p]) => Covers(kernel', proc'[p])
<1> DEFINE r == proc[p]
<1>1. proc'[p] = s
  BY DEF ProcsOK, Becomes
<1>2. /\ r.cmd \in DOMAIN Lines /\ r.todo # <<>>
      /\ r.todo \in Seq(Range(r.todo)) /\ s.cmd = r.cmd
  BY DEF ProcsOK, RunOK, WorkOK, AtWork, SameRun
<1>3. s.todo = Tail(r.todo) /\ s.left = left /\ s.pc # "write" /\ (s.pc = "done" => s.todo = <<>>)
  BY DEF Loops
<1>4. Tail(r.todo) \in Seq(Range(Tail(r.todo)))
  BY <1>2, HeadTail
<1>5. WorkOK(s)
  BY <1>2, <1>3, <1>4 DEF WorkOK
<1>6. ASSUME Covers(kernel, r) PROVE Covers(kernel', s)
  <2> DEFINE k == kernel'
  <2>1. /\ \A d \in Devs : d # Head(r.todo) => k[d] = kernel[d]
        /\ Head(r.todo) \in s.left \/ (Head(r.todo) \in Devs => IsSet(k, r, Head(r.todo)))
    BY <1>3 DEF Device
  <2> HIDE DEF k, r
  <2>2. SameRun(r, s) /\ r.left \subseteq s.left
    BY <1>3 DEF r
  <2>3. Covers(k, s)
    BY <1>2, <1>3, <1>6, <2>1, <2>2, GoesOn
  <2>4. QED BY <2>3 DEF k
<1>7. QED BY <1>1, <1>5, <1>6

\* A step of the run p keeps what it is about to do and what it has done.
Does(p) ==
  /\ WorkOK(proc'[p])
  /\ AtWork(proc'[p]) => /\ AtWork(proc[p])
                         /\ Covers(kernel, proc[p]) => Covers(kernel', proc'[p])

LEMMA AbortDoes ==
  ASSUME ProcsOK, NEW p \in Procs, WorkOK(proc[p]), Becomes(p, Abort(proc[p]))
  PROVE  Does(p)
<1> DEFINE s == Abort(proc[p])
<1>1. s.pc = "aborted" /\ s.cmd = proc[p].cmd /\ s.line = proc[p].line
  BY DEF Abort, ProcsOK, RunOK, RunFields
<1>2. proc'[p] = s
  BY DEF ProcsOK, Becomes
<1> HIDE DEF s
<1>3. WorkOK(s) /\ ~AtWork(s)
  BY <1>1 DEF WorkOK, AtWork
<1>4. QED BY <1>2, <1>3 DEF Does

\* A call has failed and the device is left out.
LEMMA LeaveOutDoes ==
  ASSUME ProcsOK, NEW p \in Procs, WorkOK(proc[p]), proc[p].pc = "device",
         Becomes(p, LeaveOut(proc[p])), UNCHANGED kernel
  PROVE  Does(p)
<1> DEFINE r == proc[p]
           s == LeaveOut(r)
           left == r.left \cup {Head(r.todo)}
<1>1. RunOK(r) /\ DOMAIN r = RunFields /\ AtWork(r)
  BY DEF ProcsOK, RunOK, AtWork
<1>2. Loops(s, Tail(r.todo), left) /\ SameRun(r, s)
  <2> HIDE DEF r
  <2>1. Loops(s, Tail(r.todo), left)
    BY <1>1, LoopFields
  <2>2. r.pc = "device"
    BY DEF r
  <2>3. SameRun(r, s)
    BY <1>1, <2>2, LoopStepOK DEF Follows
  <2>4. QED BY <2>1, <2>3
<1>3. Device(p) \in left /\ r.left \subseteq left
  BY DEF Device
<1> HIDE DEF s, left
<1>4. WorkOK(proc'[p]) /\ (Covers(kernel, proc[p]) => Covers(kernel', proc'[p]))
  BY <1>2, <1>3, StepOn DEF s
<1>5. QED BY <1>1, <1>4 DEF Does

\* The device has what is asked for, before or after the step.
LEMMA NextDoes ==
  ASSUME ProcsOK, NEW p \in Procs, WorkOK(proc[p]), proc[p].pc \in {"device", "write"},
         Becomes(p, NextDevice(proc[p])),
         \A d \in Devs : d # Device(p) => kernel'[d] = kernel[d],
         Device(p) \in Devs => IsSet(kernel', proc[p], Device(p))
  PROVE  Does(p)
<1> DEFINE r == proc[p]
           s == NextDevice(r)
<1>1. RunOK(r) /\ DOMAIN r = RunFields /\ AtWork(r)
  BY DEF ProcsOK, RunOK, AtWork
<1>2. Loops(s, Tail(r.todo), r.left) /\ SameRun(r, s)
  <2> HIDE DEF r
  <2>1. Loops(s, Tail(r.todo), r.left)
    BY <1>1, LoopFields
  <2>2. r.pc \in {"device", "write"}
    BY DEF r
  <2>3. SameRun(r, s)
    BY <1>1, <2>2, LoopStepOK DEF Follows
  <2>4. QED BY <2>1, <2>3
<1> HIDE DEF s
<1>3. WorkOK(proc'[p]) /\ (Covers(kernel, proc[p]) => Covers(kernel', proc'[p]))
  BY <1>2, StepOn DEF s
<1>4. QED BY <1>1, <1>3 DEF Does

LEMMA ReadFailsDoes ==
  ASSUME ProcsOK, NEW p \in Procs, WorkOK(proc[p]), ReadFails(p)
  PROVE  Does(p)
BY LeaveOutDoes DEF ReadFails, At, Becomes

LEMMA WriteFailsDoes ==
  ASSUME ProcsOK, NEW p \in Procs, WorkOK(proc[p]), WriteFails(p)
  PROVE  Does(p)
BY AbortDoes DEF WriteFails, At, Becomes

\* Nothing is written where the settings are as they are asked for.
LEMMA ReadSettingsDoes ==
  ASSUME ProcsOK, KernelOK, NEW p \in Procs, WorkOK(proc[p]), ReadSettings(p)
  PROVE  Does(p)
<1> DEFINE r == proc[p]
           struct == kernel[Device(p)][Group[r.cmd]]
           dict == CreateDict(struct)
           e == Edited(r.cmd, dict, r.line)
<1>1. /\ r.pc = "device" /\ r.cmd # "K" /\ Supports(Device(p), r.cmd) /\ UNCHANGED kernel
      /\ proc' = [proc EXCEPT ![p] =
           CASE r.odd                  -> Abort(r)
             [] ~r.odd /\ ~e.changed   -> NextDevice(r)
             [] ~r.odd /\ e.changed    -> [r EXCEPT !.pc = "write", !.dict = e.dict]]
  BY DEF ReadSettings, At
<1>2. /\ r.cmd \in {"C", "G"} /\ r.line \in Seq(Range(r.line)) /\ DOMAIN r = RunFields
      /\ AtWork(r) /\ r.todo \in Seq(Range(r.todo))
  BY <1>1, LinesAssumption DEF ProcsOK, RunOK, WorkOK, AtWork
<1>3. struct \in [Fields -> UInt32]
  BY <1>1, <1>2 DEF KernelOK, Supports, Present
<1>4. \A f \in Fields : dict[f] = FromUInt32(struct[f])
  BY DEF CreateDict
<1>5. /\ e.changed \in BOOLEAN
      /\ ~e.changed => e.dict = dict
      /\ \A x \in Fields : IsLast(r.cmd, dict, r.line, x, Len(r.line), e.dict[x])
  <2> DEFINE D == {FromUInt32(struct[f]) : f \in Fields}
  <2>1. dict \in [Fields -> D]
    BY CreateDictOK
  <2> HIDE DEF D, dict, r
  <2>2. QED BY <1>2, <2>1, EditedLast
<1> HIDE DEF e, dict, struct
<1>6. ASSUME NEW f \in Fields, AskedIn(r, f) # {} PROVE e.dict[f] = Wanted(r, f)
  <2>1. IsLast(r.cmd, dict, r.line, f, Len(r.line), e.dict[f])
    BY <1>5
  <2> HIDE DEF r
  <2>2. QED BY <1>2, <1>6, <2>1, LastWanted
<1>7. CASE r.odd
  <2>1. Becomes(p, Abort(r))
    BY <1>1, <1>7 DEF Becomes
  <2>2. QED BY <2>1, AbortDoes
<1>8. CASE ~r.odd /\ ~e.changed
  <2>1. Becomes(p, NextDevice(r))
    BY <1>1, <1>8 DEF Becomes
  <2>2. ASSUME NEW f \in Fields, AskedIn(r, f) # {}
        PROVE  struct[f] = ToUInt32(Wanted(r, f))
    <3>1. Wanted(r, f) = FromUInt32(struct[f])
      BY <1>4, <1>5, <1>6, <1>8, <2>2
    <3>2. QED BY <1>3, <3>1, MemberRoundTrip
  <2>3. IsSet(kernel, r, Device(p))
    BY <1>3, <2>2 DEF IsSet, struct
  <2>4. IsSet(kernel', r, Device(p))
    BY <1>1, <2>3
  <2>5. QED BY <1>1, <2>1, <2>4, NextDoes
<1>9. CASE ~r.odd /\ e.changed
  <2> DEFINE s == [r EXCEPT !.pc = "write", !.dict = e.dict]
  <2>1. proc'[p] = s
    BY <1>1, <1>9 DEF ProcsOK
  <2>2. /\ SameRun(r, s) /\ s.todo = r.todo /\ s.left = r.left
        /\ s.pc = "write" /\ s.dict = e.dict
    BY <1>2 DEF RunFields, SameRun
  <2> HIDE DEF s
  <2>3. Prepared(s)
    BY <1>6, <2>2, SameAsked DEF Prepared
  <2>4. WorkOK(s)
    BY <1>2, <2>2, <2>3 DEF WorkOK, AtWork, SameRun
  <2>5. ASSUME Covers(kernel, r) PROVE Covers(kernel', s)
    <3>1. s.cmd = r.cmd /\ s.target = r.target /\ UNCHANGED kernel
      BY <1>1, <2>2 DEF SameRun
    <3>2. Covers(kernel, s)
      BY <2>2, <2>5, <3>1, SameSet DEF Covers
    <3>3. QED BY <3>1, <3>2
  <2>6. QED BY <1>2, <2>1, <2>4, <2>5 DEF Does
<1>10. QED BY <1>7, <1>8, <1>9

LEMMA WriteSettingsDoes ==
  ASSUME ProcsOK, KernelOK, NEW p \in Procs, WorkOK(proc[p]), WriteSettings(p)
  PROVE  Does(p)
<1> DEFINE r == proc[p]
           d == Device(p)
           g == Group[r.cmd]
<1>1. /\ r.pc = "write" /\ d \in Devs /\ kernel[d] # NULL
      /\ kernel' = [kernel EXCEPT ![d] = [@ EXCEPT ![g] = Sent(r)]]
      /\ Becomes(p, NextDevice(r)) \/ Becomes(p, Abort(r))
  BY DEF WriteSettings, At, Supports, Present, Becomes
<1>2. /\ r.cmd \in {"C", "G"} /\ DOMAIN r.dict = Fields /\ AtWork(r) /\ Prepared(r)
  BY <1>1, LinesAssumption DEF ProcsOK, RunOK, WorkOK, AtWork
<1>3. Sent(r) \in [Fields -> UInt32] /\ \A f \in Fields : Sent(r)[f] = ToUInt32(r.dict[f])
  BY <1>2, SentOK
<1>4. kernel'[d][g] = Sent(r) /\ \A e \in Devs : e # d => kernel'[e] = kernel[e]
  BY <1>1, <1>2, GroupOK DEF KernelOK
<1>5. IsSet(kernel', r, d)
  <2>1. \A f \in Fields : AskedIn(r, f) # {} => Sent(r)[f] = ToUInt32(Wanted(r, f))
    BY <1>2, <1>3 DEF Prepared
  <2>2. QED BY <1>3, <1>4, <2>1 DEF IsSet
<1>6. CASE Becomes(p, NextDevice(r))
  BY <1>1, <1>4, <1>5, <1>6, NextDoes
<1>7. CASE Becomes(p, Abort(r))
  BY <1>7, AbortDoes
<1>8. QED BY <1>1, <1>6, <1>7

LEMMA SetOffloadDoes ==
  ASSUME ProcsOK, KernelOK, NEW p \in Procs, WorkOK(proc[p]), SetOffload(p)
  PROVE  Does(p)
<1> DEFINE r == proc[p]
           d == Device(p)
<1>1. r.pc = "device" /\ r.cmd = "K"
  BY DEF SetOffload, At
<1>2. \/ Becomes(p, Abort(r))
      \/ Becomes(p, LeaveOut(r)) /\ UNCHANGED kernel
      \/ Becomes(p, NextDevice(r)) /\ Sets(p, d) /\ d \in Devs
  <2>1. CASE /\ ~r.odd /\ Len(r.line) = 1 /\ Supports(Device(p), "K")
             /\ kernel' = [kernel EXCEPT ![Device(p)].offload =
                          [f \in DOMAIN @ |->
                             IF \E a \in Offload(r) : a[1] = f
                             THEN (CHOOSE a \in Offload(r) : TRUE)[2] ELSE @[f]]]
             /\ proc' = [proc EXCEPT ![p] = NextDevice(@)]
    BY <1>1, <2>1 DEF Sets, Supports, Present, Becomes
  <2>2. QED BY <2>1 DEF SetOffload, Becomes
<1>3. CASE Becomes(p, Abort(r))
  BY <1>3, AbortDoes
<1>4. CASE Becomes(p, LeaveOut(r)) /\ UNCHANGED kernel
  BY <1>1, <1>4, LeaveOutDoes
<1>5. CASE Becomes(p, NextDevice(r)) /\ Sets(p, d) /\ d \in Devs
  <2> DEFINE old == kernel[d]["offload"]
             ask == CHOOSE a \in Offload(r) : TRUE
             new == [f \in DOMAIN old |->
                       IF \E a \in Offload(r) : a[1] = f THEN ask[2] ELSE old[f]]
  <2>1. /\ kernel[d] # NULL /\ Len(r.line) = 1
        /\ kernel' = [kernel EXCEPT ![d] = [@ EXCEPT !["offload"] = new]]
    BY <1>5 DEF Sets, Supports, Present
  <2>2. r.line \in Seq(Range(r.line))
    BY <1>1, LinesAssumption DEF ProcsOK, RunOK
  <2> HIDE DEF new
  <2>3. /\ kernel'[d][Group[r.cmd]] = new
        /\ \A e \in Devs : e # d => kernel'[e] = kernel[e]
    BY <1>1, <1>5, <2>1, GroupOK DEF KernelOK
  <2>4. ASSUME NEW f \in DOMAIN old, AskedIn(r, f) # {}
        PROVE  new[f] = ToUInt32(Wanted(r, f))
    <3>1. DOMAIN r.line = {1}
      BY <2>1, <2>2
    <3>2. AskedIn(r, f) = {1} /\ \E a \in Offload(r) : a[1] = f
      BY <1>1, <2>4, <3>1 DEF AskedIn, Offload
    <3>3. PICK a \in Offload(r) : a[1] = f
      BY <3>2
    <3>4. ask = a /\ a[2] = Value("K", r.line[1][2]) /\ ToUInt32(a[2]) = a[2]
      BY AsksOne, OffloadBits DEF Offload, Asks
    <3>5. new[f] = a[2]
      BY <2>4, <3>2, <3>4 DEF new
    <3>6. Wanted(r, f) = Value(r.cmd, r.line[1][2])
      <4> DEFINE Latest(S) == CHOOSE k \in S : \A j \in S : j <= k
      <4>1. Wanted(r, f) = Value(r.cmd, r.line[Latest(AskedIn(r, f))][2])
        BY DEF Wanted
      <4>2. Latest({1}) = 1
        OBVIOUS
      <4> HIDE DEF Latest
      <4>3. QED BY <3>2, <4>1, <4>2
    <3>7. QED BY <1>1, <3>4, <3>5, <3>6
  <2>5. IsSet(kernel', r, d)
    <3>1. DOMAIN new = DOMAIN old
      BY DEF new
    <3>2. QED BY <2>3, <2>4, <3>1 DEF IsSet
  <2>6. QED BY <1>1, <1>5, <2>3, <2>5, NextDoes
<1>6. QED BY <1>2, <1>3, <1>4, <1>5

\* A show command sets nothing.
LEMMA ShowDoes ==
  ASSUME ProcsOK, NEW p \in Procs, WorkOK(proc[p]), Show(p) \/ ShowFails(p)
  PROVE  Does(p)
<1>1. RunOK(proc[p]) /\ proc[p].pc = "show"
  BY DEF ProcsOK, Show, ShowFails, At
<1>2. PICK s : Becomes(p, s) /\ Follows(proc[p], s)
  BY <1>1, ShowOK, ShowFailsOK
<1>3. proc'[p] = s /\ s.cmd = proc[p].cmd /\ s.line = proc[p].line
  BY <1>2 DEF ProcsOK, Becomes, Follows, SameRun
<1>4. proc[p].cmd \notin DOMAIN Lines
  BY <1>1, LinesAssumption DEF RunOK, Reads
<1>5. QED BY <1>3, <1>4 DEF Does, WorkOK, AtWork

LEMMA StepDoes ==
  ASSUME ProcsOK, KernelOK, NEW p \in Procs, WorkOK(proc[p]), Step(p)
  PROVE  Does(p)
BY ReadSettingsDoes, ReadFailsDoes, WriteSettingsDoes, WriteFailsDoes, SetOffloadDoes,
   ShowDoes DEF Step

\* The list of devices: all that are present are in it, and no NULL.
LEMMA PresentListed ==
  LET all == GetDevices(ProcNetDev) IN
    /\ all \in Seq(Range(all)) /\ NULL \notin Range(all)
    /\ \A d \in Devs : kernel[d] # NULL => d \in Range(all)
<1> DEFINE all == GetDevices(ProcNetDev)
           P == {d \in Devs : Present(d)}
           names == Those(Devices, P)
           T == [name : Devs, long : BOOLEAN]
<1>1. names \in Seq(Devs) /\ Range(names) = Devs \cap P
  BY NamesAssumption, ThoseOK DEF Devs
<1>2. ProcNetDev = [k \in DOMAIN names |-> [name |-> names[k], long |-> names[k] \in Long]]
  BY DEF ProcNetDev
<1> HIDE DEF names
<1>3. /\ ProcNetDev \in Seq(T) /\ DOMAIN ProcNetDev = DOMAIN names
      /\ \A k \in DOMAIN names : ProcNetDev[k].name = names[k]
  <2>1. DOMAIN names = 1..Len(names) /\ Len(names) \in Nat /\ \A k \in DOMAIN names : names[k] \in Devs
    BY <1>1
  <2>2. \A k \in DOMAIN names : [name |-> names[k], long |-> names[k] \in Long] \in T
    BY <2>1
  <2> HIDE DEF T
  <2>3. ProcNetDev \in Seq(T)
    BY <1>2, <2>1, <2>2
  <2>4. QED BY <1>2, <2>3
<1> HIDE DEF T
<1>4. /\ all \in Seq({line.name : line \in T} \cup {Rest})
      /\ \A n \in DOMAIN ProcNetDev : ProcNetDev[n].name \in Range(all)
      /\ \A x \in Range(all) : x = Rest \/ \E n \in DOMAIN ProcNetDev : x = ProcNetDev[n].name
  BY <1>3, AllListed
<1>5. NULL \notin Range(all)
  <2>1. \A n \in DOMAIN names : names[n] \in Devs
    BY <1>1
  <2>2. NULL # Rest /\ NULL \notin Devs
    BY NamesAssumption DEF Devs
  <2>3. QED BY <1>3, <1>4, <2>1, <2>2
<1>6. \A d \in Devs : kernel[d] # NULL => d \in Range(all)
  <2> SUFFICES ASSUME NEW d \in Devs, kernel[d] # NULL PROVE d \in Range(all)
    OBVIOUS
  <2>1. d \in Range(names)
    BY <1>1 DEF Present
  <2>2. PICK n \in DOMAIN names : names[n] = d
    BY <2>1 DEF Range
  <2>3. QED BY <1>3, <1>4, <2>2
<1>7. all \in Seq(Range(all))
  <2> HIDE DEF all
  <2> DEFINE U == {line.name : line \in T} \cup {Rest}
  <2>1. all \in Seq(U)
    BY <1>4
  <2> HIDE DEF U
  <2>2. DOMAIN all = 1..Len(all) /\ Len(all) \in Nat /\ \A i \in DOMAIN all : all[i] \in Range(all)
    BY <2>1 DEF Range
  <2>3. QED BY <2>1, <2>2
<1>8. QED BY <1>5, <1>6, <1>7

\* A command begins: what is present is in its list, and what is gone by then
\* does not come back.
LEMMA StartCovers ==
  ASSUME ProcsOK, KernelOK, NEW p \in Procs, NEW cmd \in DOMAIN Lines, NEW target,
         NEW words \in Lines[cmd], Start(p, cmd, target, words)
  PROVE  WorkOK(proc'[p]) /\ (AtWork(proc'[p]) => Covers(kernel', proc'[p]))
<1> DEFINE all == GetDevices(ProcNetDev)
<1>1. PICK r, todo : /\ Begun(r, cmd, todo)
                     /\ Becomes(p, Abort(r)) \/ Becomes(p, RunCmd(r, todo))
  BY StartBegins
<1>1a. UNCHANGED kernel
  BY DEF Start
<1>2. /\ all \in Seq(Range(all)) /\ NULL \notin Range(all)
      /\ \A d \in Devs : kernel[d] # NULL => d \in Range(all)
  BY PresentListed
<1>3. /\ DOMAIN r = RunFields /\ r.cmd = cmd
      /\ \/ r.target = NULL /\ todo = all
         \/ r.target \in Range(all) /\ todo = <<r.target>>
  BY <1>1 DEF Begun
<1> HIDE DEF all
<1>4. todo \in Seq(Range(todo))
  <2>1. CASE todo = all
    BY <1>2, <2>1
  <2>2. CASE todo = <<r.target>>
    <3>1. Range(<<r.target>>) = {r.target} /\ <<r.target>> \in Seq({r.target})
      BY Singleton
    <3>2. QED BY <2>2, <3>1
  <2>3. QED BY <1>3, <2>1, <2>2
<1>5. ASSUME NEW d \in Devs, kernel[d] # NULL, r.target \in {d, NULL} PROVE d \in Range(todo)
  <2>1. CASE r.target = NULL
    BY <1>2, <1>3, <1>5, <2>1
  <2>2. CASE r.target = d
    BY <1>2, <1>3, <1>5, <2>2, Singleton
  <2>3. QED BY <1>5, <2>1, <2>2
<1>6. CASE Becomes(p, RunCmd(r, todo))
  <2> DEFINE s == RunCmd(r, todo)
  <2>1. proc'[p] = s
    BY <1>6 DEF Becomes, ProcsOK
  <2>2. Loops(s, todo, r.left) /\ s.cmd = cmd /\ s.target = r.target
    BY <1>3, RunCmdFields
  <2> HIDE DEF s
  <2>3. WorkOK(s)
    BY <1>4, <2>2 DEF Loops, WorkOK
  <2>4. Covers(kernel, s)
    BY <1>5, <2>2 DEF Loops, Covers
  <2>5. QED BY <1>1a, <2>1, <2>3, <2>4
<1>7. CASE Becomes(p, Abort(r))
  <2> DEFINE s == Abort(r)
  <2>1. proc'[p] = s
    BY <1>7 DEF Becomes, ProcsOK
  <2>2. s.pc = "aborted" /\ s.cmd = cmd
    BY <1>3 DEF Abort, RunFields
  <2> HIDE DEF s
  <2>3. QED BY <2>1, <2>2 DEF WorkOK, AtWork
<1>8. QED BY <1>1, <1>6, <1>7

LEMMA StartShowWorks ==
  ASSUME ProcsOK, NEW p \in Procs, NEW cmd \in Shows, NEW target, StartShow(p, cmd, target)
  PROVE  WorkOK(proc'[p]) /\ ~AtWork(proc'[p])
<1> DEFINE r == [Fresh EXCEPT !.cmd = cmd, !.target = target, !.named = target,
                              !.after = Over]
           todo == IF target # NULL THEN <<target>> ELSE GetDevices(ProcNetDev)
           s == RunCmd(r, todo)
<1>1. proc'[p] = s
  BY DEF StartShow, ProcsOK
<1>2. DOMAIN r = RunFields /\ r.cmd = cmd /\ r.line = <<>>
  BY DEF Fresh, RunFields
<1> HIDE DEF r, todo
<1>3. s.cmd = cmd /\ s.line = <<>>
  BY <1>2, RunCmdFields
<1> HIDE DEF s
<1>4. cmd \notin DOMAIN Lines
  BY ShowsAssumption, LinesAssumption
<1>5. QED BY <1>1, <1>3, <1>4 DEF WorkOK, AtWork

\* What others change is of another group, or gone.
LEMMA CoversStays ==
  ASSUME NEW k, NEW l, NEW r, Covers(k, r),
         \A d \in Devs : l[d] # NULL => /\ k[d] # NULL
                                        /\ l[d][Group[r.cmd]] = k[d][Group[r.cmd]]
  PROVE  Covers(l, r)
<1> SUFFICES ASSUME NEW d \in Devs \ r.left, r.target \in {d, NULL}, d \notin Range(r.todo),
                    l[d] # NULL, l[d][Group[r.cmd]] # NULL
             PROVE  IsSet(l, r, d)
  BY DEF Covers
<1>1. k[d] # NULL /\ l[d][Group[r.cmd]] = k[d][Group[r.cmd]]
  OBVIOUS
<1>2. IsSet(k, r, d)
  BY <1>1 DEF Covers
<1>3. QED BY <1>1, <1>2 DEF IsSet

LEMMA OthersKeep ==
  ASSUME ProcsOK, KernelOK, Kept, NEW p \in Procs, NEW q \in Procs, p # q, RunSteps(q),
         AtWork(proc[p]), Alone(p)', Covers(kernel, proc[p])
  PROVE  Covers(kernel', proc[p])
<1> DEFINE r == proc[p]
           c == proc[q].cmd
<1>1. proc'[p] = r
  BY RunStepOK DEF ProcsOK, Becomes
<1>2. CASE UNCHANGED kernel
  BY <1>2
<1>3. ASSUME NEW d \in Devs, Writes(q, d) \/ Sets(q, d)
      PROVE  Covers(kernel', r)
  <2>1. /\ proc[q].pc \in {"device", "write"} /\ c \in {"C", "G", "K"}
        /\ kernel[d] # NULL
        /\ \E x : kernel' = [kernel EXCEPT ![d] = [@ EXCEPT ![Group[c]] = x]]
    <3>1. CASE Writes(q, d)
      BY <3>1, LinesAssumption DEF Writes, Supports, Present, ProcsOK, RunOK
    <3>2. CASE Sets(q, d)
      BY <3>2, GroupOK DEF Sets, Supports, Present
    <3>3. QED BY <1>3, <3>1, <3>2
  <2>2. r.cmd \in {"C", "G", "K"} /\ c # r.cmd
    <3>1. proc'[q].cmd = c /\ proc'[q].pc # "idle"
      BY <2>1 DEF Kept, Running, SameRun
    <3>2. proc'[q].cmd # proc'[p].cmd
      BY <3>1 DEF Alone, Running
    <3>3. QED BY <1>1, <3>1, <3>2, LinesAssumption DEF AtWork
  <2>3. Group[c] # Group[r.cmd]
    BY <2>1, <2>2, GroupOK
  <2>4. PICK x : kernel' = [kernel EXCEPT ![d] = [@ EXCEPT ![Group[c]] = x]]
    BY <2>1
  <2>5. kernel'[d][Group[r.cmd]] = kernel[d][Group[r.cmd]]
    <3>1. kernel'[d] = [kernel[d] EXCEPT ![Group[c]] = x] /\ DOMAIN kernel[d] = Range(Group)
      BY <2>1, <2>4 DEF KernelOK
    <3>2. Group[r.cmd] \in Range(Group)
      BY <2>2, GroupOK
    <3>3. QED BY <2>3, <3>1, <3>2
  <2>6. \A e \in Devs : e # d => kernel'[e] = kernel[e]
    BY <2>4 DEF KernelOK
  <2>7. \A e \in Devs : kernel'[e] # NULL =>
          kernel[e] # NULL /\ kernel'[e][Group[r.cmd]] = kernel[e][Group[r.cmd]]
    BY <2>1, <2>5, <2>6
  <2> DEFINE l == kernel'
  <2> HIDE DEF l, r
  <2>8. Covers(kernel, r) /\ \A e \in Devs : l[e] # NULL =>
          kernel[e] # NULL /\ l[e][Group[r.cmd]] = kernel[e][Group[r.cmd]]
    BY <2>7 DEF l, r
  <2>9. Covers(l, r)
    BY <2>8, CoversStays
  <2>10. QED BY <2>9 DEF l
<1>4. QED BY <1>2, <1>3, RunStepOK

LEMMA EffectInit ==
  ASSUME Init
  PROVE  EffectInv
<1>1. \A p \in Procs : proc[p].pc = "idle" /\ proc[p].line = <<>>
  BY DEF Init, Fresh
<1>2. \A p \in Procs : WorkOK(proc[p]) /\ ~AtWork(proc[p])
  BY <1>1 DEF WorkOK, AtWork
<1>3. QED BY <1>2, ProcsInit, KernelInit DEF EffectInv

LEMMA EffectNext ==
  ASSUME EffectInv, [Next]_vars
  PROVE  EffectInv'
<1>1. ProcsOK' /\ KernelOK' /\ Kept /\ ProcsOK /\ KernelOK
  BY ProcsNext, KernelNext DEF EffectInv
<1>2. ASSUME NEW p \in Procs, Running(p), Alone(p)' PROVE Alone(p)
  <2>1. ASSUME NEW q \in Procs, q # p, Running(q) PROVE proc[q].cmd # proc[p].cmd
    <3>1. proc'[q].pc # "idle" /\ proc'[q].cmd = proc[q].cmd /\ proc'[p].cmd = proc[p].cmd
      BY <1>1, <1>2, <2>1 DEF Kept, SameRun
    <3>2. QED BY <1>2, <2>1, <3>1 DEF Alone, Running
  <2>2. QED BY <2>1 DEF Alone
<1>3. \A p \in Procs : AtWork(proc[p]) => Running(p)
  BY DEF AtWork, Running
<1>4. \A p \in Procs : WorkOK(proc[p]) /\ (Alone(p) /\ AtWork(proc[p]) => Covers(kernel, proc[p]))
  BY DEF EffectInv
<1>5. ASSUME NEW p \in Procs
      PROVE  WorkOK(proc'[p]) /\ (Alone(p)' /\ AtWork(proc'[p]) => Covers(kernel', proc'[p]))
  <2>1. CASE RunSteps(p)
    <3>1. CASE Step(p)
      <4>1. Does(p)
        BY <1>1, <1>4, <3>1, StepDoes
      <4>2. QED BY <1>2, <1>3, <1>4, <4>1 DEF Does
    <3>2. CASE ListFails(p)
      <4>1. Becomes(p, Abort(proc[p]))
        BY <3>2 DEF ListFails, Becomes
      <4>2. Does(p)
        BY <1>1, <1>4, <4>1, AbortDoes
      <4>3. QED BY <1>2, <1>3, <1>4, <4>2 DEF Does
    <3>3. QED BY <1>1, <2>1, <3>1, <3>2, StartCovers, StartShowWorks DEF RunSteps
  <2>2. ASSUME NEW q \in Procs, q # p, RunSteps(q)
        PROVE  WorkOK(proc'[p]) /\ (Alone(p)' /\ AtWork(proc'[p]) => Covers(kernel', proc'[p]))
    <3>1. proc'[p] = proc[p]
      BY <1>1, <2>2, RunStepOK DEF ProcsOK, Becomes
    <3>2. ASSUME Alone(p)', AtWork(proc[p]) PROVE Covers(kernel', proc[p])
      <4>1. Covers(kernel, proc[p])
        BY <1>2, <1>3, <1>4, <3>2
      <4>2. QED BY <1>1, <2>2, <3>2, <4>1, OthersKeep
    <3>3. QED BY <1>4, <3>1, <3>2
  <2>3. ASSUME NEW d \in Devs, UNCHANGED proc, kernel' = [kernel EXCEPT ![d] = NULL]
        PROVE  WorkOK(proc'[p]) /\ (Alone(p)' /\ AtWork(proc'[p]) => Covers(kernel', proc'[p]))
    <3>1. \A e \in Devs : kernel'[e] # NULL => kernel'[e] = kernel[e]
      BY <1>1, <2>3 DEF KernelOK
    <3>2. proc'[p] = proc[p] /\ (Alone(p)' => Alone(p))
      BY <2>3 DEF Alone, Running
    <3>3. ASSUME Covers(kernel, proc[p]) PROVE Covers(kernel', proc[p])
      <4> DEFINE l == kernel'
      <4>1. \A e \in Devs : l[e] # NULL =>
              kernel[e] # NULL /\ l[e][Group[proc[p].cmd]] = kernel[e][Group[proc[p].cmd]]
        BY <3>1
      <4> HIDE DEF l
      <4>2. Covers(l, proc[p])
        BY <3>3, <4>1, CoversStays
      <4>3. QED BY <4>2 DEF l
    <3>4. QED BY <1>4, <3>2, <3>3
  <2>4. CASE UNCHANGED <<proc, kernel>>
    <3>1. Alone(p)' => Alone(p)
      BY <2>4 DEF Alone, Running
    <3>2. proc'[p] = proc[p] /\ kernel' = kernel
      BY <2>4
    <3>3. QED BY <1>4, <3>1, <3>2
  <2>5. QED BY <2>1, <2>2, <2>3, <2>4, StepKinds
<1>6. QED BY <1>1, <1>5 DEF EffectInv

\* A command that comes to its end without a traceback and without a rival has
\* set what it was asked to set on every device it was meant for that is still
\* there, except where a call failed.
THEOREM EffectTakesPlace == Spec => []TakesEffect
<1>1. Init => EffectInv
  BY EffectInit
<1>2. EffectInv /\ [Next]_vars => EffectInv'
  BY EffectNext
<1>3. EffectInv => TakesEffect
  BY EffectTaken
<1>4. QED BY <1>1, <1>2, <1>3, PTL DEF Spec

-----------------------------------------------------------------------------
(***************************************************************************)
(* What a command shows.                                                   *)
(***************************************************************************)

\* The parts of MayShow, for the runs in P and the settings b at the beginning.
SettersIn(P, cmd) ==
  {q \in Procs : P[q].cmd \in DOMAIN Lines /\ Group[P[q].cmd] = Group[cmd]}
AskingIn(P, cmd, d, f) ==
  {q \in SettersIn(P, cmd) :
     P[q].pc # "idle" /\ P[q].target \in {d, NULL} /\ AskedIn(P[q], f) # {}}
SettledIn(P, r, d, f) ==
  {q \in AskingIn(P, r.cmd, d, f) \cap r.after :
     SettersIn(P, r.cmd) = {q} /\ d \notin P[q].left}
AnyOf(P, b, cmd, d, f) ==
  {b[d][Group[cmd]][f]} \cup
  UNION {{ToUInt32(Value(P[q].cmd, P[q].line[k][2])) : k \in AskedIn(P[q], f)} :
           q \in AskingIn(P, cmd, d, f)}
MayShowIn(P, b, r, d, f) ==
  IF SettledIn(P, r, d, f) # {}
  THEN {ToUInt32(Wanted(P[q], f)) : q \in SettledIn(P, r, d, f)}
  ELSE AnyOf(P, b, r.cmd, d, f)

LEMMA MayShowParts ==
  \A r, d, f : MayShow(r, d, f) = MayShowIn(proc, boot, r, d, f)
BY DEF MayShow, MayShowIn, AnyOf, SettledIn, AskingIn, SettersIn, Setters, Aims, Running

\* A set of numbers up to N has a greatest element.
LEMMA GreatestElement ==
  ASSUME NEW N \in Nat, NEW A, A \subseteq 1..N, A # {}
  PROVE  \E m \in A : \A y \in A : y <= m
<1> DEFINE T == {N - y : y \in A}
<1>1. T \subseteq Nat /\ T # {}
  OBVIOUS
<1> HIDE DEF T
<1>2. PICK x \in T : \A y \in T : x <= y
  BY <1>1, LeastElement
<1>3. PICK m \in A : x = N - m
  BY DEF T
<1>4. ASSUME NEW y \in A PROVE y <= m
  <2>1. N - y \in T
    BY DEF T
  <2>2. N - m <= N - y
    BY <1>2, <1>3, <2>1
  <2>3. QED BY <2>2
<1>5. QED BY <1>4

\* What is wanted is one of the values that are asked for.
LEMMA WantedAsked ==
  ASSUME NEW r, r.line \in Seq(Range(r.line)), NEW f, AskedIn(r, f) # {}
  PROVE  \E k \in AskedIn(r, f) : Wanted(r, f) = Value(r.cmd, r.line[k][2])
<1> DEFINE A == AskedIn(r, f)
           N == Len(r.line)
           last == CHOOSE k \in A : \A j \in A : j <= k
<1>1. N \in Nat /\ A \subseteq 1..N /\ A # {}
  BY DEF AskedIn
<1>2. Wanted(r, f) = Value(r.cmd, r.line[last][2])
  BY DEF Wanted
<1> HIDE DEF A, N
<1>3. last \in A
  BY <1>1, GreatestElement
<1> HIDE DEF last
<1>4. QED BY <1>2, <1>3 DEF A

\* The runs in Q are those in P after a step: r, which began when the runs in
\* r.after were over, may show what it might show before.
LaterRuns(P, Q) ==
  \A q \in Procs :
    /\ P[q].pc # "idle" => SameRun(P[q], Q[q]) /\ Q[q].pc # "idle"
    /\ P[q].pc = "idle" => P[q].cmd \notin DOMAIN Lines
    /\ P[q].pc = "done" => Q[q] = P[q]
    /\ P[q].cmd \in DOMAIN Lines => P[q].line \in Seq(Range(P[q].line))

LEMMA SettersGrow ==
  ASSUME NEW P, NEW Q, LaterRuns(P, Q), NEW cmd, NEW d, NEW f
  PROVE  /\ SettersIn(P, cmd) \subseteq SettersIn(Q, cmd)
         /\ AskingIn(P, cmd, d, f) \subseteq AskingIn(Q, cmd, d, f)
<1>1. ASSUME NEW q \in SettersIn(P, cmd) PROVE q \in SettersIn(Q, cmd)
  <2>1. q \in Procs /\ P[q].pc # "idle"
    BY <1>1 DEF SettersIn, LaterRuns
  <2>2. Q[q].cmd = P[q].cmd
    BY <2>1 DEF LaterRuns, SameRun
  <2>3. QED BY <1>1, <2>2 DEF SettersIn
<1>2. ASSUME NEW q \in AskingIn(P, cmd, d, f) PROVE q \in AskingIn(Q, cmd, d, f)
  <2>1. q \in SettersIn(P, cmd) /\ q \in Procs /\ P[q].pc # "idle" /\ P[q].target \in {d, NULL}
        /\ AskedIn(P[q], f) # {}
    BY <1>2 DEF AskingIn, SettersIn
  <2>2. SameRun(P[q], Q[q]) /\ Q[q].pc # "idle"
    BY <2>1 DEF LaterRuns
  <2>3. AskedIn(Q[q], f) = AskedIn(P[q], f)
    BY <2>2, SameAsked
  <2>4. Q[q].target = P[q].target
    BY <2>2 DEF SameRun
  <2>5. QED BY <1>1, <2>1, <2>2, <2>3, <2>4 DEF AskingIn
<1>3. QED BY <1>1, <1>2

LEMMA AnyOfGrows ==
  ASSUME NEW P, NEW Q, LaterRuns(P, Q), NEW b, NEW cmd, NEW d, NEW f
  PROVE  AnyOf(P, b, cmd, d, f) \subseteq AnyOf(Q, b, cmd, d, f)
<1> SUFFICES ASSUME NEW q \in AskingIn(P, cmd, d, f), NEW k \in AskedIn(P[q], f)
             PROVE  ToUInt32(Value(P[q].cmd, P[q].line[k][2])) \in AnyOf(Q, b, cmd, d, f)
  BY DEF AnyOf
<1>1. q \in AskingIn(Q, cmd, d, f)
  BY SettersGrow
<1>2. q \in Procs /\ P[q].pc # "idle"
  BY DEF AskingIn, SettersIn
<1>3. SameRun(P[q], Q[q])
  BY <1>2 DEF LaterRuns
<1>4. Q[q].cmd = P[q].cmd /\ Q[q].line = P[q].line /\ k \in AskedIn(Q[q], f)
  BY <1>3, SameAsked DEF SameRun
<1>5. QED BY <1>1, <1>4 DEF AnyOf

LEMMA MayShowGrows ==
  ASSUME NEW P, NEW Q, LaterRuns(P, Q), NEW b, NEW r, NEW d, NEW f,
         \A q \in r.after : q \in Procs /\ P[q].pc = "done"
  PROVE  MayShowIn(P, b, r, d, f) \subseteq MayShowIn(Q, b, r, d, f)
<1>1. CASE SettledIn(Q, r, d, f) # {}
  <2>1. ASSUME NEW q \in SettledIn(Q, r, d, f) PROVE q \in SettledIn(P, r, d, f) /\ Q[q] = P[q]
    <3>1. /\ q \in r.after /\ q \in SettersIn(Q, r.cmd) /\ SettersIn(Q, r.cmd) = {q}
          /\ Q[q].target \in {d, NULL} /\ AskedIn(Q[q], f) # {} /\ d \notin Q[q].left
      BY <2>1 DEF SettledIn, AskingIn
    <3>2. q \in Procs /\ P[q].pc = "done" /\ Q[q] = P[q]
      BY <3>1 DEF LaterRuns
    <3>3. q \in SettersIn(P, r.cmd)
      BY <3>1, <3>2 DEF SettersIn
    <3>4. SettersIn(P, r.cmd) = {q}
      BY <3>1, <3>3, SettersGrow
    <3>5. QED BY <3>1, <3>2, <3>3, <3>4 DEF SettledIn, AskingIn
  <2>2. \A q, p \in SettledIn(P, r, d, f) : q = p
    BY DEF SettledIn
  <2>3. SettledIn(P, r, d, f) = SettledIn(Q, r, d, f)
    BY <1>1, <2>1, <2>2
  <2>4. MayShowIn(P, b, r, d, f) = {ToUInt32(Wanted(P[q], f)) : q \in SettledIn(Q, r, d, f)}
    BY <1>1, <2>3 DEF MayShowIn
  <2>5. MayShowIn(Q, b, r, d, f) = {ToUInt32(Wanted(Q[q], f)) : q \in SettledIn(Q, r, d, f)}
    BY <1>1 DEF MayShowIn
  <2>6. QED BY <2>1, <2>4, <2>5
<1>2. CASE SettledIn(Q, r, d, f) = {}
  <2>1. MayShowIn(Q, b, r, d, f) = AnyOf(Q, b, r.cmd, d, f)
    BY <1>2 DEF MayShowIn
  <2>2. MayShowIn(P, b, r, d, f) \subseteq AnyOf(P, b, r.cmd, d, f)
    <3>1. ASSUME NEW q \in SettledIn(P, r, d, f)
          PROVE  ToUInt32(Wanted(P[q], f)) \in AnyOf(P, b, r.cmd, d, f)
      <4>1. /\ q \in Procs /\ q \in AskingIn(P, r.cmd, d, f) /\ AskedIn(P[q], f) # {}
            /\ P[q].cmd \in DOMAIN Lines
        BY <3>1 DEF SettledIn, AskingIn, SettersIn
      <4>2. P[q].line \in Seq(Range(P[q].line))
        BY <4>1, LinesAssumption DEF LaterRuns
      <4>3. PICK k \in AskedIn(P[q], f) : Wanted(P[q], f) = Value(P[q].cmd, P[q].line[k][2])
        BY <4>1, <4>2, WantedAsked
      <4>4. QED BY <4>1, <4>3 DEF AnyOf
    <3>2. QED BY <3>1 DEF MayShowIn
  <2>3. QED BY <2>1, <2>2, AnyOfGrows
<1>3. QED BY <1>1, <1>2

\* What is known of the driver never changes; nor do the devices that there
\* were at the beginning get a group of settings later.
InfoOK ==
  \A d \in Devs : kernel[d] # NULL => kernel[d]["info"] = boot[d]["info"]

BootOK ==
  \A d \in Devs :
    /\ \A cmd \in {"c", "g"} : boot[d] # NULL /\ boot[d][Group[cmd]] # NULL =>
         DOMAIN boot[d][Group[cmd]] = Fields
    /\ \A cmd \in {"i", "k"} : boot[d] # NULL /\ boot[d][Group[cmd]] # NULL =>
         DOMAIN boot[d][Group[cmd]] \subseteq Range(Reads[cmd])

\* A setting that is read may be shown: if it is settled the command that has
\* set it took effect.
LEMMA ReadMayShow ==
  ASSUME EffectInv, OnlyAskedValues, InfoOK, NEW r, r.cmd \in DOMAIN Reads,
         \A q \in r.after : q \in Procs /\ proc[q].pc = "done",
         NEW d \in Devs, Supports(d, r.cmd), NEW f \in DOMAIN kernel[d][Group[r.cmd]]
  PROVE  kernel[d][Group[r.cmd]][f] \in MayShowIn(proc, boot, r, d, f)
<1> DEFINE v == kernel[d][Group[r.cmd]][f]
           S == SettledIn(proc, r, d, f)
<1>0. TakesEffect
  BY EffectTaken
<1>1. CASE r.cmd = "i"
  <2>1. Group[r.cmd] = "info" /\ \A c \in {"C", "G", "K"} : Group[c] # "info"
    BY <1>1, GroupOK DEF Group
  <2>2. S = {}
    BY <2>1, LinesAssumption DEF SettledIn, AskingIn, SettersIn
  <2>3. v = boot[d][Group[r.cmd]][f]
    BY <2>1 DEF InfoOK, Supports, Present
  <2>4. QED BY <2>2, <2>3 DEF MayShowIn, AnyOf
<1>2. CASE r.cmd # "i"
  <2>1. PICK c \in {"C", "G", "K"} : Group[c] = Group[r.cmd]
    BY <1>2 DEF Group, Reads
  <2>2. Supports(d, c) /\ f \in DOMAIN kernel[d][Group[c]] /\ v = kernel[d][Group[c]][f]
    BY <2>1 DEF Supports
  <2>3. \A q \in SettersIn(proc, r.cmd) : proc[q].cmd = c
    BY <2>1, GroupOK, LinesAssumption DEF SettersIn
  <2>4. CASE S # {}
    <3>1. ASSUME NEW q \in S PROVE v = ToUInt32(Wanted(proc[q], f))
      <4>1. /\ q \in Procs /\ proc[q].pc = "done" /\ SettersIn(proc, r.cmd) = {q}
            /\ q \in SettersIn(proc, r.cmd) /\ proc[q].cmd \in DOMAIN Lines
            /\ proc[q].target \in {d, NULL} /\ AskedIn(proc[q], f) # {} /\ d \notin proc[q].left
        BY <3>1 DEF SettledIn, AskingIn, SettersIn
      <4>2. proc[q].cmd = c
        BY <2>3, <4>1
      <4>3. \A p \in Procs \ {q} : proc[p].cmd # proc[q].cmd
        BY <2>1, <4>1, <4>2 DEF SettersIn
      <4>4. At(q, "done") /\ Aims(q, d) /\ Supports(d, proc[q].cmd)
        BY <2>2, <4>1, <4>2 DEF At, Aims, Running
      <4>5. kernel[d][Group[proc[q].cmd]][f] = ToUInt32(Wanted(proc[q], f))
        BY <1>0, <2>2, <4>1, <4>2, <4>3, <4>4 DEF TakesEffect
      <4>6. QED BY <2>2, <4>2, <4>5
    <3>2. QED BY <2>4, <3>1 DEF MayShowIn
  <2>5. CASE S = {}
    <3>1. CASE v = boot[d][Group[r.cmd]][f]
      BY <2>5, <3>1 DEF MayShowIn, AnyOf
    <3>2. CASE v # boot[d][Group[r.cmd]][f]
      <4>1. PICK q \in Procs :
              /\ Aims(q, d) /\ proc[q].cmd = c
              /\ \E k \in DOMAIN proc[q].line : \E a \in Asks(c, proc[q].line[k]) :
                   a[1] = f /\ v = ToUInt32(a[2])
        BY <2>1, <2>2, <3>2 DEF OnlyAskedValues
      <4>2. PICK k \in DOMAIN proc[q].line : \E a \in Asks(c, proc[q].line[k]) :
              a[1] = f /\ v = ToUInt32(a[2])
        BY <4>1
      <4>3. k \in AskedIn(proc[q], f) /\ v = ToUInt32(Value(c, proc[q].line[k][2]))
        BY <4>1, <4>2 DEF AskedIn, Asks
      <4>4. CASE c \in DOMAIN Lines
        <5>1. q \in AskingIn(proc, r.cmd, d, f)
          BY <2>1, <4>1, <4>3, <4>4 DEF AskingIn, SettersIn, Aims, Running
        <5>2. v \in AnyOf(proc, boot, r.cmd, d, f)
          BY <4>1, <4>3, <5>1 DEF AnyOf
        <5>3. QED BY <2>5, <5>2 DEF MayShowIn
      <4>5. CASE c \notin DOMAIN Lines
        <5>1. DOMAIN proc[q].line = {}
          BY <4>1, <4>5 DEF EffectInv, WorkOK
        <5>2. QED BY <4>2, <5>1
      <4>6. QED BY <4>4, <4>5
    <3>3. QED BY <3>1, <3>2
  <2>6. QED BY <2>4, <2>5
<1>3. QED BY <1>1, <1>2

\* A value as the extension module returns it.
Python(cmd, v) == IF cmd \in {"c", "g"} THEN FromUInt32(v) ELSE v

\* The lines in values may be printed by the run r for the device d.
PrintOK(P, b, r, d, values) ==
  d \in Devs => \A f \in DOMAIN values :
    values[f] \in {NULL} \cup {Text(r.cmd, f, Python(r.cmd, v)) : v \in MayShowIn(P, b, r, d, f)}

\* They are all lines of a block.
Complete(cmd, values) ==
  (IF cmd \in {"c", "g"} THEN Fields ELSE Range(Reads[cmd])) \subseteq DOMAIN values

\* What was printed of the device at hand, and what is still to be asked for.
PartOK(P, b, r) ==
  r.pc = "show" =>
    /\ r.reads \in Seq(Range(r.reads)) /\ r.reads # <<>>
    /\ r.cmd \in {"c", "g"} => Len(r.reads) = 1
    /\ Range(Reads[r.cmd]) \subseteq DOMAIN r.values \cup Range(r.reads)
    /\ PrintOK(P, b, r, Head(r.todo), r.values)

\* The block of the last device.
BlockOK(P, b, r) ==
  r.block # NULL =>
    /\ r.cmd \in DOMAIN Reads /\ Complete(r.cmd, r.block.values)
    /\ PrintOK(P, b, r, r.block.dev, r.block.values)

\* A run that has not begun is as it was at the beginning; a run begins after
\* others that are over.
BeginOK(r) ==
  /\ r.pc = "idle" => r = Fresh
  /\ r.cmd \in DOMAIN Lines => r.line \in Seq(Range(r.line))

AfterOK(P, r) == \A q \in r.after : q \in Procs /\ P[q].pc = "done"

ShowInv ==
  /\ AskedInv /\ EffectInv /\ InfoOK /\ BootOK
  /\ \A p \in Procs : /\ BeginOK(proc[p]) /\ AfterOK(proc, proc[p])
                      /\ PartOK(proc, boot, proc[p]) /\ BlockOK(proc, boot, proc[p])

LEMMA ShownSettings ==
  ASSUME ShowInv
  PROVE  ShowsSettings
<1> SUFFICES ASSUME NEW p \in Procs, proc[p].block # NULL, proc[p].block.dev \in Devs,
                    boot[proc[p].block.dev] # NULL,
                    boot[proc[p].block.dev][Group[proc[p].cmd]] # NULL,
                    NEW f \in DOMAIN boot[proc[p].block.dev][Group[proc[p].cmd]]
             PROVE  /\ f \in DOMAIN proc[p].block.values
                    /\ proc[p].block.values[f] \in {NULL} \cup
                         {Text(proc[p].cmd, f,
                               IF proc[p].cmd \in {"c", "g"} THEN FromUInt32(v) ELSE v) :
                            v \in MayShow(proc[p], proc[p].block.dev, f)}
  BY DEF ShowsSettings
<1> DEFINE r == proc[p]
           d == r.block.dev
<1>1. /\ r.cmd \in DOMAIN Reads /\ Complete(r.cmd, r.block.values)
      /\ PrintOK(proc, boot, r, d, r.block.values)
  BY DEF ShowInv, BlockOK
<1>2. f \in DOMAIN r.block.values
  <2>1. CASE r.cmd \in {"c", "g"}
    BY <1>1, <2>1 DEF Complete, ShowInv, BootOK
  <2>2. CASE r.cmd \in {"i", "k"}
    BY <1>1, <2>2 DEF Complete, ShowInv, BootOK
  <2>3. QED BY <1>1, <2>1, <2>2 DEF Reads
<1>3. MayShow(r, d, f) = MayShowIn(proc, boot, r, d, f)
  BY MayShowParts
<1>4. QED BY <1>1, <1>2, <1>3 DEF PrintOK, Python

\* What may be printed depends on the command and on the time it began.
LEMMA SamePrint ==
  ASSUME NEW P, NEW b, NEW r, NEW s, s.cmd = r.cmd, s.after = r.after, NEW d, NEW values,
         PrintOK(P, b, r, d, values)
  PROVE  PrintOK(P, b, s, d, values)
<1>1. \A f : MayShowIn(P, b, s, d, f) = MayShowIn(P, b, r, d, f)
  BY DEF MayShowIn, SettledIn
<1>2. QED BY <1>1 DEF PrintOK

\* What was printed is still justified after a step.
LEMMA PrintStays ==
  ASSUME NEW P, NEW Q, LaterRuns(P, Q), NEW b, NEW r, AfterOK(P, r), NEW d, NEW values,
         PrintOK(P, b, r, d, values)
  PROVE  PrintOK(Q, b, r, d, values)
<1>1. \A f : MayShowIn(P, b, r, d, f) \subseteq MayShowIn(Q, b, r, d, f)
  BY MayShowGrows DEF AfterOK
<1>2. QED BY <1>1 DEF PrintOK

LEMMA ShownStays ==
  ASSUME NEW P, NEW Q, LaterRuns(P, Q), NEW b, NEW r, AfterOK(P, r),
         PartOK(P, b, r), BlockOK(P, b, r)
  PROVE  PartOK(Q, b, r) /\ BlockOK(Q, b, r)
<1>1. PartOK(Q, b, r)
  BY PrintStays DEF PartOK
<1>2. BlockOK(Q, b, r)
  BY PrintStays DEF BlockOK
<1>3. QED BY <1>1, <1>2

\* The calls of the show commands.
LEMMA ReadsOK ==
  ASSUME NEW cmd \in DOMAIN Reads
  PROVE  /\ Reads[cmd] \in Seq(Range(Reads[cmd])) /\ Reads[cmd] # <<>>
         /\ cmd \in {"c", "g"} => Len(Reads[cmd]) = 1
<1>1. cmd \in {"c", "g", "i", "k"}
  BY DEF Reads
<1>2. CASE cmd = "c"
  <2>1. Reads[cmd] = <<"coalesce">>
    BY <1>2 DEF Reads
  <2>2. QED BY <2>1 DEF Range
<1>3. CASE cmd = "g"
  <2>1. Reads[cmd] = <<"ringparam">>
    BY <1>3 DEF Reads
  <2>2. QED BY <2>1 DEF Range
<1>4. CASE cmd = "i"
  <2>1. Reads[cmd] = <<"driver", "businfo">>
    BY <1>4 DEF Reads
  <2>2. QED BY <1>4, <2>1 DEF Range
<1>5. CASE cmd = "k"
  <2>1. Reads[cmd] = <<"sg", "tso", "ufo", "gso", "gro">>
    BY <1>5 DEF Reads
  <2>2. QED BY <1>5, <2>1 DEF Range
<1>6. QED BY <1>1, <1>2, <1>3, <1>4, <1>5

\* The loop goes on with a new device.
LEMMA RunCmdShows ==
  ASSUME NEW r, DOMAIN r = RunFields, NEW todo, NEW P, NEW b, BlockOK(P, b, r)
  PROVE  /\ PartOK(P, b, RunCmd(r, todo)) /\ BlockOK(P, b, RunCmd(r, todo))
         /\ RunCmd(r, todo).after = r.after /\ RunCmd(r, todo).block = r.block
<1> DEFINE s == RunCmd(r, todo)
<1>1. /\ s.cmd = r.cmd /\ s.after = r.after /\ s.block = r.block /\ s.values = <<>>
      /\ s.reads = IF r.cmd \in DOMAIN Reads /\ todo # <<>> THEN Reads[r.cmd] ELSE <<>>
      /\ s.pc = CASE todo = <<>>                           -> "done"
                  [] r.cmd \in DOMAIN Reads /\ todo # <<>> -> "show"
                  [] OTHER                                 -> "device"
  BY DEF RunCmd, RunFields
<1> HIDE DEF s
<1>2. s.pc = "show" => r.cmd \in DOMAIN Reads /\ todo # <<>>
  <2>1. CASE todo = <<>>
    BY <1>1, <2>1
  <2>2. CASE todo # <<>> /\ r.cmd \notin DOMAIN Reads
    <3>1. s.pc = "device"
      BY <1>1, <2>2
    <3>2. QED BY <3>1
  <2>3. QED BY <2>1, <2>2
<1>3. PartOK(P, b, s)
  <2> SUFFICES ASSUME s.pc = "show"
               PROVE  /\ s.reads \in Seq(Range(s.reads)) /\ s.reads # <<>>
                      /\ s.cmd \in {"c", "g"} => Len(s.reads) = 1
                      /\ Range(Reads[s.cmd]) \subseteq DOMAIN s.values \cup Range(s.reads)
                      /\ PrintOK(P, b, s, Head(s.todo), s.values)
    BY DEF PartOK
  <2>1. s.reads = Reads[s.cmd] /\ s.cmd \in DOMAIN Reads
    BY <1>1, <1>2
  <2>2. DOMAIN s.values = {}
    BY <1>1
  <2>3. PrintOK(P, b, s, Head(s.todo), s.values)
    BY <2>2 DEF PrintOK
  <2>4. QED BY <2>1, <2>3, ReadsOK
<1>4. BlockOK(P, b, s)
  BY <1>1, SamePrint DEF BlockOK
<1>5. QED BY <1>1, <1>3, <1>4 DEF s

LEMMA ShownSame ==
  ASSUME NEW P, NEW b, NEW r, NEW s, BlockOK(P, b, r), s.cmd = r.cmd, s.after = r.after,
         s.block = r.block
  PROVE  BlockOK(P, b, s) /\ (s.pc # "show" => PartOK(P, b, s))
<1>1. BlockOK(P, b, s)
  BY SamePrint DEF BlockOK
<1>2. QED BY <1>1 DEF PartOK

\* The run p becomes s and has shown what it may show.
Justified(p, s) ==
  PartOK(proc, boot, s) /\ BlockOK(proc, boot, s) /\ s.after = proc[p].after

\* The steps of the loop.
LEMMA LoopShows ==
  ASSUME NEW p, NEW r, DOMAIN r = RunFields, BlockOK(proc, boot, r), r.after = proc[p].after
  PROVE  /\ Justified(p, NextDevice(r)) /\ Justified(p, LeaveOut(r)) /\ Justified(p, Abort(r))
         /\ \A x : Justified(p, [r EXCEPT !.pc = "write", !.dict = x])
<1>1. Justified(p, NextDevice(r))
  BY RunCmdShows DEF NextDevice, Justified
<1>2. Justified(p, LeaveOut(r))
  <2> DEFINE s == [r EXCEPT !.left = @ \cup {Head(r.todo)}]
  <2>1. DOMAIN s = RunFields /\ s.cmd = r.cmd /\ s.after = r.after /\ s.block = r.block
    BY DEF RunFields
  <2>2. LeaveOut(r) = RunCmd(s, Tail(s.todo))
    BY DEF LeaveOut, NextDevice
  <2> HIDE DEF s
  <2>3. BlockOK(proc, boot, s)
    BY <2>1, ShownSame
  <2>4. QED BY <2>1, <2>2, <2>3, RunCmdShows DEF Justified
<1>3. Justified(p, Abort(r))
  <2> DEFINE s == Abort(r)
  <2>1. s.cmd = r.cmd /\ s.after = r.after /\ s.block = r.block /\ s.pc = "aborted"
    BY DEF Abort, RunFields
  <2> HIDE DEF s
  <2>2. Justified(p, s)
    BY <2>1, ShownSame DEF Justified
  <2>3. QED BY <2>2 DEF s
<1>4. ASSUME NEW x PROVE Justified(p, [r EXCEPT !.pc = "write", !.dict = x])
  <2> DEFINE s == [r EXCEPT !.pc = "write", !.dict = x]
  <2>1. s.cmd = r.cmd /\ s.after = r.after /\ s.block = r.block /\ s.pc = "write"
    BY DEF RunFields
  <2> HIDE DEF s
  <2>2. Justified(p, s)
    BY <2>1, ShownSame DEF Justified
  <2>3. QED BY <2>2 DEF s
<1>5. QED BY <1>1, <1>2, <1>3, <1>4

\* One more call of a show command has returned or failed.
LEMMA ShowNextShows ==
  ASSUME NEW p, RunOK(proc[p]), proc[p].pc = "show", PartOK(proc, boot, proc[p]),
         NEW values, PrintOK(proc, boot, proc[p], Head(proc[p].todo), values),
         IF proc[p].cmd \in {"c", "g"} THEN Fields \subseteq DOMAIN values
         ELSE DOMAIN proc[p].values \cup {Head(proc[p].reads)} \subseteq DOMAIN values
  PROVE  Justified(p, ShowNext(proc[p], values))
<1> DEFINE r == proc[p]
           all == Range(Reads[r.cmd])
<1>1. /\ r.reads \in Seq(Range(r.reads)) /\ r.reads # <<>>
      /\ r.cmd \in {"c", "g"} => Len(r.reads) = 1
      /\ all \subseteq DOMAIN r.values \cup Range(r.reads)
      /\ DOMAIN r = RunFields /\ r.cmd \in DOMAIN Reads
  BY DEF PartOK, RunOK
<1>2. /\ Tail(r.reads) \in Seq(Range(Tail(r.reads)))
      /\ \A x \in Range(r.reads) : x = Head(r.reads) \/ x \in Range(Tail(r.reads))
  BY <1>1, HeadTail
<1>3. r.cmd \notin {"c", "g"} => all \subseteq DOMAIN values \cup Range(Tail(r.reads))
  BY <1>1, <1>2
<1>4. CASE Len(r.reads) > 1
  <2> DEFINE s == [r EXCEPT !.reads = Tail(@), !.values = values, !.block = NULL]
  <2>1. /\ s.cmd = r.cmd /\ s.after = r.after /\ s.block = NULL /\ s.values = values
        /\ s.reads = Tail(r.reads) /\ s.todo = r.todo
    BY <1>1 DEF RunFields
  <2>2. Tail(r.reads) # <<>> /\ r.cmd \notin {"c", "g"}
    <3> DEFINE n == Len(r.reads)
               m == Len(Tail(r.reads))
    <3>1. m = n - 1 /\ n \in Nat /\ n > 1
      BY <1>1, <1>4
    <3>2. Tail(r.reads) = <<>> => m = 0
      <4>1. Len(<<>>) = 0
        OBVIOUS
      <4>2. QED BY <4>1, Zenon
    <3>3. r.cmd \in {"c", "g"} => n = 1
      BY <1>1
    <3> HIDE DEF n, m
    <3>4. m # 0 /\ n # 1
      BY <3>1
    <3>5. QED BY <3>2, <3>3, <3>4
  <2>3. ShowNext(r, values) = s
    BY <1>4 DEF ShowNext
  <2> HIDE DEF s
  <2>4. PrintOK(proc, boot, s, Head(s.todo), s.values)
    BY <2>1, SamePrint
  <2>5. PartOK(proc, boot, s)
    BY <1>2, <1>3, <2>1, <2>2, <2>4 DEF PartOK
  <2>6. BlockOK(proc, boot, s)
    BY <2>1 DEF BlockOK
  <2>7. QED BY <2>1, <2>3, <2>5, <2>6 DEF Justified
<1>5. CASE ~(Len(r.reads) > 1)
  <2> DEFINE blk == [dev |-> Head(r.todo), values |-> values]
             s == [r EXCEPT !.block = blk]
  <2>1. /\ s.cmd = r.cmd /\ s.after = r.after /\ s.block = blk /\ DOMAIN s = RunFields
        /\ blk.dev = Head(r.todo) /\ blk.values = values
    BY <1>1 DEF RunFields
  <2>2. ShowNext(r, values) = NextDevice(s)
    BY <1>5 DEF ShowNext
  <2>3. Range(Tail(r.reads)) = {}
    <3>1. Len(Tail(r.reads)) = Len(r.reads) - 1 /\ Len(r.reads) \in Nat \ {0}
      BY <1>1
    <3>2. Tail(r.reads) = <<>>
      BY <1>2, <1>5, <3>1
    <3>3. QED BY <3>2, NoElement
  <2>4. Complete(r.cmd, values)
    BY <1>3, <2>3 DEF Complete
  <2> HIDE DEF s, blk
  <2>5. PrintOK(proc, boot, s, blk.dev, blk.values)
    BY <2>1, SamePrint
  <2>6. BlockOK(proc, boot, s)
    BY <1>1, <2>1, <2>4, <2>5 DEF BlockOK
  <2>7. QED BY <2>1, <2>2, <2>6, LoopShows
<1>6. QED BY <1>4, <1>5

\* All entries of a dict are printed.
LEMMA AllPrinted ==
  ASSUME NEW cmd, NEW dict, DOMAIN dict = Fields
  PROVE  Printed(cmd, dict) = Fields
<1>1. InTable(cmd) \in SUBSET Fields
  BY DEF InTable
<1> HIDE DEF InTable
<1>2. CASE Cardinality(Fields) = Cardinality(InTable(cmd))
  <2>1. InTable(cmd) = Fields
    BY <1>1, <1>2, FS_Subset, ReadsAssumption
  <2>2. QED BY <2>1 DEF Printed
<1>3. CASE Cardinality(Fields) # Cardinality(InTable(cmd))
  BY <1>1, <1>3 DEF Printed
<1>4. QED BY <1>2, <1>3

\* A show command prints what it has read.
LEMMA ShowShows ==
  ASSUME ShowInv, NEW p \in Procs, Show(p)
  PROVE  \E s : Becomes(p, s) /\ Justified(p, s)
<1> DEFINE r == proc[p]
           d == Device(p)
           group == kernel[d][Group[r.cmd]]
           attr == Head(r.reads)
           dict == CreateDict(group)
           values == IF r.cmd \in {"c", "g"}
                     THEN [f \in Printed(r.cmd, dict) |-> Text(r.cmd, f, dict[f])]
                     ELSE With(r.values, attr, Text(r.cmd, attr, group[attr]))
<1>1. r.pc = "show" /\ Answers(p) /\ Becomes(p, ShowNext(r, values))
  BY DEF Show, At, Becomes
<1>2. /\ RunOK(r) /\ r.cmd \in DOMAIN Reads /\ AfterOK(proc, r) /\ PartOK(proc, boot, r)
      /\ EffectInv /\ AskedInv /\ InfoOK
  BY <1>1 DEF ShowInv, AskedInv, ProcsOK, RunOK
<1>3. Supports(d, r.cmd) /\ d \in Devs
  BY <1>1 DEF Answers, Supports, Present
<1>4. ASSUME NEW f \in DOMAIN group PROVE group[f] \in MayShowIn(proc, boot, r, d, f)
  <2>1. OnlyAskedValues
    BY <1>2, AskedOnlyValues DEF AskedInv
  <2> HIDE DEF r, d
  <2>2. QED BY <1>2, <1>3, <1>4, <2>1, ReadMayShow DEF AfterOK
<1> HIDE DEF dict
<1>5. CASE r.cmd \in {"c", "g"}
  <2>1. group \in [Fields -> UInt32]
    <3>1. Group["c"] = Group["C"] /\ Group["g"] = Group["G"]
      BY DEF Group
    <3>2. QED BY <1>2, <1>3, <1>5, <3>1 DEF AskedInv, KernelOK, Supports, Present
  <2>2. DOMAIN dict = Fields /\ \A f \in Fields : dict[f] = FromUInt32(group[f])
    BY DEF dict, CreateDict
  <2>3. DOMAIN values = Fields /\ \A f \in Fields : values[f] = Text(r.cmd, f, FromUInt32(group[f]))
    BY <1>5, <2>2, AllPrinted
  <2> HIDE DEF values
  <2>4. PrintOK(proc, boot, r, Head(r.todo), values)
    <3>1. d = Head(r.todo)
      BY DEF Device
    <3>2. ASSUME NEW f \in Fields
          PROVE  values[f] \in {Text(r.cmd, f, Python(r.cmd, v)) : v \in MayShowIn(proc, boot, r, d, f)}
      <4>1. group[f] \in MayShowIn(proc, boot, r, d, f)
        BY <1>4, <2>1
      <4>2. values[f] = Text(r.cmd, f, Python(r.cmd, group[f]))
        BY <1>5, <2>3 DEF Python
      <4>3. QED BY <4>1, <4>2
    <3>3. QED BY <2>3, <3>1, <3>2 DEF PrintOK
  <2>5. Justified(p, ShowNext(r, values))
    BY <1>1, <1>2, <1>5, <2>3, <2>4, ShowNextShows
  <2>6. QED BY <1>1, <2>5
<1>6. CASE r.cmd \notin {"c", "g"}
  <2>1. attr \in DOMAIN group
    BY <1>1, <1>2, <1>6 DEF Answers, Reads
  <2> DEFINE text == Text(r.cmd, attr, group[attr])
  <2>2. values = With(r.values, attr, text)
    BY <1>6
  <2> HIDE DEF text, values
  <2>3. /\ DOMAIN values = DOMAIN r.values \cup {attr}
        /\ \A f \in DOMAIN values : values[f] = IF f = attr THEN text ELSE r.values[f]
    BY <2>2 DEF With
  <2>4. PrintOK(proc, boot, r, Head(r.todo), values)
    <3>1. d = Head(r.todo)
      BY DEF Device
    <3>2. PrintOK(proc, boot, r, d, r.values)
      BY <1>1, <1>2, <3>1 DEF PartOK
    <3>3. text \in {Text(r.cmd, attr, Python(r.cmd, v)) : v \in MayShowIn(proc, boot, r, d, attr)}
      <4>1. group[attr] \in MayShowIn(proc, boot, r, d, attr)
        BY <1>4, <2>1
      <4>2. text = Text(r.cmd, attr, Python(r.cmd, group[attr]))
        BY <1>6 DEF Python, text
      <4>3. QED BY <4>1, <4>2
    <3>4. QED BY <2>3, <3>1, <3>2, <3>3 DEF PrintOK
  <2>5. Justified(p, ShowNext(r, values))
    BY <1>1, <1>2, <1>6, <2>3, <2>4, ShowNextShows
  <2>6. QED BY <1>1, <2>5
<1>7. QED BY <1>5, <1>6

LEMMA ShowFailsShows ==
  ASSUME ShowInv, NEW p \in Procs, ShowFails(p)
  PROVE  \E s : Becomes(p, s) /\ Justified(p, s)
<1> DEFINE r == proc[p]
           s == [r EXCEPT !.block = NULL]
<1>1. /\ r.pc = "show"
      /\ proc' = [proc EXCEPT ![p] =
            IF r.cmd \in {"c", "g"} THEN LeaveOut(s)
            ELSE ShowNext(r, With(r.values, Head(r.reads), NULL))]
  BY DEF ShowFails, At
<1>2. RunOK(r) /\ PartOK(proc, boot, r) /\ DOMAIN r = RunFields
  BY DEF ShowInv, AskedInv, ProcsOK, RunOK
<1>3. CASE r.cmd \in {"c", "g"}
  <2>1. DOMAIN s = RunFields /\ s.block = NULL /\ s.after = r.after
    BY <1>2 DEF RunFields
  <2> HIDE DEF s
  <2>2. BlockOK(proc, boot, s)
    BY <2>1 DEF BlockOK
  <2>3. Justified(p, LeaveOut(s))
    BY <2>1, <2>2, LoopShows
  <2>4. QED BY <1>1, <1>3, <2>3 DEF Becomes
<1>4. CASE r.cmd \notin {"c", "g"}
  <2> DEFINE values == With(r.values, Head(r.reads), NULL)
  <2>1. /\ DOMAIN values = DOMAIN r.values \cup {Head(r.reads)}
        /\ \A f \in DOMAIN values : values[f] = IF f = Head(r.reads) THEN NULL ELSE r.values[f]
    BY DEF With
  <2>2. Becomes(p, ShowNext(r, values))
    BY <1>1, <1>4 DEF Becomes
  <2> HIDE DEF values
  <2>3. PrintOK(proc, boot, r, Head(r.todo), values)
    <3>1. PrintOK(proc, boot, r, Head(r.todo), r.values)
      BY <1>1, <1>2 DEF PartOK
    <3>2. QED BY <2>1, <3>1 DEF PrintOK
  <2>4. Justified(p, ShowNext(r, values))
    BY <1>1, <1>2, <1>4, <2>1, <2>3, ShowNextShows
  <2>5. QED BY <2>2, <2>4
<1>5. QED BY <1>3, <1>4

LEMMA StepShows ==
  ASSUME ShowInv, NEW p \in Procs, Step(p)
  PROVE  \E s : Becomes(p, s) /\ Justified(p, s)
<1> DEFINE r == proc[p]
<1>1. DOMAIN r = RunFields /\ BlockOK(proc, boot, r)
  BY DEF ShowInv, AskedInv, ProcsOK, RunOK
<1>2. /\ Justified(p, NextDevice(r)) /\ Justified(p, LeaveOut(r)) /\ Justified(p, Abort(r))
      /\ \A x : Justified(p, [r EXCEPT !.pc = "write", !.dict = x])
  BY <1>1, LoopShows
<1>3. CASE ReadSettings(p)
  <2> DEFINE e == Edited(r.cmd, CreateDict(kernel[Device(p)][Group[r.cmd]]), r.line)
  <2>1. proc' = [proc EXCEPT ![p] =
           CASE r.odd                  -> Abort(r)
             [] ~r.odd /\ ~e.changed   -> NextDevice(r)
             [] ~r.odd /\ e.changed    -> [r EXCEPT !.pc = "write", !.dict = e.dict]]
    BY <1>3 DEF ReadSettings
  <2> HIDE DEF e
  <2>2. CASE r.odd
    BY <1>2, <2>1, <2>2 DEF Becomes
  <2>3. CASE ~r.odd /\ ~e.changed
    BY <1>2, <2>1, <2>3 DEF Becomes
  <2>4. CASE ~r.odd /\ e.changed
    BY <1>2, <2>1, <2>4 DEF Becomes
  <2>5. QED BY <2>2, <2>3, <2>4
<1>4. CASE ReadFails(p) \/ WriteSettings(p) \/ WriteFails(p) \/ SetOffload(p)
  <2>1. Becomes(p, NextDevice(r)) \/ Becomes(p, LeaveOut(r)) \/ Becomes(p, Abort(r))
    BY <1>4 DEF ReadFails, WriteSettings, WriteFails, SetOffload, Becomes
  <2>2. QED BY <1>2, <2>1
<1>5. QED BY <1>3, <1>4, ShowShows, ShowFailsShows DEF Step

-----------------------------------------------------------------------------
(***************************************************************************)
(* What is shown stays justified.                                          *)
(***************************************************************************)

\* A run that is over takes no more steps.
LEMMA DoneStays ==
  ASSUME ProcsOK, [Next]_vars, NEW q \in Procs, proc[q].pc = "done"
  PROVE  proc'[q] = proc[q]
<1>1. ASSUME NEW p \in Procs, RunSteps(p) PROVE proc'[q] = proc[q]
  <2>1. p # q
    BY <1>1 DEF RunSteps, Step, Start, StartShow, ListFails, ReadSettings, ReadFails,
                WriteSettings, WriteFails, SetOffload, Show, ShowFails, At
  <2>2. QED BY <1>1, <2>1, RunStepOK DEF Becomes, ProcsOK
<1>2. QED BY <1>1, StepKinds

LEMMA RunsAreLater ==
  ASSUME ShowInv, [Next]_vars
  PROVE  LaterRuns(proc, proc')
<1>1. ProcsOK /\ Kept
  BY ProcsNext DEF ShowInv, AskedInv
<1>2. ASSUME NEW q \in Procs
      PROVE  /\ proc[q].pc # "idle" => SameRun(proc[q], proc'[q]) /\ proc'[q].pc # "idle"
             /\ proc[q].pc = "idle" => proc[q].cmd \notin DOMAIN Lines
             /\ proc[q].pc = "done" => proc'[q] = proc[q]
             /\ proc[q].cmd \in DOMAIN Lines => proc[q].line \in Seq(Range(proc[q].line))
  <2>1. proc[q].pc = "idle" => proc[q].cmd = NULL
    BY DEF ShowInv, BeginOK, Fresh
  <2>2. NULL \notin DOMAIN Lines
    BY LinesAssumption
  <2>3. QED BY <1>1, <2>1, <2>2, DoneStays DEF Kept, Running, ShowInv, BeginOK
<1>3. QED BY <1>2 DEF LaterRuns

\* A run begins.
LEMMA StartShows ==
  ASSUME ShowInv, NEW p \in Procs, NEW cmd \in DOMAIN Lines, NEW target,
         NEW words \in Lines[cmd], Start(p, cmd, target, words)
  PROVE  \E s : /\ Becomes(p, s) /\ PartOK(proc, boot, s) /\ BlockOK(proc, boot, s)
                /\ s.after = Over /\ s.pc # "idle" /\ s.cmd = cmd
                /\ s.line \in Seq(Range(s.line))
<1>1. PICK r, todo : /\ Begun(r, cmd, todo)
                     /\ Becomes(p, Abort(r)) \/ Becomes(p, RunCmd(r, todo))
  BY StartBegins
<1>2. /\ DOMAIN r = RunFields /\ r.cmd = cmd /\ r.block = NULL /\ r.after = Over
      /\ r.line \in Seq(Range(r.line))
  BY <1>1 DEF Begun
<1>3. BlockOK(proc, boot, r)
  BY <1>2 DEF BlockOK
<1>4. CASE Becomes(p, RunCmd(r, todo))
  <2>1. RunCmd(r, todo).pc # "idle"
    BY <1>1, BegunOK
  <2>2. /\ PartOK(proc, boot, RunCmd(r, todo)) /\ BlockOK(proc, boot, RunCmd(r, todo))
        /\ RunCmd(r, todo).after = Over
    BY <1>2, <1>3, RunCmdShows
  <2>3. RunCmd(r, todo).cmd = cmd /\ RunCmd(r, todo).line = r.line
    BY <1>2, RunCmdFields
  <2>4. QED BY <1>2, <1>4, <2>1, <2>2, <2>3
<1>5. CASE Becomes(p, Abort(r))
  <2> DEFINE s == Abort(r)
  <2>1. /\ s.pc = "aborted" /\ s.cmd = cmd /\ s.line = r.line /\ s.after = Over
        /\ s.block = NULL
    BY <1>2 DEF Abort, RunFields
  <2>2. Becomes(p, s)
    BY <1>5
  <2> HIDE DEF s
  <2>3. PartOK(proc, boot, s) /\ BlockOK(proc, boot, s)
    BY <2>1 DEF PartOK, BlockOK
  <2>4. QED BY <1>2, <2>1, <2>2, <2>3
<1>6. QED BY <1>1, <1>4, <1>5

LEMMA StartShowShows ==
  ASSUME ShowInv, NEW p \in Procs, NEW cmd \in Shows, NEW target, StartShow(p, cmd, target)
  PROVE  \E s : /\ Becomes(p, s) /\ PartOK(proc, boot, s) /\ BlockOK(proc, boot, s)
                /\ s.after = Over /\ s.pc # "idle" /\ s.cmd = cmd
<1> DEFINE r == [Fresh EXCEPT !.cmd = cmd, !.target = target, !.named = target,
                              !.after = Over]
           todo == IF target # NULL THEN <<target>> ELSE GetDevices(ProcNetDev)
<1>1. Becomes(p, RunCmd(r, todo))
  BY DEF StartShow, Becomes
<1>2. /\ DOMAIN r = RunFields /\ r.cmd = cmd /\ r.target = target /\ r.block = NULL
      /\ r.after = Over /\ r.named = target
  BY DEF Fresh, RunFields
<1> HIDE DEF r
<1>3. (r.target # NULL => todo \in {<<>>, <<r.target>>}) /\ Heeded(r)
  BY <1>2 DEF Heeded
<1> HIDE DEF todo
<1>4. r.cmd \in DOMAIN Reads
  BY <1>2, ShowsAssumption DEF Reads
<1>5. RunCmd(r, todo).pc # "idle"
  BY <1>2, <1>3, <1>4, RunCmdOK
<1>6. BlockOK(proc, boot, r)
  BY <1>2 DEF BlockOK
<1>7. /\ PartOK(proc, boot, RunCmd(r, todo)) /\ BlockOK(proc, boot, RunCmd(r, todo))
      /\ RunCmd(r, todo).after = Over
  BY <1>2, <1>6, RunCmdShows
<1>8. RunCmd(r, todo).cmd = cmd
  BY <1>2, RunCmdFields
<1>9. QED BY <1>1, <1>5, <1>7, <1>8

\* Whatever step the run p takes.
LEMMA RunStepShows ==
  ASSUME ShowInv, NEW p \in Procs, RunSteps(p)
  PROVE  \E s : /\ Becomes(p, s) /\ PartOK(proc, boot, s) /\ BlockOK(proc, boot, s)
                /\ s.after \in {proc[p].after, Over}
<1>1. ASSUME ListFails(p)
      PROVE  \E s : Becomes(p, s) /\ Justified(p, s)
  <2>1. Becomes(p, Abort(proc[p]))
    BY <1>1 DEF ListFails, Becomes
  <2>2. DOMAIN proc[p] = RunFields /\ BlockOK(proc, boot, proc[p])
    BY DEF ShowInv, AskedInv, ProcsOK, RunOK
  <2>3. QED BY <2>1, <2>2, LoopShows
<1>2. CASE ListFails(p) \/ Step(p)
  BY <1>1, <1>2, StepShows DEF Justified
<1>3. CASE ~(ListFails(p) \/ Step(p))
  BY <1>3, StartShows, StartShowShows DEF RunSteps
<1>4. QED BY <1>2, <1>3

\* A run keeps its command line, and is as at the beginning until it begins.
LEMMA BeginNext ==
  ASSUME ShowInv, [Next]_vars, NEW p \in Procs
  PROVE  BeginOK(proc'[p])
<1>1. ProcsOK /\ Kept
  BY ProcsNext DEF ShowInv, AskedInv
<1>2. BeginOK(proc[p])
  BY DEF ShowInv
<1>3. CASE proc'[p] = proc[p]
  BY <1>2, <1>3
<1>4. CASE Running(p)
  BY <1>1, <1>2, <1>4 DEF Kept, SameRun, BeginOK
<1>5. CASE ~Running(p) /\ RunSteps(p)
  <2>1. proc[p].cmd = NULL /\ proc[p].pc = "idle"
    BY <1>2, <1>5 DEF BeginOK, Fresh, Running
  <2>2. CASE ListFails(p)
    <3> DEFINE s == Abort(proc[p])
    <3>1. s.pc = "aborted" /\ s.cmd = proc[p].cmd
      BY <1>1 DEF Abort, ProcsOK, RunOK, RunFields
    <3>2. proc'[p] = s
      BY <1>1, <2>2 DEF ListFails, ProcsOK
    <3> HIDE DEF s
    <3>3. QED BY <2>1, <3>1, <3>2, LinesAssumption DEF BeginOK
  <2>3. CASE \E cmd \in DOMAIN Lines, target \in Targets :
               \E words \in Lines[cmd] : Start(p, cmd, target, words)
    <3>0. PICK cmd \in DOMAIN Lines : \E target \in Targets :
            \E words \in Lines[cmd] : Start(p, cmd, target, words)
      BY <2>3
    <3>1. PICK words \in Lines[cmd] : \E target \in Targets : Start(p, cmd, target, words)
      BY <3>0
    <3>1a. PICK s : /\ Becomes(p, s) /\ s.pc # "idle" /\ s.cmd = cmd
                    /\ s.line \in Seq(Range(s.line))
      BY <3>1, StartShows
    <3>2. proc'[p] = s
      BY <1>1, <3>1a DEF Becomes, ProcsOK
    <3>3. QED BY <3>1a, <3>2 DEF BeginOK
  <2>4. CASE \E cmd \in Shows, target \in Targets : StartShow(p, cmd, target)
    <3>0. PICK cmd \in Shows : \E target \in Targets : StartShow(p, cmd, target)
      BY <2>4
    <3>1. PICK s : Becomes(p, s) /\ s.pc # "idle" /\ s.cmd = cmd
      BY <3>0, StartShowShows
    <3>2. proc'[p] = s
      BY <1>1, <3>1 DEF Becomes, ProcsOK
    <3>3. cmd \notin DOMAIN Lines
      BY <3>1, LinesAssumption, ShowsAssumption
    <3>4. QED BY <3>1, <3>2, <3>3 DEF BeginOK
  <2>5. ~Step(p)
    BY <2>1 DEF Step, ReadSettings, ReadFails, WriteSettings, WriteFails, SetOffload,
                Show, ShowFails, At
  <2>6. QED BY <1>5, <2>2, <2>3, <2>4, <2>5 DEF RunSteps
<1>6. CASE ~Running(p) /\ ~RunSteps(p)
  <2>1. proc'[p] = proc[p]
    <3>1. ASSUME NEW q \in Procs, RunSteps(q) PROVE proc'[p] = proc[p]
      BY <1>1, <1>6, <3>1, RunStepOK DEF Becomes, ProcsOK
    <3>2. QED BY <3>1, StepKinds
  <2>2. QED BY <1>3, <2>1
<1>7. QED BY <1>4, <1>5, <1>6

LEMMA InfoNext ==
  ASSUME ShowInv, [Next]_vars
  PROVE  InfoOK'
<1>1. ProcsOK /\ KernelOK /\ InfoOK /\ UNCHANGED boot
  BY StepKinds DEF ShowInv, AskedInv
<1>2. CASE UNCHANGED kernel
  BY <1>1, <1>2 DEF InfoOK
<1>3. ASSUME NEW d \in Devs, kernel' = [kernel EXCEPT ![d] = NULL]
      PROVE  InfoOK'
  BY <1>1, <1>3 DEF InfoOK, KernelOK
<1>4. ASSUME NEW d \in Devs, NEW g, g # "info", NEW x, kernel[d] # NULL,
             kernel' = [kernel EXCEPT ![d] = [@ EXCEPT ![g] = x]]
      PROVE  InfoOK'
  <2>1. "info" \in Range(Group)
    <3>1. "i" \in DOMAIN Group /\ Group["i"] = "info"
      BY DEF Group
    <3>2. QED BY <3>1 DEF Range
  <2>2. kernel'[d]["info"] = kernel[d]["info"] /\ \A e \in Devs : e # d => kernel'[e] = kernel[e]
    BY <1>1, <1>4, <2>1 DEF KernelOK
  <2>3. \A e \in Devs : kernel'[e] # NULL => kernel[e] # NULL /\ kernel'[e]["info"] = kernel[e]["info"]
    BY <1>4, <2>2
  <2>4. \A e \in Devs : kernel'[e] # NULL => kernel'[e]["info"] = boot'[e]["info"]
    BY <1>1, <2>3 DEF InfoOK
  <2>5. QED BY <2>4 DEF InfoOK
<1>5. ASSUME NEW p \in Procs, NEW d \in Devs, Writes(p, d) \/ Sets(p, d)
      PROVE  InfoOK'
  <2>1. CASE Writes(p, d)
    <3>1. proc[p].cmd \in {"C", "G", "K"}
      BY <1>1, <2>1, LinesAssumption DEF Writes, ProcsOK, RunOK
    <3>2. Group[proc[p].cmd] # "info"
      BY <3>1, GroupOK
    <3>3. QED BY <1>4, <2>1, <3>2 DEF Writes, Supports, Present
  <2>2. CASE Sets(p, d)
    BY <1>4, <2>2 DEF Sets, Supports, Present
  <2>3. QED BY <1>5, <2>1, <2>2
<1>6. QED BY <1>2, <1>3, <1>5, KernelSteps

LEMMA ShowInit ==
  ASSUME Init
  PROVE  ShowInv
<1>1. \A p \in Procs : proc[p] = Fresh
  BY DEF Init
<1>2. Fresh.pc = "idle" /\ Fresh.after = {} /\ Fresh.block = NULL /\ Fresh.cmd = NULL
  BY DEF Fresh
<1>3. NULL \notin DOMAIN Lines
  BY LinesAssumption
<1>4. \A p \in Procs : /\ BeginOK(proc[p]) /\ AfterOK(proc, proc[p])
                       /\ PartOK(proc, boot, proc[p]) /\ BlockOK(proc, boot, proc[p])
  BY <1>1, <1>2, <1>3 DEF BeginOK, AfterOK, PartOK, BlockOK
<1>5. InfoOK
  BY DEF InfoOK, Init
<1>6. BootOK
  <2>1. boot \in Kernels
    BY DEF Init
  <2>2. Group["c"] = Group["C"] /\ Group["g"] = Group["G"]
    BY DEF Group
  <2>3. ASSUME NEW d \in Devs, boot[d] # NULL, NEW cmd \in {"c", "g"}, boot[d][Group[cmd]] # NULL
        PROVE  DOMAIN boot[d][Group[cmd]] = Fields
    BY <2>1, <2>2, <2>3, KernelsAssumption
  <2>4. ASSUME NEW d \in Devs, boot[d] # NULL, NEW cmd \in {"i", "k"}, boot[d][Group[cmd]] # NULL
        PROVE  DOMAIN boot[d][Group[cmd]] \subseteq Range(Reads[cmd])
    BY <2>1, <2>4, ReadsAssumption
  <2>5. QED BY <2>3, <2>4 DEF BootOK
<1>7. QED BY <1>4, <1>5, <1>6, AskedInit, EffectInit DEF ShowInv

LEMMA ShowNextInv ==
  ASSUME ShowInv, [Next]_vars
  PROVE  ShowInv'
<1>1. /\ AskedInv' /\ EffectInv' /\ InfoOK' /\ UNCHANGED boot /\ ProcsOK
      /\ LaterRuns(proc, proc')
  BY AskedNext, EffectNext, InfoNext, StepKinds, RunsAreLater DEF ShowInv, AskedInv
<1>2. BootOK'
  BY <1>1 DEF ShowInv, BootOK
<1>3. ASSUME NEW p \in Procs
      PROVE  /\ AfterOK(proc', proc'[p])
             /\ PartOK(proc', boot, proc'[p]) /\ BlockOK(proc', boot, proc'[p])
  <2>1. /\ AfterOK(proc, proc[p])
        /\ PartOK(proc, boot, proc[p]) /\ BlockOK(proc, boot, proc[p])
    BY DEF ShowInv
  <2>2. ASSUME NEW s, proc'[p] = s, AfterOK(proc, s), PartOK(proc, boot, s), BlockOK(proc, boot, s)
        PROVE  /\ AfterOK(proc', proc'[p])
               /\ PartOK(proc', boot, proc'[p]) /\ BlockOK(proc', boot, proc'[p])
    <3> DEFINE Q == proc'
    <3>1. LaterRuns(proc, Q)
      BY <1>1
    <3>2. AfterOK(Q, s)
      BY <2>2, <3>1 DEF AfterOK, LaterRuns
    <3> HIDE DEF Q
    <3>3. PartOK(Q, boot, s) /\ BlockOK(Q, boot, s)
      BY <2>2, <3>1, ShownStays
    <3>4. QED BY <2>2, <3>2, <3>3 DEF Q
  <2>3. CASE proc'[p] = proc[p]
    BY <2>1, <2>2, <2>3
  <2>4. CASE RunSteps(p)
    <3>1. PICK s : /\ Becomes(p, s) /\ PartOK(proc, boot, s) /\ BlockOK(proc, boot, s)
                   /\ s.after \in {proc[p].after, Over}
      BY <2>4, RunStepShows
    <3>2. proc'[p] = s
      BY <1>1, <3>1 DEF Becomes, ProcsOK
    <3>3. AfterOK(proc, s)
      BY <2>1, <3>1 DEF AfterOK, Over, At
    <3>4. QED BY <2>2, <3>1, <3>2, <3>3
  <2>5. ASSUME NEW q \in Procs, q # p, RunSteps(q) PROVE proc'[p] = proc[p]
    BY <1>1, <2>5, RunStepOK DEF Becomes, ProcsOK
  <2>6. QED BY <2>3, <2>4, <2>5, StepKinds
<1>4. \A p \in Procs : BeginOK(proc'[p])
  BY BeginNext
<1>5. QED BY <1>1, <1>2, <1>3, <1>4 DEF ShowInv

\* What a show command prints of a device is complete, and each setting is one
\* that the device had at the beginning or that somebody has asked for; what a
\* command has set that was over when the show command began is shown.
THEOREM SettingsShown == Spec => []ShowsSettings
<1>1. Init => ShowInv
  BY ShowInit
<1>2. ShowInv /\ [Next]_vars => ShowInv'
  BY ShowNextInv
<1>3. ShowInv => ShowsSettings
  BY ShownSettings
<1>4. QED BY <1>1, <1>2, <1>3, PTL DEF Spec

=============================================================================
