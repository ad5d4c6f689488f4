---------------------------- MODULE OnDemandHandle ----------------------------
(***************************************************************************)
(* What netlink.c promises about the NETLINK connection, without tags and  *)
(* counters: a process has at most one handle; it is obtained when an      *)
(* object needs it and none is held, and from then on that same handle is  *)
(* used until it is given up; it is given up only when an object dies, and *)
(* it is never held once the last object is gone.                          *)
(***************************************************************************)
CONSTANTS
  Objs,     (* objects that share the handle *)
  Handles,  (* the handles there are         *)
  NULL      (* no handle                     *)

VARIABLES
  live,     (* the objects that exist        *)
  handle    (* the handle held, or NULL      *)

vars == <<live, handle>>

Init == live = {} /\ handle = NULL

Create(o) ==
  /\ o \notin live
  /\ live' = live \cup {o}
  /\ UNCHANGED handle

\* An object makes sure that a handle is held.
Acquire(o) ==
  /\ o \in live
  /\ handle = NULL
  /\ handle' \in Handles
  /\ UNCHANGED live

\* An object dies.  The handle may go with it, and does so if the object was
\* the last one.
Release(o) ==
  /\ o \in live
  /\ live' = live \ {o}
  /\ handle' \in {handle, NULL}
  /\ live' = {} => handle' = NULL

Next == \E o \in Objs : Create(o) \/ Acquire(o) \/ Release(o)

Spec == Init /\ [][Next]_vars

=============================================================================
