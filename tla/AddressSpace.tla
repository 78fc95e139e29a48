---------------------------- MODULE AddressSpace ----------------------------
(***************************************************************************)
(* What the page-table code promises its callers: an address space is a    *)
(* function from virtual pages to mappings.  A new one is empty.  A call   *)
(* of virtual_memory_map() maps the pages of a range one after the other,  *)
(* each to the page asked for, and nothing else changes.  Kernel works     *)
(* with address spaces of this kind.                                       *)
(***************************************************************************)
EXTENDS Integers

CONSTANTS
  Owners,    \* who has an address space: the kernel and the processes
  VPages,    \* virtual pages
  REACH      \* the first one that has no page table

VARIABLES
  live,     \* owners that have an address space
  space,    \* space[o][v], Unmapped everywhere for owners that have none
  request   \* the call in progress: n pages from v on are to be mapped, to
            \* the pages from pn on, with permissions perm

vars == <<live, space, request>>

Unmapped == [pn |-> -1, perm |-> {}]
NoSpace  == [v \in VPages |-> Unmapped]

Init ==
  /\ live = {}
  /\ space = [o \in Owners |-> NoSpace]
  /\ request.n = 0

Create(o) ==
  /\ request.n = 0
  /\ live' = live \cup {o}
  /\ space' = [space EXCEPT ![o] = NoSpace]
  /\ UNCHANGED request

Begin ==
  /\ request.n = 0
  /\ request'.owner \in live
  /\ UNCHANGED <<live, space>>

\* A page without a page table ends the call with -1 if it was to be present.
Map ==
  /\ request.n # 0
  /\ IF request.v < REACH
     THEN space' = [space EXCEPT ![request.owner][request.v] =
                      IF "P" \in request.perm
                      THEN [pn |-> request.pn, perm |-> request.perm]
                      ELSE Unmapped]
     ELSE space' = space
  /\ request' = IF request.v >= REACH /\ "P" \in request.perm
                THEN [request EXCEPT !.n = 0, !.ret = -1]
                ELSE [request EXCEPT !.v = @ + 1, !.pn = @ + 1, !.n = @ - 1]
  /\ UNCHANGED live

\* A reboot forgets every address space.
Forget ==
  /\ request.n = 0
  /\ live' = {} /\ space' = [o \in Owners |-> NoSpace]
  /\ UNCHANGED request

Next == Map \/ Begin \/ Forget \/ \E o \in Owners : Create(o)

Spec == Init /\ [][Next]_vars
=============================================================================
