------------------------------- MODULE Paging -------------------------------
(***************************************************************************)
(* The kernel's page tables at work: virtual_memory_init(),                *)
(* duplicate_pagetable() and virtual_memory_map(), which handles one page  *)
(* per round of its loop and remembers the L4 table from one round to the  *)
(* next.  Owner 0 is the kernel, the others are processes.                 *)
(***************************************************************************)
EXTENDS PageTable

CONSTANT Owners

ASSUME OwnersAssumption == 0 \in Owners

VARIABLES
  tab,      \* contents of the physical pages that serve as page tables
  tables,   \* the five tables of each owner
  call      \* virtual_memory_map() in progress

NoTables == [l \in Levels |-> NULL]

Live(o)  == tables[o]["L1"] # NULL

\* n pages are still to be mapped; last is last_index123
NoCall == [owner |-> 0, v |-> 0, pn |-> 0, n |-> 0, perm |-> {},
           last |-> -1, l4 |-> NULL, ret |-> 0]

PagingInit ==
  /\ tab = [pn \in Pages |-> Zeroed]
  /\ tables = [o \in Owners |-> NoTables]
  /\ call = NoCall

Idle == call.n = 0

\* The five pages T, in use by nobody else, become o's page table.
NewTables(o, T) ==
  /\ Idle
  /\ T \in [Levels -> Pages]
  /\ \A l, k \in Levels : T[l] # NULL /\ (T[l] = T[k] => l = k)
  /\ \A q \in Owners \ {o}, l, k \in Levels : T[l] # tables[q][k]
  /\ tab' = Connected(tab, T)
  /\ tables' = [tables EXCEPT ![o] = T]
  /\ UNCHANGED call

\* virtual_memory_map(o's table, v, pn, n pages, perm); the guards are its
\* assertions.  Addresses and sizes are unsigned, and the callers' addresses
\* are canonical.
MapCall(o, v, pn, n, perm) ==
  /\ Idle /\ Live(o)
  /\ v \in Nat /\ n \in Nat /\ pn \in Int /\ perm \subseteq PTE_PWU
  /\ \A w \in v .. v + n - 1 : Canonical(w)
  /\ "P" \in perm => 0 <= pn /\ pn + n <= NPAGES
  /\ call' = [NoCall EXCEPT !.owner = o, !.v = v, !.pn = pn, !.n = n, !.perm = perm]
  /\ UNCHANGED <<tab, tables>>

\* Mutant: the L4 table is looked up once and kept for the whole range.
L4Table_Once ==
  IF call.last = -1
  THEN lookup_l4pagetable(tab, tables[call.owner]["L1"], call.v)
  ELSE call.l4

\* the L4 table for this round: looked up again when the upper indices change
L4Table ==
  IF call.v \div NENT # call.last
  THEN lookup_l4pagetable(tab, tables[call.owner]["L1"], call.v)
  ELSE call.l4

\* One round of virtual_memory_map().  Without an L4 table a present page
\* makes it return -1, and an absent one is skipped.
MapPage ==
  /\ call.n # 0
  /\ WalkAllows(tab, tables[call.owner]["L1"], call.v, call.perm)
  /\ tab' = IF L4Table = NULL THEN tab
            ELSE [tab EXCEPT ![L4Table][L4PAGEINDEX(call.v)] =
                    Entry(IF "P" \in call.perm THEN call.pn ELSE 0, call.perm)]
  /\ call' = IF L4Table = NULL /\ "P" \in call.perm
             THEN [call EXCEPT !.n = 0, !.ret = -1]
             ELSE [call EXCEPT !.v = @ + 1, !.pn = @ + 1, !.n = @ - 1,
                               !.last = call.v \div NENT, !.l4 = L4Table]
  /\ UNCHANGED tables

\* A reboot: the next kernel() finds the old contents in every page.
ForgetTables ==
  /\ Idle
  /\ tables' = [o \in Owners |-> NoTables]
  /\ UNCHANGED <<tab, call>>

PagingVars == <<tab, tables, call>>

-----------------------------------------------------------------------------
(* Properties *)

LookupOf(o, v) == virtual_memory_lookup(tab, tables[o]["L1"], v)

\* virtual_memory_lookup() answers what the processor does, for every address:
\* the flags it takes out of an entry are those of the level above, which is
\* right only because the levels above all carry the same flags.
LookupIsHardware ==
  \A o \in Owners : Live(o) =>
    \A v \in VPages : LookupOf(o, v) = HardwareWalk(tab, tables[o]["L1"], v)

\* The address space that lookup shows of every owner, and the call as its
\* caller sees it
Mappings ==
  [o \in Owners |->
     [v \in VPages |-> IF Live(o) THEN LookupOf(o, v) ELSE Unmapped]]

Request == [owner |-> call.owner, v |-> call.v, pn |-> call.pn, n |-> call.n,
            perm |-> call.perm, ret |-> call.ret]

\* The four-level tables implement flat address spaces: a call maps exactly
\* the pages asked for, across the boundary of two L4 tables too, and what
\* lookup answers for any other page and any other owner stays, whatever the
\* pages that became tables held before.
Spaces == INSTANCE AddressSpace WITH
  Owners <- Owners, VPages <- VPages, REACH <- 2 * NENT,
  live <- {o \in Owners : Live(o)}, space <- Mappings, request <- Request

ImplementsAddressSpace == Spaces!Spec

-----------------------------------------------------------------------------
(* The invariant behind them *)

Entries == [pn : Pages, flags : SUBSET PTE_PWU]
Contents == [Pages -> [Indices -> Entries]]

\* The five pages T hold, in t, tables connected as Connected() leaves them.
Linked(t, T) ==
  /\ T \in [Levels -> Pages]
  /\ \A l, k \in Levels : T[l] # NULL /\ (T[l] = T[k] => l = k)
  /\ t[T["L1"]] = [Zeroed EXCEPT ![0] = Entry(T["L2"], PTE_PWU)]
  /\ t[T["L2"]] = [Zeroed EXCEPT ![0] = Entry(T["L3"], PTE_PWU)]
  /\ t[T["L3"]] = [Zeroed EXCEPT ![0] = Entry(T["L4_1"], PTE_PWU),
                                 ![1] = Entry(T["L4_2"], PTE_PWU)]

\* the L4 table of T for a page whose quotient is i
L4At(T, i) == IF i = 0 THEN T["L4_1"] ELSE IF i = 1 THEN T["L4_2"] ELSE NULL

Calls == [owner : Owners, v : Nat, pn : Int, n : Nat, perm : SUBSET PTE_PWU,
          last : Int, l4 : Pages, ret : Int]

\* Owners' tables are well built and share no page, and a call in progress
\* remembers the L4 table of the page before.
PInv ==
  /\ tab \in Contents
  /\ tables \in [Owners -> [Levels -> Pages]]
  /\ \A o \in Owners : Live(o) => Linked(tab, tables[o])
  /\ \A o, q \in Owners : o # q /\ Live(o) /\ Live(q) =>
       \A l, k \in Levels : tables[o][l] # tables[q][k]
  /\ call \in Calls
  /\ call.n # 0 =>
       /\ Live(call.owner)
       /\ \A w \in call.v .. call.v + call.n - 1 : Canonical(w)
       /\ "P" \in call.perm => 0 <= call.pn /\ call.pn + call.n <= NPAGES
       /\ call.last # -1 => call.l4 = L4At(tables[call.owner], call.last)
=============================================================================
