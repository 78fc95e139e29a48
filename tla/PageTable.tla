----------------------------- MODULE PageTable ------------------------------
(***************************************************************************)
(* Four-level page tables: vm.c and the paging macros of x86-64.h.  A page *)
(* that serves as a page table is a function from indices to entries; tab  *)
(* maps every physical page to its contents as a page table.  Addresses    *)
(* are page numbers, and page number 0 is also the NULL pointer.           *)
(***************************************************************************)
EXTENDS Integers

CONSTANTS
  NENT,     \* NPAGETABLEENTRIES: entries of a page-table page (512)
  NPAGES,   \* number of physical pages (512)
  VLIMIT    \* virtual pages looked at, counted from 0

ASSUME PageTableAssumption ==
  NENT \in Nat /\ 2 <= NENT /\ NPAGES \in Nat \ {0} /\ VLIMIT \in Nat

Pages   == 0 .. NPAGES - 1
Indices == 0 .. NENT - 1
NULL    == 0

PTE_PU  == {"P", "U"}
PTE_PW  == {"P", "W"}
PTE_PWU == {"P", "W", "U"}

Entry(pn, flags) == [pn |-> pn, flags |-> flags]
Zeroed  == [i \in Indices |-> Entry(0, {})]

\* The index of virtual page v in a table of the given level: 0 is the L1
\* table, 3 the L4 table.
PAGEINDEX(v, level) ==
  CASE level = 3 -> v % NENT
    [] level = 2 -> (v \div NENT) % NENT
    [] level = 1 -> ((v \div NENT) \div NENT) % NENT
    [] level = 0 -> (((v \div NENT) \div NENT) \div NENT) % NENT

L4PAGEINDEX(v) == PAGEINDEX(v, 3)

\* The number of virtual page v fits in the four indices.
Canonical(v) == ((v \div NENT) \div NENT) \div NENT < NENT

VPages == {v \in 0 .. VLIMIT - 1 : Canonical(v)}

-----------------------------------------------------------------------------
(* lookup_l4pagetable() *)

\* The table that the entry of level i leads to, NULL if it is not present.
Follow(tab, pt, v, i) ==
  IF pt # NULL /\ "P" \in tab[pt][PAGEINDEX(v, i)].flags
  THEN tab[pt][PAGEINDEX(v, i)].pn ELSE NULL

LevelTable(tab, root, v, i) ==
  CASE i = 0 -> root
    [] i = 1 -> Follow(tab, root, v, 0)
    [] i = 2 -> Follow(tab, Follow(tab, root, v, 0), v, 1)
    [] i = 3 -> Follow(tab, Follow(tab, Follow(tab, root, v, 0), v, 1), v, 2)

lookup_l4pagetable(tab, root, v) == LevelTable(tab, root, v, 3)

\* Its assertions: the entries on the way allow what the caller asks for.
WalkAllows(tab, root, v, perm) ==
  \A i \in 0 .. 2 :
    LET pt == LevelTable(tab, root, v, i)
        e  == tab[pt][PAGEINDEX(v, i)]
    IN  pt # NULL /\ "P" \in e.flags => perm \cap {"W", "U"} \subseteq e.flags

-----------------------------------------------------------------------------
(* virtual_memory_lookup() *)

Mapping(pn, perm) == [pn |-> pn, perm |-> perm]
Unmapped == Mapping(-1, {})

\* Mutant: the mask is kept for the next level instead of being recomputed.
Descend_KeepMask(tab, pe, v, i) ==
  IF "P" \notin pe.flags THEN pe
  ELSE LET e == tab[pe.pn][PAGEINDEX(v, i)]
       IN  Entry(e.pn, e.flags \ {"W", "U"})

\* One round of the loop: pe is the entry of the level above, and its W and U
\* flags are taken OUT of the entry found.
Descend(tab, pe, v, i) ==
  IF "P" \notin pe.flags THEN pe
  ELSE LET e == tab[pe.pn][PAGEINDEX(v, i)]
       IN  Entry(e.pn, e.flags \ (pe.flags \cap {"W", "U"}))

virtual_memory_lookup(tab, root, v) ==
  LET e0 == Descend(tab, Entry(root, PTE_PWU), v, 0)
      e1 == Descend(tab, e0, v, 1)
      e2 == Descend(tab, e1, v, 2)
      e3 == Descend(tab, e2, v, 3)
  IN  IF "P" \in e3.flags THEN Mapping(e3.pn, e3.flags) ELSE Unmapped

\* The processor's own walk (external): every level must be present, and an
\* access is allowed only if every level allows it.
HardwareWalk(tab, root, v) ==
  LET e(i) == tab[LevelTable(tab, root, v, i)][PAGEINDEX(v, i)]
  IN  IF \A i \in 0 .. 3 : LevelTable(tab, root, v, i) # NULL /\ "P" \in e(i).flags
      THEN Mapping(e(3).pn, e(0).flags \cap e(1).flags \cap e(2).flags \cap e(3).flags)
      ELSE Unmapped

-----------------------------------------------------------------------------
(* Building a page table: virtual_memory_init(), duplicate_pagetable() *)

Levels == {"L1", "L2", "L3", "L4_1", "L4_2"}

\* The five pages T are cleared and connected.
Connected(tab, T) ==
  [pn \in Pages |->
     CASE pn = T["L1"] -> [Zeroed EXCEPT ![0] = Entry(T["L2"], PTE_PWU)]
       [] pn = T["L2"] -> [Zeroed EXCEPT ![0] = Entry(T["L3"], PTE_PWU)]
       [] pn = T["L3"] -> [Zeroed EXCEPT ![0] = Entry(T["L4_1"], PTE_PWU),
                                         ![1] = Entry(T["L4_2"], PTE_PWU)]
       [] pn \in {T["L4_1"], T["L4_2"]} -> Zeroed
       [] OTHER -> tab[pn]]
=============================================================================
