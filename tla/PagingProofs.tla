---------------------------- MODULE PagingProofs ----------------------------
(***************************************************************************)
(* The page-table code is right for every number of entries of a table, of *)
(* physical pages, of processes and of programs: the kernel's lookup       *)
(* answers what the processor does, and the four-level tables implement    *)
(* flat address spaces.  The boot loader is right for every size of a      *)
(* sector and of memory and every kernel the linker lays out: it jumps to  *)
(* a kernel that is completely in memory.                                  *)
(***************************************************************************)
EXTENDS Loader, TLAPS, FiniteSetTheorems

\* A leaf is Zenon's unless it names SMT, as the ones with arithmetic do.
USE ZenonT(20)

-----------------------------------------------------------------------------
(* Indices *)

\* A page number is made of a quotient and a remainder.
LEMMA DivMod ==
  ASSUME NEW v \in Nat
  PROVE  /\ v \div NENT \in Nat
         /\ v % NENT \in Indices
         /\ v = NENT * (v \div NENT) + (v % NENT)
BY SMTT(20), PageTableAssumption DEF Indices

\* The quotient is 0 exactly for numbers below NENT, which are their remainder.
LEMMA DivZero ==
  ASSUME NEW v \in Nat
  PROVE  /\ v \div NENT = 0 => v % NENT = v
         /\ v < NENT <=> v \div NENT = 0
<1>1. v \div NENT = 0 => v % NENT = v
  BY SMTT(20), DivMod, PageTableAssumption
<1>2. v \div NENT = 0 => v < NENT
  BY SMTT(20), DivMod, <1>1, PageTableAssumption DEF Indices
<1>3. v < NENT => v \div NENT = 0
  BY SMTT(20), PageTableAssumption
<1> QED BY <1>1, <1>2, <1>3

\* It is 0 or 1 exactly for numbers below 2 * NENT.
LEMMA DivTwo ==
  ASSUME NEW v \in Nat
  PROVE  v < 2 * NENT <=> v \div NENT \in {0, 1}
<1>1. v \div NENT \in {0, 1} => v < 2 * NENT
  BY SMTT(20), DivMod, PageTableAssumption DEF Indices
<1>2. v < 2 * NENT => v \div NENT \in {0, 1}
  BY SMTT(20), PageTableAssumption
<1> QED BY <1>1, <1>2

\* A canonical page has the upper indices 0, 0 and j, for j = 0 or 1, exactly
\* if its quotient is j: no two pages share their four indices.
LEMMA UpperIndices ==
  ASSUME NEW v \in Nat, Canonical(v), NEW j \in {0, 1}
  PROVE  v \div NENT = j <=> /\ PAGEINDEX(v, 0) = 0
                             /\ PAGEINDEX(v, 1) = 0
                             /\ PAGEINDEX(v, 2) = j
<1> DEFINE a == v \div NENT
           b == a \div NENT
           c == b \div NENT
<1>1. a \in Nat /\ b \in Nat /\ c \in Nat /\ c < NENT
  BY DivMod DEF Canonical
<1>2. /\ PAGEINDEX(v, 2) = a % NENT
      /\ PAGEINDEX(v, 1) = b % NENT
      /\ PAGEINDEX(v, 0) = c % NENT
  BY SMTT(20) DEF PAGEINDEX
<1>3. ASSUME a = j PROVE c % NENT = 0 /\ b % NENT = 0 /\ a % NENT = j
  <2> HIDE DEF a
  <2>1. a < NENT BY SMTT(20), <1>3, PageTableAssumption
  <2>2. b = 0 /\ a % NENT = a BY <2>1, <1>1, DivZero
  <2> HIDE DEF b
  <2>3. b < NENT BY SMTT(20), <2>2, PageTableAssumption
  <2>4. c = 0 /\ b % NENT = b BY <2>3, <1>1, DivZero
  <2> HIDE DEF c
  <2>5. c % NENT = c BY <2>4, <1>1, DivZero, PageTableAssumption
  <2> QED BY <1>3, <2>2, <2>4, <2>5
<1>4. ASSUME c % NENT = 0, b % NENT = 0, a % NENT = j PROVE a = j
  <2>1. c = 0 BY <1>1, <1>4, DivZero
  <2>2. b = 0 BY <1>1, <1>4, <2>1, DivZero
  <2>3. a = j BY <1>1, <1>4, <2>2, DivZero
  <2> QED BY <2>3
<1> QED BY <1>2, <1>3, <1>4

-----------------------------------------------------------------------------
(* Walks through well-built tables *)

\* what the tables say of page v, read from its L4 table alone
Flat(t, T, v) ==
  LET pt == L4At(T, v \div NENT)
      e  == t[pt][v % NENT]
  IN  IF pt # NULL /\ "P" \in e.flags THEN Mapping(e.pn, e.flags) ELSE Unmapped

\* The upper levels, by index.
LEMMA UpperEntries ==
  ASSUME NEW t, NEW T, Linked(t, T), NEW i \in Indices
  PROVE  /\ t[T["L1"]][i].pn = IF i = 0 THEN T["L2"] ELSE 0
         /\ t[T["L1"]][i].flags = IF i = 0 THEN PTE_PWU ELSE {}
         /\ t[T["L2"]][i].pn = IF i = 0 THEN T["L3"] ELSE 0
         /\ t[T["L2"]][i].flags = IF i = 0 THEN PTE_PWU ELSE {}
         /\ t[T["L3"]][i].pn = IF i \in {0, 1} THEN L4At(T, i) ELSE 0
         /\ t[T["L3"]][i].flags = IF i \in {0, 1} THEN PTE_PWU ELSE {}
<1>1. 0 \in Indices /\ 1 \in Indices
  BY SMTT(20), PageTableAssumption DEF Indices
<1>2. t[T["L1"]][i] = IF i = 0 THEN Entry(T["L2"], PTE_PWU) ELSE Entry(0, {})
  BY <1>1 DEF Linked, Zeroed
<1>3. t[T["L2"]][i] = IF i = 0 THEN Entry(T["L3"], PTE_PWU) ELSE Entry(0, {})
  BY <1>1 DEF Linked, Zeroed
<1>4. t[T["L3"]][i] = IF i \in {0, 1} THEN Entry(L4At(T, i), PTE_PWU) ELSE Entry(0, {})
  BY SMTT(20), <1>1 DEF Linked, Zeroed, L4At
<1>5. \A pn, flags : Entry(pn, flags).pn = pn /\ Entry(pn, flags).flags = flags
  BY DEF Entry
<1> QED BY SMTT(20), <1>2, <1>3, <1>4, <1>5

\* pageindex() stays inside a table.
LEMMA IndexType ==
  ASSUME NEW v \in Nat, NEW i \in 0 .. 3
  PROVE  PAGEINDEX(v, i) \in Indices
<1>1. /\ v \div NENT \in Nat
      /\ (v \div NENT) \div NENT \in Nat
      /\ ((v \div NENT) \div NENT) \div NENT \in Nat
  BY DivMod
<1>2. i = 0 \/ i = 1 \/ i = 2 \/ i = 3
  BY SMTT(20)
<1>3. /\ v % NENT \in Indices
      /\ (v \div NENT) % NENT \in Indices
      /\ ((v \div NENT) \div NENT) % NENT \in Indices
      /\ (((v \div NENT) \div NENT) \div NENT) % NENT \in Indices
  BY <1>1, DivMod
<1> QED BY <1>2, <1>3 DEF PAGEINDEX

\* lookup_l4pagetable() finds the L4 table, NULL where there is none; on the
\* way it meets L1, L2, L3.
LEMMA WalkL4 ==
  ASSUME NEW t, NEW T, Linked(t, T), NEW v \in Nat, Canonical(v)
  PROVE  /\ LevelTable(t, T["L1"], v, 0) = T["L1"]
         /\ LevelTable(t, T["L1"], v, 1) =
              IF PAGEINDEX(v, 0) = 0 THEN T["L2"] ELSE NULL
         /\ LevelTable(t, T["L1"], v, 2) =
              IF PAGEINDEX(v, 0) = 0 /\ PAGEINDEX(v, 1) = 0 THEN T["L3"] ELSE NULL
         /\ LevelTable(t, T["L1"], v, 3) = L4At(T, v \div NENT)
<1> DEFINE i0 == PAGEINDEX(v, 0)
           i1 == PAGEINDEX(v, 1)
           i2 == PAGEINDEX(v, 2)
           f1 == Follow(t, T["L1"], v, 0)
           f2 == Follow(t, f1, v, 1)
           f3 == Follow(t, f2, v, 2)
<1>u. \A i \in Indices :
        /\ t[T["L1"]][i].pn = IF i = 0 THEN T["L2"] ELSE 0
        /\ t[T["L1"]][i].flags = IF i = 0 THEN PTE_PWU ELSE {}
        /\ t[T["L2"]][i].pn = IF i = 0 THEN T["L3"] ELSE 0
        /\ t[T["L2"]][i].flags = IF i = 0 THEN PTE_PWU ELSE {}
        /\ t[T["L3"]][i].pn = IF i \in {0, 1} THEN L4At(T, i) ELSE 0
        /\ t[T["L3"]][i].flags = IF i \in {0, 1} THEN PTE_PWU ELSE {}
  BY UpperEntries
<1>1. i0 \in Indices /\ i1 \in Indices /\ i2 \in Indices
  BY SMTT(20), IndexType
<1>2. T["L1"] # NULL /\ T["L2"] # NULL /\ T["L3"] # NULL
  BY DEF Linked, Levels
<1>3. "P" \in PTE_PWU BY DEF PTE_PWU
<1>4. f1 = IF i0 = 0 THEN T["L2"] ELSE NULL
  BY <1>1, <1>2, <1>3, <1>u DEF Follow, NULL
<1>5. f2 = IF i0 = 0 /\ i1 = 0 THEN T["L3"] ELSE NULL
  <2> HIDE DEF f1
  <2> QED BY <1>1, <1>2, <1>3, <1>4, <1>u DEF Follow, NULL
<1>6. f3 = IF i0 = 0 /\ i1 = 0 /\ i2 \in {0, 1} THEN L4At(T, i2) ELSE NULL
  <2> HIDE DEF f2
  <2> QED BY <1>1, <1>2, <1>3, <1>5, <1>u DEF Follow, NULL
<1>7. f3 = L4At(T, v \div NENT)
  <2>1. \A j \in {0, 1} : v \div NENT = j <=> i0 = 0 /\ i1 = 0 /\ i2 = j
    BY UpperIndices
  <2> HIDE DEF i0, i1, i2, f3
  <2>2. v \div NENT = 0 <=> i0 = 0 /\ i1 = 0 /\ i2 = 0 BY <2>1
  <2>3. v \div NENT = 1 <=> i0 = 0 /\ i1 = 0 /\ i2 = 1 BY <2>1
  <2> QED BY <1>6, <2>2, <2>3 DEF L4At
<1>8. /\ LevelTable(t, T["L1"], v, 0) = T["L1"]
      /\ LevelTable(t, T["L1"], v, 1) = f1
      /\ LevelTable(t, T["L1"], v, 2) = f2
      /\ LevelTable(t, T["L1"], v, 3) = f3
  BY SMTT(20) DEF LevelTable
<1> QED BY <1>4, <1>5, <1>7, <1>8

\* virtual_memory_lookup(): the masks of the upper levels alternate, W and U
\* being taken out at L1 and L3 and kept at L2 and L4.
LEMMA LookupFlat ==
  ASSUME NEW t \in Contents, NEW T, Linked(t, T), NEW v \in Nat, Canonical(v)
  PROVE  virtual_memory_lookup(t, T["L1"], v) = Flat(t, T, v)
<1> DEFINE i0 == PAGEINDEX(v, 0)
           i1 == PAGEINDEX(v, 1)
           i2 == PAGEINDEX(v, 2)
           e0 == Descend(t, Entry(T["L1"], PTE_PWU), v, 0)
           e1 == Descend(t, e0, v, 1)
           e2 == Descend(t, e1, v, 2)
           e3 == Descend(t, e2, v, 3)
           pt == L4At(T, v \div NENT)
           e  == t[pt][v % NENT]
<1>u. \A i \in Indices :
        /\ t[T["L1"]][i].pn = IF i = 0 THEN T["L2"] ELSE 0
        /\ t[T["L1"]][i].flags = IF i = 0 THEN PTE_PWU ELSE {}
        /\ t[T["L2"]][i].pn = IF i = 0 THEN T["L3"] ELSE 0
        /\ t[T["L2"]][i].flags = IF i = 0 THEN PTE_PWU ELSE {}
        /\ t[T["L3"]][i].pn = IF i \in {0, 1} THEN L4At(T, i) ELSE 0
        /\ t[T["L3"]][i].flags = IF i \in {0, 1} THEN PTE_PWU ELSE {}
  BY UpperEntries
<1>1. i0 \in Indices /\ i1 \in Indices /\ i2 \in Indices /\ v % NENT \in Indices
  BY SMTT(20), IndexType, DivMod
<1>2. PAGEINDEX(v, 3) = v % NENT
  BY SMTT(20) DEF PAGEINDEX
<1>3. e0 = IF i0 = 0 THEN Entry(T["L2"], {"P"}) ELSE Entry(0, {})
  <2>1. /\ "P" \in PTE_PWU
        /\ PTE_PWU \ (PTE_PWU \cap {"W", "U"}) = {"P"}
        /\ {} \ (PTE_PWU \cap {"W", "U"}) = {}
    BY DEF PTE_PWU
  <2> QED BY <1>1, <2>1, <1>u DEF Descend, Entry
<1>4. e1 = IF i0 = 0 /\ i1 = 0 THEN Entry(T["L3"], PTE_PWU) ELSE Entry(0, {})
  <2>1. /\ PTE_PWU \ ({"P"} \cap {"W", "U"}) = PTE_PWU
        /\ {} \ ({"P"} \cap {"W", "U"}) = {}
    BY DEF PTE_PWU
  <2> HIDE DEF e0
  <2> QED BY <1>1, <1>3, <2>1, <1>u DEF Descend, Entry
<1>5. e2 = IF i0 = 0 /\ i1 = 0 /\ i2 \in {0, 1} THEN Entry(L4At(T, i2), {"P"})
           ELSE Entry(0, {})
  <2>1. /\ "P" \in PTE_PWU
        /\ PTE_PWU \ (PTE_PWU \cap {"W", "U"}) = {"P"}
        /\ {} \ (PTE_PWU \cap {"W", "U"}) = {}
    BY DEF PTE_PWU
  <2> HIDE DEF e1
  <2> QED BY <1>1, <1>4, <2>1, <1>u DEF Descend, Entry
<1>6. e2 = IF v \div NENT \in {0, 1} THEN Entry(pt, {"P"}) ELSE Entry(0, {})
  <2>1. \A j \in {0, 1} : v \div NENT = j <=> i0 = 0 /\ i1 = 0 /\ i2 = j
    BY UpperIndices
  <2> HIDE DEF i0, i1, i2, e2
  <2>2. v \div NENT = 0 <=> i0 = 0 /\ i1 = 0 /\ i2 = 0 BY <2>1
  <2>3. v \div NENT = 1 <=> i0 = 0 /\ i1 = 0 /\ i2 = 1 BY <2>1
  <2> QED BY <1>5, <2>2, <2>3 DEF L4At
<1>7. CASE v \div NENT \in {0, 1}
  <2>1. pt \in Pages /\ pt # NULL
    BY <1>7 DEF L4At, Linked, Levels
  <2>2. e \in Entries
    BY <1>1, <2>1 DEF Contents
  <2>3. e.flags \ ({"P"} \cap {"W", "U"}) = e.flags
    BY <2>2 DEF Entries
  <2> HIDE DEF e2
  <2>4. e3 = Entry(e.pn, e.flags)
    BY <1>2, <1>6, <1>7, <2>3 DEF Descend, Entry
  <2> HIDE DEF e3
  <2>5. (IF "P" \in e3.flags THEN Mapping(e3.pn, e3.flags) ELSE Unmapped) = Flat(t, T, v)
    BY <2>1, <2>4 DEF Flat, Entry
  <2> QED BY <2>5 DEF virtual_memory_lookup, e2, e3
<1>8. CASE v \div NENT \notin {0, 1}
  <2>1. pt = NULL BY <1>8 DEF L4At
  <2> HIDE DEF e2
  <2>2. e3 = Entry(0, {}) BY <1>6, <1>8 DEF Descend, Entry
  <2> HIDE DEF e3
  <2>3. (IF "P" \in e3.flags THEN Mapping(e3.pn, e3.flags) ELSE Unmapped) = Flat(t, T, v)
    BY <2>1, <2>2 DEF Flat, Entry
  <2> QED BY <2>3 DEF virtual_memory_lookup, e2, e3
<1> QED BY <1>7, <1>8

\* The processor's walk finds the same.
LEMMA HardwareFlat ==
  ASSUME NEW t \in Contents, NEW T, Linked(t, T), NEW v \in Nat, Canonical(v)
  PROVE  HardwareWalk(t, T["L1"], v) = Flat(t, T, v)
<1> DEFINE lt(i) == LevelTable(t, T["L1"], v, i)
           e(i)  == t[lt(i)][PAGEINDEX(v, i)]
           pt == L4At(T, v \div NENT)
<1>u. \A i \in Indices :
        /\ t[T["L1"]][i].pn = IF i = 0 THEN T["L2"] ELSE 0
        /\ t[T["L1"]][i].flags = IF i = 0 THEN PTE_PWU ELSE {}
        /\ t[T["L2"]][i].pn = IF i = 0 THEN T["L3"] ELSE 0
        /\ t[T["L2"]][i].flags = IF i = 0 THEN PTE_PWU ELSE {}
        /\ t[T["L3"]][i].pn = IF i \in {0, 1} THEN L4At(T, i) ELSE 0
        /\ t[T["L3"]][i].flags = IF i \in {0, 1} THEN PTE_PWU ELSE {}
  BY UpperEntries
<1>1. \A i \in 0 .. 3 : PAGEINDEX(v, i) \in Indices
  BY IndexType
<1>2. PAGEINDEX(v, 3) = v % NENT /\ lt(3) = pt
  BY SMTT(20), WalkL4 DEF PAGEINDEX
<1>3. CASE v \div NENT \in {0, 1}
  <2>1. /\ PAGEINDEX(v, 0) = 0 /\ PAGEINDEX(v, 1) = 0
        /\ PAGEINDEX(v, 2) = v \div NENT
    BY <1>3, UpperIndices
  <2>2. lt(0) = T["L1"] /\ lt(1) = T["L2"] /\ lt(2) = T["L3"]
    BY <2>1, WalkL4
  <2>3. e(0).flags = PTE_PWU /\ e(1).flags = PTE_PWU /\ e(2).flags = PTE_PWU
    BY SMTT(20), <1>1, <1>3, <2>1, <2>2, <1>u
  <2>4. pt \in Pages /\ pt # NULL
    BY <1>3 DEF L4At, Linked, Levels
  <2>5. e(3) \in Entries
    BY SMTT(20), <1>1, <1>2, <2>4 DEF Contents
  <2>6. e(0).flags \cap e(1).flags \cap e(2).flags \cap e(3).flags = e(3).flags
    BY <2>3, <2>5 DEF Entries
  <2>7. lt(0) # NULL /\ lt(1) # NULL /\ lt(2) # NULL /\ lt(3) # NULL
    BY <1>2, <2>2, <2>4 DEF Linked, Levels
  <2>8. (\A i \in 0 .. 3 : lt(i) # NULL /\ "P" \in e(i).flags) <=> "P" \in e(3).flags
    <3>1. "P" \in PTE_PWU BY DEF PTE_PWU
    <3> HIDE DEF lt, e
    <3>2. \A i \in 0 .. 3 : i = 0 \/ i = 1 \/ i = 2 \/ i = 3 BY SMTT(20)
    <3> QED BY SMTT(20), <2>3, <2>7, <3>1, <3>2
  <2>9. e(3) = t[pt][v % NENT]
    BY <1>2
  <2> HIDE DEF lt
  <2> QED BY <2>4, <2>6, <2>8, <2>9 DEF HardwareWalk, Flat, lt
<1>4. CASE v \div NENT \notin {0, 1}
  <2>1. lt(3) = NULL /\ pt = NULL BY <1>2, <1>4 DEF L4At
  <2> QED BY SMTT(20), <2>1 DEF HardwareWalk, Flat
<1> QED BY <1>3, <1>4

-----------------------------------------------------------------------------
(* The invariant *)

\* The NULL pointer is physical page 0.
LEMMA NullPage == NULL \in Pages /\ 0 \in Pages
BY SMTT(20), PageTableAssumption DEF NULL, Pages

\* Before virtual_memory_init() nobody has a page table.
LEMMA PagingInitInv == PagingInit => PInv
<1> SUFFICES ASSUME PagingInit PROVE PInv
  OBVIOUS
<1>1. Zeroed \in [Indices -> Entries]
  BY NullPage DEF Zeroed, Entries, Entry
<1>2. tab \in Contents
  BY <1>1 DEF PagingInit, Contents
<1>3. tables \in [Owners -> [Levels -> Pages]]
  BY NullPage DEF PagingInit, NoTables
<1>4. \A o \in Owners : ~Live(o)
  BY DEF PagingInit, NoTables, Live, Levels
<1>5. call \in Calls /\ call.n = 0
  BY SMTT(20), NullPage, OwnersAssumption DEF PagingInit, NoCall, Calls
<1> QED BY <1>2, <1>3, <1>4, <1>5 DEF PInv

\* Five fresh pages: the others' tables are not touched.
LEMMA NewTablesInv ==
  ASSUME PInv, NEW o \in Owners, NEW T, NewTables(o, T)
  PROVE  /\ PInv'
         /\ \A pn \in Pages : (\A l \in Levels : pn # T[l]) => tab'[pn] = tab[pn]
         /\ tab'[T["L4_1"]] = Zeroed /\ tab'[T["L4_2"]] = Zeroed
         /\ tables'[o] = T /\ \A q \in Owners \ {o} : tables'[q] = tables[q]
<1> USE DEF NewTables
<1>1. 0 \in Indices /\ 1 \in Indices
  BY SMTT(20), PageTableAssumption DEF Indices
<1>2. /\ T \in [Levels -> Pages]
      /\ \A l, k \in Levels : T[l] # NULL /\ (T[l] = T[k] => l = k)
  OBVIOUS
<1>3. tables' \in [Owners -> [Levels -> Pages]] /\ tables'[o] = T
      /\ \A q \in Owners \ {o} : tables'[q] = tables[q]
  BY DEF PInv
<1>4. /\ T["L1"] \in Pages /\ T["L2"] \in Pages /\ T["L3"] \in Pages
      /\ T["L4_1"] \in Pages /\ T["L4_2"] \in Pages
      /\ T["L1"] # T["L2"] /\ T["L1"] # T["L3"] /\ T["L1"] # T["L4_1"]
      /\ T["L1"] # T["L4_2"] /\ T["L2"] # T["L3"] /\ T["L2"] # T["L4_1"]
      /\ T["L2"] # T["L4_2"] /\ T["L3"] # T["L4_1"] /\ T["L3"] # T["L4_2"]
  BY <1>2 DEF Levels
<1> DEFINE z1 == [Zeroed EXCEPT ![0] = Entry(T["L2"], PTE_PWU)]
           z2 == [Zeroed EXCEPT ![0] = Entry(T["L3"], PTE_PWU)]
           z3 == [Zeroed EXCEPT ![0] = Entry(T["L4_1"], PTE_PWU),
                                ![1] = Entry(T["L4_2"], PTE_PWU)]
<1>5. /\ Zeroed \in [Indices -> Entries] /\ z1 \in [Indices -> Entries]
      /\ z2 \in [Indices -> Entries] /\ z3 \in [Indices -> Entries]
  <2>1. Zeroed \in [Indices -> Entries]
    BY NullPage DEF Zeroed, Entries, Entry
  <2>2. \A pn \in Pages : Entry(pn, PTE_PWU) \in Entries
    BY DEF Entries, Entry
  <2> QED BY <1>4, <2>1, <2>2
<1> HIDE DEF z1, z2, z3
<1>6. tab' = [pn \in Pages |->
                CASE pn = T["L1"] -> z1 [] pn = T["L2"] -> z2 [] pn = T["L3"] -> z3
                  [] pn \in {T["L4_1"], T["L4_2"]} -> Zeroed
                  [] OTHER -> tab[pn]]
  BY DEF Connected, z1, z2, z3
<1> HIDE DEF NewTables
<1>7. tab' \in Contents
  BY <1>5, <1>6 DEF PInv, Contents
<1>8. /\ tab'[T["L1"]] = z1 /\ tab'[T["L2"]] = z2 /\ tab'[T["L3"]] = z3
      /\ tab'[T["L4_1"]] = Zeroed /\ tab'[T["L4_2"]] = Zeroed
  BY <1>4, <1>6
<1>9. \A pn \in Pages : (\A l \in Levels : pn # T[l]) => tab'[pn] = tab[pn]
  BY <1>6 DEF Levels
<1>10. Linked(tab', tables'[o])
  BY <1>2, <1>3, <1>8 DEF Linked, z1, z2, z3
<1>11. \A q \in Owners \ {o}, l, k \in Levels : T[l] # tables[q][k]
  BY DEF NewTables
<1>12. ASSUME NEW q \in Owners \ {o}, Live(q)' PROVE Linked(tab', tables'[q])
  <2>1. Live(q) /\ tables'[q] = tables[q]
    BY <1>3, <1>12 DEF Live
  <2>2. Linked(tab, tables[q])
    BY <2>1 DEF PInv
  <2>3. \A l \in Levels : tab'[tables[q][l]] = tab[tables[q][l]]
    BY SMTT(20), <1>9, <1>11, <2>2 DEF Linked
  <2> QED BY <2>1, <2>2, <2>3 DEF Linked, Levels
<1>13. \A p, q \in Owners : p # q /\ Live(p)' /\ Live(q)' =>
         \A l, k \in Levels : tables'[p][l] # tables'[q][k]
  BY SMTT(20), <1>3, <1>11 DEF PInv, Live
<1>14. call' = call /\ call.n = 0 /\ call \in Calls
  BY DEF NewTables, Idle, PInv
<1>15. PInv'
  BY <1>3, <1>7, <1>10, <1>12, <1>13, <1>14 DEF PInv
<1> QED BY <1>3, <1>8, <1>9, <1>15

\* virtual_memory_map() starts without a remembered L4 table.
LEMMA MapCallInv ==
  ASSUME PInv, NEW o \in Owners, NEW v, NEW pn, NEW n, NEW perm,
         MapCall(o, v, pn, n, perm)
  PROVE  PInv'
<1>1. call' = [owner |-> o, v |-> v, pn |-> pn, n |-> n, perm |-> perm,
               last |-> -1, l4 |-> NULL, ret |-> 0]
  BY DEF MapCall, NoCall
<1>2. call' \in Calls
  BY SMTT(20), <1>1, NullPage DEF MapCall, Calls
<1>3. UNCHANGED <<tab, tables>> /\ Live(o)'
  BY DEF MapCall, Live
<1>4. /\ \A w \in call'.v .. call'.v + call'.n - 1 : Canonical(w)
      /\ "P" \in call'.perm => 0 <= call'.pn /\ call'.pn + call'.n <= NPAGES
      /\ call'.last = -1 /\ call'.owner = o
  <2>1. /\ call'.owner = o /\ call'.v = v /\ call'.pn = pn /\ call'.n = n
        /\ call'.perm = perm /\ call'.last = -1
    BY <1>1
  <2>2. /\ \A w \in v .. v + n - 1 : Canonical(w)
        /\ "P" \in perm => 0 <= pn /\ pn + n <= NPAGES
    BY DEF MapCall
  <2> QED BY <2>1, <2>2
<1> QED BY SMTT(20), <1>2, <1>3, <1>4 DEF PInv, Live

\* The remembered L4 table is the right one.
LEMMA L4TableIs ==
  ASSUME PInv, call.n # 0
  PROVE  /\ call.owner \in Owners /\ Live(call.owner)
         /\ Linked(tab, tables[call.owner])
         /\ call.v \in Nat /\ Canonical(call.v)
         /\ L4Table = L4At(tables[call.owner], call.v \div NENT)
         /\ L4Table \in Pages
<1>1. /\ call.owner \in Owners /\ Live(call.owner)
      /\ call.v \in Nat /\ call.n \in Nat
  BY DEF PInv, Calls
<1>2. Linked(tab, tables[call.owner])
  BY <1>1 DEF PInv
<1>3. Canonical(call.v)
  <2>1. call.v \in call.v .. call.v + call.n - 1 BY SMTT(20), <1>1
  <2> QED BY <2>1 DEF PInv
<1>4. call.v \div NENT \in Nat
  BY <1>1, DivMod
<1>5. lookup_l4pagetable(tab, tables[call.owner]["L1"], call.v) =
        L4At(tables[call.owner], call.v \div NENT)
  BY <1>1, <1>2, <1>3, WalkL4 DEF lookup_l4pagetable
<1>6. call.v \div NENT = call.last =>
        call.l4 = L4At(tables[call.owner], call.v \div NENT)
  BY SMTT(20), <1>4 DEF PInv
<1>7. L4Table = L4At(tables[call.owner], call.v \div NENT)
  BY <1>5, <1>6 DEF L4Table
<1>8. L4Table \in Pages
  BY <1>2, <1>7, NullPage DEF L4At, Linked, Levels
<1> QED BY <1>1, <1>2, <1>3, <1>7, <1>8

\* A round writes one entry of one L4 table of the caller's.
LEMMA MapPageInv ==
  ASSUME PInv, MapPage
  PROVE  /\ PInv'
         /\ tables' = tables
         /\ \A pn \in Pages, i \in Indices :
              tab'[pn][i] =
                IF L4Table # NULL /\ pn = L4Table /\ i = call.v % NENT
                THEN Entry(IF "P" \in call.perm THEN call.pn ELSE 0, call.perm)
                ELSE tab[pn][i]
<1> DEFINE o == call.owner
           E == Entry(IF "P" \in call.perm THEN call.pn ELSE 0, call.perm)
           i0 == call.v % NENT
<1>1. call.n # 0 /\ tables' = tables
  BY DEF MapPage
<1>2. /\ o \in Owners /\ Live(o) /\ Linked(tab, tables[o])
      /\ call.v \in Nat /\ L4Table = L4At(tables[o], call.v \div NENT)
      /\ L4Table \in Pages
  BY <1>1, L4TableIs
<1>3. i0 \in Indices /\ call.v \div NENT \in Nat
  BY <1>2, DivMod
<1>4. call \in Calls /\ tab \in Contents
  BY DEF PInv
<1>5. E \in Entries
  <2>1. "P" \in call.perm => call.pn \in Pages
    <3>1. call.n \in Nat /\ call.pn \in Int BY <1>4 DEF Calls
    <3>2. "P" \in call.perm => 0 <= call.pn /\ call.pn + call.n <= NPAGES
      BY <1>1 DEF PInv
    <3> QED BY SMTT(20), <1>1, <3>1, <3>2, PageTableAssumption DEF Pages
  <2> QED BY <1>4, <2>1, NullPage DEF Entries, Entry, Calls
<1>6. tab' = IF L4Table = NULL THEN tab ELSE [tab EXCEPT ![L4Table][i0] = E]
  BY SMTT(20) DEF MapPage, L4PAGEINDEX, PAGEINDEX
<1> HIDE DEF E, i0
<1>7. tab' \in Contents
  BY <1>2, <1>3, <1>4, <1>5, <1>6 DEF Contents
<1>8. \A pn \in Pages, i \in Indices :
        tab'[pn][i] = IF L4Table # NULL /\ pn = L4Table /\ i = i0 THEN E ELSE tab[pn][i]
  BY <1>2, <1>3, <1>4, <1>6 DEF Contents
<1>9. \A pn \in Pages : pn # L4Table => tab'[pn] = tab[pn]
  BY <1>2, <1>4, <1>6 DEF Contents
<1>10. ASSUME NEW q \in Owners, Live(q)' PROVE Linked(tab', tables'[q])
  <2>1. Live(q) BY <1>1, <1>10 DEF Live
  <2>2. Linked(tab, tables[q]) BY <2>1 DEF PInv
  <2>3. CASE L4Table = NULL
    BY <1>1, <1>6, <2>2, <2>3
  <2>4. CASE L4Table # NULL
    <3>1. L4Table \in {tables[o]["L4_1"], tables[o]["L4_2"]}
      BY <1>2, <2>4 DEF L4At
    <3>2. \A l \in {"L1", "L2", "L3"} : tables[q][l] # L4Table
      <4>1. CASE q = o
        BY <3>1, <4>1, <2>2 DEF Linked, Levels
      <4>2. CASE q # o
        BY <1>2, <2>1, <3>1, <4>2 DEF PInv, Levels
      <4> QED BY <4>1, <4>2
    <3>3. \A l \in {"L1", "L2", "L3"} : tab'[tables[q][l]] = tab[tables[q][l]]
      BY <1>9, <2>2, <3>2 DEF Linked, Levels
    <3> QED BY <1>1, <2>2, <3>3 DEF Linked
  <2> QED BY <2>3, <2>4
<1>11. \/ call' = [call EXCEPT !.n = 0, !.ret = -1]
       \/ call' = [call EXCEPT !.v = @ + 1, !.pn = @ + 1, !.n = @ - 1,
                               !.last = call.v \div NENT, !.l4 = L4Table]
  BY DEF MapPage
<1>12. call' \in Calls
  <2>c. call = [owner |-> call.owner, v |-> call.v, pn |-> call.pn, n |-> call.n,
                perm |-> call.perm, last |-> call.last, l4 |-> call.l4,
                ret |-> call.ret]
    BY <1>4 DEF Calls
  <2>1. CASE call' = [call EXCEPT !.n = 0, !.ret = -1]
    <3>1. call' = [owner |-> call.owner, v |-> call.v, pn |-> call.pn, n |-> 0,
                   perm |-> call.perm, last |-> call.last, l4 |-> call.l4,
                   ret |-> -1]
      BY <2>c, <2>1
    <3> QED BY SMTT(20), <1>4, <3>1 DEF Calls
  <2>2. CASE call' = [call EXCEPT !.v = @ + 1, !.pn = @ + 1, !.n = @ - 1,
                                  !.last = call.v \div NENT, !.l4 = L4Table]
    <3>1. call' = [owner |-> call.owner, v |-> call.v + 1, pn |-> call.pn + 1,
                   n |-> call.n - 1, perm |-> call.perm,
                   last |-> call.v \div NENT, l4 |-> L4Table, ret |-> call.ret]
      BY <2>c, <2>2
    <3>2. call.n - 1 \in Nat /\ call.v \div NENT \in Int
      BY SMTT(20), <1>1, <1>3, <1>4 DEF Calls
    <3> QED BY SMTT(20), <1>2, <1>4, <3>1, <3>2 DEF Calls
  <2> QED BY <1>11, <2>1, <2>2
<1>13. ASSUME call'.n # 0
       PROVE  /\ Live(call.owner)'
              /\ call'.owner = call.owner
              /\ \A w \in call'.v .. call'.v + call'.n - 1 : Canonical(w)
              /\ "P" \in call'.perm => 0 <= call'.pn /\ call'.pn + call'.n <= NPAGES
              /\ call'.l4 = L4At(tables[call.owner], call'.last)
  <2>1. /\ call'.owner = call.owner /\ call'.perm = call.perm
        /\ call'.v = call.v + 1 /\ call'.pn = call.pn + 1 /\ call'.n = call.n - 1
        /\ call'.last = call.v \div NENT /\ call'.l4 = L4Table
    BY <1>4, <1>11, <1>13 DEF Calls
  <2>2. Live(call.owner)'
    BY <1>1, <1>2, <2>1 DEF Live
  <2>3. call.v \in Nat /\ call.n \in Nat /\ call.pn \in Int
    BY <1>4 DEF Calls
  <2>4. \A w \in call.v .. call.v + call.n - 1 : Canonical(w)
    BY <1>1 DEF PInv
  <2>5. \A w \in call'.v .. call'.v + call'.n - 1 : w \in call.v .. call.v + call.n - 1
    BY SMTT(20), <2>1, <2>3
  <2>6. "P" \in call'.perm => 0 <= call'.pn /\ call'.pn + call'.n <= NPAGES
    <3>1. "P" \in call.perm => 0 <= call.pn /\ call.pn + call.n <= NPAGES
      BY <1>1 DEF PInv
    <3> QED BY SMTT(20), <2>1, <2>3, <3>1, PageTableAssumption
  <2> QED BY <1>2, <2>1, <2>2, <2>4, <2>5, <2>6
<1>14. PInv'
  BY SMTT(20), <1>1, <1>7, <1>10, <1>12, <1>13 DEF PInv, Live
<1> QED BY <1>1, <1>8, <1>14 DEF E, i0

\* After a reboot nobody has a page table.
LEMMA ForgetInv ==
  ASSUME PInv, ForgetTables
  PROVE  PInv' /\ \A o \in Owners : ~Live(o)'
<1>1. tables' \in [Owners -> [Levels -> Pages]] /\ \A o \in Owners : ~Live(o)'
  BY NullPage DEF ForgetTables, NoTables, Live, Levels
<1>2. tab' = tab /\ call' = call /\ call.n = 0
  BY DEF ForgetTables, Idle
<1> QED BY <1>1, <1>2 DEF PInv

-----------------------------------------------------------------------------
(* What the kernel does with its page tables *)

PagingStep ==
  \/ \E o \in Owners : \E T : NewTables(o, T)
  \/ \E o \in Owners : \E v, pn, n, perm : MapCall(o, v, pn, n, perm)
  \/ MapPage \/ ForgetTables \/ UNCHANGED PagingVars

\* Every step of the page-table code keeps the tables well built.
LEMMA PagingStepInv == PInv /\ PagingStep => PInv'
<1> SUFFICES ASSUME PInv, PagingStep PROVE PInv'
  OBVIOUS
<1>1. ASSUME NEW o \in Owners, NEW T, NewTables(o, T) PROVE PInv'
  BY <1>1, NewTablesInv
<1>2. ASSUME NEW o \in Owners, NEW v, NEW pn, NEW n, NEW perm,
             MapCall(o, v, pn, n, perm)
      PROVE  PInv'
  BY <1>2, MapCallInv
<1>3. CASE UNCHANGED PagingVars
  BY SMTT(20), <1>3 DEF PagingVars, PInv, Live
<1> QED BY <1>1, <1>2, <1>3, MapPageInv, ForgetInv DEF PagingStep

\* The invariant holds when the machine is switched on.
LEMMA LoaderInit == Init => LInv
BY SMTT(20), PagingInitInv DEF Init, LInv, SetupInv

\* Every step of the boot loader, kernel() and process_setup() does one thing
\* to page tables, or nothing.
LEMMA LoaderStep ==
  LInv /\ [Next]_vars => PagingStep /\ SetupInv'
<1> SUFFICES ASSUME LInv, [Next]_vars PROVE PagingStep /\ SetupInv'
  OBVIOUS
<1> USE LoaderAssumption DEF LInv
<1>0. \A o \in 1 .. NLOAD : o \in Owners
  OBVIOUS
<1>1. ASSUME UNCHANGED <<PagingVars, pc, pid>> PROVE PagingStep /\ SetupInv'
  BY <1>1 DEF PagingStep, SetupInv
<1>2. CASE UNCHANGED vars
  BY <1>1, <1>2 DEF vars, loadVars
<1>3. CASE BootStep
  BY <1>1, <1>3 DEF BootStep, loadVars
<1>4. CASE Hang
  BY <1>1, <1>4 DEF Hang, vars, loadVars
<1>5. CASE MapStep
  BY <1>5 DEF MapStep, loadVars, PagingStep, SetupInv
<1>6. CASE Reboot
  BY <1>6 DEF Reboot, PagingStep, SetupInv
<1>7. CASE KernelInit
  BY <1>7, OwnersAssumption DEF KernelInit, PagingStep, SetupInv
<1>8. CASE MapIdentity
  BY <1>8, OwnersAssumption DEF MapIdentity, PagingStep, SetupInv
<1>9. CASE Protect
  BY <1>9, OwnersAssumption DEF Protect, PagingStep, SetupInv
<1>10. CASE OpenConsole
  BY SMTT(20), <1>10, OwnersAssumption DEF OpenConsole, PagingStep, SetupInv
<1>11. ASSUME NEW p \in Programs, Setup(p) PROVE PagingStep /\ SetupInv'
  <2>1. pid \in 1 .. NLOAD BY SMTT(20), <1>11 DEF Setup, SetupInv
  <2>2. PagingStep BY <1>0, <1>11, <2>1 DEF Setup, PagingStep
  <2> QED BY <1>11, <2>1, <2>2 DEF Setup, SetupInv
<1>12. ASSUME NEW next, Goto(next), UNCHANGED <<PagingVars, pid>>, pid \in 1 .. NLOAD
       PROVE  PagingStep /\ SetupInv'
  BY <1>12 DEF Goto, PagingStep, SetupInv
<1>13. CASE StartLoading
  BY <1>12, <1>13 DEF StartLoading, SetupInv
<1>14. CASE SkipSegment
  BY <1>12, <1>14 DEF SkipSegment, SetupInv
<1>15. CASE SegmentDone
  BY <1>12, <1>15 DEF SegmentDone, SetupInv
<1>16. CASE DuplicatePage
  BY <1>0, <1>16 DEF DuplicatePage, PagingStep, SetupInv
<1>17. CASE AllocatePage
  BY <1>0, <1>17 DEF AllocatePage, PagingStep, SetupInv
<1>18. CASE ReadOnlyPage
  BY <1>0, <1>18 DEF ReadOnlyPage, PagingStep, SetupInv
<1>19. CASE LoadFails
  BY <1>19 DEF LoadFails, PagingStep, SetupInv
<1>20. CASE CopySegment
  BY <1>20 DEF CopySegment, PagingStep, SetupInv
<1>21. CASE GiveStack
  BY SMTT(20), <1>0, <1>21 DEF GiveStack, PagingStep, PagingVars, SetupInv
<1>22. CASE RunFirst
  BY <1>22 DEF RunFirst, PagingStep, SetupInv
<1>23. ASSUME NEW o \in 1 .. NLOAD, NEW v, UserAlloc(o, v)
       PROVE  PagingStep /\ SetupInv'
  BY <1>0, <1>23 DEF UserAlloc, PagingStep, SetupInv
<1> QED
  BY <1>2, <1>3, <1>4, <1>5, <1>6, <1>7, <1>8, <1>9, <1>10, <1>11, <1>13, <1>14,
     <1>15, <1>16, <1>17, <1>18, <1>19, <1>20, <1>21, <1>22, <1>23
  DEF Next, KernelStep

\* From power-on through every load, allocation and reboot, the tables that
\* virtual_memory_init() and duplicate_pagetable() built stay linked and are
\* shared by nobody, and virtual_memory_map() remembers the right L4 table.
THEOREM PageTablesBuilt == Spec => []LInv
<1>1. Init => LInv
  BY LoaderInit
<1>2. LInv /\ [Next]_vars => LInv'
  BY LoaderStep, PagingStepInv DEF LInv
<1> QED BY <1>1, <1>2, PTL DEF Spec

\* Whatever has been loaded, allocated and rebooted, the kernel's own lookup
\* agrees with the processor on every page of every address space.
THEOREM LookupAgrees == Spec => []LookupIsHardware
<1>1. LInv => LookupIsHardware
  <2> SUFFICES ASSUME LInv, NEW o \in Owners, Live(o), NEW v \in VPages
               PROVE  LookupOf(o, v) = HardwareWalk(tab, tables[o]["L1"], v)
    BY DEF LookupIsHardware
  <2>1. v \in Nat /\ Canonical(v)
    BY SMTT(20) DEF VPages
  <2>2. tab \in Contents /\ Linked(tab, tables[o])
    BY DEF LInv, PInv
  <2> QED BY SMTT(20), <2>1, <2>2, LookupFlat, HardwareFlat DEF LookupOf
<1> QED BY <1>1, PageTablesBuilt, PTL

-----------------------------------------------------------------------------
(* Refinement *)

\* what the L4 tables alone say of every owner's pages
FlatSpace(t, T) ==
  [o \in Owners |->
     [v \in VPages |-> IF T[o]["L1"] # NULL THEN Flat(t, T[o], v) ELSE Unmapped]]

\* The pages that are looked at are canonical.
LEMMA VPage == \A v \in VPages : v \in Nat /\ Canonical(v)
BY SMTT(20) DEF VPages

\* virtual_memory_lookup() shows what the L4 tables alone say, of all owners.
LEMMA MappingsFlat ==
  ASSUME NEW t \in Contents, NEW T,
         \A o \in Owners : T[o]["L1"] # NULL => Linked(t, T[o])
  PROVE  [o \in Owners |->
            [v \in VPages |-> IF T[o]["L1"] # NULL
                              THEN virtual_memory_lookup(t, T[o]["L1"], v)
                              ELSE Unmapped]] = FlatSpace(t, T)
<1>1. \A o \in Owners, v \in VPages : T[o]["L1"] # NULL =>
        virtual_memory_lookup(t, T[o]["L1"], v) = Flat(t, T[o], v)
  BY VPage, LookupFlat
<1> QED BY <1>1 DEF FlatSpace

\* The address spaces that lookup shows in this state ...
LEMMA MappingsNow ==
  ASSUME PInv
  PROVE  Mappings = FlatSpace(tab, tables)
BY MappingsFlat DEF PInv, Mappings, LookupOf, Live

\* ... and in the next one.
LEMMA MappingsNext ==
  ASSUME PInv'
  PROVE  Mappings' = FlatSpace(tab', tables')
BY MappingsFlat DEF PInv, Mappings, LookupOf, Live

\* No page of fresh tables is mapped, and other owners keep their mappings.
LEMMA NewTablesCreates ==
  ASSUME PInv, NEW o \in Owners, NEW T, NewTables(o, T)
  PROVE  Spaces!Create(o)
<1>1. /\ PInv'
      /\ \A pn \in Pages : (\A l \in Levels : pn # T[l]) => tab'[pn] = tab[pn]
      /\ tab'[T["L4_1"]] = Zeroed /\ tab'[T["L4_2"]] = Zeroed
      /\ tables'[o] = T /\ \A q \in Owners \ {o} : tables'[q] = tables[q]
  BY NewTablesInv
<1>2. Mappings = FlatSpace(tab, tables) /\ Mappings' = FlatSpace(tab', tables')
  BY <1>1, MappingsNow, MappingsNext
<1>3. T["L1"] # NULL /\ \A q \in Owners \ {o}, l, k \in Levels : T[l] # tables[q][k]
  BY DEF NewTables, Levels
<1>4. {q \in Owners : Live(q)'} = {q \in Owners : Live(q)} \cup {o}
  BY SMTT(20), <1>1, <1>3 DEF Live
<1>5. \A v \in VPages : Flat(tab', T, v) = Unmapped
  <2> SUFFICES ASSUME NEW v \in VPages PROVE Flat(tab', T, v) = Unmapped
    OBVIOUS
  <2>1. v % NENT \in Indices BY VPage, DivMod
  <2>2. Zeroed[v % NENT].flags = {} BY <2>1 DEF Zeroed, Entry
  <2>3. L4At(T, v \div NENT) # NULL => tab'[L4At(T, v \div NENT)] = Zeroed
    BY <1>1 DEF L4At
  <2> QED BY <2>2, <2>3 DEF Flat
<1>6. \A q \in Owners \ {o} : Live(q) =>
        \A v \in VPages : Flat(tab', tables'[q], v) = Flat(tab, tables[q], v)
  <2> SUFFICES ASSUME NEW q \in Owners \ {o}, Live(q), NEW v \in VPages
               PROVE  Flat(tab', tables[q], v) = Flat(tab, tables[q], v)
    BY <1>1
  <2>1. Linked(tab, tables[q])
    BY DEF PInv
  <2>2. L4At(tables[q], v \div NENT) # NULL =>
          tab'[L4At(tables[q], v \div NENT)] = tab[L4At(tables[q], v \div NENT)]
    BY SMTT(20), <1>1, <1>3, <2>1 DEF L4At, Linked, Levels
  <2> QED BY <2>2 DEF Flat
<1>7. Mappings' = [Mappings EXCEPT ![o] = Spaces!NoSpace]
  <2>1. FlatSpace(tab', tables')[o] = [v \in VPages |-> Unmapped]
    BY <1>1, <1>3, <1>5 DEF FlatSpace
  <2>2. \A q \in Owners \ {o} : FlatSpace(tab', tables')[q] = FlatSpace(tab, tables)[q]
    BY <1>1, <1>6 DEF FlatSpace, Live
  <2>3. Spaces!NoSpace = [v \in VPages |-> Unmapped]
    BY DEF Spaces!NoSpace, Spaces!Unmapped, Unmapped, Mapping
  <2> QED BY <1>2, <2>1, <2>2, <2>3 DEF FlatSpace
<1>8. Request.n = 0 /\ Request' = Request
  BY DEF NewTables, Idle, Request
<1> QED BY <1>4, <1>7, <1>8 DEF Spaces!Create

\* Calling virtual_memory_map() changes no mapping yet.
LEMMA MapCallBegins ==
  ASSUME PInv, NEW o \in Owners, NEW v, NEW pn, NEW n, NEW perm,
         MapCall(o, v, pn, n, perm)
  PROVE  Spaces!Begin
<1>1. Request.n = 0 BY DEF MapCall, Idle, Request
<1>2. Request'.owner = o /\ Live(o) BY DEF MapCall, NoCall, Request
<1>3. tab' = tab /\ tables' = tables BY DEF MapCall
<1>4. Mappings' = Mappings /\ {q \in Owners : Live(q)'} = {q \in Owners : Live(q)}
  BY <1>3 DEF Mappings, Live, LookupOf
<1> QED BY <1>1, <1>2, <1>4 DEF Spaces!Begin

\* Two pages of one owner, or of two, never share an entry.
LEMMA EntryOfOne ==
  ASSUME PInv, NEW o \in Owners, NEW q \in Owners, Live(o), Live(q),
         NEW v \in Nat, NEW w \in Nat,
         L4At(tables[o], v \div NENT) # NULL,
         L4At(tables[q], w \div NENT) = L4At(tables[o], v \div NENT),
         w % NENT = v % NENT
  PROVE  q = o /\ w = v
<1>1. Linked(tab, tables[o]) /\ Linked(tab, tables[q])
  BY DEF PInv
<1>2. q = o
  BY DEF PInv, L4At, Levels
<1>3. w \div NENT = v \div NENT
  BY <1>1, <1>2 DEF L4At, Linked, Levels
<1>4. /\ v = NENT * (v \div NENT) + (v % NENT)
      /\ w = NENT * (w \div NENT) + (w % NENT)
  BY DivMod
<1> QED BY <1>2, <1>3, <1>4

\* A round maps the one page asked for.
LEMMA MapPageMaps ==
  ASSUME PInv, MapPage
  PROVE  Spaces!Map
<1> DEFINE o == call.owner
           pt == L4At(tables[o], call.v \div NENT)
           E == Entry(IF "P" \in call.perm THEN call.pn ELSE 0, call.perm)
           M == IF "P" \in call.perm THEN Mapping(call.pn, call.perm) ELSE Unmapped
<1>1. /\ PInv'
      /\ tables' = tables
      /\ \A pn \in Pages, i \in Indices :
           tab'[pn][i] = IF L4Table # NULL /\ pn = L4Table /\ i = call.v % NENT
                         THEN E ELSE tab[pn][i]
  BY MapPageInv
<1>2. call.n # 0
  BY DEF MapPage
<1>3. /\ o \in Owners /\ Live(o) /\ Linked(tab, tables[o])
      /\ call.v \in Nat /\ Canonical(call.v) /\ L4Table = pt /\ pt \in Pages
  BY <1>2, L4TableIs
<1>4. Mappings = FlatSpace(tab, tables) /\ Mappings' = FlatSpace(tab', tables')
  BY <1>1, MappingsNow, MappingsNext
<1>5. pt # NULL <=> call.v < 2 * NENT
  BY <1>3, DivTwo DEF L4At, Linked, Levels
<1>6. call.v % NENT \in Indices
  BY <1>3, DivMod
<1>7. ASSUME NEW q \in Owners, Live(q), NEW w \in VPages
      PROVE  Flat(tab', tables[q], w) =
               IF pt # NULL /\ q = o /\ w = call.v THEN M ELSE Flat(tab, tables[q], w)
  <2> DEFINE pq == L4At(tables[q], w \div NENT)
  <2>1. w \in Nat /\ w % NENT \in Indices
    BY VPage, DivMod
  <2>2. Linked(tab, tables[q])
    BY <1>7 DEF PInv
  <2>3. CASE pt # NULL /\ q = o /\ w = call.v
    <3>1. pq = pt /\ pq \in Pages BY <1>3, <2>3
    <3>2. tab'[pq][w % NENT] = E BY <1>1, <1>3, <1>6, <2>3, <3>1
    <3>3. E.flags = call.perm /\ ("P" \in call.perm => E.pn = call.pn)
      BY DEF Entry
    <3> HIDE DEF E
    <3> QED BY <2>3, <3>1, <3>2, <3>3 DEF Flat
  <2>4. CASE ~(pt # NULL /\ q = o /\ w = call.v) /\ pq # NULL
    <3>1. pq \in Pages BY <2>2, <2>4 DEF L4At, Linked, Levels
    <3>2. ~(pt # NULL /\ pq = pt /\ w % NENT = call.v % NENT)
      BY SMTT(20), <1>3, <1>7, <2>1, <2>4, EntryOfOne
    <3>3. tab'[pq][w % NENT] = tab[pq][w % NENT]
      BY <1>1, <1>3, <2>1, <3>1, <3>2
    <3> QED BY <2>4, <3>3 DEF Flat
  <2>5. CASE ~(pt # NULL /\ q = o /\ w = call.v) /\ pq = NULL
    BY <2>5 DEF Flat
  <2> QED BY <2>3, <2>4, <2>5
<1>8. IF call.v < 2 * NENT
      THEN Mappings' = [Mappings EXCEPT ![o][call.v] = M]
      ELSE Mappings' = Mappings
  <2> DEFINE S == FlatSpace(tab, tables)
             N == FlatSpace(tab', tables')
  <2>1. \A q \in Owners, w \in VPages :
          N[q][w] = IF pt # NULL /\ q = o /\ w = call.v THEN M ELSE S[q][w]
    <3> SUFFICES ASSUME NEW q \in Owners, NEW w \in VPages
                 PROVE  N[q][w] = IF pt # NULL /\ q = o /\ w = call.v THEN M
                                  ELSE S[q][w]
      OBVIOUS
    <3> HIDE DEF M, pt, o
    <3>1. N[q][w] = IF tables[q]["L1"] # NULL THEN Flat(tab', tables[q], w) ELSE Unmapped
      BY <1>1 DEF FlatSpace
    <3>2. S[q][w] = IF tables[q]["L1"] # NULL THEN Flat(tab, tables[q], w) ELSE Unmapped
      BY DEF FlatSpace
    <3> QED BY <1>3, <1>7, <3>1, <3>2 DEF Live
  <2>2. /\ S = [q \in Owners |-> [w \in VPages |-> S[q][w]]]
        /\ N = [q \in Owners |-> [w \in VPages |-> N[q][w]]]
    BY DEF FlatSpace
  <2> HIDE DEF S, N, M, pt, o
  <2>3. CASE call.v < 2 * NENT
    <3>1. N = [S EXCEPT ![o][call.v] = M]
      <4>1. N = [q \in Owners |-> N[q]] /\ S = [q \in Owners |-> S[q]]
        BY <2>2
      <4>2. \A q \in Owners : /\ N[q] = [w \in VPages |-> N[q][w]]
                              /\ S[q] = [w \in VPages |-> S[q][w]]
        BY <2>2
      <4>3. N[o] = [S[o] EXCEPT ![call.v] = M]
        <5>1. N[o] = [w \in VPages |-> N[o][w]] /\ S[o] = [w \in VPages |-> S[o][w]]
          BY <1>3, <4>2
        <5>2. \A w \in VPages : N[o][w] = IF w = call.v THEN M ELSE S[o][w]
          BY <1>3, <1>5, <2>1, <2>3
        <5> QED BY <5>1, <5>2
      <4>4. \A q \in Owners \ {o} : N[q] = S[q]
        BY <2>1, <4>2
      <4> QED BY <1>3, <4>1, <4>3, <4>4
    <3> QED BY <1>4, <2>3, <3>1 DEF S, N
  <2>4. CASE ~(call.v < 2 * NENT)
    <3>1. N = S
      BY <1>5, <2>1, <2>2, <2>4
    <3> QED BY <1>4, <2>4, <3>1 DEF S, N
  <2> QED BY <2>3, <2>4
<1>9. Request' = IF call.v >= 2 * NENT /\ "P" \in call.perm
                 THEN [Request EXCEPT !.n = 0, !.ret = -1]
                 ELSE [Request EXCEPT !.v = @ + 1, !.pn = @ + 1, !.n = @ - 1]
  <2>1. call \in Calls /\ 2 * NENT \in Nat
    BY SMTT(20), PageTableAssumption DEF PInv
  <2>2. L4Table = NULL <=> call.v >= 2 * NENT
    BY SMTT(20), <1>3, <1>5, <2>1
  <2>3. CASE L4Table = NULL /\ "P" \in call.perm
    <3>1. call' = [call EXCEPT !.n = 0, !.ret = -1]
      BY <2>3 DEF MapPage
    <3> QED BY <2>1, <2>2, <2>3, <3>1 DEF Request, Calls
  <2>4. CASE ~(L4Table = NULL /\ "P" \in call.perm)
    <3>1. call' = [call EXCEPT !.v = @ + 1, !.pn = @ + 1, !.n = @ - 1,
                               !.last = call.v \div NENT, !.l4 = L4Table]
      BY <2>4 DEF MapPage
    <3> QED BY <2>1, <2>2, <2>4, <3>1 DEF Request, Calls
  <2> QED BY <2>3, <2>4
<1>10. {q \in Owners : Live(q)'} = {q \in Owners : Live(q)}
  BY <1>1 DEF Live
<1>11. /\ Request.n = call.n /\ Request.v = call.v /\ Request.owner = call.owner
       /\ Request.pn = call.pn /\ Request.perm = call.perm
  BY DEF Request
<1>12. M = IF "P" \in call.perm THEN [pn |-> call.pn, perm |-> call.perm]
           ELSE Spaces!Unmapped
  BY DEF Mapping, Unmapped, Spaces!Unmapped
<1> HIDE DEF M
<1> QED BY <1>2, <1>8, <1>9, <1>10, <1>11, <1>12 DEF Spaces!Map

\* A reboot ends every address space.
LEMMA ForgetForgets ==
  ASSUME PInv, ForgetTables
  PROVE  Spaces!Forget
<1>1. \A o \in Owners : ~Live(o)' BY ForgetInv
<1>2. Request.n = 0 /\ Request' = Request BY DEF ForgetTables, Idle, Request
<1>3. Mappings' = [o \in Owners |-> Spaces!NoSpace]
  BY <1>1 DEF Mappings, Spaces!NoSpace, Spaces!Unmapped, Unmapped, Mapping
<1> QED BY <1>1, <1>2, <1>3 DEF Spaces!Forget

\* At power-on there are no address spaces.
LEMMA InitImplements == Init => Spaces!Init
<1> SUFFICES ASSUME Init PROVE Spaces!Init
  OBVIOUS
<1>1. \A o \in Owners : ~Live(o)
  BY DEF Init, PagingInit, NoTables, Live, Levels
<1>2. Request.n = 0 BY DEF Init, PagingInit, NoCall, Request
<1>3. Mappings = [o \in Owners |-> Spaces!NoSpace]
  BY <1>1 DEF Mappings, Spaces!NoSpace, Spaces!Unmapped, Unmapped, Mapping
<1> QED BY <1>1, <1>2, <1>3 DEF Spaces!Init

\* Each step of the page-table code is a step of AddressSpace or a stutter.
LEMMA StepImplements == PInv /\ PagingStep => [Spaces!Next]_(Spaces!vars)
<1> SUFFICES ASSUME PInv, PagingStep PROVE Spaces!Next \/ UNCHANGED Spaces!vars
  OBVIOUS
<1>1. ASSUME NEW o \in Owners, NEW T, NewTables(o, T) PROVE Spaces!Next
  BY <1>1, NewTablesCreates DEF Spaces!Next
<1>2. ASSUME NEW o \in Owners, NEW v, NEW pn, NEW n, NEW perm,
             MapCall(o, v, pn, n, perm)
      PROVE  Spaces!Next
  BY <1>2, MapCallBegins DEF Spaces!Next
<1>3. CASE UNCHANGED PagingVars
  <2>1. Mappings' = Mappings /\ Request' = Request
        /\ {q \in Owners : Live(q)'} = {q \in Owners : Live(q)}
    BY <1>3 DEF PagingVars, Mappings, Request, Live, LookupOf
  <2> QED BY <2>1 DEF Spaces!vars
<1>4. CASE MapPage BY <1>4, MapPageMaps DEF Spaces!Next
<1>5. CASE ForgetTables BY <1>5, ForgetForgets DEF Spaces!Next
<1> QED BY <1>1, <1>2, <1>3, <1>4, <1>5 DEF PagingStep

\* Four-level tables built by virtual_memory_init() and duplicate_pagetable()
\* and filled by virtual_memory_map() are address spaces: each page of a call
\* is mapped as asked, and no other page of any owner changes.
THEOREM TablesAreSpaces == Spec => ImplementsAddressSpace
<1>1. Init => Spaces!Init
  BY InitImplements
<1>2. LInv /\ [Next]_vars => [Spaces!Next]_(Spaces!vars)
  BY LoaderStep, StepImplements DEF LInv
<1> QED BY <1>1, <1>2, PageTablesBuilt, PTL DEF Spec, ImplementsAddressSpace, Spaces!Spec

-----------------------------------------------------------------------------
(* The boot loader *)

\* Rounding down to a sector.
LEMMA RoundedDown ==
  ASSUME NEW a \in Nat
  PROVE  /\ RoundDown(a, SECTORSIZE) \in Int /\ a % SECTORSIZE \in Int
         /\ RoundDown(a, SECTORSIZE) <= a
         /\ (a \div SECTORSIZE) * SECTORSIZE = RoundDown(a, SECTORSIZE)
         /\ a \div SECTORSIZE \in Int
<1>1. SECTORSIZE \in Nat /\ SECTORSIZE >= 1
  BY SMTT(20), BootAssumption
<1>2. /\ a = SECTORSIZE * (a \div SECTORSIZE) + (a % SECTORSIZE)
      /\ a % SECTORSIZE \in 0 .. SECTORSIZE - 1 /\ a \div SECTORSIZE \in Nat
  BY SMTT(20), <1>1
<1>3. PICK q \in Nat, r \in 0 .. SECTORSIZE - 1 :
        q = a \div SECTORSIZE /\ r = a % SECTORSIZE /\ a = SECTORSIZE * q + r
  BY <1>2
<1>4. q * SECTORSIZE = SECTORSIZE * q /\ SECTORSIZE * q \in Int
  BY SMTT(20), <1>1
<1>5. QED
  BY SMTT(20), <1>1, <1>3, <1>4 DEF RoundDown

\* What the linker guarantees of the kernel's segments.
LEMMA Headers ==
  ASSUME ph \in KernelImages, NEW i \in 1 .. Len(ph)
  PROVE  /\ DOMAIN ph = 1 .. Len(ph) /\ Len(ph) \in Nat
         /\ ph[i].va \in Nat /\ ph[i].offset \in Nat /\ ph[i].filesz \in Nat
         /\ ph[i].memsz \in Nat /\ ph[i].filesz <= ph[i].memsz
         /\ ph[i].va + ph[i].memsz <= MEMSIZE
         /\ ph[i].offset % SECTORSIZE = ph[i].va % SECTORSIZE
         /\ \A j \in 1 .. i - 1 :
              \/ ph[i].memsz = 0 /\ RoundDown(ph[i].va, SECTORSIZE) = ph[i].va
              \/ ph[j].va + ph[j].memsz <= RoundDown(ph[i].va, SECTORSIZE)
<1> DEFINE Header == [va : Nat, offset : Nat, filesz : Nat, memsz : Nat]
<1>1. ph \in Seq(Header)
  BY BootAssumption
<1> HIDE DEF Header
<1>2. DOMAIN ph = 1 .. Len(ph) /\ Len(ph) \in Nat /\ ph[i] \in Header
  BY SMTT(20), <1>1
<1>3. i \in DOMAIN ph
  BY <1>2
<1>4. /\ ph[i].filesz <= ph[i].memsz
      /\ ph[i].va + ph[i].memsz <= MEMSIZE
      /\ ph[i].offset % SECTORSIZE = ph[i].va % SECTORSIZE
      /\ \A j \in 1 .. i - 1 :
           \/ ph[i].memsz = 0 /\ ph[i].va % SECTORSIZE = 0
           \/ ph[j].va + ph[j].memsz <= RoundDown(ph[i].va, SECTORSIZE)
  BY <1>3, BootAssumption
<1>5. /\ ph[i].va \in Nat /\ ph[i].offset \in Nat /\ ph[i].filesz \in Nat
      /\ ph[i].memsz \in Nat
  BY <1>2 DEF Header
<1>6. ph[i].va % SECTORSIZE = 0 => RoundDown(ph[i].va, SECTORSIZE) = ph[i].va
  BY SMTT(20), <1>5 DEF RoundDown
<1>7. QED
  BY <1>2, <1>4, <1>5, <1>6

\* boot_readseg() is entered at the sector that holds the segment's first byte.
LEMMA ReadSegStarts ==
  ASSUME ph \in KernelImages, NEW i \in 1 .. Len(ph),
         boot' = ReadSeg(i, ph[i].va, ph[i].offset \div SECTORSIZE + 1, ph[i].filesz, ph[i].memsz),
         UNCHANGED ph
  PROVE  /\ boot' \in [pc : {"wait", "data", "jump", "hang"}, seg : 0 .. Len(ph),
                       ptr : Int, sect : Int, end : Int, mem_end : Int]
         /\ boot'.pc = "wait" /\ boot'.seg = i /\ SegmentRead(i)'
<1> DEFINE s == ph[i]
<1>1. /\ s.va \in Nat /\ s.offset \in Nat /\ s.filesz \in Nat /\ s.memsz \in Nat
      /\ s.offset % SECTORSIZE = s.va % SECTORSIZE /\ Len(ph) \in Nat
  BY Headers
<1> HIDE DEF s
<1>2. /\ boot'.pc = "wait" /\ boot'.seg = i /\ boot'.ptr = RoundDown(s.va, SECTORSIZE)
      /\ boot'.sect = s.offset \div SECTORSIZE + 1
      /\ boot'.end = s.va + s.filesz /\ boot'.mem_end = s.va + s.memsz
  BY DEF ReadSeg, s
<1>3. /\ RoundDown(s.va, SECTORSIZE) \in Int /\ s.offset \div SECTORSIZE \in Int
      /\ RoundDown(s.va, SECTORSIZE) <= s.va
      /\ (s.offset \div SECTORSIZE) * SECTORSIZE = RoundDown(s.offset, SECTORSIZE)
  BY <1>1, RoundedDown
<1>4. boot' \in [pc : {"wait", "data", "jump", "hang"}, seg : 0 .. Len(ph),
                 ptr : Int, sect : Int, end : Int, mem_end : Int]
  BY SMTT(20), <1>1, <1>3 DEF ReadSeg, s
<1>5. RoundDown(s.offset, SECTORSIZE) = s.offset + (RoundDown(s.va, SECTORSIZE) - s.va)
  <2>1. PICK r \in Int : r = s.va % SECTORSIZE /\ r = s.offset % SECTORSIZE
    BY <1>1, RoundedDown
  <2>2. QED
    BY SMTT(20), <1>1, <2>1 DEF RoundDown
<1>6. boot'.sect * SECTORSIZE = SECTORSIZE + s.offset + (boot'.ptr - s.va)
  <2>1. PICK q \in Int : q = s.offset \div SECTORSIZE
    BY <1>3
  <2>2. SECTORSIZE \in Int
    BY SMTT(20), BootAssumption
  <2>3. (q + 1) * SECTORSIZE = q * SECTORSIZE + SECTORSIZE /\ q * SECTORSIZE \in Int
    BY SMTT(20), <2>2
  <2>4. boot'.sect * SECTORSIZE = RoundDown(s.offset, SECTORSIZE) + SECTORSIZE
    BY <1>2, <1>3, <2>1, <2>3
  <2>5. PICK d \in Int : d = RoundDown(s.va, SECTORSIZE)
    BY <1>3
  <2>6. boot'.ptr = d /\ RoundDown(s.offset, SECTORSIZE) = s.offset + (d - s.va)
    BY <1>2, <1>5, <2>5
  <2>7. s.offset + (d - s.va) + SECTORSIZE = SECTORSIZE + s.offset + (d - s.va)
    BY SMTT(20), <1>1, <2>2
  <2>8. QED
    BY <2>4, <2>6, <2>7
<1>7. \A k \in 0 .. s.filesz - 1 : ~(s.va + k < boot'.ptr)
  BY SMTT(20), <1>1, <1>2, <1>3
<1>8. SegmentRead(i)'
  <2>1. ph'[i] = s /\ boot'.ptr >= RoundDown(s.va, SECTORSIZE)
    BY SMTT(20), <1>2, <1>3 DEF s
  <2>2. QED
    BY <1>2, <1>6, <1>7, <2>1 DEF SegmentRead
<1>9. QED
  BY <1>2, <1>4, <1>8

\* Switched on, the loader starts to read the ELF header.
LEMMA BInvInit == BootInit => BInv
<1> SUFFICES ASSUME BootInit PROVE BInv
  OBVIOUS
<1>1. Len(ph) \in Nat
  <2>1. ph \in Seq([va : Nat, offset : Nat, filesz : Nat, memsz : Nat])
    BY BootAssumption DEF BootInit
  <2>2. QED
    BY SMTT(20), <2>1
<1>2. RoundDown(ELFHDR, SECTORSIZE) \in Int
  BY RoundedDown, BootAssumption
<1>3. /\ boot.pc = "wait" /\ boot.seg = 0
      /\ boot \in [pc : {"wait", "data", "jump", "hang"}, seg : 0 .. Len(ph),
                   ptr : Int, sect : Int, end : Int, mem_end : Int]
  BY SMTT(20), <1>1, <1>2, BootAssumption DEF BootInit, ReadSeg
<1>4. QED
  BY SMTT(20), <1>3 DEF BootInit, BInv, KernelLoaded

\* A segment stays loaded while nothing is written over it.
LEMMA SegmentKept ==
  ASSUME ph \in KernelImages, NEW j \in 1 .. Len(ph), SegmentLoaded(j), UNCHANGED ph,
         \A a \in ph[j].va .. ph[j].va + ph[j].memsz - 1 : mem'[a] = mem[a]
  PROVE  SegmentLoaded(j)'
<1>1. PICK at \in Nat, fsz \in Nat, msz \in Nat :
        at = ph[j].va /\ fsz = ph[j].filesz /\ msz = ph[j].memsz /\ fsz <= msz
  BY Headers
<1>2. \A k \in 0 .. fsz - 1 : at + k \in at .. at + msz - 1
  BY SMTT(20), <1>1
<1>3. \A k \in fsz .. msz - 1 : at + k \in at .. at + msz - 1
  BY SMTT(20), <1>1
<1>4. \A k \in 0 .. fsz - 1 : mem'[at + k] = mem[at + k]
  BY <1>1, <1>2
<1>5. \A k \in fsz .. msz - 1 : mem'[at + k] = mem[at + k]
  BY <1>1, <1>3
<1>6. QED
  BY <1>1, <1>4, <1>5 DEF SegmentLoaded

\* A sector comes into memory: it is the segment's, and lies above the earlier
\* ones.
LEMMA TransferReads ==
  ASSUME BInv, boot.pc = "data", Transfer, NEW i \in 1 .. Len(ph), i = boot.seg
  PROVE  /\ SegmentRead(i)'
         /\ \A j \in 1 .. i - 1 : SegmentLoaded(j)'
<1>1. PICK at \in Nat, off \in Nat, fsz \in Nat, msz \in Nat, low \in Int :
        /\ at = ph[i].va /\ off = ph[i].offset /\ fsz = ph[i].filesz /\ msz = ph[i].memsz
        /\ low = RoundDown(ph[i].va, SECTORSIZE)
        /\ fsz <= msz /\ at + msz <= MEMSIZE
  BY Headers, RoundedDown DEF BInv
<1>2. PICK ptr \in Int, sect \in Int :
        /\ ptr = boot.ptr /\ sect = boot.sect /\ disk.sect = sect
        /\ boot.end = at + fsz /\ ptr < at + fsz /\ ptr >= low
        /\ sect * SECTORSIZE = SECTORSIZE + off + (ptr - at)
        /\ boot.mem_end = at + msz
  <2>1. /\ boot.ptr \in Int /\ boot.sect \in Int /\ SegmentRead(i)
        /\ boot.ptr < boot.end /\ disk.sect = boot.sect
    BY SMTT(20) DEF BInv
  <2>2. /\ boot.end = at + fsz /\ boot.mem_end = at + msz /\ boot.ptr >= low
        /\ boot.sect * SECTORSIZE = SECTORSIZE + off + (boot.ptr - at)
    BY <1>1, <2>1 DEF SegmentRead
  <2>3. boot.ptr < at + fsz
    BY <2>1, <2>2
  <2>4. QED
    BY <2>1, <2>2, <2>3
<1>3. SECTORSIZE \in Nat /\ SECTORSIZE >= 1 /\ MEMSIZE \in Nat
  BY SMTT(20), BootAssumption
<1>4. mem' = [a \in 0 .. MEMSIZE - 1 |->
                IF a \in ptr .. ptr + SECTORSIZE - 1
                THEN (SECTORSIZE + off + (ptr - at)) + (a - ptr) ELSE mem[a]]
  BY <1>2 DEF Transfer, BInv
<1>5. /\ boot'.ptr = ptr + SECTORSIZE /\ boot'.sect = sect + 1
      /\ boot'.end = at + fsz /\ boot'.mem_end = at + msz /\ UNCHANGED ph
  BY <1>2 DEF Transfer, BInv
<1>6. ASSUME NEW j \in 1 .. i - 1 PROVE SegmentLoaded(j)'
  <2>1. j \in 1 .. Len(ph) /\ SegmentLoaded(j) /\ ph \in KernelImages
    BY SMTT(20) DEF BInv
  <2>2. PICK aj \in Nat, mj \in Nat : aj = ph[j].va /\ mj = ph[j].memsz /\ aj + mj <= MEMSIZE
    BY <2>1, Headers
  <2>3. (msz = 0 /\ low = at) \/ aj + mj <= low
    BY <1>1, <2>1, <2>2, Headers
  <2>4. aj + mj <= ptr
    <3>1. fsz <= msz /\ ptr < at + fsz /\ ptr >= low
      BY <1>1, <1>2
    <3>2. QED
      BY SMTT(20), <2>3, <3>1
  <2>5. \A a \in aj .. aj + mj - 1 :
          a \in 0 .. MEMSIZE - 1 /\ a \notin ptr .. ptr + SECTORSIZE - 1
    BY SMTT(20), <1>3, <2>2, <2>4
  <2>6. \A a \in aj .. aj + mj - 1 : mem'[a] = mem[a]
    BY <1>4, <2>5
  <2>7. QED
    BY <1>5, <2>1, <2>2, <2>6, SegmentKept
<1>7. (sect + 1) * SECTORSIZE = SECTORSIZE + off + ((ptr + SECTORSIZE) - at)
  <2>1. PICK prod \in Int : prod = sect * SECTORSIZE
    BY SMTT(20), <1>3
  <2>2. (sect + 1) * SECTORSIZE = prod + SECTORSIZE
    BY SMTT(20), <1>3, <2>1
  <2>3. prod = SECTORSIZE + off + (ptr - at)
    BY <1>2, <2>1
  <2>4. QED
    BY SMTT(20), <1>3, <2>2, <2>3
<1>8. ASSUME NEW k \in 0 .. fsz - 1, at + k < ptr + SECTORSIZE
      PROVE  mem'[at + k] = SECTORSIZE + off + k
  <2>1. PICK a \in 0 .. MEMSIZE - 1 : a = at + k
    <3>1. fsz <= msz /\ at + msz <= MEMSIZE
      BY <1>1
    <3>2. at + k \in 0 .. MEMSIZE - 1
      BY SMTT(20), <1>3, <3>1
    <3>3. QED
      BY <3>2
  <2>2. CASE a < ptr
    <3>1. a \notin ptr .. ptr + SECTORSIZE - 1
      BY SMTT(20), <2>2
    <3>2. SegmentRead(i)
      BY SMTT(20) DEF BInv
    <3>3. mem[at + k] = SECTORSIZE + off + k
      BY <1>1, <1>2, <2>1, <2>2, <3>2 DEF SegmentRead
    <3>4. QED
      BY <1>4, <2>1, <3>1, <3>3
  <2>3. CASE ~(a < ptr)
    <3>1. a \in ptr .. ptr + SECTORSIZE - 1
      BY SMTT(20), <1>3, <1>8, <2>1, <2>3
    <3>2. mem'[a] = (SECTORSIZE + off + (ptr - at)) + (a - ptr)
      BY <1>4, <3>1
    <3>3. QED
      BY SMTT(20), <1>3, <2>1, <3>2
  <2>4. QED
    BY <2>2, <2>3
<1>9. SegmentRead(i)'
  <2>1. ptr + SECTORSIZE >= low
    BY SMTT(20), <1>2, <1>3
  <2>2. QED
    BY <1>1, <1>5, <1>7, <1>8, <2>1 DEF SegmentRead
<1>10. QED
  BY <1>6, <1>9

\* So reading a sector keeps the invariant, for the header and for a segment.
LEMMA TransferInv ==
  ASSUME BInv, Transfer
  PROVE  BInv'
<1>1. boot.pc = "data" /\ disk.sect \in Int /\ boot.ptr \in Int /\ boot.sect \in Int
  BY DEF Transfer, BInv
<1>2. SECTORSIZE \in Int
  BY SMTT(20), BootAssumption
<1>3. mem' \in [0 .. MEMSIZE - 1 -> Int]
  <2>1. PICK base \in Int : base = disk.sect * SECTORSIZE
    BY SMTT(20), <1>1, <1>2
  <2>2. MEMSIZE \in Int
    BY SMTT(20), BootAssumption
  <2>3. mem' = [a \in 0 .. MEMSIZE - 1 |->
                  IF a \in boot.ptr .. boot.ptr + SECTORSIZE - 1 THEN base + (a - boot.ptr)
                  ELSE mem[a]]
    BY <2>1 DEF Transfer, BInv
  <2>4. QED
    BY SMTT(20), <1>1, <2>2, <2>3 DEF BInv
<1>4. /\ boot'.pc = "wait" /\ boot'.seg = boot.seg /\ UNCHANGED <<disk, ph>>
      /\ boot' \in [pc : {"wait", "data", "jump", "hang"}, seg : 0 .. Len(ph),
                    ptr : Int, sect : Int, end : Int, mem_end : Int]
  <2>1. boot \in [pc : {"wait", "data", "jump", "hang"}, seg : 0 .. Len(ph),
                  ptr : Int, sect : Int, end : Int, mem_end : Int]
    BY DEF BInv
  <2>2. boot.ptr + SECTORSIZE \in Int /\ boot.sect + 1 \in Int
    BY SMTT(20), <1>1, <1>2
  <2>3. boot' = [boot EXCEPT !.pc = "wait", !.ptr = boot.ptr + SECTORSIZE, !.sect = boot.sect + 1]
    BY DEF Transfer
  <2>4. UNCHANGED <<disk, ph>>
    BY DEF Transfer
  <2>5. QED
    BY <2>1, <2>2, <2>3, <2>4
<1>5. boot.seg = 0 \/ boot.seg \in 1 .. Len(ph)
  BY SMTT(20) DEF BInv
<1>6. boot.seg # 0 => /\ SegmentRead(boot.seg)'
                      /\ \A j \in 1 .. boot.seg - 1 : SegmentLoaded(j)'
  <2>1. ASSUME NEW i \in 1 .. Len(ph), i = boot.seg
        PROVE  SegmentRead(i)' /\ \A j \in 1 .. i - 1 : SegmentLoaded(j)'
    BY <1>1, <2>1, TransferReads
  <2>2. QED
    BY <1>4, <1>5, <2>1
<1>7. QED
  BY SMTT(20), <1>3, <1>4, <1>5, <1>6 DEF BInv, KernelLoaded

\* The bss is cleared: the segment is complete, and the earlier ones are kept.
LEMMA ClearCompletes ==
  ASSUME BInv, ClearBss, NEW i \in 1 .. Len(ph), i = boot.seg
  PROVE  \A j \in 1 .. i : SegmentLoaded(j)'
<1>1. PICK at \in Nat, off \in Nat, fsz \in Nat, msz \in Nat, low \in Int :
        /\ at = ph[i].va /\ off = ph[i].offset /\ fsz = ph[i].filesz /\ msz = ph[i].memsz
        /\ low = RoundDown(ph[i].va, SECTORSIZE)
        /\ fsz <= msz /\ at + msz <= MEMSIZE /\ low <= at
  BY Headers, RoundedDown DEF BInv
<1>2. SegmentRead(i) /\ ph \in KernelImages /\ \A j \in 1 .. i - 1 : SegmentLoaded(j)
  BY SMTT(20) DEF ClearBss, BInv
<1>3. MEMSIZE \in Nat
  BY BootAssumption
<1>4. PICK ptr \in Int : ptr = boot.ptr /\ ptr >= at + fsz
  BY <1>1, <1>2 DEF ClearBss, BInv, SegmentRead
<1>5. UNCHANGED ph /\ mem' = [a \in 0 .. MEMSIZE - 1 |->
                                IF a \in at + fsz .. at + msz - 1 THEN 0 ELSE mem[a]]
  <2>1. boot.end = at + fsz /\ boot.mem_end = at + msz
    BY <1>1, <1>2 DEF SegmentRead
  <2>2. /\ UNCHANGED ph /\ DOMAIN mem = 0 .. MEMSIZE - 1
        /\ mem' = [a \in DOMAIN mem |->
                     IF a \in boot.end .. boot.mem_end - 1 THEN 0 ELSE mem[a]]
    BY DEF ClearBss, BInv
  <2>3. QED
    BY SMTT(20), <2>1, <2>2
<1>6. fsz <= msz /\ at + msz <= MEMSIZE /\ low <= at
  BY <1>1
<1>7. ASSUME NEW j \in 1 .. i - 1 PROVE SegmentLoaded(j)'
  <2>1. j \in 1 .. Len(ph) /\ SegmentLoaded(j)
    BY SMTT(20), <1>2
  <2>2. PICK aj \in Nat, mj \in Nat : aj = ph[j].va /\ mj = ph[j].memsz /\ aj + mj <= MEMSIZE
    BY <1>2, <2>1, Headers
  <2>3. msz = 0 \/ aj + mj <= low
    BY <1>1, <1>2, <2>1, <2>2, Headers
  <2>4. aj + mj <= MEMSIZE
    BY <2>2
  <2>5. \A a \in aj .. aj + mj - 1 :
          a \in 0 .. MEMSIZE - 1 /\ a \notin at + fsz .. at + msz - 1
    BY SMTT(20), <1>3, <1>6, <2>3, <2>4
  <2>6. \A a \in aj .. aj + mj - 1 : mem'[a] = mem[a]
    BY <1>5, <2>5
  <2>7. QED
    BY <1>2, <1>5, <2>1, <2>2, <2>6, SegmentKept
<1>8. ASSUME NEW k \in 0 .. fsz - 1 PROVE mem'[at + k] = SECTORSIZE + off + k
  <2>1. at + k \in 0 .. MEMSIZE - 1 /\ at + k \notin at + fsz .. at + msz - 1
    BY SMTT(20), <1>3, <1>6
  <2>2. at + k < ptr
    <3>1. ptr >= at + fsz
      BY <1>4
    <3>2. QED
      BY SMTT(20), <3>1
  <2>3. mem[at + k] = SECTORSIZE + off + k
    BY <1>1, <1>2, <1>4, <2>2 DEF SegmentRead
  <2>4. QED
    BY <1>5, <2>1, <2>3
<1>9. ASSUME NEW k \in fsz .. msz - 1 PROVE mem'[at + k] = 0
  <2>1. at + k \in 0 .. MEMSIZE - 1 /\ at + k \in at + fsz .. at + msz - 1
    BY SMTT(20), <1>3, <1>6
  <2>2. QED
    BY <1>5, <2>1
<1>10. SegmentLoaded(i)'
  BY <1>1, <1>5, <1>8, <1>9 DEF SegmentLoaded
<1>11. \A j \in 1 .. i : j = i \/ j \in 1 .. i - 1
  BY SMTT(20)
<1>12. QED
  BY <1>7, <1>10, <1>11

\* boot() hangs, jumps, or turns to the next segment.
LEMMA ClearBssInv ==
  ASSUME BInv, ClearBss
  PROVE  BInv'
<1>1. mem' \in [0 .. MEMSIZE - 1 -> Int]
  BY SMTT(20) DEF BInv, ClearBss
<1>2. /\ ph' \in KernelImages /\ disk' \in [status : {"ready", "busy"}, sect : Int]
      /\ UNCHANGED ph /\ ph \in KernelImages
  BY DEF BInv, ClearBss
<1>3. PICK i \in 0 .. Len(ph) : i = boot.seg
  BY DEF BInv
<1>4. Len(ph) \in Nat /\ DOMAIN ph = 1 .. Len(ph)
  <2> DEFINE Header == [va : Nat, offset : Nat, filesz : Nat, memsz : Nat]
  <2>1. ph \in Seq(Header)
    BY <1>2, BootAssumption
  <2> HIDE DEF Header
  <2>2. QED
    BY SMTT(20), <2>1
<1>5. \A j \in 1 .. i : SegmentLoaded(j)'
  <2>1. ASSUME i # 0 PROVE \A j \in 1 .. i : SegmentLoaded(j)'
    <3>1. i \in 1 .. Len(ph)
      BY SMTT(20), <1>4, <2>1
    <3>2. QED
      BY <1>3, <3>1, ClearCompletes
  <2>2. QED
    BY SMTT(20), <1>4, <2>1
<1>6. boot \in [pc : {"wait", "data", "jump", "hang"}, seg : 0 .. Len(ph),
                ptr : Int, sect : Int, end : Int, mem_end : Int]
  BY DEF BInv
<1>7. CASE boot' = [boot EXCEPT !.pc = "hang"]
  <2>1. /\ boot'.pc = "hang"
        /\ boot' \in [pc : {"wait", "data", "jump", "hang"}, seg : 0 .. Len(ph),
                      ptr : Int, sect : Int, end : Int, mem_end : Int]
    BY <1>6, <1>7
  <2>2. QED
    BY <1>1, <1>2, <2>1 DEF BInv, KernelLoaded
<1>8. CASE i + 1 > Len(ph) /\ boot' = [boot EXCEPT !.pc = "jump"]
  <2>1. /\ boot'.pc = "jump"
        /\ boot' \in [pc : {"wait", "data", "jump", "hang"}, seg : 0 .. Len(ph),
                      ptr : Int, sect : Int, end : Int, mem_end : Int]
    BY <1>6, <1>8
  <2>2. i = Len(ph)
    BY SMTT(20), <1>4, <1>8
  <2>3. KernelLoaded'
    BY <1>2, <1>4, <1>5, <2>2 DEF KernelLoaded
  <2>4. QED
    BY <1>1, <1>2, <2>1, <2>3 DEF BInv
<1>9. CASE /\ i + 1 <= Len(ph)
           /\ boot' = ReadSeg(i + 1, ph[i + 1].va, ph[i + 1].offset \div SECTORSIZE + 1,
                              ph[i + 1].filesz, ph[i + 1].memsz)
  <2>1. PICK n \in 1 .. Len(ph) : n = i + 1
    BY SMTT(20), <1>4, <1>9
  <2>2. boot' = ReadSeg(n, ph[n].va, ph[n].offset \div SECTORSIZE + 1, ph[n].filesz, ph[n].memsz)
    BY <1>9, <2>1
  <2>3. /\ boot' \in [pc : {"wait", "data", "jump", "hang"}, seg : 0 .. Len(ph),
                      ptr : Int, sect : Int, end : Int, mem_end : Int]
        /\ boot'.pc = "wait" /\ boot'.seg = n /\ SegmentRead(n)'
    BY <1>2, <2>2, ReadSegStarts
  <2>4. boot'.seg - 1 = i
    BY SMTT(20), <2>1, <2>3
  <2>5. \A j \in 1 .. boot'.seg - 1 : SegmentLoaded(j)'
    BY <1>5, <2>4
  <2>6. SegmentRead(boot.seg)'
    BY <2>3
  <2>7. QED
    BY <1>1, <1>2, <2>3, <2>5, <2>6 DEF BInv, KernelLoaded
<1>10. QED
  BY SMTT(20), <1>3, <1>4, <1>7, <1>8, <1>9 DEF ClearBss, NextSeg

\* The drive is told the sector the loop is at.
LEMMA CommandInv ==
  ASSUME BInv, Command
  PROVE  BInv'
<1>1. /\ boot \in [pc : {"wait", "data", "jump", "hang"}, seg : 0 .. Len(ph),
                   ptr : Int, sect : Int, end : Int, mem_end : Int]
      /\ boot' = [boot EXCEPT !.pc = "data"] /\ UNCHANGED <<mem, ph>>
      /\ boot.pc = "wait" /\ boot.ptr < boot.end
  BY DEF BInv, Command
<1>2. /\ boot'.pc = "data" /\ boot'.seg = boot.seg /\ boot'.ptr = boot.ptr
      /\ boot'.sect = boot.sect /\ boot'.end = boot.end /\ boot'.mem_end = boot.mem_end
      /\ boot' \in [pc : {"wait", "data", "jump", "hang"}, seg : 0 .. Len(ph),
                    ptr : Int, sect : Int, end : Int, mem_end : Int]
  BY <1>1
<1>3. disk' \in [status : {"ready", "busy"}, sect : Int] /\ disk'.sect = boot.sect
  BY <1>1 DEF Command
<1>4. \A j \in 1 .. boot'.seg - 1 : SegmentLoaded(j)'
  BY <1>1, <1>2 DEF BInv, SegmentLoaded
<1>5. boot'.seg # 0 => SegmentRead(boot.seg)'
  BY <1>1, <1>2 DEF BInv, SegmentRead
<1>6. QED
  BY <1>1, <1>2, <1>3, <1>4, <1>5 DEF BInv, KernelLoaded

\* A step that touches neither memory nor the boot loader, and gives the drive
\* no command.
LEMMA BootKept ==
  ASSUME BInv, UNCHANGED <<mem, ph, boot>>,
         disk' \in [status : {"ready", "busy"}, sect : Int], disk'.sect = disk.sect
  PROVE  BInv'
<1>1. \A i : SegmentLoaded(i)' <=> SegmentLoaded(i)
  BY DEF SegmentLoaded
<1>2. \A i : SegmentRead(i)' <=> SegmentRead(i)
  BY DEF SegmentRead
<1>3. KernelLoaded'
  BY <1>1 DEF BInv, KernelLoaded
<1>4. boot.pc \in {"wait", "data"} =>
        /\ \A i \in 1 .. boot.seg - 1 : SegmentLoaded(i)'
        /\ boot.seg # 0 => SegmentRead(boot.seg)'
  BY <1>1, <1>2 DEF BInv
<1>5. QED
  BY <1>3, <1>4 DEF BInv

\* Every step of the boot loader and of the drive keeps the invariant.
LEMMA BootNextInv == BInv /\ BootNext => BInv'
<1>1. ASSUME BInv, DiskReady PROVE BInv'
  <2>1. /\ UNCHANGED <<mem, ph, boot>> /\ disk' = [disk EXCEPT !.status = "ready"]
        /\ disk \in [status : {"ready", "busy"}, sect : Int]
    BY <1>1 DEF DiskReady, BInv
  <2>2. disk' \in [status : {"ready", "busy"}, sect : Int] /\ disk'.sect = disk.sect
    BY <2>1
  <2>3. QED
    BY <1>1, <2>1, <2>2, BootKept
<1>2. QED
  BY <1>1, CommandInv, TransferInv, ClearBssInv DEF BootNext

\* The kernel's steps do not happen before the boot loader's jump.
LEMMA BootInvStep == BootInv /\ [Next]_vars => BootInv'
<1> SUFFICES ASSUME BootInv, [Next]_vars PROVE BootInv'
  OBVIOUS
<1> DEFINE Quiet == UNCHANGED <<mem, bootVars, pc>>
<1>1. ASSUME Quiet PROVE BootInv'
  <2>1. UNCHANGED <<mem, disk, ph, boot, pc>>
    BY <1>1 DEF bootVars
  <2>2. BInv => disk \in [status : {"ready", "busy"}, sect : Int]
    BY DEF BInv
  <2>3. BInv => BInv'
    BY <2>1, <2>2, BootKept
  <2>4. QED
    BY <2>1, <2>3 DEF BootInv
<1>2. ASSUME pc # "boot", UNCHANGED bootVars PROVE BootInv'
  BY <1>2 DEF BootInv, bootVars
<1>3. CASE BootStep
  <2>1. boot.pc = "kernel" => boot'.pc = "kernel"
    BY <1>3 DEF BootStep, BootNext, Command, DiskReady, Transfer, ClearBss
  <2>2. QED
    BY <1>3, <2>1, BootNextInv DEF BootInv, BootStep, loadVars
<1>4. CASE MapStep
  BY <1>1, <1>4 DEF MapStep, loadVars
<1>5. CASE KernelInit
  <2>1. boot'.pc = "kernel"
    BY SMTT(20), <1>5 DEF KernelInit, BootInv, BInv
  <2>2. QED
    BY <2>1 DEF BootInv
<1>6. CASE KernelStep /\ ~KernelInit
  <2>1. pc # "boot" /\ UNCHANGED bootVars
    BY <1>6 DEF KernelStep, MapIdentity, Protect, OpenConsole, Setup, DuplicatePage,
                StartLoading, SkipSegment, AllocatePage, LoadFails, CopySegment, ReadOnlyPage,
                SegmentDone, GiveStack, RunFirst
  <2>2. QED
    BY <1>2, <2>1
<1>7. CASE \E o \in 1 .. NLOAD, v \in {w \in VPages : w >= PROC_START} : UserAlloc(o, v)
  BY <1>2, <1>7 DEF UserAlloc
<1>8. CASE Reboot
  BY <1>2, <1>8 DEF Reboot
<1>9. CASE Hang \/ UNCHANGED vars
  BY <1>1, <1>9 DEF Hang, vars, loadVars
<1>10. QED
  BY <1>3, <1>4, <1>5, <1>6, <1>7, <1>8, <1>9 DEF Next

\* While the boot loader runs, the segments behind it are complete and the one
\* it is at is as far as its loop says (boot_readseg(), boot()).
THEOREM BootInvariant == Spec => []BootInv
<1>1. Init => BootInv
  BY BInvInit DEF Init, BootInv
<1>2. QED
  BY <1>1, BootInvStep, PTL DEF Spec

\* boot() jumps to a kernel that is completely in memory, whatever the number
\* and sizes of its segments, of sectors and of memory.
THEOREM KernelIsLoaded == Spec => []KernelLoaded
<1>1. BootInv => KernelLoaded
  BY DEF BootInv, BInv, KernelLoaded
<1>2. QED
  BY <1>1, BootInvariant, PTL

-----------------------------------------------------------------------------
(* Addresses, pages and segments *)

\* An address is that of a page and an offset in it.
LEMMA PageOf ==
  ASSUME NEW a \in Nat
  PROVE  /\ a \div PAGESIZE \in Nat /\ a % PAGESIZE \in 0 .. PAGESIZE - 1
         /\ a = (a \div PAGESIZE) * PAGESIZE + (a % PAGESIZE)
<1>1. PAGESIZE \in Nat /\ PAGESIZE >= 1
  BY SMTT(20), BootAssumption
<1>2. QED
  BY SMTT(20), <1>1

\* Pages follow each other in memory without overlap.
LEMMA PagesApart ==
  ASSUME NEW m \in Nat, NEW n \in Nat, m < n
  PROVE  m * PAGESIZE + PAGESIZE <= n * PAGESIZE
<1>1. PAGESIZE \in Nat /\ PAGESIZE >= 1
  BY SMTT(20), BootAssumption
<1>2. PICK d \in Nat : n = m + 1 + d
  <2>1. n - m - 1 \in Nat /\ n = m + 1 + (n - m - 1)
    BY SMTT(20)
  <2>2. QED
    BY <2>1
<1>3. n * PAGESIZE = m * PAGESIZE + PAGESIZE + d * PAGESIZE /\ d * PAGESIZE \in Nat
  BY SMTT(20), <1>1, <1>2
<1>4. QED
  BY SMTT(20), <1>1, <1>3

\* So page and offset determine the address, and the address both of them.
LEMMA AddressOf ==
  ASSUME NEW m \in Nat, NEW n \in Nat,
         NEW r \in 0 .. PAGESIZE - 1, NEW s \in 0 .. PAGESIZE - 1,
         m * PAGESIZE + r = n * PAGESIZE + s
  PROVE  m = n /\ r = s
<1>1. PAGESIZE \in Nat /\ PAGESIZE >= 1 /\ m * PAGESIZE \in Nat /\ n * PAGESIZE \in Nat
  BY SMTT(20), BootAssumption
<1>2. ~(m < n)
  <2>1. m < n => m * PAGESIZE + PAGESIZE <= n * PAGESIZE
    BY PagesApart
  <2>2. QED
    BY SMTT(20), <1>1, <2>1
<1>3. ~(n < m)
  <2>1. n < m => n * PAGESIZE + PAGESIZE <= m * PAGESIZE
    BY PagesApart
  <2>2. QED
    BY SMTT(20), <1>1, <2>1
<1>4. m = n
  BY SMTT(20), <1>2, <1>3
<1>5. QED
  BY SMTT(20), <1>1, <1>4

\* The page of an address
LEMMA PageOfAddress ==
  ASSUME NEW n \in Nat, NEW r \in 0 .. PAGESIZE - 1
  PROVE  /\ n * PAGESIZE + r \in Nat
         /\ (n * PAGESIZE + r) \div PAGESIZE = n /\ (n * PAGESIZE + r) % PAGESIZE = r
<1>1. PAGESIZE \in Nat /\ PAGESIZE >= 1 /\ n * PAGESIZE \in Nat
  BY SMTT(20), BootAssumption
<1>2. PICK a \in Nat : a = n * PAGESIZE + r
  BY SMTT(20), <1>1
<1>3. /\ a \div PAGESIZE \in Nat /\ a % PAGESIZE \in 0 .. PAGESIZE - 1
      /\ n * PAGESIZE + r = (a \div PAGESIZE) * PAGESIZE + (a % PAGESIZE)
  BY <1>2, PageOf
<1>4. n = a \div PAGESIZE /\ r = a % PAGESIZE
  BY <1>3, AddressOf
<1>5. QED
  BY <1>2, <1>4

\* The program headers that program_load() finds.
LEMMA ProgramHeaders ==
  ASSUME NEW p \in Programs, NEW i \in DOMAIN p.segs
  PROVE  /\ p.begin \in Nat /\ DOMAIN p.segs = 1 .. Len(p.segs) /\ Len(p.segs) \in Nat
         /\ p.segs[i].va \in Nat /\ p.segs[i].offset \in Nat
         /\ p.segs[i].filesz \in Nat /\ p.segs[i].memsz \in Nat
<1> DEFINE Hdr == [va : Nat, offset : Nat, filesz : Nat, memsz : Nat,
                   load : BOOLEAN, write : BOOLEAN]
<1>1. p \in [begin : Nat, segs : Seq(Hdr)]
  BY ProgramsAssumption
<1> HIDE DEF Hdr
<1>2. p.begin \in Nat /\ p.segs \in Seq(Hdr)
  BY <1>1
<1>3. DOMAIN p.segs = 1 .. Len(p.segs) /\ Len(p.segs) \in Nat /\ p.segs[i] \in Hdr
  BY SMTT(20), <1>2
<1>4. QED
  BY <1>2, <1>3 DEF Hdr

\* s is a segment that program_load() loads, as the linker laid it out.
LaidOut(s) ==
  /\ s.load /\ s.va \in Nat /\ s.offset \in Nat /\ s.filesz \in Nat /\ s.memsz \in Nat
  /\ s.va % PAGESIZE = 0 /\ s.va >= PROC_START * PAGESIZE /\ s.filesz <= s.memsz
  /\ s.va + s.memsz <= STACK * PAGESIZE

\* Every segment a program has to load is.
LEMMA SegmentsLaidOut ==
  ASSUME NEW p \in Programs, NEW i \in DOMAIN p.segs, p.segs[i].load
  PROVE  LaidOut(p.segs[i])
BY ProgramHeaders, ProgramsAssumption DEF LaidOut

\* The pages of a segment are user pages below the stack.
LEMMA SegmentPages ==
  ASSUME NEW s, LaidOut(s), NEW v \in Nat, InSegment(s, v)
  PROVE  v \in User /\ v < STACK
<1>1. /\ PROC_START \in Nat /\ STACK \in Nat /\ PROC_START .. STACK \subseteq VPages
      /\ PAGESIZE \in Nat /\ PAGESIZE >= 1
  BY SMTT(20), LoaderAssumption, BootAssumption
<1>2. PICK q \in Nat : q = s.va \div PAGESIZE /\ s.va = q * PAGESIZE
  <2>1. s.va \in Nat /\ s.va % PAGESIZE = 0
    BY DEF LaidOut
  <2>2. s.va \div PAGESIZE \in Nat /\ s.va = (s.va \div PAGESIZE) * PAGESIZE + 0
    BY <2>1, PageOf
  <2>3. s.va = (s.va \div PAGESIZE) * PAGESIZE
    BY SMTT(20), <1>1, <2>2
  <2>4. QED
    BY <2>2, <2>3
<1>3. ~(q < PROC_START)
  <2>1. q < PROC_START => q * PAGESIZE + PAGESIZE <= PROC_START * PAGESIZE
    BY <1>1, PagesApart
  <2>2. s.va >= PROC_START * PAGESIZE
    BY DEF LaidOut
  <2>3. q * PAGESIZE \in Nat /\ PROC_START * PAGESIZE \in Nat
    BY SMTT(20), <1>1
  <2>4. QED
    BY SMTT(20), <1>1, <1>2, <2>1, <2>2, <2>3
<1>4. v < STACK
  <2>1. STACK < v => STACK * PAGESIZE + PAGESIZE <= v * PAGESIZE
    BY <1>1, PagesApart
  <2>2. v * PAGESIZE < s.va + s.memsz /\ s.va + s.memsz <= STACK * PAGESIZE
    BY DEF LaidOut, InSegment
  <2>3. v * PAGESIZE \in Nat /\ STACK * PAGESIZE \in Nat /\ s.va + s.memsz \in Nat
    BY SMTT(20), <1>1 DEF LaidOut
  <2>4. v # STACK
    BY SMTT(20), <2>2, <2>3
  <2>5. ~(STACK < v)
    BY SMTT(20), <1>1, <2>1, <2>2, <2>3
  <2>6. QED
    BY SMTT(20), <1>1, <2>4, <2>5
<1>5. v >= PROC_START
  <2>1. q <= v
    BY <1>2 DEF InSegment
  <2>2. QED
    BY SMTT(20), <1>1, <1>3, <2>1
<1>6. v \in PROC_START .. STACK
  BY SMTT(20), <1>1, <1>4, <1>5
<1>7. QED
  BY <1>1, <1>4, <1>5, <1>6 DEF User

\* Every byte of a segment lies in one of its pages.
LEMMA SegmentBytes ==
  ASSUME NEW s, LaidOut(s), NEW k \in 0 .. s.memsz - 1
  PROVE  /\ s.va + k \in Nat /\ (s.va + k) \div PAGESIZE \in Nat
         /\ InSegment(s, (s.va + k) \div PAGESIZE) /\ (s.va + k) \div PAGESIZE \in User
<1>1. s.va \in Nat /\ s.memsz \in Nat /\ s.va + k \in Nat /\ s.va <= s.va + k
      /\ s.va + k < s.va + s.memsz /\ PAGESIZE \in Nat /\ PAGESIZE >= 1
  BY SMTT(20), BootAssumption DEF LaidOut
<1>2. PICK n \in Nat, r \in 0 .. PAGESIZE - 1 :
        n = (s.va + k) \div PAGESIZE /\ s.va + k = n * PAGESIZE + r
  BY <1>1, PageOf
<1>q. PICK q \in Nat, t \in 0 .. PAGESIZE - 1 :
        q = s.va \div PAGESIZE /\ s.va = q * PAGESIZE + t
  BY <1>1, PageOf
<1>3. ~(n < q)
  <2>1. n < q => n * PAGESIZE + PAGESIZE <= q * PAGESIZE
    BY PagesApart
  <2>2. n * PAGESIZE \in Nat /\ q * PAGESIZE \in Nat
    BY SMTT(20), <1>1
  <2>3. QED
    BY SMTT(20), <1>1, <1>2, <1>q, <2>1, <2>2
<1>4. q <= n /\ n * PAGESIZE < s.va + s.memsz
  <2>1. n * PAGESIZE \in Nat
    BY SMTT(20), <1>1
  <2>2. QED
    BY SMTT(20), <1>1, <1>2, <1>3, <2>1
<1>5. InSegment(s, n)
  BY <1>q, <1>4 DEF InSegment
<1>6. QED
  BY <1>1, <1>2, <1>5, SegmentPages

\* Two segments of a program share no page.
LEMMA SegmentsApart ==
  ASSUME NEW p \in Programs, NEW i \in DOMAIN p.segs, NEW j \in 1 .. i - 1,
         p.segs[i].load, p.segs[j].load, NEW v \in Nat
  PROVE  ~(InSegment(p.segs[i], v) /\ InSegment(p.segs[j], v))
<1> SUFFICES ASSUME InSegment(p.segs[i], v), InSegment(p.segs[j], v) PROVE FALSE
  OBVIOUS
<1>1. PAGESIZE \in Nat /\ PAGESIZE >= 1
  BY SMTT(20), BootAssumption
<1>2. LaidOut(p.segs[i]) /\ p.segs[j].va + p.segs[j].memsz <= p.segs[i].va
  BY SegmentsLaidOut, ProgramsAssumption
<1>3. j \in DOMAIN p.segs
  BY SMTT(20), ProgramHeaders
<1>4. p.segs[j].va \in Nat /\ p.segs[j].memsz \in Nat
  BY <1>3, ProgramHeaders
<1>5. PICK a \in Nat, b \in Nat, q \in Nat :
        /\ a = p.segs[i].va /\ b = p.segs[j].va + p.segs[j].memsz
        /\ q = a \div PAGESIZE /\ a = q * PAGESIZE + (a % PAGESIZE)
  <2>1. p.segs[i].va \in Nat /\ p.segs[j].va + p.segs[j].memsz \in Nat
    BY SMTT(20), <1>2, <1>4 DEF LaidOut
  <2>2. QED
    BY <2>1, PageOf
<1>6. a = q * PAGESIZE
  <2>1. a % PAGESIZE = 0
    BY <1>2, <1>5 DEF LaidOut
  <2>2. q * PAGESIZE \in Nat
    BY SMTT(20), <1>1
  <2>3. QED
    BY SMTT(20), <1>5, <2>1, <2>2
<1>7. b <= a /\ q <= v /\ v * PAGESIZE < b
  BY <1>2, <1>5 DEF InSegment
<1>8. q * PAGESIZE \in Nat /\ v * PAGESIZE \in Nat
  BY SMTT(20), <1>1
<1>9. q < v => q * PAGESIZE + PAGESIZE <= v * PAGESIZE
  BY PagesApart
<1>10. q = v \/ q < v
  BY SMTT(20), <1>7
<1>11. q # v
  BY SMTT(20), <1>6, <1>7, <1>8
<1>12. QED
  BY SMTT(20), <1>1, <1>6, <1>7, <1>8, <1>9, <1>10, <1>11

-----------------------------------------------------------------------------
(* Address spaces *)

\* A page that has a mapping is in a table of its own owner.
LEMMA MappedPage ==
  ASSUME PInv, NEW o \in Owners, NEW v \in VPages, Page(o, v) # Unmapped
  PROVE  /\ v < 2 * NENT /\ Live(o)
         /\ HardwareWalk(tab, tables[o]["L1"], v) = Page(o, v)
<1>1. v \in Nat /\ Canonical(v)
  BY VPage
<1>2. Live(o) /\ Page(o, v) = Flat(tab, tables[o], v)
  <2>1. Page(o, v) = FlatSpace(tab, tables)[o][v]
    BY MappingsNow DEF Page
  <2>2. FlatSpace(tab, tables)[o][v] =
          IF tables[o]["L1"] # NULL THEN Flat(tab, tables[o], v) ELSE Unmapped
    BY DEF FlatSpace
  <2>3. QED
    BY <2>1, <2>2 DEF Live
<1>3. tab \in Contents /\ Linked(tab, tables[o])
  BY <1>2 DEF PInv
<1>4. HardwareWalk(tab, tables[o]["L1"], v) = Flat(tab, tables[o], v)
  BY <1>1, <1>3, HardwareFlat
<1>5. v \div NENT \in {0, 1}
  BY <1>2 DEF Flat, L4At
<1>6. QED
  BY <1>1, <1>2, <1>4, <1>5, DivTwo

\* What a round of virtual_memory_map() does to the pages of all owners
LEMMA PageMapped ==
  ASSUME PInv, MapPage, NEW o \in Owners, NEW v \in VPages
  PROVE  Page(o, v)' = IF o = call.owner /\ v = call.v /\ v < 2 * NENT
                       THEN IF "P" \in call.perm THEN Mapping(call.pn, call.perm)
                            ELSE Unmapped
                       ELSE Page(o, v)
<1>1. Spaces!Map
  BY MapPageMaps
<1>2. IF call.v < 2 * NENT
      THEN Mappings' = [Mappings EXCEPT ![call.owner][call.v] =
             IF "P" \in call.perm THEN [pn |-> call.pn, perm |-> call.perm]
             ELSE Spaces!Unmapped]
      ELSE Mappings' = Mappings
  BY <1>1 DEF Spaces!Map, Request
<1>3. Spaces!Unmapped = Unmapped
  BY DEF Spaces!Unmapped, Unmapped, Mapping
<1> DEFINE M == IF "P" \in call.perm THEN [pn |-> call.pn, perm |-> call.perm] ELSE Unmapped
<1>4. /\ DOMAIN Mappings = Owners /\ \A q \in Owners : DOMAIN Mappings[q] = VPages
  BY DEF Mappings
<1>5. CASE call.v < 2 * NENT
  <2>1. Mappings' = [Mappings EXCEPT ![call.owner][call.v] = M]
    BY <1>2, <1>3, <1>5
  <2> HIDE DEF M
  <2>2. Mappings'[o] = IF o = call.owner THEN [Mappings[o] EXCEPT ![call.v] = M]
                       ELSE Mappings[o]
    BY <1>4, <2>1
  <2>3. Mappings'[o][v] = IF o = call.owner /\ v = call.v THEN M ELSE Mappings[o][v]
    BY <1>4, <2>2
  <2>4. QED
    BY <1>5, <2>3 DEF Page, Mapping, M
<1>6. CASE ~(call.v < 2 * NENT)
  BY <1>2, <1>6 DEF Page
<1>7. QED
  BY <1>5, <1>6

\* ... and to the call
LEMMA CallMapped ==
  ASSUME PInv, MapPage
  PROVE  /\ call.n \in Nat /\ call.n # 0
         /\ call'.owner = call.owner /\ call'.perm = call.perm
         /\ call'.n = 0 \/ call'.n = call.n - 1
         /\ call.v < 2 * NENT => call'.ret = call.ret /\ call'.n = call.n - 1
         /\ ~(call.v < 2 * NENT) /\ "P" \in call.perm => call'.ret = -1
<1>1. /\ call.n # 0 /\ call \in Calls /\ call.v \in Nat /\ 2 * NENT \in Nat
      /\ L4Table = L4At(tables[call.owner], call.v \div NENT)
      /\ Linked(tab, tables[call.owner])
  <2>1. call.n # 0 /\ call \in Calls
    BY DEF MapPage, PInv
  <2>2. 2 * NENT \in Nat
    BY SMTT(20), PageTableAssumption
  <2>3. QED
    BY <2>1, <2>2, L4TableIs
<1>2. L4Table # NULL <=> call.v < 2 * NENT
  BY <1>1, DivTwo DEF L4At, Linked, Levels
<1>3. call.n \in Nat
  BY <1>1 DEF Calls
<1>4. CASE L4Table = NULL /\ "P" \in call.perm
  <2>1. call' = [call EXCEPT !.n = 0, !.ret = -1]
    BY <1>4 DEF MapPage
  <2>2. /\ call'.owner = call.owner /\ call'.perm = call.perm /\ call'.n = 0
        /\ call'.ret = -1
    BY <1>1, <2>1 DEF Calls
  <2>3. QED
    BY <1>1, <1>2, <1>3, <1>4, <2>2
<1>5. CASE ~(L4Table = NULL /\ "P" \in call.perm)
  <2>1. call' = [call EXCEPT !.v = @ + 1, !.pn = @ + 1, !.n = @ - 1,
                             !.last = call.v \div NENT, !.l4 = L4Table]
    BY <1>5 DEF MapPage
  <2>2. /\ call'.owner = call.owner /\ call'.perm = call.perm /\ call'.n = call.n - 1
        /\ call'.ret = call.ret
    BY <1>1, <2>1 DEF Calls
  <2>3. QED
    BY <1>1, <1>2, <1>3, <1>5, <2>2
<1>6. QED
  BY <1>4, <1>5

\* A call that starts changes no page.
LEMMA PagesCalled ==
  ASSUME PInv, NEW o, NEW v, NEW pn, NEW n, NEW perm, MapCall(o, v, pn, n, perm)
  PROVE  /\ call.n = 0 /\ Live(o)
         /\ call'.owner = o /\ call'.v = v /\ call'.pn = pn /\ call'.n = n
         /\ call'.perm = perm /\ call'.ret = 0
         /\ \A q, w : Page(q, w)' = Page(q, w)
<1>1. tab' = tab /\ tables' = tables /\ call.n = 0 /\ Live(o)
  BY DEF MapCall, Idle
<1>2. Mappings' = Mappings
  BY <1>1 DEF Mappings, LookupOf, Live
<1>3. /\ call'.owner = o /\ call'.v = v /\ call'.pn = pn /\ call'.n = n
      /\ call'.perm = perm /\ call'.ret = 0
  BY DEF MapCall, NoCall
<1>4. QED
  BY <1>1, <1>2, <1>3 DEF Page

\* Nor does a step that leaves the tables alone.
LEMMA PagesKept ==
  ASSUME UNCHANGED PagingVars
  PROVE  (\A q, w : Page(q, w)' = Page(q, w)) /\ call' = call
<1>1. Mappings' = Mappings /\ call' = call
  BY DEF PagingVars, Mappings, LookupOf, Live
<1>2. QED
  BY <1>1 DEF Page

\* New tables are empty, and the other owners' pages stay.
LEMMA PagesCreated ==
  ASSUME PInv, NEW o \in Owners, NEW T, NewTables(o, T)
  PROVE  /\ call' = call /\ call.n = 0
         /\ \A v \in VPages : Page(o, v)' = Unmapped
         /\ \A q \in Owners \ {o} : \A v : Page(q, v)' = Page(q, v)
<1>1. Spaces!Create(o) /\ call' = call /\ call.n = 0
  BY NewTablesCreates DEF NewTables, Idle
<1>2. Mappings' = [Mappings EXCEPT ![o] = [v \in VPages |-> Unmapped]]
  BY <1>1 DEF Spaces!Create, Spaces!NoSpace, Spaces!Unmapped, Unmapped, Mapping
<1>3. Mappings'[o] = [v \in VPages |-> Unmapped]
  BY <1>2 DEF Mappings
<1>4. \A q \in Owners \ {o} : Mappings'[q] = Mappings[q]
  BY <1>2 DEF Mappings
<1>5. QED
  BY <1>1, <1>3, <1>4 DEF Page

\* The first free page is free.
LEMMA FirstFree ==
  ASSUME FreePages # {}
  PROVE  Nth(0) \in FreePages
<1>1. FreePages \subseteq Nat
  BY SMTT(20) DEF FreePages, Pages
<1>2. PICK pn \in FreePages : \A q \in FreePages : <<q, pn>> \notin OpToRel(<, Nat)
  BY <1>1, WFMin, NatLessThanWellFounded
<1>3. {q \in FreePages : q < pn} = {}
  BY <1>1, <1>2 DEF OpToRel
<1>4. Cardinality({q \in FreePages : q < pn}) = 0
  BY <1>3, FS_EmptySet
<1>5. QED
  BY <1>4 DEF Nth

=============================================================================
