---------------------------- MODULE KernelTypes -----------------------------
(***************************************************************************)
(* Type correctness of module Kernel, for every number of pages, processes *)
(* and page tables and every kind of call but the damaging ones; that      *)
(* Kernel implements ProcessTable; and the facts about allocation, boot    *)
(* and dispatch that the other proofs about Kernel use.                    *)
(***************************************************************************)
EXTENDS Kernel, FiniteSetTheorems, TLAPS

\* A leaf is Zenon's unless it names SMT, as the ones with arithmetic do.
USE ZenonT(20)

-----------------------------------------------------------------------------
(* Arithmetic of the reference counts *)

\* A stored reference count is an int8_t.
LEMMA Int8Range ==
  ASSUME NEW x \in Int
  PROVE  Int8(x) \in -REF_HALF .. REF_HALF - 1
  BY SMTT(20), PageAssumption DEF Int8

\* A count that fits is stored unchanged.
LEMMA Int8Exact ==
  ASSUME NEW x \in Int, -REF_HALF <= x, x < REF_HALF
  PROVE  Int8(x) = x
  BY SMTT(20), PageAssumption DEF Int8

\* So is one from which references are dropped.
LEMMA DroppedRange ==
  ASSUME NEW r \in Int, NEW n \in Nat
  PROVE  Dropped(r, n) \in -REF_HALF .. REF_HALF - 1
<1>1. Int8(r - n) \in -REF_HALF .. REF_HALF - 1
  BY SMTT(20), Int8Range
<1>2. 0 \in -REF_HALF .. REF_HALF - 1
  BY SMTT(20), PageAssumption
<1>3. QED
  BY <1>1, <1>2 DEF Dropped

\* Nothing is dropped from a count that lost no reference.
LEMMA DroppedNone ==
  ASSUME NEW r \in -REF_HALF .. REF_HALF - 1
  PROVE  Dropped(r, 0) = r
<1>1. r \in Int /\ Int8(r) = r /\ r - 0 = r
  BY SMTT(20), Int8Exact, PageAssumption
<1>2. r % (2 * REF_HALF) <= 0 => r = 0
  BY SMTT(20), PageAssumption
<1>3. QED
  BY <1>1, <1>2 DEF Dropped

\* One is dropped from a positive count.
LEMMA DroppedOne ==
  ASSUME NEW r \in 1 .. REF_HALF - 1
  PROVE  Dropped(r, 1) = r - 1
<1>1. Int8(r - 1) = r - 1 /\ r % (2 * REF_HALF) = r
  BY SMTT(20), Int8Exact, PageAssumption
<1>2. r <= 1 => 0 = r - 1
  BY SMTT(20)
<1>3. QED
  BY <1>1, <1>2 DEF Dropped

-----------------------------------------------------------------------------
(* First-fit allocation *)

\* The purposes of an allocation: page tables and virtual pages.
Slots == -NTABLES .. VA_LIMIT

\* They are finitely many integers.
LEMMA SlotsFinite ==
  ASSUME NEW S \in SUBSET Slots
  PROVE  IsFiniteSet(S) /\ S \subseteq Int
<1>1. IsFiniteSet(Slots)
  BY SMTT(20), FS_Interval, LayoutAssumption DEF Slots
<1>2. IsFiniteSet(S)
  BY <1>1, FS_Subset
<1>3. QED
  BY SMTT(20), <1>2, LayoutAssumption DEF Slots

\* Two members of a finite set of integers have different ranks.
LEMMA RankInjective ==
  ASSUME NEW S \in SUBSET Int, IsFiniteSet(S),
         NEW s \in S, NEW t \in S, Rank(S, s) = Rank(S, t)
  PROVE  s = t
<1>1. ASSUME NEW x \in S, NEW y \in S, x < y PROVE Rank(S, x) # Rank(S, y)
  <2> DEFINE A == {z \in S : z < x}
             B == {z \in S : z < y}
  <2>1. A \in SUBSET B
    <3>1. \A z \in S : z < x => z < y
      BY SMTT(20), <1>1
    <3>2. QED
      BY <3>1
  <2>2. IsFiniteSet(B)
    BY FS_Subset
  <2>3. Cardinality(A) = Cardinality(B) => A = B
    BY <2>1, <2>2, FS_Subset
  <2>4. x \in B /\ x \notin A
    BY SMTT(20), <1>1
  <2>5. Cardinality(A) # Cardinality(B)
    BY <2>3, <2>4
  <2>6. QED
    BY <2>5 DEF Rank
<1>2. QED
  BY SMTT(20), <1>1

\* alloc_page_process(): every purpose gets a free page or NULL, and no page
\* is handed out for two purposes.
LEMMA AllocateSound ==
  ASSUME NEW info, NEW S \in SUBSET Slots
  PROVE  /\ Allocate(info, S) \in [S -> Pages]
         /\ \A s \in S : \/ Allocate(info, S)[s] = NULL
                         \/ Allocate(info, S)[s] \in FreePages(info)
         /\ \A s, t \in S :
              Allocate(info, S)[s] = Allocate(info, S)[t]
                /\ Allocate(info, S)[s] # NULL => s = t
<1> DEFINE free == FreePages(info)
           Fits(s) == {pn \in free : Rank(free, pn) = Rank(S, s)}
           got == Allocate(info, S)
<1>1. got = [s \in S |-> IF Fits(s) = {} THEN NULL ELSE CHOOSE pn \in Fits(s) : TRUE]
  BY DEF Allocate
<1>2. free \subseteq Pages /\ NULL \in Pages /\ NULL \notin free
  BY SMTT(20), PageAssumption DEF FreePages, Pages, NULL
<1>3. \A s \in S : got[s] = NULL \/ got[s] \in Fits(s)
  BY <1>1
<1>4. \A s \in S : got[s] = NULL \/ (got[s] \in free /\ Rank(free, got[s]) = Rank(S, s))
  BY <1>3
<1>5. got \in [S -> Pages]
  BY <1>1, <1>2, <1>4
<1>6. ASSUME NEW s \in S, NEW t \in S, got[s] = got[t], got[s] # NULL
      PROVE  s = t
  BY SMTT(20), <1>4, <1>6, SlotsFinite, RankInjective
<1>7. QED
  BY <1>4, <1>5, <1>6

\* assign_physical_page() stores a pid and the count 1.
LEMMA AssignType ==
  ASSUME NEW info \in PageInfos,
         NEW got, NEW o \in Procs
  PROVE  Assign(info, got, o) \in PageInfos
  BY SMTT(20), LayoutAssumption, PageAssumption DEF Assign, Info, Procs, PageInfos

\* A nonempty finite set of integers has a greatest member: the members above
\* some member form a minimal set, and that set is empty.
LEMMA FiniteMax ==
  ASSUME NEW S \in SUBSET Int, IsFiniteSet(S), S # {}
  PROVE  \E x \in S : \A y \in S : y <= x
<1> DEFINE Above(v) == {w \in S : w > v}
           T == {Above(v) : v \in S}
<1>1. T \subseteq FiniteSubsetsOf(S) /\ T # {}
  <2>1. \A v \in S : Above(v) \in SUBSET S
    OBVIOUS
  <2>2. \A v \in S : IsFiniteSet(Above(v))
    BY <2>1, FS_Subset
  <2>3. \A v \in S : Above(v) \in FiniteSubsetsOf(S)
    BY <2>1, <2>2 DEF FiniteSubsetsOf
  <2> HIDE DEF Above
  <2>4. QED
    BY <2>3
<1>2. \E X \in T : \A Y \in T : ~(<<Y, X>> \in StrictSubsetOrdering(S))
  BY <1>1, FS_StrictSubsetOrderingWellFounded, WFMin
<1>3. PICK x \in S : \A y \in S : ~(<<Above(y), Above(x)>> \in StrictSubsetOrdering(S))
  BY <1>2
<1>4. ASSUME NEW y \in S, y > x PROVE FALSE
  <2>1. ~(y > y) /\ \A z \in S : z > y => z > x
    BY SMTT(20), <1>4
  <2>2. Above(y) \subseteq Above(x)
    BY <2>1
  <2>3. y \in Above(x) /\ y \notin Above(y)
    BY <1>4, <2>1
  <2>4. <<Above(y), Above(x)>> \in StrictSubsetOrdering(S)
    BY <2>2, <2>3 DEF StrictSubsetOrdering
  <2>5. QED
    BY <1>3, <2>4
<1>5. QED
  BY SMTT(20), <1>4

\* It has a least member.
LEMMA FiniteMin ==
  ASSUME NEW S \in SUBSET Int, IsFiniteSet(S), S # {}
  PROVE  \E x \in S : \A y \in S : x <= y
<1> DEFINE f == [x \in S |-> -x]
           N == {-x : x \in S}
<1>1. f \in Surjection(S, N)
  BY DEF Surjection
<1>2. IsFiniteSet(N)
  BY <1>1, FS_Surjection
<1>3. N \in SUBSET Int /\ N # {}
  <2>1. \A x \in S : -x \in Int
    BY SMTT(20)
  <2>2. QED
    BY <2>1
<1>4. PICK n \in N : \A y \in N : y <= n
  BY <1>2, <1>3, FiniteMax
<1>5. PICK x \in S : n = -x
  BY <1>4
<1>6. ASSUME NEW y \in S PROVE x <= y
  <2>1. -y <= -x
    BY <1>4, <1>5
  <2>2. QED
    BY SMTT(20), <2>1
<1>7. QED
  BY <1>6

\* No rank is left out below the rank of a member.
LEMMA RankOnto ==
  ASSUME NEW F \in SUBSET Int, IsFiniteSet(F), NEW p \in F,
         NEW k \in Nat, k <= Rank(F, p)
  PROVE  \E q \in F : Rank(F, q) = k
<1> DEFINE U == {q \in F : k <= Rank(F, q)}
           Under(q) == {z \in F : z < q}
<1>r. \A q \in F : /\ IsFiniteSet(Under(q)) /\ Under(q) \in SUBSET Int
                   /\ Rank(F, q) = Cardinality(Under(q)) /\ Rank(F, q) \in Nat
  <2> SUFFICES ASSUME NEW q \in F
               PROVE  /\ IsFiniteSet(Under(q)) /\ Under(q) \in SUBSET Int
                      /\ Rank(F, q) = Cardinality(Under(q)) /\ Rank(F, q) \in Nat
    OBVIOUS
  <2>1. Under(q) \in SUBSET F
    OBVIOUS
  <2>2. IsFiniteSet(Under(q))
    BY <2>1, FS_Subset
  <2>3. Rank(F, q) = Cardinality(Under(q))
    BY DEF Rank
  <2> HIDE DEF Under
  <2>4. QED
    BY <2>1, <2>2, <2>3, FS_CardinalityType
<1>1. PICK m \in U : \A y \in U : m <= y
  <2>1. U \in SUBSET F /\ U # {}
    OBVIOUS
  <2>2. IsFiniteSet(U) /\ U \in SUBSET Int
    BY <2>1, FS_Subset
  <2> HIDE DEF U
  <2>3. QED
    BY <2>1, <2>2, FiniteMin
<1>2. CASE Under(m) = {}
  <2>1. Rank(F, m) = 0
    BY <1>2, <1>r, FS_EmptySet
  <2>2. Rank(F, m) = k
    BY SMTT(20), <2>1, <1>1
  <2>3. QED
    BY <2>2
<1>3. CASE Under(m) # {}
  <2>1. PICK y \in Under(m) : \A z \in Under(m) : z <= y
    BY <1>3, <1>r, FiniteMax
  <2>2. y \in F /\ y < m /\ y \notin U
    BY SMTT(20), <2>1, <1>1
  <2>3. Under(m) = Under(y) \cup {y} /\ y \notin Under(y)
    <3>1. m \in Int /\ y \in Int /\ ~(y < y)
      BY SMTT(20), <1>1, <2>2
    <3>2. ASSUME NEW z \in F PROVE z < m <=> z < y \/ z = y
      <4>1. z < m => z <= y
        BY <2>1
      <4>2. QED
        BY SMTT(20), <2>2, <3>1, <4>1
    <3>3. QED
      BY <2>2, <3>1, <3>2
  <2>4. Cardinality(Under(m)) = Cardinality(Under(y)) + 1
    BY <2>2, <2>3, <1>r, FS_AddElement
  <2>5. Rank(F, m) = Rank(F, y) + 1
    BY <2>2, <2>4, <1>r
  <2>6. ~(k <= Rank(F, y)) /\ k <= Rank(F, m)
    BY <2>2
  <2>7. Rank(F, m) = k
    <3>1. Rank(F, y) \in Nat /\ Rank(F, m) \in Nat
      BY <2>2, <1>r
    <3>2. QED
      BY SMTT(20), <2>5, <2>6, <3>1
  <2>8. QED
    BY <2>7
<1>4. QED
  BY <1>2, <1>3

\* Once memory has run out, the remaining purposes get none.
LEMMA AllocateInOrder ==
  ASSUME NEW info, NEW S \in SUBSET Slots, NEW s \in S, NEW t \in S, s < t,
         Allocate(info, S)[s] = NULL
  PROVE  Allocate(info, S)[t] = NULL
<1> SUFFICES ASSUME Allocate(info, S)[t] # NULL PROVE FALSE
  OBVIOUS
<1> DEFINE free == FreePages(info)
           Fits(u) == {pn \in free : Rank(free, pn) = Rank(S, u)}
           got == Allocate(info, S)
<1>1. got = [u \in S |-> IF Fits(u) = {} THEN NULL ELSE CHOOSE pn \in Fits(u) : TRUE]
  BY DEF Allocate
<1>2. PICK p \in free : Rank(free, p) = Rank(S, t)
  BY <1>1
<1>3. IsFiniteSet(free) /\ free \in SUBSET Int /\ NULL \notin free
  <2>1. free \in SUBSET (1 .. NPAGES - 1) /\ 1 .. NPAGES - 1 \subseteq Int /\ NULL \notin free
    BY SMTT(20), PageAssumption DEF FreePages, NULL
  <2>2. IsFiniteSet(1 .. NPAGES - 1)
    BY SMTT(20), FS_Interval, PageAssumption
  <2>3. QED
    BY <2>1, <2>2, FS_Subset
<1>4. Rank(S, s) \in Nat /\ Rank(S, s) <= Rank(S, t)
  <2> DEFINE A == {z \in S : z < s}
             B == {z \in S : z < t}
  <2>1. IsFiniteSet(S) /\ S \subseteq Int
    BY SlotsFinite
  <2>2. A \in SUBSET B /\ B \in SUBSET S
    <3>1. \A z \in S : z < s => z < t
      BY SMTT(20), <2>1
    <3>2. QED
      BY <3>1
  <2>3. IsFiniteSet(B)
    BY <2>1, <2>2, FS_Subset
  <2>4. IsFiniteSet(A) /\ Cardinality(A) <= Cardinality(B)
    BY <2>2, <2>3, FS_Subset
  <2>5. Rank(S, s) = Cardinality(A) /\ Rank(S, t) = Cardinality(B)
    BY DEF Rank
  <2> HIDE DEF A, B
  <2>6. QED
    BY <2>4, <2>5, FS_CardinalityType
<1>5. PICK q \in free : Rank(free, q) = Rank(S, s)
  <2> HIDE DEF free
  <2>1. Rank(S, s) <= Rank(free, p)
    BY <1>2, <1>4
  <2>2. QED
    BY <1>3, <1>4, <2>1, RankOnto
<1>6. got[s] \in Fits(s)
  BY <1>1, <1>5
<1>7. QED
  BY <1>3, <1>6

-----------------------------------------------------------------------------
(* Boot *)

\* The initial state, and what a reboot makes of any state.
Fresh ==
  /\ pageinfo = pageinfo_init
  /\ p_state = [p \in Procs |-> "P_FREE"]
  /\ p_tables = [p \in Procs |-> NoTables]
  /\ space = [p \in Procs |-> NoSpace]
  /\ rax = [p \in Procs |-> 0]
  /\ mode = "boot"
  /\ setup \subseteq Procs \ {0}
  /\ current \in Procs
  /\ mem \in [Pages -> Vals]

\* It is well typed.
LEMMA FreshTInv == Fresh => TInv
<1> SUFFICES ASSUME Fresh PROVE TInv
  OBVIOUS
<1>1. pageinfo_init \in PageInfos
  BY SMTT(20), LayoutAssumption, PageAssumption
  DEF pageinfo_init, Info, PO_FREE, PO_RESERVED, PO_KERNEL, PageInfos
<1>2. NoTables \in [Tables -> Pages]
  BY PageAssumption DEF NoTables, NULL, Pages
<1>3. NoSpace \in [VPages -> Mappings]
  BY DEF NoSpace, Unmapped, Map, Mappings
<1>4. TypeOK
  BY SMTT(20), <1>1, <1>2, <1>3, LayoutAssumption DEF TypeOK, Modes, Fresh
<1>5. ProcessesSane /\ SpacesSane
  BY SMTT(20), LayoutAssumption DEF ProcessesSane, SpacesSane, Live, Procs, Fresh
<1>6. QED
  BY <1>4, <1>5 DEF TInv

\* A boot leads to such a state.
LEMMA InitFresh == Init => Fresh
  BY SMTT(20), LayoutAssumption, PageAssumption DEF Init, Fresh, Procs

\* So does a soft reboot or a reset.
LEMMA BootFresh ==
  ASSUME TInv, Reboot \/ Reset
  PROVE  Fresh'
<1>1. PICK command : Boot(command)
  BY DEF Reboot, Reset
<1>2. Loaded(command) \in 0 .. NPROC - 1
  BY SMTT(20), LayoutAssumption DEF Loaded
<1>3. setup' \subseteq Procs \ {0}
  BY SMTT(20), <1>1, <1>2, LayoutAssumption DEF Boot, Procs
<1>4. mem' \in [Pages -> Vals]
  BY <1>1, LayoutAssumption DEF Boot, TInv, TypeOK
<1>5. QED
  BY <1>1, <1>3, <1>4 DEF Boot, Fresh, TInv, TypeOK

\* The purposes process_setup() allocates for.
Image == Tables \cup TextPages \cup DataPages

\* Every purpose process_setup() and fork allocate for is a slot.
LEMMA ImageSlots ==
  /\ Image \cup {STACK} \in SUBSET Slots
  /\ Tables \in SUBSET Slots
  /\ UserVA \subseteq VPages /\ VPages \in SUBSET Slots /\ VPages \cap Tables = {}
  /\ \A v \in UserVA : v >= PROC_START
  /\ STACK \in UserVA
  BY SMTT(20), LayoutAssumption DEF Image, STACK, Slots, Tables, UserVA, VPages

\* The address space of a loaded process consists of the kernel's half, the
\* new pages, and nothing else.
LEMMA LoadedSpaceSound ==
  ASSUME NEW got \in [Image \cup {STACK} -> Pages],
         \A s \in Image : got[s] # NULL,
         NEW v \in VPages
  PROVE  /\ LoadedSpace(got)[v] \in Mappings
         /\ SaneMapping(v, LoadedSpace(got)[v])
         /\ \/ v < PROC_START /\ LoadedSpace(got)[v] = KernelHalf(v)
            \/ v >= PROC_START /\ LoadedSpace(got)[v] = Unmapped
            \/ /\ v \in UserVA /\ v \in Image \cup {STACK} /\ got[v] # NULL
               /\ \/ LoadedSpace(got)[v] = Map(got[v], PTE_RW)
                  \/ LoadedSpace(got)[v] = Map(got[v], PTE_RO)
<1> DEFINE m == LoadedSpace(got)[v]
<1>1. CASE v < PROC_START
  <2>1. m = KernelHalf(v)
    BY <1>1 DEF LoadedSpace
  <2>2. v \in Pages
    BY SMTT(20), <1>1, LayoutAssumption, PageAssumption DEF Pages, VPages
  <2>3. QED
    BY SMTT(20), <1>1, <2>1, <2>2 DEF KernelHalf, Map, Mappings, PTE_RW, SaneMapping
<1>2. CASE v >= PROC_START /\ v \in TextPages
  <2>1. m = Map(got[v], PTE_RO) /\ v \in Image /\ v \in UserVA
    BY SMTT(20), <1>2, LayoutAssumption DEF LoadedSpace, Image, VPages
  <2>2. got[v] \in Pages /\ got[v] \notin {-1, NULL}
    BY SMTT(20), <2>1, PageAssumption DEF Pages
  <2>3. QED
    BY SMTT(20), <2>1, <2>2 DEF Map, Mappings, PTE_RO, PTE_RW, SaneMapping
<1>3. CASE v >= PROC_START /\ v \notin TextPages
             /\ (v \in DataPages \/ (v = STACK /\ got[v] # NULL))
  <2>1. m = Map(got[v], PTE_RW) /\ v \in Image \cup {STACK} /\ v \in UserVA /\ got[v] # NULL
    BY SMTT(20), <1>3, LayoutAssumption, ImageSlots DEF LoadedSpace, Image, VPages
  <2>2. got[v] \in Pages /\ got[v] # -1
    BY SMTT(20), <2>1, PageAssumption DEF Pages
  <2>3. QED
    BY SMTT(20), <1>3, <2>1, <2>2 DEF Map, Mappings, PTE_RW, SaneMapping
<1>4. CASE v >= PROC_START /\ v \notin TextPages
             /\ ~(v \in DataPages \/ (v = STACK /\ got[v] # NULL))
  BY SMTT(20), <1>4, LayoutAssumption DEF LoadedSpace, VPages, Unmapped, Map, Mappings, SaneMapping
<1>5. QED
  BY SMTT(20), <1>1, <1>2, <1>3, <1>4, LayoutAssumption DEF VPages

\* run() leaves the kernel in user mode only with a runnable process.
LEMMA RunSane ==
  ASSUME NEW p \in Procs, run(p)
  PROVE  /\ current' \in Procs
         /\ mode' \in Modes \ {"boot"}
         /\ mode' = "user" => p_state'[current'] = "P_RUNNABLE"
  BY DEF run, Modes

\* So does schedule().
LEMMA ScheduleSane ==
  ASSUME current \in Procs, schedule
  PROVE  /\ current' \in Procs
         /\ mode' \in Modes \ {"boot"}
         /\ mode' = "user" => p_state'[current'] = "P_RUNNABLE"
<1>1. CASE \E q \in Procs : run(q)
  BY <1>1, RunSane
<1>2. CASE mode' = "idle" /\ current' = current
  BY <1>2 DEF Modes
<1>3. QED
  BY <1>1, <1>2 DEF schedule

\* What a handler leaves behind when it neither sets up nor frees a process
\* nor changes a page table.
Quiet ==
  /\ UNCHANGED <<p_tables, space, setup>>
  /\ p_state' \in [Procs -> {"P_FREE", "P_RUNNABLE", "P_BROKEN"}]
  /\ \A p \in Procs : Live(p)' <=> Live(p)
  /\ rax' \in [Procs -> -1 .. NPROC - 1]
  /\ mem' \in [Pages -> Vals]
  /\ current' \in Procs
  /\ mode' \in Modes \ {"boot"}
  /\ mode' = "user" => p_state'[current'] = "P_RUNNABLE"

\* Such a handler keeps the types if it keeps pageinfo[]'s.
LEMMA QuietTInv ==
  ASSUME TInv, Quiet,
         pageinfo' \in PageInfos
  PROVE  TInv'
<1>1. TypeOK'
  BY DEF TInv, TypeOK, Quiet
<1>2. ProcessesSane'
  BY SMTT(20), LayoutAssumption DEF TInv, ProcessesSane, Quiet, Procs
<1>3. SpacesSane'
  BY DEF TInv, SpacesSane, Quiet
<1>4. QED
  BY <1>1, <1>2, <1>3 DEF TInv

\* process_setup() keeps the types.
LEMMA ProcessSetupTInv ==
  ASSUME TInv, NEW p \in Procs, ProcessSetup(p)
  PROVE  TInv'
<1> DEFINE got == Allocate(pageinfo, Image \cup {STACK})
<1>t. TypeOK
  BY DEF TInv
<1>a. got \in [Image \cup {STACK} -> Pages]
  BY ImageSlots, AllocateSound
<1>1. pageinfo' \in PageInfos
  <2>1. pageinfo' = Assign(pageinfo, got, p)
    BY DEF ProcessSetup, Image
  <2>2. QED
    BY <2>1, <1>t, AssignType DEF TypeOK
<1>2. mem' \in [Pages -> Vals]
  BY <1>t, LayoutAssumption DEF ProcessSetup, TypeOK
<1>3. mode = "boot" /\ p \in setup /\ UNCHANGED <<rax, current>>
  BY DEF ProcessSetup
<1>4. CASE \E s \in Image : got[s] = NULL
  <2>1. mode' = "panic" /\ UNCHANGED <<p_state, p_tables, space, setup>>
    BY <1>4 DEF ProcessSetup, Image
  <2>2. Quiet
    BY <1>t, <1>2, <1>3, <2>1 DEF Quiet, TypeOK, Live, Modes
  <2>3. QED
    BY <2>2, <1>1, QuietTInv
<1>5. CASE \A s \in Image : got[s] # NULL
  <2>1. /\ p_state' = [p_state EXCEPT ![p] = "P_RUNNABLE"]
        /\ p_tables' = [p_tables EXCEPT ![p] = [t \in Tables |-> got[t]]]
        /\ space' = [space EXCEPT ![p] = LoadedSpace(got)]
        /\ setup' = setup \ {p}
        /\ mode' = mode
    BY <1>5 DEF ProcessSetup, Image
  <2>2. LoadedSpace(got) \in [VPages -> Mappings]
    BY <1>a, <1>5, LoadedSpaceSound DEF LoadedSpace
  <2>3. [t \in Tables |-> got[t]] \in [Tables -> Pages]
    BY <1>a DEF Image
  <2>4. TypeOK'
    BY <1>1, <1>2, <1>3, <1>t, <2>1, <2>2, <2>3 DEF TypeOK
  <2>5. ProcessesSane'
    BY SMTT(20), <1>3, <1>t, <2>1, LayoutAssumption DEF TInv, TypeOK, ProcessesSane, Live, Procs
  <2>6. SpacesSane'
    <3> SUFFICES ASSUME NEW q \in Procs, Live(q)'
                 PROVE  /\ \A t \in Tables : p_tables'[q][t] # NULL
                        /\ \A v \in VPages : SaneMapping(v, space'[q][v])
      BY DEF SpacesSane
    <3>1. CASE q = p
      <4>1. space'[q] = LoadedSpace(got) /\ p_tables'[q] = [t \in Tables |-> got[t]]
        BY <3>1, <2>1, <1>t DEF TypeOK
      <4>2. QED
        BY <4>1, <1>a, <1>5, LoadedSpaceSound DEF Image
    <3>2. CASE q # p
      <4>1. space'[q] = space[q] /\ p_tables'[q] = p_tables[q] /\ Live(q)
        BY <3>2, <2>1, <1>t DEF TypeOK, Live
      <4>2. QED
        BY <4>1 DEF TInv, SpacesSane
    <3>3. QED
      BY <3>1, <3>2
  <2>7. QED
    BY <2>4, <2>5, <2>6 DEF TInv
<1>6. QED
  BY <1>4, <1>5

-----------------------------------------------------------------------------
(* Handlers that leave page tables and pageinfo[] alone *)

\* Types of the registers a handler may leave.
LEMMA RaxType ==
  ASSUME TInv, NEW r \in -1 .. NPROC - 1
  PROVE  [rax EXCEPT ![current] = r] \in [Procs -> -1 .. NPROC - 1]
  BY DEF TInv, TypeOK

\* syscall_mapping() within a page writes that page, or nothing.
LEMMA PlainStore ==
  ASSUME NEW v, NEW x, StoreMapping(v, FALSE, x)
  PROVE  LET pn == space[current][v].pn
         IN  /\ \/ mem' = mem
                \/ /\ {"W", "U"} \subseteq space[current][v].perm
                   /\ mem' = [q \in Pages |-> IF q = pn THEN x ELSE mem[q]]
             /\ SavedRax
             /\ UNCHANGED <<pageinfo, p_state, p_tables, space, setup>>
             /\ run(current) \/ (mode' = "panic" /\ UNCHANGED current)
<1> DEFINE pn == space[current][v].pn
           ok == /\ {"W", "U"} \subseteq space[current][v].perm
                 /\ {"W", "P"} \subseteq Lookup(space[current], pn).perm
<1>1. /\ mem' = IF ok THEN [q \in Pages |-> IF q \in {pn, pn} THEN x ELSE mem[q]] ELSE mem
      /\ SavedRax
      /\ UNCHANGED <<pageinfo, p_state, p_tables, space, setup>>
      /\ IF ok /\ pn = NPAGES THEN mode' = "panic" /\ UNCHANGED current ELSE run(current)
  BY SMTT(20) DEF StoreMapping
<1>2. \A q : q \in {pn, pn} <=> q = pn
  OBVIOUS
<1>3. QED
  BY <1>1, <1>2

\* The actions that are quiet and leave pageinfo[] alone.
QuietAction ==
  \/ RunFirst \/ CheckFails \/ Panic \/ SysGetpid \/ Switch \/ PageFault
  \/ Enter /\ \E v \in VPages, x \in Vals : StoreMapping(v, FALSE, x)
  \/ \E v \in UserVA, x \in Vals : UserWrite(v, x)
  \/ Enter /\ ForkNoSlot
  \/ PowerOff

\* They are what their name says.
LEMMA QuietActions ==
  ASSUME TInv, QuietAction
  PROVE  Quiet /\ UNCHANGED pageinfo
<1>t. TypeOK
  BY DEF TInv
<1>0. 0 \in -1 .. NPROC - 1 /\ -1 \in -1 .. NPROC - 1 /\ current \in -1 .. NPROC - 1
  BY SMTT(20), <1>t, LayoutAssumption DEF TypeOK, Procs
<1>r. SavedRax => rax' \in [Procs -> -1 .. NPROC - 1]
  BY <1>0, RaxType DEF SavedRax
<1>1. CASE RunFirst
  <2>1. 1 \in Procs /\ run(1)
    BY SMTT(20), <1>1, LayoutAssumption DEF RunFirst, Procs
  <2>2. QED
    BY <1>1, <2>1, RunSane, <1>t DEF RunFirst, Quiet, TypeOK, Live
<1>2. CASE CheckFails
  BY <1>2, <1>r, <1>t DEF CheckFails, Quiet, TypeOK, Live, Modes
<1>3. CASE Panic
  BY <1>3, <1>r, <1>t DEF Panic, Quiet, TypeOK, Live, Modes
<1>4. CASE SysGetpid
  <2>1. rax' \in [Procs -> -1 .. NPROC - 1]
    BY <1>4, <1>0, RaxType DEF SysGetpid
  <2>2. QED
    BY <1>4, <2>1, RunSane, <1>t DEF SysGetpid, Quiet, TypeOK, Live
<1>5. CASE Switch
  BY <1>5, <1>r, ScheduleSane, <1>t DEF Switch, Quiet, TypeOK, Live
<1>6. CASE PageFault
  <2>1. Live(current)
    BY <1>6 DEF PageFault, Enter, TInv, ProcessesSane, Live
  <2>2. /\ p_state' = [p_state EXCEPT ![current] = "P_BROKEN"]
        /\ SavedRax /\ schedule
        /\ UNCHANGED <<pageinfo, p_tables, space, setup, mem>>
    BY <1>6 DEF PageFault
  <2>3. /\ p_state' \in [Procs -> {"P_FREE", "P_RUNNABLE", "P_BROKEN"}]
        /\ \A p \in Procs : Live(p)' <=> Live(p)
    BY <2>1, <2>2, <1>t DEF TypeOK, Live
  <2>4. QED
    BY <2>2, <2>3, <1>r, ScheduleSane, <1>t DEF Quiet, TypeOK
<1>7. CASE Enter /\ \E v \in VPages, x \in Vals : StoreMapping(v, FALSE, x)
  <2>1. PICK v \in VPages, x \in Vals : StoreMapping(v, FALSE, x)
    BY <1>7
  <2>2. mem' \in [Pages -> Vals]
    <3> DEFINE pn == space[current][v].pn
    <3>1. mem' = mem \/ mem' = [q \in Pages |-> IF q = pn THEN x ELSE mem[q]]
      BY <2>1, PlainStore
    <3>2. mem \in [Pages -> Vals]
      BY <1>t DEF TypeOK
    <3> HIDE DEF pn
    <3>3. QED
      BY <3>1, <3>2
  <2>3. \/ run(current)
        \/ mode' = "panic" /\ UNCHANGED current
    BY <2>1, PlainStore
  <2>4. /\ current' \in Procs
        /\ mode' \in Modes \ {"boot"}
        /\ mode' = "user" => p_state'[current'] = "P_RUNNABLE"
    BY <2>3, RunSane, <1>t DEF TypeOK, Modes
  <2>5. SavedRax /\ UNCHANGED <<pageinfo, p_state, p_tables, space, setup>>
    BY <2>1, PlainStore
  <2>6. QED
    BY <2>2, <2>4, <2>5, <1>r, <1>t DEF Quiet, TypeOK, Live
<1>8. CASE \E v \in UserVA, x \in Vals : UserWrite(v, x)
  BY <1>8, <1>t DEF UserWrite, Quiet, TypeOK, Live, TInv, ProcessesSane
<1>9. CASE Enter /\ ForkNoSlot
  <2>1. rax' \in [Procs -> -1 .. NPROC - 1]
    BY <1>9, <1>0, RaxType DEF ForkNoSlot
  <2>2. QED
    BY <1>9, <2>1, RunSane, <1>t DEF ForkNoSlot, Quiet, TypeOK, Live
<1>10. CASE PowerOff
  BY <1>10, <1>r, <1>t DEF PowerOff, Quiet, TypeOK, Live, Modes
<1>11. QED
  BY <1>1, <1>2, <1>3, <1>4, <1>5, <1>6, <1>7, <1>8, <1>9, <1>10 DEF QuietAction

-----------------------------------------------------------------------------
(* Handlers that change them *)

\* A call that does no damage maps a page, or fails, and no more.
LEMMA PlainAlloc ==
  ASSUME NEW a, PageAlloc(a), AddrKind(space[current], a) \notin Damaging
  PROVE  AllocAt(a)
  BY DEF PageAlloc, Damaging

\* sys_page_alloc() keeps the types.
LEMMA PageAllocTInv ==
  ASSUME TInv, Enter, NEW a \in Addresses, PageAlloc(a),
         AddrKind(space[current], a) \notin Damaging
  PROVE  TInv'
<1> DEFINE got == Allocate(pageinfo, {a.vpn})
           pn  == got[a.vpn]
           r   == IF pn = NULL \/ Below(a) THEN -1 ELSE 0
           maps == r = 0 /\ a.aligned /\ a.vpn < VA_LIMIT
<1>t. TypeOK /\ current \in Procs /\ AllocAt(a)
  BY PlainAlloc DEF TInv, TypeOK
<1>a. a.vpn \in 0 .. VA_LIMIT /\ {a.vpn} \in SUBSET Slots
  BY SMTT(20), LayoutAssumption DEF Addresses, Slots
<1>b. pn \in Pages
  BY SMTT(20), <1>a, AllocateSound
<1>1. pageinfo' \in PageInfos
  BY <1>t, AssignType DEF AllocAt, TypeOK
<1>2. /\ current' \in Procs
      /\ mode' \in Modes \ {"boot"}
      /\ mode' = "user" => p_state'[current'] = "P_RUNNABLE"
  <2>1. (mode' = "panic" /\ UNCHANGED current) \/ run(current)
    BY <1>t DEF AllocAt
  <2>2. QED
    BY <2>1, <1>t, RunSane DEF Modes
<1>3. rax' \in [Procs -> -1 .. NPROC - 1]
  <2>1. r \in -1 .. NPROC - 1 /\ 0 \in -1 .. NPROC - 1
    BY SMTT(20), LayoutAssumption
  <2>2. rax' = [rax EXCEPT ![current] = 0] \/ rax' = [rax EXCEPT ![current] = r]
    BY <1>t DEF AllocAt, SavedRax
  <2>3. QED
    BY <2>1, <2>2, RaxType
<1>4. UNCHANGED <<p_state, p_tables, setup, mem>>
  BY <1>t DEF AllocAt
<1>5. CASE ~maps
  <2>1. space' = space
    BY <1>5, <1>t DEF AllocAt
  <2>2. Quiet
    BY <1>2, <1>3, <1>4, <1>t, <2>1 DEF Quiet, TypeOK, Live
  <2>3. QED
    BY <2>2, <1>1, QuietTInv
<1>6. CASE maps
  <2>1. /\ space' = [space EXCEPT ![current][a.vpn] = Map(pn, PTE_RW)]
        /\ a.vpn \in VPages /\ a.vpn >= PROC_START
    <3>1. ~(a.vpn < PROC_START)
      BY SMTT(20), <1>6 DEF AddrKind, Damaging
    <3>2. QED
      BY SMTT(20), <1>6, <1>a, <1>t, <3>1, LayoutAssumption DEF AllocAt, VPages
  <2>2. Map(pn, PTE_RW) \in Mappings
    BY <1>b DEF Map, Mappings
  <2>3. space' \in [Procs -> [VPages -> Mappings]]
    BY <2>1, <2>2, <1>t DEF TypeOK
  <2>4. TypeOK'
    BY <1>1, <1>2, <1>3, <1>4, <1>t, <2>3 DEF TypeOK
  <2>5. ProcessesSane'
    BY <1>2, <1>4 DEF TInv, ProcessesSane, Live
  <2>6. \A p \in Procs, v \in VPages :
          space'[p][v] = IF p = current /\ v = a.vpn THEN Map(pn, PTE_RW) ELSE space[p][v]
    BY <2>1, <1>t DEF TypeOK
  <2>7. pn # -1
    BY SMTT(20), <1>b, PageAssumption DEF Pages
  <2>8. SpacesSane'
    <3>1. SaneMapping(a.vpn, Map(pn, PTE_RW))
      BY <2>1, <2>7 DEF SaneMapping, Map
    <3>2. QED
      BY <1>4, <2>6, <3>1 DEF TInv, SpacesSane, Live
  <2>9. QED
    BY <2>4, <2>5, <2>8 DEF TInv
<1>7. QED
  BY <1>5, <1>6

\* A fork that finds no memory for the page table keeps the types.
LEMMA ForkNoTablesTInv ==
  ASSUME TInv, Enter, NEW child \in Procs, ForkNoTables(child)
  PROVE  TInv'
<1>t. TypeOK
  BY DEF TInv
<1>1. pageinfo' \in PageInfos
  BY <1>t, AssignType DEF ForkNoTables, TypeOK
<1>2. mem' \in [Pages -> Vals]
  BY <1>t, LayoutAssumption DEF ForkNoTables, TypeOK
<1>3. rax' \in [Procs -> -1 .. NPROC - 1]
  BY SMTT(20), RaxType, LayoutAssumption DEF ForkNoTables
<1>4. Quiet
  BY <1>t, <1>2, <1>3 DEF ForkNoTables, Quiet, TypeOK, Live, Modes
<1>5. QED
  BY <1>1, <1>4, QuietTInv

\* The purposes fork allocates for; the running process is live and is not the
\* child.
LEMMA ForkSlots ==
  ASSUME TInv, Enter, NEW child \in Procs, ~Live(child)
  PROVE  /\ Tables \cup Copied(space[current]) \in SUBSET Slots
         /\ Copied(space[current]) \subseteq UserVA
         /\ current \in Procs /\ Live(current) /\ child # current
<1>1. current \in Procs /\ Live(current)
  BY DEF TInv, TypeOK, ProcessesSane, Enter, Live
<1>2. QED
  BY <1>1, ImageSlots DEF Copied

\* The pages it gets are pages.
LEMMA ForkPagesType ==
  ASSUME NEW sp, NEW S, S = Tables \cup Copied(sp), S \in SUBSET Slots,
         NEW got \in ForkPages(sp)
  PROVE  got \in [S -> Pages]
<1>1. Allocate(pageinfo, S) \in [S -> Pages]
  BY AllocateSound
<1>2. QED
  BY <1>1 DEF ForkPages

\* The contents fork writes are page contents.
LEMMA ForkMemType ==
  ASSUME TInv, NEW got, NEW sp, NEW val \in [Copied(sp) -> Vals]
  PROVE  ForkMem(got, val) \in [Pages -> Vals]
<1> SUFFICES ASSUME NEW pn \in Pages
             PROVE  HeldAt(got, val, MEMSIZE_VIRTUAL, pn) \in Vals
  BY DEF ForkMem
<1> DEFINE copies == {w \in DOMAIN val : w < MEMSIZE_VIRTUAL /\ got[w] = pn}
           last   == CHOOSE w \in copies : \A u \in copies : u <= w
<1>1. copies \subseteq Copied(sp) /\ copies \in SUBSET Slots
  BY ImageSlots DEF Copied
<1>2. ASSUME copies # {} PROVE val[last] \in Vals
  <2>1. \E x \in copies : \A y \in copies : y <= x
    BY <1>1, <1>2, SlotsFinite, FiniteMax
  <2>2. last \in copies
    BY <2>1
  <2>3. QED
    BY <1>1, <2>2
<1>3. 0 \in Vals /\ mem[pn] \in Vals
  BY LayoutAssumption DEF TInv, TypeOK
<1>4. HeldAt(got, val, MEMSIZE_VIRTUAL, pn) =
        IF copies # {} THEN val[last]
        ELSE IF \E t \in Tables : got[t] = pn THEN 0 ELSE mem[pn]
  BY DEF HeldAt
<1> HIDE DEF copies, last
<1>5. QED
  BY <1>2, <1>3, <1>4

\* The counts fork leaves are int8_t.
LEMMA CountType ==
  ASSUME TInv, NEW got, NEW sp, NEW s, NEW pn \in Pages
  PROVE  CountAt(got, sp, s, pn) \in -REF_HALF .. REF_HALF - 1
<1> DEFINE taken == {w \in DOMAIN got : w < s /\ got[w] = pn /\ pn # NULL}
           since == {v \in SharedAt(sp, pn) : v < s /\ \A w \in taken : w < v}
           from  == IF taken = {} THEN pageinfo[pn].refcount ELSE 1
<1>1. since \in SUBSET Slots
  BY ImageSlots DEF SharedAt
<1>2. Cardinality(since) \in Nat
  BY <1>1, SlotsFinite, FS_CardinalityType
<1>3. pageinfo[pn].refcount \in Int
  BY SMTT(20), PageAssumption DEF TInv, TypeOK, PageInfos
<1>4. CountAt(got, sp, s, pn) = Int8(from + Cardinality(since))
  BY DEF CountAt
<1> HIDE DEF since, taken
<1>5. from + Cardinality(since) \in Int
  BY SMTT(20), <1>2, <1>3
<1> HIDE DEF from
<1>6. QED
  BY <1>4, <1>5, Int8Range

\* A successful fork keeps the types.
LEMMA ForkCopyTInv ==
  ASSUME TInv, Enter, NEW child \in Procs \ {0}, ~Live(child), ForkCopy(child)
  PROVE  TInv'
<1> DEFINE sp  == space[current]
           S   == Tables \cup Copied(sp)
<1>p. PICK got \in ForkPages(sp), val \in [Copied(sp) -> Vals] : ForkInto(child, got, val)
  BY DEF ForkCopy
<1>t. TypeOK /\ current \in Procs /\ Live(current) /\ child # current
  BY ForkSlots DEF TInv
<1>a. S \in SUBSET Slots /\ Copied(sp) \subseteq UserVA
  BY ForkSlots
<1>b. got \in [S -> Pages]
  BY <1>a, ForkPagesType
<1>1. pageinfo' \in PageInfos
  <2> DEFINE new == Assign(pageinfo, got, child)
             count(pn) == CountAt(got, sp, MEMSIZE_VIRTUAL, pn)
  <2>1. new \in PageInfos
    BY <1>t, AssignType DEF TypeOK
  <2>2. pageinfo' = [pn \in Pages |-> [new[pn] EXCEPT !.refcount = count(pn)]]
    BY <1>p DEF ForkInto
  <2>3. \A pn \in Pages : count(pn) \in -REF_HALF .. REF_HALF - 1
    BY CountType
  <2> HIDE DEF new, count
  <2>4. QED
    BY <2>1, <2>2, <2>3 DEF PageInfos
<1>2. mem' \in [Pages -> Vals]
  <2>1. mem' = ForkMem(got, val)
    BY <1>p DEF ForkInto
  <2>2. QED
    BY <2>1, ForkMemType
<1>3. /\ p_state' = [p_state EXCEPT ![child] = "P_RUNNABLE"]
      /\ p_tables' = [p_tables EXCEPT ![child] = [t \in Tables |-> got[t]]]
      /\ space' = [space EXCEPT ![child] = ForkSpace(got)]
      /\ rax' = [rax EXCEPT ![child] = 0, ![current] = child]
      /\ setup' = setup
      /\ \A t \in Tables : got[t] # NULL
  BY <1>p DEF ForkInto
<1>4. /\ current' \in Procs
      /\ mode' \in Modes \ {"boot"}
      /\ mode' = "user" => p_state'[current'] = "P_RUNNABLE"
  BY <1>p, <1>t, RunSane DEF ForkInto
<1>5. rax' \in [Procs -> -1 .. NPROC - 1]
  <2>1. child \in -1 .. NPROC - 1 /\ 0 \in -1 .. NPROC - 1
    BY SMTT(20), LayoutAssumption DEF Procs
  <2>2. QED
    BY <1>3, <1>t, <2>1 DEF TypeOK
<1>6. \A v \in VPages : ForkSpace(got)[v] \in Mappings /\ SaneMapping(v, ForkSpace(got)[v])
  <2> SUFFICES ASSUME NEW v \in VPages
               PROVE  ForkSpace(got)[v] \in Mappings /\ SaneMapping(v, ForkSpace(got)[v])
    OBVIOUS
  <2>0. sp[v] \in Mappings /\ SaneMapping(v, sp[v])
    BY <1>t DEF TypeOK, TInv, SpacesSane
  <2>1. CASE v >= MEMSIZE_VIRTUAL
    <3>1. ForkSpace(got)[v] = Unmapped /\ v >= PROC_START
      BY SMTT(20), <2>1, LayoutAssumption DEF ForkSpace, VPages
    <3>2. QED
      BY SMTT(20), <3>1 DEF Unmapped, Map, Mappings, SaneMapping
  <2>2. CASE ~(v >= MEMSIZE_VIRTUAL) /\ v \in Copied(sp)
    <3>1. ForkSpace(got)[v] = Map(got[v], sp[v].perm)
      BY <2>2 DEF ForkSpace
    <3>2. got[v] \in Pages /\ got[v] # -1
      <4>1. got[v] \in Pages
        BY <2>2, <1>b
      <4>2. QED
        BY SMTT(20), <4>1, PageAssumption DEF Pages
    <3>3. v >= PROC_START /\ "W" \in sp[v].perm
      BY <2>2, ImageSlots DEF Copied, Writable
    <3>4. sp[v].perm = PTE_RW
      BY SMTT(20), <2>0, <3>3, LayoutAssumption DEF SaneMapping, Unmapped, Map, PTE_RO, VPages
    <3> DEFINE m == ForkSpace(got)[v]
    <3>5. m = [pn |-> got[v], perm |-> PTE_RW]
      BY <3>1, <3>4 DEF Map
    <3> HIDE DEF m
    <3>6. m \in Mappings /\ m.perm = PTE_RW /\ m.pn # -1
      BY <3>2, <3>5 DEF Mappings
    <3>7. m \in Mappings /\ SaneMapping(v, m)
      BY <3>3, <3>6 DEF SaneMapping
    <3>8. QED
      BY <3>7 DEF m
  <2>3. CASE ~(v >= MEMSIZE_VIRTUAL) /\ v \notin Copied(sp)
    BY <2>0, <2>3 DEF ForkSpace
  <2>4. QED
    BY <2>1, <2>2, <2>3
<1>7. TypeOK'
  <2>1. ForkSpace(got) \in [VPages -> Mappings]
    <3> DEFINE f == ForkSpace(got)
    <3>1. f = [v \in VPages |-> f[v]] /\ \A v \in VPages : f[v] \in Mappings
      BY <1>6 DEF ForkSpace
    <3> HIDE DEF f
    <3>2. f \in [VPages -> Mappings]
      BY <3>1
    <3>3. QED
      BY <3>2 DEF f
  <2>2. [t \in Tables |-> got[t]] \in [Tables -> Pages]
    BY <1>b
  <2>3. QED
    BY <1>1, <1>2, <1>3, <1>4, <1>5, <1>t, <2>1, <2>2 DEF TypeOK
<1>8. ProcessesSane'
  BY SMTT(20), <1>3, <1>4, <1>t DEF TInv, TypeOK, ProcessesSane, Live
<1>9. SpacesSane'
  <2> SUFFICES ASSUME NEW q \in Procs, Live(q)'
               PROVE  /\ \A t \in Tables : p_tables'[q][t] # NULL
                      /\ \A v \in VPages : SaneMapping(v, space'[q][v])
    BY DEF SpacesSane
  <2>1. CASE q = child
    <3>1. space'[q] = ForkSpace(got) /\ p_tables'[q] = [t \in Tables |-> got[t]]
      BY <2>1, <1>3, <1>t DEF TypeOK
    <3>2. QED
      BY <3>1, <1>3, <1>6
  <2>2. CASE q # child
    <3>1. space'[q] = space[q] /\ p_tables'[q] = p_tables[q] /\ Live(q)
      BY <2>2, <1>3, <1>t DEF TypeOK, Live
    <3>2. QED
      BY <3>1 DEF TInv, SpacesSane
  <2>3. QED
    BY <2>1, <2>2
<1>10. QED
  BY <1>7, <1>8, <1>9 DEF TInv

\* exit keeps the types.
LEMMA ExitTInv ==
  ASSUME TInv, SysExit
  PROVE  TInv'
<1>t. TypeOK /\ current \in Procs /\ Live(current)
  BY DEF TInv, TypeOK, ProcessesSane, SysExit, Enter, Live
<1>1. /\ pageinfo' = [pn \in Pages |-> ExitInfo(pn)]
      /\ p_state' = [p_state EXCEPT ![current] = "P_FREE"]
      /\ p_tables' = [p_tables EXCEPT ![current] = NoTables]
      /\ space' = [space EXCEPT ![current] = NoSpace]
      /\ UNCHANGED <<setup, mem>>
  BY DEF SysExit
<1>2. /\ current' \in Procs
      /\ mode' \in Modes \ {"boot"}
      /\ mode' = "user" => p_state'[current'] = "P_RUNNABLE"
  BY <1>t, ScheduleSane DEF SysExit
<1>3. \A pn \in Pages : ExitInfo(pn) \in [owner : -2 .. NPROC - 1,
                                          refcount : -REF_HALF .. REF_HALF - 1]
  <2> SUFFICES ASSUME NEW pn \in Pages
               PROVE  ExitInfo(pn) \in [owner : -2 .. NPROC - 1,
                                        refcount : -REF_HALF .. REF_HALF - 1]
    OBVIOUS
  <2> DEFINE ro == {v \in UserVA : space[current][v].pn = pn /\ ~Writable(space[current], v)}
  <2>1. pageinfo[pn] \in [owner : -2 .. NPROC - 1, refcount : -REF_HALF .. REF_HALF - 1]
    BY <1>t DEF TypeOK, PageInfos
  <2>2. Info(PO_FREE, 0) \in [owner : -2 .. NPROC - 1, refcount : -REF_HALF .. REF_HALF - 1]
    BY SMTT(20), LayoutAssumption, PageAssumption DEF Info, PO_FREE
  <2>3. ro \in SUBSET Slots
    BY ImageSlots
  <2>4. Cardinality(ro) \in Nat
    BY <2>3, SlotsFinite, FS_CardinalityType
  <2>5. Dropped(pageinfo[pn].refcount, Cardinality(ro)) \in -REF_HALF .. REF_HALF - 1
    <3>1. pageinfo[pn].refcount \in Int
      BY SMTT(20), <2>1, PageAssumption
    <3>2. QED
      BY <2>4, <3>1, DroppedRange
  <2>6. \/ ExitInfo(pn) = Info(PO_FREE, 0)
        \/ ExitInfo(pn) = pageinfo[pn]
        \/ ExitInfo(pn) = [pageinfo[pn] EXCEPT !.refcount =
                             Dropped(pageinfo[pn].refcount, Cardinality(ro))]
    BY DEF ExitInfo
  <2> HIDE DEF ro
  <2>7. QED
    BY <2>1, <2>2, <2>5, <2>6
<1>4. TypeOK'
  <2>1. pageinfo' \in PageInfos
    BY <1>1, <1>3 DEF PageInfos
  <2>2. NoTables \in [Tables -> Pages] /\ NoSpace \in [VPages -> Mappings]
    BY PageAssumption DEF NoTables, NoSpace, Unmapped, Map, Mappings, NULL, Pages
  <2>3. rax' \in [Procs -> -1 .. NPROC - 1]
    BY SMTT(20), RaxType, LayoutAssumption DEF SysExit, SavedRax
  <2>4. QED
    BY <1>1, <1>2, <1>t, <2>1, <2>2, <2>3 DEF TypeOK
<1>5. ProcessesSane'
  BY SMTT(20), <1>1, <1>2, <1>t DEF TInv, TypeOK, ProcessesSane, Live
<1>6. SpacesSane'
  <2>1. \A q \in Procs : Live(q)' =>
          Live(q) /\ space'[q] = space[q] /\ p_tables'[q] = p_tables[q]
    BY <1>1, <1>t DEF TypeOK, Live
  <2>2. QED
    BY <2>1 DEF TInv, SpacesSane
<1>7. QED
  BY <1>4, <1>5, <1>6 DEF TInv

-----------------------------------------------------------------------------
(* The theorem *)

\* The steps of programs that make none of the damaging calls.
CalmStep ==
  \/ \E p \in Procs : ProcessSetup(p)
  \/ QuietAction
  \/ Enter /\ \E a \in Addresses :
       AddrKind(space[current], a) \notin Damaging /\ PageAlloc(a)
  \/ SysFork \/ SysExit \/ Reboot \/ Reset \/ Off
  \/ UNCHANGED vars

\* Such programs take no other step.
LEMMA NextCalm ==
  ASSUME UserCalls \cap Damaging = {}, [Next]_vars
  PROVE  CalmStep
<1>1. ASSUME NEW a, PageAlloc(a) PROVE AddrKind(space[current], a) \notin Damaging
  <2>1. AddrKind(space[current], a) \in UserCalls \cup {"fresh"} /\ "fresh" \notin Damaging
    BY <1>1 DEF PageAlloc, Damaging
  <2>2. QED
    BY <2>1
<1>2. ASSUME NEW v, NEW straddles \in BOOLEAN, NEW x, StoreMapping(v, straddles, x)
      PROVE  straddles = FALSE
  <2>1. "map_straddle" \notin UserCalls
    BY DEF Damaging
  <2>2. QED
    BY SMTT(20), <1>2, <2>1 DEF StoreMapping
<1>3. QED
  BY <1>1, <1>2 DEF CalmStep, QuietAction, Next, SysPageAlloc, SysMapping

\* Every such step keeps the strengthened type invariant.
LEMMA TInvNext == TInv /\ CalmStep => TInv'
<1> SUFFICES ASSUME TInv, CalmStep PROVE TInv'
  OBVIOUS
<1>1. ASSUME NEW p \in Procs, ProcessSetup(p) PROVE TInv'
  BY <1>1, ProcessSetupTInv
<1>2. CASE QuietAction
  BY <1>2, QuietActions, QuietTInv DEF TInv, TypeOK
<1>3. CASE Enter /\ \E a \in Addresses :
             AddrKind(space[current], a) \notin Damaging /\ PageAlloc(a)
  BY <1>3, PageAllocTInv
<1>4. CASE SysFork
  <2>1. CASE Enter /\ ForkNoSlot
    BY <2>1, <1>2 DEF QuietAction
  <2>2. ASSUME Enter, NEW child \in Procs \ {0}, ~Live(child), ForkNoTables(child)
        PROVE  TInv'
    BY <2>2, ForkNoTablesTInv
  <2>3. ASSUME Enter, NEW child \in Procs \ {0}, ~Live(child), ForkCopy(child)
        PROVE  TInv'
    BY <2>3, ForkCopyTInv
  <2>4. QED
    BY <1>4, <2>1, <2>2, <2>3 DEF SysFork
<1>5. CASE SysExit
  BY <1>5, ExitTInv
<1>6. CASE Reboot \/ Reset
  <2>1. Fresh'
    BY <1>6, BootFresh
  <2>2. QED
    BY <2>1, FreshTInv, PTL
<1>7. CASE Off \/ UNCHANGED vars
  <2>1. UNCHANGED vars
    BY <1>7 DEF Off
  <2>2. QED
    BY <2>1 DEF vars, TInv, TypeOK, ProcessesSane, SpacesSane, Live
<1>8. QED
  BY <1>1, <1>2, <1>3, <1>4, <1>5, <1>6, <1>7 DEF CalmStep

\* The variables keep their C types if the programs make none of the damaging
\* calls: pageinfo[] is never indexed outside the array, reference counts stay in
\* int8_t, and a successful call returns a pid.
THEOREM TypeCorrect ==
  ASSUME UserCalls \cap Damaging = {}
  PROVE  Spec => []TypeOK
<1>1. Init => TInv
  BY InitFresh, FreshTInv
<1>2. TInv => TypeOK
  BY DEF TInv
<1>3. TInv /\ [Next]_vars => TInv'
  BY TInvNext, NextCalm
<1>4. QED
  BY <1>1, <1>2, <1>3, PTL DEF Spec

-----------------------------------------------------------------------------
(* The refinement needs to know how far kernel() is in its loop *)

\* kernel() sets the processes up from the first on, leaving none out.
BootOrder ==
  mode = "boot" =>
    /\ 1 \in setup \/ p_state[1] = "P_RUNNABLE"
    /\ \A p \in setup, q \in Procs \ {0} : q < p => q \in setup \/ Live(q)

RInv == TInv /\ BootOrder

\* A machine that has just booted has all its processes to set up.
LEMMA InitOrder == Init => RInv
<1> SUFFICES ASSUME Init PROVE BootOrder
  BY InitFresh, FreshTInv DEF RInv
<1>1. QED
  BY SMTT(20), LayoutAssumption DEF Init, BootOrder, Procs

\* Every step keeps the order of the boot.
LEMMA OrderNext == RInv /\ CalmStep => RInv'
<1> SUFFICES ASSUME RInv, CalmStep, mode' = "boot" PROVE BootOrder'
  BY TInvNext DEF RInv, BootOrder
<1>t. TInv /\ TypeOK
  BY DEF RInv, TInv
<1>1. ASSUME NEW p \in Procs, ProcessSetup(p) PROVE BootOrder'
  <2>1. /\ mode = "boot" /\ p \in setup /\ setup' = setup \ {p}
        /\ p_state' = [p_state EXCEPT ![p] = "P_RUNNABLE"]
    BY <1>1 DEF ProcessSetup
  <2>2. QED
    BY SMTT(20), <2>1, <1>t DEF RInv, BootOrder, TypeOK, Live
<1>2. ASSUME NEW command \in Commands \cup {"allocator"}, Boot(command) PROVE BootOrder'
  <2>1. Loaded(command) \in 1 .. NPROC - 1
    BY SMTT(20), LayoutAssumption DEF Loaded, Commands
  <2>2. setup' = 1 .. Loaded(command)
    BY <1>2 DEF Boot
  <2>3. QED
    BY SMTT(20), <2>1, <2>2 DEF BootOrder, Procs
<1>3. CASE UNCHANGED <<mode, setup, p_state>>
  BY <1>3 DEF RInv, BootOrder, Live
<1>4. ASSUME NEW p, run(p) PROVE FALSE
  BY <1>4 DEF run
<1>5. CASE schedule
  BY <1>4, <1>5 DEF schedule
<1>6. ASSUME NEW a, PageAlloc(a), AddrKind(space[current], a) \notin Damaging PROVE FALSE
  BY <1>4, <1>6, PlainAlloc DEF AllocAt
<1>7. ASSUME NEW v, NEW x, StoreMapping(v, FALSE, x) PROVE FALSE
  BY <1>4, <1>7, PlainStore
<1>8. QED
  BY <1>1, <1>2, <1>3, <1>4, <1>5, <1>6, <1>7
  DEF CalmStep, QuietAction, RunFirst, CheckFails, Panic, SysGetpid, Switch, PageFault,
      UserWrite, SysFork, ForkNoSlot, ForkNoTables,
      ForkCopy, ForkInto, SysExit, Reboot, Commands, PowerOff, Reset, Off, vars

-----------------------------------------------------------------------------
(* Steps that end in run() or schedule() *)

\* The assertions of run() and set_pagetable() hold for a runnable process.
LEMMA RunSucceeds ==
  ASSUME TInv', NEW p \in Procs, run(p), p_state'[p] = "P_RUNNABLE"
  PROVE  current' = p /\ mode' = "user"
<1>1. \A v \in VPages : SaneMapping(v, space'[p][v])
  BY DEF TInv, SpacesSane, Live
<1>2. ASSUME NEW v \in KernelPages PROVE space'[p][v].pn = v
  <2>1. v \in Nat /\ v < PROC_START
    BY SMTT(20), LayoutAssumption, PageAssumption DEF Pages
  <2>2. v \in VPages /\ ~(v >= PROC_START) /\ v \notin UserVA
    BY SMTT(20), <2>1, LayoutAssumption DEF VPages, UserVA
  <2>3. space'[p][v] = KernelHalf(v)
    BY <1>1, <2>1, <2>2 DEF SaneMapping
  <2>4. QED
    BY SMTT(20), <2>3 DEF KernelHalf, Map
<1>3. QED
  BY <1>2 DEF run, KernelMapped

\* schedule() goes to the next runnable process in the order of pids.
LEMMA ScheduleDispatches ==
  ASSUME TInv', schedule, NEW S,
         S = {p \in Procs : p_state'[p] = "P_RUNNABLE"}
  PROVE  Processes!Dispatch(S)
<1>1. ASSUME NEW q \in Procs, p_state'[q] = "P_RUNNABLE", run(q),
             \A r \in Procs : p_state'[r] = "P_RUNNABLE" => Hops(q) <= Hops(r)
      PROVE  Processes!Dispatch(S)
  <2>1. q \in S /\ current' = q /\ mode' = "user"
    BY <1>1, RunSucceeds
  <2>2. \A r \in S : Processes!Distance(q) <= Processes!Distance(r)
    BY <1>1 DEF Hops, Processes!Distance
  <2>3. QED
    BY <2>1, <2>2 DEF Processes!Dispatch
<1>2. CASE /\ \A q \in Procs : p_state'[q] # "P_RUNNABLE"
           /\ mode' = "idle" /\ UNCHANGED current
  BY <1>2 DEF Processes!Dispatch
<1>3. QED
  BY <1>1, <1>2 DEF schedule

\* A handler that ends in run(current) is no step of the process table.
LEMMA RunStutters ==
  ASSUME TInv, TInv', mode = "user", UNCHANGED p_state, run(current)
  PROVE  UNCHANGED Processes!table
<1>1. p_state'[current] = "P_RUNNABLE" /\ current \in Procs
  BY DEF TInv, ProcessesSane, TypeOK
<1>2. QED
  BY <1>1, RunSucceeds DEF Processes!table

-----------------------------------------------------------------------------
(* The refinement *)

\* Every step of the kernel is a step of the process table, or none.
LEMMA StepRefines ==
  RInv /\ CalmStep => [Processes!Next]_(Processes!table)
<1> SUFFICES ASSUME RInv, CalmStep
             PROVE  Processes!Next \/ UNCHANGED Processes!table
  BY DEF Processes!table
<1>t. TInv /\ TInv' /\ TypeOK /\ Processes!PIDs = Procs
  BY TInvNext DEF RInv, TInv, Processes!PIDs, Procs
<1>u. mode = "user" => p_state[current] = "P_RUNNABLE" /\ current \in Procs
  BY <1>t DEF TInv, ProcessesSane, TypeOK
<1>1. ASSUME NEW p \in Procs, ProcessSetup(p) PROVE Processes!Next
  <2>1. mode = "boot" /\ p \in setup /\ (\A q \in setup : p <= q) /\ current' = current
    BY <1>1 DEF ProcessSetup
  <2>2. CASE mode' = "panic" /\ UNCHANGED p_state
    BY <2>1, <2>2 DEF Processes!Next, Processes!Stop
  <2>3. CASE mode' = mode /\ p_state' = [p_state EXCEPT ![p] = "P_RUNNABLE"]
    <3>1. p # 0 /\ ~Live(p)
      BY <2>1, <1>t DEF TInv, ProcessesSane, TypeOK
    <3>2. ASSUME NEW q \in Procs \ {0}, ~Live(q) PROVE p <= q
      BY SMTT(20), <2>1, <3>2 DEF RInv, BootOrder, Procs
    <3>3. p \in Processes!Free \ {0} /\ \A q \in Processes!Free \ {0} : p <= q
      BY <3>1, <3>2, <1>t DEF Processes!Free, Live
    <3>4. Processes!Load(p)
      BY <2>1, <2>3, <3>3 DEF Processes!Load
    <3>5. QED
      BY <3>4, <1>t DEF Processes!Next
  <2>4. QED
    BY <1>1, <2>2, <2>3 DEF ProcessSetup
<1>2. CASE RunFirst
  <2>1. 1 \in Procs /\ p_state'[1] = "P_RUNNABLE" /\ p_state' = p_state /\ mode = "boot"
    BY SMTT(20), <1>2, LayoutAssumption DEF RunFirst, RInv, BootOrder, Procs
  <2>2. current' = 1 /\ mode' = "user"
    BY <1>2, <1>t, <2>1, RunSucceeds DEF RunFirst
  <2>3. QED
    BY <2>1, <2>2, <1>t DEF Processes!Next, Processes!Start, Processes!Runnable
<1>3. CASE CheckFails \/ Panic \/ PowerOff
  BY <1>3 DEF CheckFails, Panic, PowerOff, Polls, Enter, Processes!Next, Processes!Stop
<1>4. CASE SysGetpid
  BY <1>4, <1>t, RunStutters DEF SysGetpid, Enter
<1>5. CASE Switch
  <2>1. Processes!Dispatch(Processes!Runnable)
    BY <1>5, <1>t, ScheduleDispatches DEF Switch, Processes!Runnable
  <2>2. QED
    BY <1>5, <2>1 DEF Switch, Enter, Processes!Next, Processes!Yield
<1>6. ASSUME NEW st \in {"P_BROKEN", "P_FREE"}, mode = "user", schedule,
             p_state' = [p_state EXCEPT ![current] = st]
      PROVE  Processes!Dispatch(Processes!Runnable \ {current})
  <2>1. Processes!Runnable \ {current} = {p \in Procs : p_state'[p] = "P_RUNNABLE"}
    BY <1>6, <1>t, <1>u DEF Processes!Runnable, TypeOK
  <2>2. QED
    BY <1>6, <1>t, <2>1, ScheduleDispatches
<1>7. CASE PageFault
  BY <1>6, <1>7 DEF PageFault, Enter, Processes!Next, Processes!Fault
<1>8. CASE SysExit
  BY <1>6, <1>8 DEF SysExit, Enter, Processes!Next, Processes!Exit
<1>9. ASSUME NEW a \in Addresses, Enter, PageAlloc(a),
             AddrKind(space[current], a) \notin Damaging
      PROVE  Processes!Next \/ UNCHANGED Processes!table
  <2>a. AllocAt(a)
    BY <1>9, PlainAlloc
  <2>1. p_state' = p_state /\ mode = "user"
    BY <1>9, <2>a DEF AllocAt, Enter
  <2>2. CASE mode' = "panic" /\ UNCHANGED current
    BY <2>1, <2>2 DEF Processes!Next, Processes!Stop
  <2>3. CASE run(current)
    BY <2>1, <2>3, <1>t, RunStutters
  <2>4. QED
    BY <2>a, <2>2, <2>3 DEF AllocAt
<1>10. CASE Enter /\ \E v \in VPages, x \in Vals : StoreMapping(v, FALSE, x)
  <2>1. PICK v \in VPages, x \in Vals : StoreMapping(v, FALSE, x)
    BY <1>10
  <2>2. p_state' = p_state /\ mode = "user"
    BY <1>10, <2>1, PlainStore DEF Enter
  <2>3. CASE mode' = "panic" /\ UNCHANGED current
    BY <2>2, <2>3 DEF Processes!Next, Processes!Stop
  <2>4. CASE run(current)
    BY <2>2, <2>4, <1>t, RunStutters
  <2>5. QED
    BY <2>1, <2>3, <2>4, PlainStore
<1>11. CASE SysFork
  <2>1. CASE Enter /\ ForkNoSlot
    BY <2>1, <1>t, RunStutters DEF ForkNoSlot, Enter
  <2>2. ASSUME Enter, NEW child \in Procs, ForkNoTables(child) PROVE Processes!Next
    BY <2>2 DEF ForkNoTables, Enter, Processes!Next, Processes!Stop
  <2>3. ASSUME Enter, NEW child \in Procs \ {0}, ~Live(child),
               \A q \in 1 .. child - 1 : Live(q), ForkCopy(child)
        PROVE  Processes!Next
    <3>1. p_state' = [p_state EXCEPT ![child] = "P_RUNNABLE"] /\ run(current)
      BY <2>3 DEF ForkCopy, ForkInto
    <3>2. mode = "user" /\ p_state'[current] = "P_RUNNABLE"
      BY <2>3, <3>1, <1>t, <1>u DEF Enter, TypeOK
    <3>3. current' = current /\ mode' = mode
      BY <3>1, <3>2, <1>t, <1>u, RunSucceeds
    <3>4. ASSUME NEW q \in Procs \ {0}, ~Live(q) PROVE child <= q
      BY SMTT(20), <2>3, <3>4 DEF Procs
    <3>5. child \in Processes!Free \ {0} /\ \A q \in Processes!Free \ {0} : child <= q
      BY <2>3, <3>4, <1>t DEF Processes!Free, Live
    <3>6. Processes!Fork(child)
      BY <3>1, <3>2, <3>3, <3>5 DEF Processes!Fork
    <3>7. QED
      BY <3>6, <1>t DEF Processes!Next
  <2>4. QED
    BY <1>11, <2>1, <2>2, <2>3 DEF SysFork
<1>12. CASE Reboot \/ Reset
  BY <1>12, <1>t
  DEF Reboot, Reset, Boot, Polls, Enter, Processes!Next, Processes!Restart
<1>13. CASE UNCHANGED <<p_state, current, mode>>
  BY <1>13 DEF Processes!table
<1>14. QED
  BY <1>1, <1>2, <1>3, <1>4, <1>5, <1>7, <1>8, <1>9, <1>10, <1>11, <1>12, <1>13
  DEF CalmStep, QuietAction, SysFork, UserWrite, Off, vars

\* boot, exception dispatch, fork, exit, faults, schedule() and run() implement
\* the process table's specification, its fairness apart, if the programs make
\* none of the damaging calls.
THEOREM RefinesProcessTable ==
  ASSUME UserCalls \cap Damaging = {}
  PROVE  Spec => Processes!Spec
<1>1. Init => Processes!Init
  BY DEF Init, Processes!Init, Processes!PIDs, Procs
<1>2. /\ RInv /\ [Next]_vars => RInv'
      /\ RInv /\ [Next]_vars => [Processes!Next]_(Processes!table)
  BY OrderNext, StepRefines, NextCalm
<1>3. QED
  BY <1>1, <1>2, InitOrder, PTL DEF Spec, Processes!Spec
=============================================================================
