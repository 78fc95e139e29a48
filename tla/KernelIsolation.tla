-------------------------- MODULE KernelIsolation ---------------------------
(***************************************************************************)
(* Isolation of the processes of module Kernel, for every number of pages, *)
(* processes and page tables and every sequence of system calls, faults,   *)
(* interrupts and reboots in which no program allocates over its own       *)
(* read-only pages.                                                        *)
(***************************************************************************)
EXTENDS KernelTypes

\* A leaf is Zenon's unless it names SMT, as the ones with arithmetic do.
USE ZenonT(20)

-----------------------------------------------------------------------------
(* Consequences of the inductive invariant *)

\* A used page is a page, and its use is private or read-only.
LEMMA UsesSplit ==
  TInv => \A p \in Procs : Live(p) => \A s \in Uses(p) :
            /\ Frame(p, s) \in Pages
            /\ s \in Private(p) \/ s \in ReadOnly(p)
<1> SUFFICES ASSUME TInv, NEW p \in Procs, Live(p), NEW s \in Uses(p)
             PROVE  /\ Frame(p, s) \in Pages
                    /\ s \in Private(p) \/ s \in ReadOnly(p)
  OBVIOUS
<1>1. CASE s \in Tables
  BY SMTT(20), <1>1 DEF TInv, TypeOK, Frame, Private
<1>2. CASE s \notin Tables
  <2>1. s \in VPages /\ s >= PROC_START /\ space[p][s].perm # {}
    BY <1>2 DEF Uses
  <2>2. space[p][s] \in Mappings
    BY <2>1 DEF TInv, TypeOK
  <2>3. \/ space[p][s].perm = PTE_RW /\ space[p][s].pn # -1
        \/ s \in UserVA /\ space[p][s].perm = PTE_RO /\ space[p][s].pn \notin {-1, NULL}
    BY SMTT(20), <2>1, LayoutAssumption DEF TInv, SpacesSane, SaneMapping, Unmapped, Map, VPages
  <2>4. QED
    BY <1>2, <2>1, <2>2, <2>3 DEF Frame, Private, ReadOnly, Writable, PTE_RW, Mappings
<1>3. QED
  BY <1>1, <1>2

\* A read-only page is a use, and not a private one.
LEMMA ReadOnlyUse ==
  \A p : \A v \in ReadOnly(p) : /\ v \in Uses(p) /\ v \notin Tables
                                /\ Frame(p, v) = space[p][v].pn
                                /\ v \notin Private(p)
  BY SMTT(20), LayoutAssumption
  DEF ReadOnly, Uses, Frame, Private, UserVA, VPages, Tables, Writable, PTE_RO

\* The processes that share a page are finitely many of the NPROC - 1.
LEMMA SharersFinite ==
  ASSUME IInv, NEW pn
  PROVE  /\ IsFiniteSet(Sharers(pn))
         /\ Cardinality(Sharers(pn)) \in 0 .. NPROC - 1
<1>1. Sharers(pn) \in SUBSET (1 .. NPROC - 1)
  BY SMTT(20), LayoutAssumption DEF Sharers, IInv, TInv, ProcessesSane, Procs, Live
<1>2. IsFiniteSet(1 .. NPROC - 1) /\ Cardinality(1 .. NPROC - 1) = NPROC - 1
  BY SMTT(20), FS_Interval, LayoutAssumption
<1>3. /\ IsFiniteSet(Sharers(pn))
      /\ Cardinality(Sharers(pn)) <= NPROC - 1
  BY <1>1, <1>2, FS_Subset
<1>4. QED
  BY SMTT(20), <1>3, FS_CardinalityType, LayoutAssumption

\* UsedNotFree follows from the invariant.
LEMMA UsedPositive ==
  ASSUME IInv, NEW p \in Procs, Live(p), NEW s \in Uses(p)
  PROVE  pageinfo[Frame(p, s)].refcount > 0
<1>1. CASE s \in Private(p) /\ Frame(p, s) # NULL
  <2>1. pageinfo[Frame(p, s)] = Info(p, 1)
    BY <1>1 DEF IInv, PrivateOwned
  <2>2. QED
    BY SMTT(20), <2>1 DEF Info
<1>2. CASE Frame(p, s) = NULL
  BY SMTT(20), <1>2, PageAssumption DEF IInv, KernelKept, Info, NULL
<1>3. CASE s \in ReadOnly(p)
  <2> DEFINE pn == space[p][s].pn
  <2>1. Frame(p, s) = pn
    BY SMTT(20), <1>3, LayoutAssumption DEF ReadOnly, Frame, UserVA, Tables
  <2>2. pageinfo[pn].refcount = Cardinality(Sharers(pn))
    BY <1>3 DEF IInv, SharedCounted
  <2>3. p \in Sharers(pn)
    BY <1>3 DEF Sharers
  <2>4. Cardinality(Sharers(pn)) # 0
    BY <2>3, SharersFinite, FS_EmptySet
  <2>5. QED
    BY SMTT(20), <2>1, <2>2, <2>4, SharersFinite
<1>4. QED
  BY <1>1, <1>2, <1>3, UsesSplit DEF IInv

\* KernelProtected follows from the invariant.
LEMMA FramesNotKernel ==
  ASSUME IInv, NEW p \in Procs, Live(p), NEW s \in Uses(p)
  PROVE  Frame(p, s) \notin (KernelPages \cup ReservedPages) \ {NULL}
<1>1. CASE s \in Private(p) /\ Frame(p, s) # NULL
  <2>1. pageinfo[Frame(p, s)] = Info(p, 1)
    BY <1>1 DEF IInv, PrivateOwned
  <2>2. pageinfo[Frame(p, s)].owner >= 0
    BY SMTT(20), <2>1, LayoutAssumption DEF Info, Procs
  <2>3. QED
    BY SMTT(20), <2>2 DEF IInv, KernelKept, Info, PO_KERNEL, PO_RESERVED
<1>2. CASE s \in ReadOnly(p)
  <2>1. Frame(p, s) = space[p][s].pn
    BY SMTT(20), <1>2, LayoutAssumption DEF ReadOnly, Frame, UserVA, Tables
  <2>2. pageinfo[Frame(p, s)].owner >= 0
    BY <1>2, <2>1 DEF IInv, SharedCounted
  <2>3. QED
    BY SMTT(20), <2>2 DEF IInv, KernelKept, Info, PO_KERNEL, PO_RESERVED
<1>3. QED
  BY <1>1, <1>2, UsesSplit DEF IInv

-----------------------------------------------------------------------------
(* Steps that leave page tables and pageinfo[] alone *)

\* Isolation depends on nothing else.
LEMMA QuietStep ==
  ASSUME IInv, TInv', Quiet, UNCHANGED pageinfo
  PROVE  IInv'
<1> USE DEF Quiet
<1>1. KernelKept'
  BY DEF IInv, KernelKept
<1>3. \A p \in Procs : Uses(p)' = Uses(p) /\ Private(p)' = Private(p)
                       /\ ReadOnly(p)' = ReadOnly(p)
  BY DEF Uses, Private, ReadOnly, Writable
<1>4. \A p, s : Frame(p, s)' = Frame(p, s)
  BY DEF Frame
<1>5. PrivateOwned'
  BY <1>3, <1>4 DEF IInv, PrivateOwned
<1>6. \A pn : Sharers(pn)' = Sharers(pn)
  BY <1>3 DEF Sharers
<1>7. SharedCounted'
  BY SMTT(20), <1>3, <1>6 DEF IInv, SharedCounted
<1>8. PagesIsolated'
  BY SMTT(20), <1>3, <1>4 DEF IInv, PagesIsolated
<1>9. QED
  BY <1>1, <1>5, <1>7, <1>8 DEF IInv

-----------------------------------------------------------------------------
(* Steps that allocate *)

\* The step assigns the pages `got` to process c, and whatever a process uses
\* after it, it used before or is one of these pages.
Grows(c, got) ==
  /\ pageinfo' = Assign(pageinfo, got, c)
  /\ \A p \in Procs : Live(p) =>
       /\ Live(p)'
       /\ \A v \in ReadOnly(p) : v \in ReadOnly(p)' /\ space'[p][v].pn = space[p][v].pn
  /\ \A p \in Procs : Live(p)' => \A s \in Uses(p)' :
       \/ /\ Live(p) /\ s \in Uses(p) /\ Frame(p, s)' = Frame(p, s)
          /\ s \in ReadOnly(p)' => s \in ReadOnly(p)
          /\ s \in Private(p)' => s \in Private(p)
       \/ p = c /\ s \in DOMAIN got /\ Frame(p, s)' = got[s] /\ got[s] # NULL

\* Such a step keeps processes isolated, because first fit never hands out a
\* page in use.
LEMMA GrowStep ==
  ASSUME IInv, TInv', NEW c \in Procs, NEW S \in SUBSET Slots,
         Grows(c, Allocate(pageinfo, S))
  PROVE  IInv'
<1> DEFINE got == Allocate(pageinfo, S)
           New(p, s) == p = c /\ s \in S /\ Frame(p, s)' = got[s] /\ got[s] # NULL
           Old(p, s) == /\ Live(p) /\ s \in Uses(p) /\ Frame(p, s)' = Frame(p, s)
                        /\ s \in ReadOnly(p)' => s \in ReadOnly(p)
                        /\ s \in Private(p)' => s \in Private(p)
<1>1. /\ got \in [S -> Pages]
      /\ \A s \in S : got[s] = NULL \/ got[s] \in FreePages(pageinfo)
      /\ \A s, t \in S : got[s] = got[t] /\ got[s] # NULL => s = t
  BY AllocateSound
<1>2. \A p \in Procs : Live(p)' => \A s \in Uses(p)' : Old(p, s) \/ New(p, s)
  BY <1>1 DEF Grows
<1>3. \A pn \in Pages : pn = NULL \/ pageinfo[pn].refcount # 0 => pageinfo'[pn] = pageinfo[pn]
  BY <1>1 DEF Grows, Assign, FreePages
<1>4. \A s \in S : got[s] # NULL => /\ pageinfo[got[s]].refcount = 0
                                    /\ pageinfo'[got[s]] = Info(c, 1)
  BY <1>1 DEF Grows, Assign, FreePages
<1>5. \A p \in Procs : Live(p) => \A s \in Uses(p) :
        Frame(p, s) \in Pages /\ pageinfo[Frame(p, s)].refcount > 0
  BY UsesSplit, UsedPositive DEF IInv
<1>6. \A p, q \in Procs : \A s, t : Old(p, s) /\ New(q, t) => Frame(p, s)' # Frame(q, t)'
  BY SMTT(20), <1>4, <1>5
<1>7. KernelKept'
  <2>1. \A pn \in ReservedPages \cup KernelPages : pn \in Pages /\ pageinfo[pn].refcount # 0
    BY SMTT(20), PageAssumption DEF IInv, KernelKept, Info
  <2>2. QED
    BY <1>3, <2>1 DEF IInv, KernelKept
<1>8. PrivateOwned'
  <2> SUFFICES ASSUME NEW p \in Procs, Live(p)', NEW s \in Private(p)', Frame(p, s)' # NULL
               PROVE  pageinfo'[Frame(p, s)'] = Info(p, 1)
    BY DEF PrivateOwned, Info
  <2>1. s \in Uses(p)'
    BY DEF Private
  <2>2. CASE Old(p, s)
    <3>1. pageinfo[Frame(p, s)] = Info(p, 1)
      BY <2>2 DEF IInv, PrivateOwned
    <3>2. QED
      BY SMTT(20), <1>3, <1>5, <2>2, <3>1
  <2>3. CASE New(p, s)
    BY <1>4, <2>3
  <2>4. QED
    BY <1>2, <2>1, <2>2, <2>3
<1>9. PagesIsolated'
  <2> SUFFICES ASSUME NEW p \in Procs, NEW q \in Procs, Live(p)', Live(q)',
                      NEW s \in Private(p)', NEW t \in Uses(q)',
                      Frame(p, s)' = Frame(q, t)', Frame(p, s)' # NULL
               PROVE  p = q /\ s = t
    BY DEF PagesIsolated
  <2>1. s \in Uses(p)'
    BY DEF Private
  <2>2. (Old(p, s) /\ Old(q, t)) \/ (New(p, s) /\ New(q, t))
    BY SMTT(20), <1>2, <1>6, <2>1
  <2>3. CASE Old(p, s) /\ Old(q, t)
    <3>1. /\ Live(p) /\ s \in Private(p) /\ Live(q) /\ t \in Uses(q)
          /\ Frame(p, s) = Frame(q, t) /\ Frame(p, s) # NULL
      BY <2>3
    <3>2. QED
      BY <3>1 DEF IInv, PagesIsolated
  <2>4. CASE New(p, s) /\ New(q, t)
    BY <1>1, <2>4
  <2>5. QED
    BY <2>2, <2>3, <2>4
<1>10. \A p : \A v \in ReadOnly(p)' : v \in Uses(p)' /\ Frame(p, v)' = space'[p][v].pn
  BY SMTT(20), LayoutAssumption
  DEF ReadOnly, Uses, Frame, UserVA, VPages, Tables, PTE_RO
<1>11. ASSUME NEW p \in Procs, Live(p)', NEW v \in ReadOnly(p)', NEW pn,
              pn = Frame(p, v)'
       PROVE  /\ pageinfo'[pn].refcount = Cardinality(Sharers(pn)')
              /\ pageinfo'[pn].owner >= 0
              /\ \A w \in ReadOnly(p)' : Frame(p, w)' = pn => v = w
  <2>1. v \in Uses(p)'
    BY <1>10, <1>11
  <2>2. Sharers(pn)' = {q \in Procs : Live(q)' /\ \E w \in ReadOnly(q)' : Frame(q, w)' = pn}
    BY <1>10 DEF Sharers
  <2>3. CASE Old(p, v)
    <3>1. v \in ReadOnly(p) /\ space[p][v].pn = pn
      BY <1>11, <2>3, ReadOnlyUse
    <3>2. pageinfo'[pn] = pageinfo[pn]
      BY SMTT(20), <1>3, <1>5, <1>11, <2>3
    <3>3. Sharers(pn)' = Sharers(pn)
      <4>1. ASSUME NEW q \in Sharers(pn)' PROVE q \in Sharers(pn)
        <5>1. PICK w \in ReadOnly(q)' : q \in Procs /\ Live(q)' /\ Frame(q, w)' = pn
          BY <4>1, <2>2
        <5>2. Old(q, w)
          BY SMTT(20), <5>1, <1>2, <1>6, <1>10, <1>11, <2>3
        <5>3. QED
          BY <5>1, <5>2, ReadOnlyUse DEF Sharers
      <4>2. ASSUME NEW q \in Sharers(pn) PROVE q \in Sharers(pn)'
        BY <4>2, <2>2, <1>10 DEF Sharers, Grows
      <4>3. QED
        BY <4>1, <4>2
    <3>4. ASSUME NEW w \in ReadOnly(p)', Frame(p, w)' = pn PROVE v = w
      <4>1. Old(p, w)
        BY SMTT(20), <3>4, <1>2, <1>6, <1>10, <1>11, <2>3
      <4>2. w \in ReadOnly(p) /\ space[p][w].pn = pn
        BY <3>4, <4>1, ReadOnlyUse
      <4>3. QED
        BY <3>1, <4>2, <2>3 DEF IInv, SharedCounted
    <3>5. QED
      BY <2>3, <3>1, <3>2, <3>3, <3>4 DEF IInv, SharedCounted
  <2>4. CASE New(p, v)
    <3>1. pageinfo'[pn] = Info(c, 1)
      BY <1>4, <1>11, <2>4
    <3>2. ASSUME NEW q \in Procs, Live(q)', NEW w \in ReadOnly(q)', Frame(q, w)' = pn
          PROVE  New(q, w)
      BY SMTT(20), <3>2, <1>2, <1>6, <1>10, <1>11, <2>4
    <3>3. Sharers(pn)' = {c}
      BY <2>2, <2>4, <3>2, <1>11
    <3>4. Cardinality(Sharers(pn)') = 1
      BY <3>3, FS_Singleton
    <3>5. \A w \in ReadOnly(p)' : Frame(p, w)' = pn => v = w
      BY SMTT(20), <1>1, <1>11, <2>4, <3>2
    <3>6. QED
      BY SMTT(20), <3>1, <3>4, <3>5, LayoutAssumption DEF Info, Procs
  <2>5. QED
    BY <1>2, <1>11, <2>1, <2>3, <2>4
<1>12. SharedCounted'
  <2>1. \A p \in Procs : Live(p)' => \A v \in ReadOnly(p)' :
          /\ pageinfo'[space'[p][v].pn].refcount = Cardinality(Sharers(space[p][v].pn)')
          /\ pageinfo'[space'[p][v].pn].owner >= 0
          /\ \A w \in ReadOnly(p)' : space'[p][w].pn = space'[p][v].pn => v = w
    BY SMTT(20), <1>10, <1>11
  <2>2. QED
    BY <2>1 DEF SharedCounted
<1>13. QED
  BY <1>7, <1>8, <1>9, <1>12 DEF IInv

\* Pages that are assigned and then forgotten.
LEMMA LeakGrows ==
  ASSUME UNCHANGED <<p_state, p_tables, space>>, NEW c, NEW got,
         pageinfo' = Assign(pageinfo, got, c)
  PROVE  Grows(c, got)
  BY DEF Grows, Live, Uses, ReadOnly, Private, Frame, Writable

\* Unless it does damage, sys_page_alloc() keeps processes isolated.
LEMMA PageAllocStep ==
  ASSUME IInv, Enter, NEW a \in Addresses, PageAlloc(a),
         AddrKind(space[current], a) \notin Damaging
  PROVE  IInv'
<1> DEFINE got == Allocate(pageinfo, {a.vpn})
           pn  == got[a.vpn]
<1>t. TypeOK /\ current \in Procs /\ Live(current) /\ AllocAt(a)
  BY PlainAlloc DEF IInv, TInv, TypeOK, ProcessesSane, Enter, Live
<1>a. a.vpn \in 0 .. VA_LIMIT /\ {a.vpn} \in SUBSET Slots
  BY SMTT(20), LayoutAssumption DEF Addresses, Slots
<1>b. DOMAIN got = {a.vpn}
  BY <1>a, AllocateSound
<1>1. UNCHANGED <<p_state, p_tables>> /\ pageinfo' = Assign(pageinfo, got, current)
  BY <1>t DEF AllocAt
<1>2. CASE space' = space
  BY <1>1, <1>2, LeakGrows, GrowStep, PageAllocTInv, <1>a, <1>t DEF IInv
<1>3. CASE space' # space
  <2>1. /\ space' = [space EXCEPT ![current][a.vpn] = Map(pn, PTE_RW)]
        /\ pn # NULL /\ a.vpn \in VPages /\ a.vpn >= PROC_START /\ a.aligned
    <3>1. pn # NULL /\ ~Below(a) /\ a.aligned /\ a.vpn < VA_LIMIT
      BY SMTT(20), <1>3, <1>t DEF AllocAt
    <3>2. ~(a.vpn < PROC_START)
      BY SMTT(20), <3>1 DEF AddrKind, Damaging
    <3>3. QED
      BY SMTT(20), <1>3, <1>a, <1>t, <3>1, <3>2, LayoutAssumption DEF AllocAt, VPages
  <2>2. \A p \in Procs, v \in VPages :
          space'[p][v] = IF p = current /\ v = a.vpn THEN Map(pn, PTE_RW) ELSE space[p][v]
    BY <2>1, <1>t DEF TypeOK
  <2>3. a.vpn \notin ReadOnly(current)
    BY SMTT(20), <2>1, LayoutAssumption
    DEF Damaging, Below, AddrKind, ReadOnly, Writable, PTE_RO, UserVA, VPages
  <2>4. a.vpn \notin Tables /\ UserVA \subseteq VPages
    BY SMTT(20), <1>a, LayoutAssumption DEF Tables, UserVA, VPages
  <2>5. \A p \in Procs : \A v \in ReadOnly(p) : v \in ReadOnly(p)' /\ space'[p][v] = space[p][v]
    BY <2>2, <2>3, <2>4 DEF ReadOnly
  <2>6. ASSUME NEW p \in Procs, Live(p), NEW s \in Uses(p)', ~(p = current /\ s = a.vpn)
        PROVE  /\ s \in Uses(p) /\ Frame(p, s)' = Frame(p, s)
               /\ s \in ReadOnly(p)' => s \in ReadOnly(p)
               /\ s \in Private(p)' => s \in Private(p)
    <3>1. s \in Tables \/ (s \in VPages /\ space'[p][s] = space[p][s])
      BY <2>2, <2>6 DEF Uses
    <3>2. s \in Uses(p) /\ Frame(p, s)' = Frame(p, s)
      BY <1>1, <2>6, <3>1 DEF Uses, Frame
    <3>3. s \in ReadOnly(p)' => s \in ReadOnly(p)
      BY <3>1, ImageSlots DEF ReadOnly
    <3>4. s \in Private(p)' => s \in Private(p)
      BY <3>1, <3>2 DEF Private, Writable
    <3>5. QED
      BY <3>2, <3>3, <3>4
  <2>7. \A p \in Procs : p = current => Frame(p, a.vpn)' = pn
    <3> HIDE DEF pn
    <3> SUFFICES ASSUME NEW p \in Procs, p = current PROVE Frame(p, a.vpn)' = pn
      OBVIOUS
    <3>1. space'[p][a.vpn] = Map(pn, PTE_RW)
      BY SMTT(20), <2>1, <2>2
    <3>2. Frame(p, a.vpn)' = space'[p][a.vpn].pn
      BY <2>4 DEF Frame
    <3>3. QED
      BY SMTT(20), <3>1, <3>2 DEF Map
  <2>8. Grows(current, got)
    BY <1>1, <1>b, <2>1, <2>5, <2>6, <2>7 DEF Grows, Live
  <2>9. QED
    BY <2>8, GrowStep, PageAllocTInv, <1>a, <1>t DEF IInv
<1>4. QED
  BY <1>2, <1>3

\* A fork that finds no memory for the page table only leaks pages.
LEMMA ForkNoTablesStep ==
  ASSUME IInv, Enter, NEW child \in Procs, ForkNoTables(child)
  PROVE  IInv'
<1>1. Grows(child, Allocate(pageinfo, Tables))
  BY LeakGrows DEF ForkNoTables
<1>2. QED
  BY <1>1, ForkNoTablesTInv, GrowStep, ImageSlots DEF IInv

\* process_setup() keeps processes isolated.
LEMMA ProcessSetupStep ==
  ASSUME IInv, NEW p \in Procs, ProcessSetup(p)
  PROVE  IInv'
<1> DEFINE got == Allocate(pageinfo, Image \cup {STACK})
<1>t. TypeOK
  BY DEF IInv, TInv
<1>a. got \in [Image \cup {STACK} -> Pages]
  BY ImageSlots, AllocateSound
<1>1. pageinfo' = Assign(pageinfo, got, p) /\ mode = "boot" /\ p \in setup
  BY DEF ProcessSetup, Image
<1>g. ASSUME Grows(p, got) PROVE IInv'
  <2>1. TInv'
    BY ProcessSetupTInv DEF IInv
  <2>2. Image \cup {STACK} \in SUBSET Slots
    BY ImageSlots
  <2>3. QED
    BY <1>g, <2>1, <2>2, GrowStep
<1>2. CASE \E s \in Image : got[s] = NULL
  <2>1. UNCHANGED <<p_state, p_tables, space>>
    BY <1>2 DEF ProcessSetup, Image
  <2> HIDE DEF got
  <2>2. QED
    BY <1>1, <1>g, <2>1, LeakGrows
<1>3. CASE \A s \in Image : got[s] # NULL
  <2>1. /\ p_state' = [p_state EXCEPT ![p] = "P_RUNNABLE"]
        /\ p_tables' = [p_tables EXCEPT ![p] = [t \in Tables |-> got[t]]]
        /\ space' = [space EXCEPT ![p] = LoadedSpace(got)]
    BY <1>3 DEF ProcessSetup, Image
  <2>2. ~Live(p)
    BY <1>1 DEF IInv, TInv, ProcessesSane
  <2>3. \A q \in Procs : q # p =>
          /\ Live(q)' <=> Live(q)
          /\ space'[q] = space[q] /\ p_tables'[q] = p_tables[q]
    BY <2>1, <1>t DEF TypeOK, Live
  <2>4. space'[p] = LoadedSpace(got) /\ p_tables'[p] = [t \in Tables |-> got[t]]
    BY <2>1, <1>t DEF TypeOK
  <2>5. ASSUME NEW s \in Uses(p)' 
        PROVE  s \in Image \cup {STACK} /\ Frame(p, s)' = got[s] /\ got[s] # NULL
    <3>1. CASE s \in Tables
      BY <3>1, <2>4, <1>3 DEF Frame, Image
    <3>2. CASE s \notin Tables
      <4>1. s \in VPages /\ s >= PROC_START /\ LoadedSpace(got)[s].perm # {}
        BY <3>2, <2>4, <2>5 DEF Uses
      <4>2. /\ s \in Image \cup {STACK} /\ got[s] # NULL
            /\ LoadedSpace(got)[s].pn = got[s]
        <5> HIDE DEF got
        <5>1. \/ s < PROC_START
              \/ LoadedSpace(got)[s] = Unmapped
              \/ /\ s \in Image \cup {STACK} /\ got[s] # NULL
                 /\ \/ LoadedSpace(got)[s] = Map(got[s], PTE_RW)
                    \/ LoadedSpace(got)[s] = Map(got[s], PTE_RO)
          BY <4>1, <1>a, <1>3, LoadedSpaceSound
        <5>2. ~(s < PROC_START)
          BY SMTT(20), <4>1, LayoutAssumption DEF VPages
        <5>3. QED
          BY SMTT(20), <4>1, <5>1, <5>2 DEF Unmapped, Map
      <4>3. QED
        BY <3>2, <2>4, <4>2 DEF Frame
    <3>3. QED
      BY <3>1, <3>2
  <2> HIDE DEF got
  <2>6. ASSUME NEW q \in Procs, q # p
        PROVE  /\ Uses(q)' = Uses(q) /\ ReadOnly(q)' = ReadOnly(q) /\ Private(q)' = Private(q)
               /\ \A s : Frame(q, s)' = Frame(q, s)
    BY <2>3, <2>6 DEF Uses, ReadOnly, Private, Frame, Writable
  <2>7. Grows(p, got)
    BY <1>1, <1>a, <2>2, <2>3, <2>5, <2>6 DEF Grows
  <2>8. QED
    BY <2>7, <1>g
<1>4. QED
  BY <1>2, <1>3

-----------------------------------------------------------------------------
(* INT_SYS_FORK *)

\* A user page fork does not copy is not mapped or read-only: the console, the
\* one writable page it would not copy, is mapped in the kernel's half only.
LEMMA NotCopied ==
  ASSUME IInv, NEW cur \in Procs, Live(cur),
         NEW v \in UserVA, v \notin Copied(space[cur]), space[cur][v] # Unmapped
  PROVE  v \in ReadOnly(cur)
<1> DEFINE sp == space[cur]
<1>1. v \in VPages /\ v >= PROC_START /\ v \notin Tables /\ v \in Int
  BY SMTT(20), ImageSlots, LayoutAssumption DEF UserVA
<1>2. SaneMapping(v, sp[v])
  BY <1>1 DEF IInv, TInv, SpacesSane
<1>3. ASSUME sp[v].perm = PTE_RW PROVE FALSE
  <2>1. Writable(sp, v)
    BY <1>3 DEF PTE_RW, Writable
  <2>2. sp[v].pn = CONSOLE
    BY <2>1 DEF Copied
  <2>3. v \in Uses(cur) /\ Frame(cur, v) = CONSOLE
    BY <1>1, <1>3, <2>2 DEF Uses, Frame, PTE_RW
  <2>4. QED
    BY <2>3, FramesNotKernel, LayoutAssumption DEF NULL
<1>4. QED
  BY SMTT(20), <1>1, <1>2, <1>3, LayoutAssumption DEF SaneMapping, ReadOnly

\* What fork shares, page by page, is what the parent maps read-only.
LEMMA SharedAtCard ==
  ASSUME IInv, NEW cur \in Procs, Live(cur), NEW pn \in Pages
  PROVE  Cardinality(SharedAt(space[cur], pn)) = IF cur \in Sharers(pn) THEN 1 ELSE 0
<1> DEFINE sp == space[cur]
<1>1. ASSUME NEW v \in SharedAt(sp, pn) PROVE v \in ReadOnly(cur) /\ sp[v].pn = pn
  <2>1. v \in UserVA /\ v \notin Copied(sp) /\ sp[v].pn = pn
    BY <1>1 DEF SharedAt
  <2>2. sp[v] # Unmapped
    BY SMTT(20), <2>1, PageAssumption DEF Pages, Unmapped, Map
  <2>3. QED
    BY <2>1, <2>2, NotCopied
<1>2. ASSUME NEW v \in ReadOnly(cur), sp[v].pn = pn PROVE v \in SharedAt(sp, pn)
  BY <1>2 DEF ReadOnly, SharedAt, Copied, Writable, PTE_RO
<1>3. CASE cur \in Sharers(pn)
  <2>1. PICK v \in ReadOnly(cur) : sp[v].pn = pn
    BY <1>3 DEF Sharers
  <2>2. \A w \in ReadOnly(cur) : sp[w].pn = pn => w = v
    BY <2>1 DEF IInv, SharedCounted
  <2>3. SharedAt(sp, pn) = {v}
    BY <1>1, <1>2, <2>1, <2>2
  <2>4. QED
    BY <1>3, <2>3, FS_Singleton
<1>4. CASE cur \notin Sharers(pn)
  <2>1. SharedAt(sp, pn) = {}
    BY <1>1, <1>4 DEF Sharers
  <2>2. QED
    BY <1>4, <2>1, FS_EmptySet
<1>5. QED
  BY <1>3, <1>4

\* The count of a page the parent shares is neither 0 nor about to wrap.
LEMMA SharedInRange ==
  ASSUME IInv, NEW child \in Procs \ {0}, ~Live(child), NEW pn \in Pages,
         NEW cur \in Sharers(pn)
  PROVE  pageinfo[pn].refcount \in 1 .. REF_HALF - 2
<1>1. PICK v \in ReadOnly(cur) : space[cur][v].pn = pn
  BY DEF Sharers
<1>2. pageinfo[pn].refcount = Cardinality(Sharers(pn))
  BY <1>1 DEF IInv, SharedCounted, Sharers
<1>3. Sharers(pn) \cup {child} \in SUBSET (1 .. NPROC - 1)
  <2>1. \A q \in Procs : q # 0 => q \in 1 .. NPROC - 1
    BY SMTT(20), LayoutAssumption DEF Procs
  <2>2. ~Live(0)
    BY DEF IInv, TInv, ProcessesSane
  <2>3. \A q \in Sharers(pn) : q \in Procs /\ Live(q)
    BY DEF Sharers
  <2>4. child \in 1 .. NPROC - 1
    BY SMTT(20), LayoutAssumption DEF Procs
  <2>5. QED
    BY <2>1, <2>2, <2>3, <2>4
<1>4. IsFiniteSet(1 .. NPROC - 1) /\ Cardinality(1 .. NPROC - 1) = NPROC - 1
  BY SMTT(20), FS_Interval, LayoutAssumption
<1>5. Cardinality(Sharers(pn) \cup {child}) <= NPROC - 1
  BY <1>3, <1>4, FS_Subset
<1>6. child \notin Sharers(pn)
  BY DEF Sharers
<1>7. Cardinality(Sharers(pn) \cup {child}) = Cardinality(Sharers(pn)) + 1
  BY <1>6, SharersFinite, FS_AddElement
<1>8. Cardinality(Sharers(pn)) # 0
  BY SharersFinite, FS_EmptySet
<1>9. QED
  BY SMTT(20), <1>2, <1>5, <1>7, <1>8, SharersFinite, LayoutAssumption, PageAssumption

\* So fork's pages are the first ones that are free when it starts.
LEMMA ForkFirstFit ==
  ASSUME IInv, Enter, NEW child \in Procs \ {0}, ~Live(child), ForkCopy(child)
  PROVE  \E val \in [Copied(space[current]) -> Vals] :
           ForkInto(child, Allocate(pageinfo, Tables \cup Copied(space[current])), val)
<1>t. current \in Procs /\ Live(current)
  BY DEF IInv, TInv, TypeOK, ProcessesSane, Enter, Live
<1> PICK cur \in Procs : cur = current
  BY <1>t
<1> DEFINE sp == space[cur]
<1>1. ASSUME Wraps(sp) PROVE FALSE
  <2>1. PICK v \in UserVA \ Copied(sp) :
          /\ sp[v].pn # -1
          /\ \E k \in 0 .. Cardinality(SharedAt(sp, sp[v].pn)) :
               Int8(pageinfo[sp[v].pn].refcount + k) = 0
    BY <1>1 DEF Wraps
  <2> DEFINE pn == sp[v].pn
  <2>2. sp[v] # Unmapped
    BY SMTT(20), <2>1 DEF Unmapped, Map
  <2>3. v \in ReadOnly(cur)
    BY <1>t, <2>1, <2>2, NotCopied
  <2>4. pn \in Pages /\ cur \in Sharers(pn)
    <3>1. v \in Uses(cur) /\ Frame(cur, v) = pn
      BY <2>3, ReadOnlyUse
    <3>2. QED
      BY <2>3, <3>1, <1>t, UsesSplit DEF Sharers, IInv
  <2>5. Cardinality(SharedAt(sp, pn)) = 1
    BY <1>t, <2>4, SharedAtCard
  <2>6. pageinfo[pn].refcount \in 1 .. REF_HALF - 2
    BY <2>4, SharedInRange
  <2>7. PICK k \in 0 .. 1 : Int8(pageinfo[pn].refcount + k) = 0
    BY <2>1, <2>5
  <2> HIDE DEF pn
  <2>8. Int8(pageinfo[pn].refcount + k) = pageinfo[pn].refcount + k
    BY SMTT(20), <2>6, Int8Exact, PageAssumption
  <2>9. QED
    BY SMTT(20), <2>6, <2>7, <2>8
<1>2. QED
  BY <1>1 DEF ForkCopy, ForkPages

\* pageinfo[] after a successful fork: the new pages are the child's, the
\* shared pages have one more reference, the rest is as it was.
LEMMA ForkInfo ==
  ASSUME IInv, Enter, NEW child \in Procs \ {0}, ~Live(child), ForkCopy(child),
         NEW cur \in Procs, cur = current, NEW pn \in Pages
  PROVE  LET got == Allocate(pageinfo, Tables \cup Copied(space[cur]))
             new == pn # NULL /\ \E s \in Tables \cup Copied(space[cur]) : got[s] = pn
         IN  /\ new => pageinfo'[pn] = Info(child, 1) /\ pageinfo[pn].refcount = 0
             /\ ~new /\ cur \notin Sharers(pn) => pageinfo'[pn] = pageinfo[pn]
             /\ cur \in Sharers(pn) =>
                  pageinfo'[pn] = Info(pageinfo[pn].owner, pageinfo[pn].refcount + 1)
<1> DEFINE S   == Tables \cup Copied(space[cur])
           got == Allocate(pageinfo, S)
           new == pn # NULL /\ \E s \in S : got[s] = pn
           k   == Cardinality(SharedAt(space[cur], pn))
           old == Assign(pageinfo, got, child)[pn]
           at  == CountAt(got, space[cur], MEMSIZE_VIRTUAL, pn)
<1>1. S \in SUBSET Slots /\ Live(cur)
  BY ForkSlots DEF IInv
<1>2. /\ got \in [S -> Pages]
      /\ \A s \in S : got[s] = NULL \/ got[s] \in FreePages(pageinfo)
  BY <1>1, AllocateSound
<1>3. k = IF cur \in Sharers(pn) THEN 1 ELSE 0
  BY <1>1, SharedAtCard
<1>4. pageinfo'[pn] = [old EXCEPT !.refcount = at]
  <2>1. PICK val : ForkInto(child, got, val)
    BY ForkFirstFit
  <2>2. pageinfo' = [q \in Pages |->
                       [Assign(pageinfo, got, child)[q] EXCEPT !.refcount =
                          CountAt(got, space[cur], MEMSIZE_VIRTUAL, q)]]
    BY <2>1 DEF ForkInto
  <2> HIDE DEF got
  <2>3. QED
    BY <2>2
<1>5. old = IF new THEN Info(child, 1) ELSE pageinfo[pn]
  BY <1>2 DEF Assign
<1>6. pageinfo[pn] \in [owner : -2 .. NPROC - 1, refcount : -REF_HALF .. REF_HALF - 1]
  BY DEF IInv, TInv, TypeOK, PageInfos
<1>7. new => pageinfo[pn].refcount = 0
  BY <1>2 DEF FreePages
<1>8. cur \in Sharers(pn) => pageinfo[pn].refcount \in 1 .. REF_HALF - 2
  BY SharedInRange
<1>a. /\ new /\ k = 0 => at = Int8(1)
      /\ ~new => at = Int8(pageinfo[pn].refcount + k)
  <2> DEFINE M     == MEMSIZE_VIRTUAL
             taken == {w \in DOMAIN got : w < M /\ got[w] = pn /\ pn # NULL}
             since == {v \in SharedAt(space[cur], pn) : v < M /\ \A w \in taken : w < v}
  <2>1. at = Int8((IF taken = {} THEN pageinfo[pn].refcount ELSE 1) + Cardinality(since))
    BY DEF CountAt
  <2>2. DOMAIN got = S /\ \A s \in S : s < M
    <3>1. DOMAIN got = S /\ Copied(space[cur]) \subseteq UserVA
      BY <1>2 DEF Copied
    <3>2. \A s \in Tables \cup UserVA : s < M
      BY SMTT(20), LayoutAssumption DEF Tables, UserVA
    <3>3. QED
      BY <3>1, <3>2
  <2>3. SharedAt(space[cur], pn) \in SUBSET UserVA /\ \A v \in UserVA : v < M
    BY SMTT(20), LayoutAssumption DEF SharedAt, UserVA
  <2> HIDE DEF got, at
  <2>4. new <=> taken # {}
    BY <2>2
  <2>5. ~new => since = SharedAt(space[cur], pn)
    BY <2>3, <2>4
  <2>6. ASSUME k = 0 PROVE Cardinality(since) = 0
    <3>1. IsFiniteSet(SharedAt(space[cur], pn))
      BY <2>3, ImageSlots, SlotsFinite
    <3>2. SharedAt(space[cur], pn) = {}
      BY <2>6, <3>1, FS_EmptySet
    <3>3. since = {}
      BY <3>2
    <3>4. QED
      BY <3>3, FS_EmptySet
  <2>7. new /\ k = 0 => at = Int8(1)
    <3> HIDE DEF taken, since, new, k
    <3>1. 1 + 0 = 1
      BY SMTT(20)
    <3>2. QED
      BY <2>1, <2>4, <2>6, <3>1
  <2>8. ~new => at = Int8(pageinfo[pn].refcount + k)
    BY <2>1, <2>4, <2>5
  <2>9. QED
    BY <2>7, <2>8
<1>9. new => pageinfo'[pn] = Info(child, 1)
  <2> SUFFICES ASSUME new PROVE pageinfo'[pn] = Info(child, 1)
    OBVIOUS
  <2>1. k = 0
    BY SMTT(20), <1>3, <1>7, <1>8
  <2> HIDE DEF new, old, k, at
  <2>2. old = Info(child, 1)
    BY <1>5
  <2>3. REF_HALF \in Nat /\ 1 \in -REF_HALF .. REF_HALF - 1
    BY SMTT(20), PageAssumption, LayoutAssumption
  <2>4. Int8(1) = 1
    BY SMTT(20), <2>3, Int8Exact
  <2>5. QED
    BY SMTT(20), <1>4, <1>a, <2>1, <2>2, <2>4 DEF Info
<1>10. ~new /\ cur \notin Sharers(pn) => pageinfo'[pn] = pageinfo[pn]
  <2> SUFFICES ASSUME ~new, cur \notin Sharers(pn) PROVE pageinfo'[pn] = pageinfo[pn]
    OBVIOUS
  <2>1. k = 0 /\ old = pageinfo[pn] /\ at = Int8(pageinfo[pn].refcount + k)
    BY <1>3, <1>5, <1>a
  <2>2. Int8(pageinfo[pn].refcount) = pageinfo[pn].refcount /\ pageinfo[pn].refcount \in Int
    BY SMTT(20), <1>6, Int8Exact, PageAssumption
  <2> HIDE DEF new, old, k, at
  <2>3. QED
    BY SMTT(20), <1>4, <1>6, <2>1, <2>2
<1>11. cur \in Sharers(pn) =>
         pageinfo'[pn] = Info(pageinfo[pn].owner, pageinfo[pn].refcount + 1)
  <2> SUFFICES ASSUME cur \in Sharers(pn)
               PROVE  pageinfo'[pn] = Info(pageinfo[pn].owner, pageinfo[pn].refcount + 1)
    OBVIOUS
  <2> HIDE DEF new, old, k, at
  <2>1. k = 1 /\ old = pageinfo[pn] /\ at = Int8(pageinfo[pn].refcount + k)
    BY SMTT(20), <1>3, <1>5, <1>7, <1>8, <1>a
  <2>2. Int8(pageinfo[pn].refcount + 1) = pageinfo[pn].refcount + 1
    BY SMTT(20), <1>8, Int8Exact, PageAssumption
  <2>3. QED
    BY <1>4, <1>6, <2>1, <2>2 DEF Info
<1>12. QED
  BY <1>7, <1>9, <1>10, <1>11

\* A successful fork keeps processes isolated: what the child uses is new, or
\* shared with the parent and read-only.
LEMMA ForkCopyStep ==
  ASSUME IInv, Enter, NEW child \in Procs \ {0}, ~Live(child), ForkCopy(child),
         NEW cur \in Procs, cur = current
  PROVE  IInv'
<1> DEFINE sp  == space[cur]
           S   == Tables \cup Copied(sp)
           got == Allocate(pageinfo, S)
           Old(p, s) == /\ p # child /\ Live(p) /\ s \in Uses(p) /\ Frame(p, s)' = Frame(p, s)
                        /\ s \in ReadOnly(p)' => s \in ReadOnly(p)
                        /\ s \in Private(p)' => s \in Private(p)
           New(p, s) == p = child /\ s \in S /\ Frame(p, s)' = got[s] /\ s \notin ReadOnly(p)'
           Inh(p, s) == /\ p = child /\ s \in ReadOnly(cur) /\ Frame(p, s)' = Frame(cur, s)
                        /\ s \notin Private(p)'
<1>t. TypeOK /\ Live(cur) /\ child # cur /\ S \in SUBSET Slots /\ Copied(sp) \subseteq UserVA
  BY ForkSlots DEF IInv, TInv
<1>1. /\ got \in [S -> Pages]
      /\ \A s \in S : got[s] = NULL \/ got[s] \in FreePages(pageinfo)
      /\ \A s, t \in S : got[s] = got[t] /\ got[s] # NULL => s = t
  BY SMTT(20), <1>t, AllocateSound
<1>2. /\ p_state' = [p_state EXCEPT ![child] = "P_RUNNABLE"]
      /\ p_tables' = [p_tables EXCEPT ![child] = [t \in Tables |-> got[t]]]
      /\ space' = [space EXCEPT ![child] = ForkSpace(got)]
  BY ForkFirstFit DEF ForkInto
<1>3. \A p \in Procs : p # child =>
        /\ Live(p)' <=> Live(p)
        /\ space'[p] = space[p] /\ p_tables'[p] = p_tables[p]
  BY <1>2, <1>t DEF TypeOK, Live
<1>4. \A p \in Procs : p # child =>
        /\ Uses(p)' = Uses(p) /\ ReadOnly(p)' = ReadOnly(p) /\ Private(p)' = Private(p)
        /\ \A s : Frame(p, s)' = Frame(p, s)
  BY <1>3 DEF Uses, ReadOnly, Private, Frame, Writable
<1>5. Live(child)' /\ space'[child] = ForkSpace(got) /\ p_tables'[child] = [t \in Tables |-> got[t]]
  BY <1>2, <1>t DEF TypeOK, Live
<1>6. ASSUME NEW s \in Uses(child)' PROVE New(child, s) \/ Inh(child, s)
  <2>1. CASE s \in Tables
    BY <2>1, <1>5, ImageSlots DEF Frame, ReadOnly
  <2>2. CASE s \notin Tables
    <3>1. s \in VPages /\ s >= PROC_START /\ ForkSpace(got)[s].perm # {}
      BY <2>2, <1>5, <1>6 DEF Uses
    <3>2. ~(s >= MEMSIZE_VIRTUAL)
      BY <3>1 DEF ForkSpace, Unmapped, Map
    <3>3. s \in UserVA
      BY SMTT(20), <3>1, <3>2, LayoutAssumption DEF UserVA, VPages
    <3>4. CASE s \in Copied(sp)
      <4>1. ForkSpace(got)[s] = Map(got[s], sp[s].perm) /\ "W" \in sp[s].perm
        BY <3>1, <3>2, <3>4 DEF ForkSpace, Copied, Writable
      <4> HIDE DEF got
      <4>2. ForkSpace(got)[s].pn = got[s] /\ "W" \in ForkSpace(got)[s].perm
        BY SMTT(20), <4>1 DEF Map
      <4>3. QED
        BY SMTT(20), <2>2, <3>4, <4>2, <1>5 DEF Frame, ReadOnly, PTE_RO
    <3>5. CASE s \notin Copied(sp)
      <4>1. ForkSpace(got)[s] = sp[s]
        BY <3>1, <3>2, <3>5 DEF ForkSpace
      <4>2. s \in ReadOnly(cur)
        BY SMTT(20), <3>1, <3>3, <3>5, <4>1, <1>t, NotCopied DEF Unmapped, Map
      <4>3. QED
        BY SMTT(20), <2>2, <4>1, <4>2, <1>5
        DEF Frame, ReadOnly, Private, Writable, PTE_RO
    <3>6. QED
      BY <3>4, <3>5
  <2>3. QED
    BY <2>1, <2>2
<1>7. ASSUME NEW v \in ReadOnly(cur)
      PROVE  v \in ReadOnly(child)' /\ space'[child][v] = space[cur][v]
  <2>1. v \in UserVA /\ sp[v].perm = PTE_RO /\ v \in VPages /\ v < MEMSIZE_VIRTUAL
    BY SMTT(20), <1>7, ImageSlots, LayoutAssumption DEF ReadOnly, UserVA
  <2>2. v \notin Copied(sp) /\ ~(v >= MEMSIZE_VIRTUAL)
    BY SMTT(20), <2>1, LayoutAssumption DEF Copied, Writable, PTE_RO, VPages
  <2>3. ForkSpace(got)[v] = space[cur][v]
    BY <2>1, <2>2 DEF ForkSpace
  <2>4. QED
    BY <1>5, <2>1, <2>3 DEF ReadOnly
<1>8. \A p \in Procs : Live(p)' => \A s \in Uses(p)' : Old(p, s) \/ New(p, s) \/ Inh(p, s)
  BY <1>3, <1>4, <1>6
<1>9. /\ \A s \in S : got[s] # NULL => /\ pageinfo'[got[s]] = Info(child, 1)
                                       /\ pageinfo[got[s]].refcount = 0
      /\ \A pn \in Pages :
           (pn = NULL \/ pageinfo[pn].refcount # 0) /\ cur \notin Sharers(pn)
             => pageinfo'[pn] = pageinfo[pn]
      /\ \A pn \in Pages : cur \in Sharers(pn) =>
           pageinfo'[pn] = Info(pageinfo[pn].owner, pageinfo[pn].refcount + 1)
  <2>1. ASSUME NEW s \in S, got[s] # NULL
        PROVE  pageinfo'[got[s]] = Info(child, 1) /\ pageinfo[got[s]].refcount = 0
    <3>1. got[s] \in Pages
      BY <1>1
    <3>2. QED
      BY <2>1, <3>1, ForkInfo
  <2>2. ASSUME NEW pn \in Pages, pn = NULL \/ pageinfo[pn].refcount # 0, cur \notin Sharers(pn)
        PROVE  pageinfo'[pn] = pageinfo[pn]
    BY <2>2, ForkInfo
  <2>3. ASSUME NEW pn \in Pages, cur \in Sharers(pn)
        PROVE  pageinfo'[pn] = Info(pageinfo[pn].owner, pageinfo[pn].refcount + 1)
    BY <2>3, ForkInfo
  <2>4. QED
    BY <2>1, <2>2, <2>3
<1>10. \A p \in Procs : Live(p) => \A s \in Uses(p) :
         Frame(p, s) \in Pages /\ pageinfo[Frame(p, s)].refcount > 0
  BY UsesSplit, UsedPositive DEF IInv
<1>11. \A p, q \in Procs : \A s, t :
         (Old(p, s) \/ Inh(p, s)) /\ New(q, t) /\ Frame(q, t)' # NULL
           => Frame(p, s)' # Frame(q, t)'
  <2> SUFFICES ASSUME NEW p \in Procs, NEW q \in Procs, NEW s, NEW t,
                      Old(p, s) \/ Inh(p, s), New(q, t), Frame(q, t)' # NULL
               PROVE  Frame(p, s)' # Frame(q, t)'
    BY SMTT(20)
  <2>1. pageinfo[Frame(q, t)'].refcount = 0
    BY <1>9
  <2>2. CASE Old(p, s)
    BY SMTT(20), <2>1, <2>2, <1>10
  <2>3. CASE Inh(p, s)
    <3>1. s \in Uses(cur) /\ Frame(p, s)' = Frame(cur, s)
      BY <2>3, ReadOnlyUse
    <3>2. QED
      BY SMTT(20), <2>1, <3>1, <1>10, <1>t
  <2>4. QED
    BY <2>2, <2>3
<1>12. \A p \in Procs : Live(p) => \A s \in Private(p) :
         Frame(p, s) # NULL => cur \notin Sharers(Frame(p, s))
  <2> SUFFICES ASSUME NEW p \in Procs, Live(p), NEW s \in Private(p),
                      Frame(p, s) # NULL, cur \in Sharers(Frame(p, s))
               PROVE  FALSE
    OBVIOUS
  <2>1. PICK v \in ReadOnly(cur) : space[cur][v].pn = Frame(p, s)
    BY DEF Sharers
  <2>2. v \in Uses(cur) /\ Frame(cur, v) = Frame(p, s) /\ v \notin Private(cur)
    BY <2>1, ReadOnlyUse
  <2>3. p = cur /\ s = v
    BY <2>2, <1>t DEF IInv, PagesIsolated
  <2>4. QED
    BY <2>2, <2>3
<1>13. KernelKept'
  <2>1. ASSUME NEW pn \in ReservedPages \cup KernelPages
        PROVE  pageinfo'[pn] = pageinfo[pn]
    <3>1. pn \in Pages /\ pageinfo[pn].refcount = 1 /\ ~(pageinfo[pn].owner >= 0)
      BY SMTT(20), PageAssumption DEF IInv, KernelKept, Info, PO_RESERVED, PO_KERNEL
    <3>2. cur \notin Sharers(pn)
      BY <3>1, <1>t DEF Sharers, IInv, SharedCounted
    <3>3. QED
      BY SMTT(20), <3>1, <3>2, <1>9
  <2>2. QED
    BY <2>1 DEF IInv, KernelKept
<1>14. PrivateOwned'
  <2> SUFFICES ASSUME NEW p \in Procs, Live(p)', NEW s \in Private(p)', Frame(p, s)' # NULL
               PROVE  pageinfo'[Frame(p, s)'] = Info(p, 1)
    BY DEF PrivateOwned, Info
  <2>1. Old(p, s) \/ New(p, s)
    BY <1>8 DEF Private
  <2>2. CASE Old(p, s)
    <3>1. pageinfo[Frame(p, s)] = Info(p, 1)
      BY <2>2 DEF IInv, PrivateOwned
    <3>2. Frame(p, s) \in Pages /\ pageinfo[Frame(p, s)].refcount # 0
      BY SMTT(20), <2>2, <1>10
    <3>3. cur \notin Sharers(Frame(p, s))
      BY <2>2, <1>12
    <3>4. QED
      BY <2>2, <3>1, <3>2, <3>3, <1>9
  <2>3. CASE New(p, s)
    BY <2>3, <1>9
  <2>4. QED
    BY <2>1, <2>2, <2>3
<1>15. PagesIsolated'
  <2> SUFFICES ASSUME NEW p \in Procs, NEW q \in Procs, Live(p)', Live(q)',
                      NEW s \in Private(p)', NEW t \in Uses(q)',
                      Frame(p, s)' = Frame(q, t)', Frame(p, s)' # NULL
               PROVE  p = q /\ s = t
    BY DEF PagesIsolated
  <2>1. \/ Old(p, s) /\ (Old(q, t) \/ Inh(q, t))
        \/ New(p, s) /\ New(q, t)
    <3>1. Old(p, s) \/ New(p, s)
      BY <1>8 DEF Private
    <3> HIDE DEF Old, New, Inh
    <3>2. Old(q, t) \/ New(q, t) \/ Inh(q, t)
      BY <1>8
    <3>3. QED
      BY <3>1, <3>2, <1>11
  <2>2. CASE Old(p, s) /\ Old(q, t)
    <3>1. /\ Live(p) /\ s \in Private(p) /\ Live(q) /\ t \in Uses(q)
          /\ Frame(p, s) = Frame(q, t) /\ Frame(p, s) # NULL
      BY <2>2
    <3>2. QED
      BY SMTT(20), <3>1 DEF IInv, PagesIsolated
  <2>3. CASE Old(p, s) /\ Inh(q, t)
    <3>1. /\ Live(p) /\ s \in Private(p) /\ t \in Uses(cur) /\ t \notin Private(cur)
          /\ Frame(p, s) = Frame(cur, t) /\ Frame(p, s) # NULL
      BY <2>3, ReadOnlyUse
    <3>2. p = cur /\ s = t
      BY <3>1, <1>t DEF IInv, PagesIsolated
    <3>3. QED
      BY <3>1, <3>2
  <2>4. CASE New(p, s) /\ New(q, t)
    BY <2>4, <1>1
  <2>5. QED
    BY <2>1, <2>2, <2>3, <2>4
<1>16. \A p : \A v \in ReadOnly(p)' : v \in Uses(p)' /\ Frame(p, v)' = space'[p][v].pn
  BY SMTT(20), LayoutAssumption
  DEF ReadOnly, Uses, Frame, UserVA, VPages, Tables, PTE_RO
<1>17. ASSUME NEW pn \in Pages
       PROVE  Sharers(pn)' = IF cur \in Sharers(pn) THEN Sharers(pn) \cup {child}
                             ELSE Sharers(pn)
  <2>1. \A q \in Procs \ {child} : q \in Sharers(pn)' <=> q \in Sharers(pn)
    BY <1>3, <1>4 DEF Sharers
  <2>2. child \notin Sharers(pn)
    BY DEF Sharers
  <2>3. ASSUME child \in Sharers(pn)' PROVE cur \in Sharers(pn)
    <3>1. PICK v \in ReadOnly(child)' : space'[child][v].pn = pn
      BY <2>3 DEF Sharers
    <3>2. Inh(child, v)
      BY <3>1, <1>6, <1>16
    <3>3. v \in ReadOnly(cur) /\ space[cur][v].pn = pn
      BY SMTT(20), <3>1, <3>2, <1>16, ReadOnlyUse
    <3>4. QED
      BY <3>3, <1>t DEF Sharers
  <2>4. ASSUME cur \in Sharers(pn) PROVE child \in Sharers(pn)'
    <3>1. PICK v \in ReadOnly(cur) : space[cur][v].pn = pn
      BY <2>4 DEF Sharers
    <3>2. QED
      BY <3>1, <1>5, <1>7 DEF Sharers
  <2>5. Sharers(pn)' \subseteq Procs /\ Sharers(pn) \subseteq Procs
    BY DEF Sharers
  <2>6. QED
    BY SMTT(20), <2>1, <2>2, <2>3, <2>4, <2>5
<1>18. ASSUME NEW q \in Procs, Live(q), NEW w \in ReadOnly(q), NEW pn, pn = space[q][w].pn
       PROVE  /\ pageinfo'[pn].refcount = Cardinality(Sharers(pn)')
              /\ pageinfo'[pn].owner >= 0
  <2>1. /\ pageinfo[pn].refcount = Cardinality(Sharers(pn)) /\ pageinfo[pn].owner >= 0
        /\ pn \in Pages /\ pageinfo[pn].refcount # 0
    BY SMTT(20), <1>10, <1>18, ReadOnlyUse DEF IInv, SharedCounted
  <2>2. CASE cur \in Sharers(pn)
    <3>1. child \notin Sharers(pn)
      BY DEF Sharers
    <3>2. Cardinality(Sharers(pn) \cup {child}) = Cardinality(Sharers(pn)) + 1
      BY <3>1, SharersFinite, FS_AddElement
    <3>3. pageinfo'[pn] = Info(pageinfo[pn].owner, pageinfo[pn].refcount + 1)
      BY <2>1, <2>2, <1>9
    <3>4. Sharers(pn)' = Sharers(pn) \cup {child}
      BY <2>1, <2>2, <1>17
    <3>5. QED
      BY SMTT(20), <2>1, <3>2, <3>3, <3>4 DEF Info
  <2>3. CASE cur \notin Sharers(pn)
    BY <2>1, <2>3, <1>9, <1>17
  <2>4. QED
    BY <2>2, <2>3
<1>19. SharedCounted'
  <2> SUFFICES ASSUME NEW p \in Procs, Live(p)', NEW v \in ReadOnly(p)'
               PROVE  /\ pageinfo'[space'[p][v].pn].refcount
                           = Cardinality(Sharers(space[p][v].pn)')
                      /\ pageinfo'[space'[p][v].pn].owner >= 0
                      /\ \A w \in ReadOnly(p)' : space'[p][w].pn = space'[p][v].pn => v = w
    BY DEF SharedCounted
  <2> SUFFICES ASSUME NEW pn, pn = space'[p][v].pn
               PROVE  /\ pageinfo'[pn].refcount = Cardinality(Sharers(pn)')
                      /\ pageinfo'[pn].owner >= 0
                      /\ \A w \in ReadOnly(p)' : space'[p][w].pn = pn => v = w
    OBVIOUS
  <2>1. CASE p # child
    <3>1. /\ Live(p) /\ ReadOnly(p)' = ReadOnly(p) /\ space'[p] = space[p]
          /\ v \in ReadOnly(p) /\ pn = space[p][v].pn
      BY <2>1, <1>3, <1>4
    <3>2. \A w \in ReadOnly(p) : space[p][w].pn = pn => v = w
      BY <3>1 DEF IInv, SharedCounted
    <3>3. QED
      BY <3>1, <3>2, <1>18
  <2>2. CASE p = child
    <3>1. \A w \in ReadOnly(p)' : w \in ReadOnly(cur) /\ space[cur][w].pn = space'[p][w].pn
      <4> SUFFICES ASSUME NEW w \in ReadOnly(child)'
                   PROVE  w \in ReadOnly(cur) /\ space[cur][w].pn = space'[child][w].pn
        BY <2>2
      <4>1. w \in Uses(child)' /\ Frame(child, w)' = space'[child][w].pn
        BY <1>16
      <4>2. Inh(child, w)
        BY <4>1, <1>6
      <4>3. QED
        BY <4>1, <4>2, ReadOnlyUse
    <3>2. \A w \in ReadOnly(cur) : space[cur][w].pn = pn => v = w
      BY <3>1, <1>t DEF IInv, SharedCounted
    <3>3. v \in ReadOnly(cur) /\ pn = space[cur][v].pn
      BY <3>1
    <3>4. /\ pageinfo'[pn].refcount = Cardinality(Sharers(pn)')
          /\ pageinfo'[pn].owner >= 0
      BY <3>3, <1>18, <1>t
    <3>5. QED
      BY <3>1, <3>2, <3>4
  <2>3. QED
    BY <2>1, <2>2
<1>20. QED
  BY <1>13, <1>14, <1>15, <1>19, ForkCopyTInv DEF IInv

-----------------------------------------------------------------------------
(* INT_SYS_EXIT *)

\* exit leaves the entry of a page alone that the process does not use.
LEMMA ExitKeeps ==
  ASSUME IInv, NEW cur \in Procs, cur = current, Live(cur), NEW pn \in Pages,
         \/ pn = NULL
         \/ \A s \in Uses(cur) : Frame(cur, s) # pn
  PROVE  ExitInfo(pn) = pageinfo[pn]
<1>1. \A t \in Tables : p_tables[cur][t] # pn
  BY DEF IInv, TInv, SpacesSane, Uses, Frame
<1>2. CASE pn = NULL
  BY <1>1, <1>2 DEF ExitInfo, NULL
<1>3. CASE \A s \in Uses(cur) : Frame(cur, s) # pn
  <2>1. ASSUME NEW v \in UserVA, space[cur][v].pn = pn PROVE FALSE
    <3>1. v \in VPages /\ v >= PROC_START /\ v \notin Tables
      BY ImageSlots
    <3>2. SaneMapping(v, space[cur][v])
      BY <3>1 DEF IInv, TInv, SpacesSane
    <3>3. space[cur][v].pn # -1
      BY SMTT(20), <2>1, PageAssumption DEF Pages
    <3>4. space[cur][v].perm # {}
      BY SMTT(20), <3>1, <3>2, <3>3, LayoutAssumption
      DEF SaneMapping, Unmapped, Map, PTE_RW, PTE_RO, VPages
    <3>5. v \in Uses(cur) /\ Frame(cur, v) = pn
      BY <2>1, <3>1, <3>4 DEF Uses, Frame
    <3>6. QED
      BY <1>3, <3>5
  <2> DEFINE ro == {v \in UserVA : space[cur][v].pn = pn /\ ~Writable(space[cur], v)}
             rw == {v \in UserVA : space[cur][v].pn = pn /\ Writable(space[cur], v)}
  <2>2. ro = {} /\ rw = {}
    BY <2>1
  <2>3. Cardinality(ro) = 0
    BY <2>2, FS_EmptySet
  <2>4. \/ ExitInfo(pn) = pageinfo[pn]
        \/ ExitInfo(pn) = [pageinfo[pn] EXCEPT !.refcount =
                             Dropped(pageinfo[pn].refcount, Cardinality(ro))]
    BY <1>1, <2>2 DEF ExitInfo
  <2>5. pageinfo[pn] \in [owner : -2 .. NPROC - 1, refcount : -REF_HALF .. REF_HALF - 1]
    BY DEF IInv, TInv, TypeOK, PageInfos
  <2>6. Dropped(pageinfo[pn].refcount, 0) = pageinfo[pn].refcount
    BY <2>5, DroppedNone
  <2> HIDE DEF ro
  <2>7. QED
    BY <2>3, <2>4, <2>5, <2>6
<1>4. QED
  BY <1>2, <1>3

\* exit drops one reference of a page the process maps read-only.
LEMMA ExitShared ==
  ASSUME IInv, NEW cur \in Procs, cur = current, Live(cur), NEW pn \in Pages,
         cur \in Sharers(pn)
  PROVE  ExitInfo(pn) = Info(pageinfo[pn].owner, pageinfo[pn].refcount - 1)
<1> DEFINE sp == space[cur]
           ro == {v \in UserVA : sp[v].pn = pn /\ ~Writable(sp, v)}
           rw == {v \in UserVA : sp[v].pn = pn /\ Writable(sp, v)}
<1>1. PICK v \in ReadOnly(cur) : sp[v].pn = pn
  BY DEF Sharers
<1>2. v \in Uses(cur) /\ Frame(cur, v) = pn /\ v \notin Private(cur) /\ v \in UserVA
  BY <1>1, ReadOnlyUse DEF ReadOnly
<1>3. pn # NULL
  <2>1. pageinfo[pn].owner >= 0
    BY <1>1 DEF IInv, SharedCounted
  <2>2. QED
    <3>1. pageinfo[0] = Info(PO_RESERVED, 1)
      BY PageAssumption DEF IInv, KernelKept
    <3>2. Info(PO_RESERVED, 1).owner = -1
      BY DEF Info, PO_RESERVED
    <3>3. QED
      BY SMTT(20), <2>1, <3>1, <3>2 DEF NULL
<1>4. \A s \in Private(cur) : Frame(cur, s) # pn
  BY <1>2, <1>3 DEF IInv, PagesIsolated
<1>5. \A t \in Tables : p_tables[cur][t] # pn
  BY <1>4 DEF Private, Uses, Frame
<1>6. rw = {}
  <2> SUFFICES ASSUME NEW w \in rw PROVE FALSE
    OBVIOUS
  <2>1. w \in VPages /\ w >= PROC_START /\ w \notin Tables
    BY ImageSlots
  <2>2. w \in Private(cur) /\ Frame(cur, w) = pn
    BY <2>1 DEF Private, Uses, Frame, Writable
  <2>3. QED
    BY <2>2, <1>4
<1>7. ro = {v}
  <2>1. v \in ro
    BY <1>1, <1>2 DEF ReadOnly, Writable, PTE_RO
  <2>2. ASSUME NEW w \in ro PROVE w = v
    <3>1. w \in VPages /\ w >= PROC_START /\ sp[w].pn # -1
      BY SMTT(20), ImageSlots, PageAssumption DEF Pages
    <3>2. SaneMapping(w, sp[w])
      BY <3>1 DEF IInv, TInv, SpacesSane
    <3>3. sp[w] # Unmapped /\ sp[w].perm # PTE_RW /\ w \in UserVA /\ ~(w < PROC_START)
      <4>1. sp[w] # Unmapped
        BY SMTT(20), <3>1 DEF Unmapped, Map
      <4>2. sp[w].perm # PTE_RW
        BY DEF Writable, PTE_RW
      <4>3. w \in UserVA /\ ~(w < PROC_START)
        BY SMTT(20), <3>1, LayoutAssumption DEF UserVA
      <4>4. QED
        BY <4>1, <4>2, <4>3
    <3>4. w \in ReadOnly(cur)
      BY <3>2, <3>3 DEF SaneMapping, ReadOnly
    <3>5. QED
      BY <1>1, <3>4 DEF IInv, SharedCounted
  <2>3. QED
    BY <2>1, <2>2
<1>8. Cardinality(ro) = 1
  BY <1>7, FS_Singleton
<1>9. pageinfo[pn].refcount \in 1 .. NPROC - 1
  <2>1. pageinfo[pn].refcount = Cardinality(Sharers(pn))
    BY <1>1 DEF IInv, SharedCounted
  <2>2. pageinfo[pn].refcount > 0
    BY <1>2, UsedPositive
  <2>3. QED
    BY SMTT(20), <2>1, <2>2, SharersFinite
<1>10. Dropped(pageinfo[pn].refcount, 1) = pageinfo[pn].refcount - 1
  <2>1. pageinfo[pn].refcount \in 1 .. REF_HALF - 1
    BY SMTT(20), <1>9, LayoutAssumption, PageAssumption
  <2>2. QED
    BY <2>1, DroppedOne
<1>11. ExitInfo(pn) = [pageinfo[pn] EXCEPT !.refcount =
                         Dropped(pageinfo[pn].refcount, Cardinality(ro))]
  BY <1>3, <1>5, <1>6 DEF ExitInfo, NULL
<1>12. pageinfo[pn] \in [owner : -2 .. NPROC - 1, refcount : -REF_HALF .. REF_HALF - 1]
  BY DEF IInv, TInv, TypeOK, PageInfos
<1> HIDE DEF ro
<1>13. QED
  BY <1>8, <1>10, <1>11, <1>12 DEF Info

\* exit keeps the remaining processes isolated.
LEMMA ExitStep ==
  ASSUME IInv, SysExit, NEW cur \in Procs, cur = current
  PROVE  IInv'
<1>t. TypeOK /\ Live(cur)
  BY DEF IInv, TInv, TypeOK, ProcessesSane, SysExit, Enter, Live
<1>1. /\ p_state' = [p_state EXCEPT ![cur] = "P_FREE"]
      /\ p_tables' = [p_tables EXCEPT ![cur] = NoTables]
      /\ space' = [space EXCEPT ![cur] = NoSpace]
      /\ \A pn \in Pages : pageinfo'[pn] = ExitInfo(pn)
  BY DEF SysExit
<1>2. /\ ~Live(cur)'
      /\ \A p \in Procs : p # cur =>
           /\ Live(p)' <=> Live(p)
           /\ space'[p] = space[p] /\ p_tables'[p] = p_tables[p]
  BY <1>1, <1>t DEF TypeOK, Live
<1>3. \A p \in Procs : p # cur =>
        /\ Uses(p)' = Uses(p) /\ ReadOnly(p)' = ReadOnly(p) /\ Private(p)' = Private(p)
        /\ \A s : Frame(p, s)' = Frame(p, s)
  BY <1>2 DEF Uses, ReadOnly, Private, Frame, Writable
<1>4. \A pn \in Pages : pn = NULL \/ (\A s \in Uses(cur) : Frame(cur, s) # pn)
        => pageinfo'[pn] = pageinfo[pn]
  BY <1>1, <1>t, ExitKeeps
<1>5. \A pn \in Pages : cur \in Sharers(pn)
        => pageinfo'[pn] = Info(pageinfo[pn].owner, pageinfo[pn].refcount - 1)
  BY <1>1, <1>t, ExitShared
<1>6. KernelKept'
  <2>1. ASSUME NEW pn \in ReservedPages \cup KernelPages
        PROVE  pageinfo'[pn] = pageinfo[pn]
    <3>1. pn \in Pages /\ (pn = NULL \/ \A s \in Uses(cur) : Frame(cur, s) # pn)
      BY FramesNotKernel, PageAssumption, <1>t
    <3>2. QED
      BY <3>1, <1>4
  <2>2. QED
    BY <2>1 DEF IInv, KernelKept
<1>7. PrivateOwned'
  <2> SUFFICES ASSUME NEW p \in Procs, Live(p)', NEW s \in Private(p)', Frame(p, s)' # NULL
               PROVE  pageinfo'[Frame(p, s)'] = Info(p, 1)
    BY DEF PrivateOwned, Info
  <2>1. /\ p # cur /\ Live(p) /\ s \in Private(p) /\ s \in Uses(p)
        /\ Frame(p, s)' = Frame(p, s) /\ Frame(p, s) # NULL
    BY <1>2, <1>3 DEF Private
  <2>2. Frame(p, s) \in Pages /\ pageinfo[Frame(p, s)] = Info(p, 1)
    BY <2>1, UsesSplit DEF IInv, PrivateOwned
  <2>3. \A t \in Uses(cur) : Frame(cur, t) # Frame(p, s)
    BY <2>1, <1>t DEF IInv, PagesIsolated
  <2>4. QED
    BY <2>1, <2>2, <2>3, <1>4
<1>8. PagesIsolated'
  <2> SUFFICES ASSUME NEW p \in Procs, NEW q \in Procs, Live(p)', Live(q)',
                      NEW s \in Private(p)', NEW t \in Uses(q)',
                      Frame(p, s)' = Frame(q, t)', Frame(p, s)' # NULL
               PROVE  p = q /\ s = t
    BY DEF PagesIsolated
  <2>1. /\ Live(p) /\ s \in Private(p) /\ Live(q) /\ t \in Uses(q)
        /\ Frame(p, s) = Frame(q, t) /\ Frame(p, s) # NULL
    BY <1>2, <1>3
  <2>2. QED
    BY SMTT(20), <2>1 DEF IInv, PagesIsolated
<1>9. \A pn : Sharers(pn)' = Sharers(pn) \ {cur}
  BY <1>2, <1>3 DEF Sharers
<1>10. SharedCounted'
  <2> SUFFICES ASSUME NEW p \in Procs, Live(p)', NEW v \in ReadOnly(p)', NEW pn,
                      pn = space'[p][v].pn
               PROVE  /\ pageinfo'[pn].refcount = Cardinality(Sharers(pn)')
                      /\ pageinfo'[pn].owner >= 0
                      /\ \A w \in ReadOnly(p)' : space'[p][w].pn = pn => v = w
    BY SMTT(20) DEF SharedCounted
  <2>1. p # cur /\ Live(p) /\ v \in ReadOnly(p) /\ space[p][v].pn = pn
    BY <1>2, <1>3
  <2>2. /\ pageinfo[pn].refcount = Cardinality(Sharers(pn)) /\ pageinfo[pn].owner >= 0
        /\ \A w \in ReadOnly(p) : space[p][w].pn = pn => v = w
    BY <2>1 DEF IInv, SharedCounted
  <2>3. \A w \in ReadOnly(p)' : space'[p][w].pn = pn => v = w
    BY <2>1, <2>2, <1>2, <1>3
  <2>4. v \in Uses(p) /\ Frame(p, v) = pn /\ pn \in Pages
    BY SMTT(20), <2>1, ReadOnlyUse, UsesSplit DEF IInv
  <2>5. CASE cur \in Sharers(pn)
    <3>1. pageinfo'[pn] = Info(pageinfo[pn].owner, pageinfo[pn].refcount - 1)
      BY <2>4, <2>5, <1>5
    <3> DEFINE X == Sharers(pn)
    <3>2. IsFiniteSet(X) /\ cur \in X
      BY <2>5, SharersFinite
    <3>3. Sharers(pn)' = X \ {cur}
      BY <1>9
    <3>4. pageinfo[pn].refcount = Cardinality(X)
      BY <2>2
    <3> HIDE DEF X
    <3>5. Cardinality(X \ {cur}) = Cardinality(X) - 1
      BY <3>2, FS_RemoveElement
    <3>6. /\ pageinfo'[pn].refcount = pageinfo[pn].refcount - 1
          /\ pageinfo'[pn].owner = pageinfo[pn].owner
      BY SMTT(20), <3>1 DEF Info
    <3>7. pageinfo'[pn].refcount = Cardinality(Sharers(pn)')
      BY <3>3, <3>4, <3>5, <3>6
    <3>8. QED
      BY <2>2, <2>3, <3>6, <3>7
  <2>6. CASE cur \notin Sharers(pn)
    <3>1. ASSUME NEW s \in Uses(cur), Frame(cur, s) = pn PROVE pn = NULL
      <4>1. CASE s \in Private(cur)
        BY <2>1, <2>4, <3>1, <4>1, <1>t DEF IInv, PagesIsolated
      <4>2. CASE s \in ReadOnly(cur)
        BY <2>6, <3>1, <4>2, <1>t, ReadOnlyUse DEF Sharers
      <4>3. QED
        BY <4>1, <4>2, <1>t, UsesSplit DEF IInv
    <3>2. pageinfo'[pn] = pageinfo[pn]
      BY <2>4, <3>1, <1>4
    <3>3. Sharers(pn)' = Sharers(pn)
      BY <2>6, <1>9
    <3>4. QED
      BY <2>2, <2>3, <3>2, <3>3
  <2>7. QED
    BY <2>5, <2>6
<1>11. QED
  BY <1>6, <1>7, <1>8, <1>10, ExitTInv DEF IInv

-----------------------------------------------------------------------------
(* The theorems *)

\* A machine that has just booted is isolated, as no process is live.
LEMMA FreshIInv == Fresh => IInv
<1> SUFFICES ASSUME Fresh PROVE IInv
  OBVIOUS
<1>1. TInv
  BY FreshTInv
<1>2. KernelKept
  BY PageAssumption DEF Fresh, KernelKept, pageinfo_init
<1>3. \A p \in Procs : ~Live(p)
  BY DEF Fresh, Live
<1>4. QED
  BY <1>1, <1>2, <1>3 DEF IInv, PrivateOwned, SharedCounted, PagesIsolated

\* A step that does no damage keeps the invariant.
LEMMA CalmIInv ==
  ASSUME IInv, CalmStep
  PROVE  IInv'
<1>t. TInv /\ TInv' /\ current \in Procs
  BY TInvNext DEF IInv, TInv, TypeOK
<1>1. ASSUME NEW p \in Procs, ProcessSetup(p) PROVE IInv'
  BY <1>1, ProcessSetupStep
<1>2. CASE QuietAction
  BY <1>2, <1>t, QuietActions, QuietStep
<1>3. CASE Enter /\ \E a \in Addresses :
             AddrKind(space[current], a) \notin Damaging /\ PageAlloc(a)
  BY <1>3, PageAllocStep
<1>4. CASE SysFork
  <2>1. CASE Enter /\ ForkNoSlot
    BY <2>1, <1>2 DEF QuietAction
  <2>2. ASSUME Enter, NEW child \in Procs \ {0}, ~Live(child), ForkNoTables(child)
        PROVE  IInv'
    BY <2>2, ForkNoTablesStep
  <2>3. ASSUME Enter, NEW child \in Procs \ {0}, ~Live(child), ForkCopy(child)
        PROVE  IInv'
    BY <2>3, <1>t, ForkCopyStep
  <2>4. QED
    BY <1>4, <2>1, <2>2, <2>3 DEF SysFork
<1>5. CASE SysExit
  BY <1>5, <1>t, ExitStep
<1>6. CASE Reboot \/ Reset
  <2>1. Fresh'
    BY <1>6, <1>t, BootFresh
  <2>2. QED
    BY <2>1, FreshIInv, PTL
<1>7. CASE Off \/ UNCHANGED vars
  <2>1. UNCHANGED vars
    BY <1>7 DEF Off
  <2>2. UNCHANGED <<pageinfo, p_state, p_tables, space>>
    BY <2>1 DEF vars
  <2>3. \A p : /\ Live(p)' <=> Live(p)
               /\ Uses(p)' = Uses(p) /\ ReadOnly(p)' = ReadOnly(p) /\ Private(p)' = Private(p)
               /\ \A s : Frame(p, s)' = Frame(p, s)
    BY <2>2 DEF Live, Uses, ReadOnly, Private, Frame, Writable
  <2>4. \A pn : Sharers(pn)' = Sharers(pn)
    BY <2>2, <2>3 DEF Sharers
  <2>5. KernelKept' /\ PrivateOwned'
    BY <2>2, <2>3 DEF IInv, KernelKept, PrivateOwned
  <2>6. SharedCounted'
    BY <2>2, <2>3, <2>4 DEF IInv, SharedCounted
  <2>7. PagesIsolated'
    BY SMTT(20), <2>3 DEF IInv, PagesIsolated
  <2>8. QED
    BY <2>5, <2>6, <2>7, <1>t DEF IInv
<1>8. QED
  BY <1>1, <1>2, <1>3, <1>4, <1>5, <1>6, <1>7 DEF CalmStep

\* Every step keeps processes isolated if no program does damage.
LEMMA IInvNext ==
  ASSUME UserCalls \cap Damaging = {}
  PROVE  IInv /\ [Next]_vars => IInv'
  BY NextCalm, CalmIInv

\* The inductive invariant holds in every reachable state.
THEOREM Invariant ==
  ASSUME UserCalls \cap Damaging = {}
  PROVE  Spec => []IInv
<1>1. Init => IInv
  BY InitFresh, FreshIInv
<1>2. IInv /\ [Next]_vars => IInv'
  BY IInvNext
<1>3. QED
  BY <1>1, <1>2, PTL DEF Spec

\* fork, exit and sys_page_alloc() never let two processes, or two purposes of
\* one process, share a page that either can change.
THEOREM Isolation ==
  ASSUME UserCalls \cap Damaging = {}
  PROVE  Spec => []PagesIsolated
<1>1. IInv => PagesIsolated
  BY DEF IInv
<1>2. QED
  BY <1>1, Invariant, PTL

\* alloc_page_process() never hands out a page that is still in use.
THEOREM NoReuse ==
  ASSUME UserCalls \cap Damaging = {}
  PROVE  Spec => []UsedNotFree
<1>1. IInv => UsedNotFree
  <2> SUFFICES ASSUME IInv, NEW p \in Procs, Live(p), NEW s \in Uses(p)
               PROVE  pageinfo[Frame(p, s)].refcount # 0
    BY DEF UsedNotFree
  <2>1. pageinfo[Frame(p, s)].refcount > 0
    BY UsedPositive
  <2>2. QED
    BY SMTT(20), <2>1
<1>2. QED
  BY <1>1, Invariant, PTL

\* No process ever maps the kernel's or reserved memory as its own (page 0, where
\* fork's failed copies go, excepted), and the
\* kernel's half of every page table is as process_setup() made it.
THEOREM KernelSafe ==
  ASSUME UserCalls \cap Damaging = {}
  PROVE  Spec => []KernelProtected
<1>1. IInv => KernelProtected
  <2> SUFFICES ASSUME IInv, NEW p \in Procs, Live(p)
               PROVE  /\ \A v \in 0 .. PROC_START - 1 : space[p][v] = KernelHalf(v)
                      /\ \A s \in Uses(p) :
                           Frame(p, s) \notin (KernelPages \cup ReservedPages) \ {NULL}
    BY DEF KernelProtected
  <2>1. ASSUME NEW v \in 0 .. PROC_START - 1 PROVE space[p][v] = KernelHalf(v)
    <3>1. v \in VPages /\ ~(v >= PROC_START) /\ v \notin UserVA
      BY SMTT(20), LayoutAssumption DEF VPages, UserVA
    <3>2. QED
      BY <3>1 DEF IInv, TInv, SpacesSane, SaneMapping
  <2>2. QED
    BY <2>1, FramesNotKernel
<1>2. QED
  BY <1>1, Invariant, PTL
=============================================================================
