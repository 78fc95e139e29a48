---------------------------- MODULE KernelMemory ----------------------------
(***************************************************************************)
(* What becomes of the machine's memory, for every number of pages,        *)
(* processes and page tables.  First the contents: a process changes no    *)
(* memory but its own, shared pages never change, and a fork copies.  Then *)
(* the bookkeeping: no page is leaked, every page's reference count is the *)
(* number of its uses, and the kernel's own check of its tables never      *)
(* fails, as long as programs allocate only where they have nothing mapped *)
(* and no process outlives the owner of a page it uses.                    *)
(***************************************************************************)
EXTENDS KernelIsolation

\* A leaf is Zenon's unless it names SMT, as the ones with arithmetic do.
USE ZenonT(20)

-----------------------------------------------------------------------------
(* Which pages a step may write *)

\* Pages that an allocation hands out are in nobody's use.
LEMMA HandedOutUnused ==
  ASSUME IInv, NEW S \in SUBSET Slots, NEW s \in S,
         NEW p \in Procs, Live(p), NEW u \in Uses(p), Frame(p, u) # NULL
  PROVE  Allocate(pageinfo, S)[s] # Frame(p, u)
<1>1. Allocate(pageinfo, S)[s] = NULL \/ Allocate(pageinfo, S)[s] \in FreePages(pageinfo)
  BY AllocateSound
<1>2. pageinfo[Frame(p, u)].refcount > 0
  BY UsedPositive
<1>3. QED
  BY SMTT(20), <1>1, <1>2 DEF FreePages

\* syscall_mapping()'s store changes the page it goes to, which the process can
\* write itself.
LEMMA StoreKeeps ==
  ASSUME NEW v, NEW x, StoreMapping(v, FALSE, x), NEW pn \in Pages
  PROVE  \/ mem'[pn] = mem[pn]
         \/ {"W", "U"} \subseteq space[current][v].perm /\ space[current][v].pn = pn
<1> DEFINE to == space[current][v].pn
<1>1. mem' = mem \/ mem' = [q \in Pages |-> IF q = to THEN x ELSE mem[q]]
  BY PlainStore
<1>2. mem' = mem \/ {"W", "U"} \subseteq space[current][v].perm
  BY PlainStore
<1>3. QED
  BY <1>1, <1>2

\* A page that the current process can write through virtual page v is in no
\* other use.
LEMMA WrittenAlone ==
  ASSUME IInv, mode = "user", NEW cur \in Procs, cur = current, NEW v \in VPages,
         {"W", "U"} \subseteq space[cur][v].perm,
         NEW p \in Procs, Live(p), NEW s \in Uses(p), Frame(p, s) # NULL,
         ~(p = cur /\ s \in Private(p))
  PROVE  space[cur][v].pn # Frame(p, s)
<1>t. TInv /\ Live(cur)
  BY DEF IInv, TInv, ProcessesSane, Live
<1>1. CASE v >= PROC_START
  <2>1. v \in Private(cur) /\ Frame(cur, v) = space[cur][v].pn
    BY <1>1, ImageSlots DEF Private, Uses, Frame, Writable
  <2>2. QED
    BY SMTT(20), <2>1, <1>t DEF IInv, PagesIsolated
<1>2. CASE ~(v >= PROC_START)
  <2>1. space[cur][v] = KernelHalf(v)
    BY <1>2, <1>t, ImageSlots DEF TInv, SpacesSane, SaneMapping
  <2>2. v = CONSOLE /\ space[cur][v].pn = CONSOLE
    BY SMTT(20), <2>1 DEF KernelHalf, Map
  <2>3. QED
    BY <2>2, FramesNotKernel, LayoutAssumption DEF NULL
<1>3. QED
  BY <1>1, <1>2

\* A fork that succeeds leaves every page in use alone.
LEMMA ForkKeeps ==
  ASSUME IInv, NEW child \in Procs \ {0}, Enter, ~Live(child), ForkCopy(child),
         NEW p \in Procs, Live(p), NEW s \in Uses(p), Frame(p, s) # NULL
  PROVE  mem'[Frame(p, s)] = mem[Frame(p, s)]
<1> DEFINE S   == Tables \cup Copied(space[current])
           got == Allocate(pageinfo, S)
           pn  == Frame(p, s)
<1>t. TInv /\ pn \in Pages
  BY UsesSplit DEF IInv
<1>1. \A t \in S : got[t] # pn
  BY HandedOutUnused, <1>t, ForkSlots
<1>2. PICK val \in [Copied(space[current]) -> Vals] : mem' = ForkMem(got, val)
  BY ForkFirstFit DEF ForkInto
<1> HIDE DEF got, pn
<1>3. /\ {w \in DOMAIN val : w < MEMSIZE_VIRTUAL /\ got[w] = pn} = {}
      /\ ~\E t \in Tables : got[t] = pn
  BY <1>1
<1>4. ForkMem(got, val)[pn] = mem[pn]
  BY <1>3, <1>t DEF ForkMem, HeldAt
<1>5. QED
  BY <1>2, <1>4 DEF pn

\* Unless it boots the machine, a step leaves a page in use alone, but for the
\* private pages of the current process.
LEMMA PageKept ==
  ASSUME IInv, CalmStep, mode' # "boot",
         NEW cur \in Procs, cur = current,
         NEW p \in Procs, Live(p), NEW s \in Uses(p), Frame(p, s) # NULL,
         ~(p = cur /\ s \in Private(p))
  PROVE  mem'[Frame(p, s)] = mem[Frame(p, s)]
<1> DEFINE pn == Frame(p, s)
<1>t. TInv /\ pn \in Pages /\ TypeOK
  BY UsesSplit DEF IInv, TInv
<1>a. \A S \in SUBSET Slots : \A t \in S : Allocate(pageinfo, S)[t] # pn
  BY HandedOutUnused
<1>w. ASSUME mode = "user", NEW v \in VPages, {"W", "U"} \subseteq space[cur][v].perm
      PROVE  space[cur][v].pn # pn
  BY <1>w, WrittenAlone
<1> HIDE DEF pn
<1>n. pn # NULL
  BY DEF pn
<1> SUFFICES mem'[pn] = mem[pn]
  BY DEF pn
<1>b. ASSUME NEW command \in Commands \cup {"allocator"}, Boot(command) PROVE FALSE
  BY <1>b DEF Boot
<1>1. ASSUME NEW q \in Procs, ProcessSetup(q) PROVE mem'[pn] = mem[pn]
  <2> DEFINE got == Allocate(pageinfo, Image \cup {STACK})
  <2>1. \A t \in Image \cup {STACK} : got[t] # pn
    BY <1>a, ImageSlots
  <2> HIDE DEF got
  <2>2. pn \notin {got[t] : t \in Tables} \cup ({got[u] : u \in Image} \ {NULL})
    BY <2>1 DEF Image
  <2>3. QED
    BY <1>1, <1>t, <2>2 DEF ProcessSetup, Image, got
<1>2. ASSUME Enter, NEW v \in VPages, NEW x \in Vals, StoreMapping(v, FALSE, x)
      PROVE  mem'[pn] = mem[pn]
  <2>1. \/ mem'[pn] = mem[pn]
        \/ {"W", "U"} \subseteq space[current][v].perm /\ space[current][v].pn = pn
    BY <1>2, <1>t, StoreKeeps
  <2>2. QED
    BY <1>2, <1>w, <2>1 DEF Enter
<1>3. ASSUME NEW v \in UserVA, NEW x \in Vals, UserWrite(v, x) PROVE mem'[pn] = mem[pn]
  <2>1. space[cur][v].pn # pn
    BY <1>3, <1>w, ImageSlots DEF UserWrite
  <2>2. QED
    BY <1>3, <2>1, <1>t DEF UserWrite, TypeOK
<1>4. CASE SysFork
  <2>1. CASE ForkNoSlot
    BY <2>1 DEF ForkNoSlot
  <2>2. ASSUME NEW child \in Procs, ForkNoTables(child) PROVE mem'[pn] = mem[pn]
    BY <2>2, <1>a, <1>t, ImageSlots DEF ForkNoTables
  <2>3. ASSUME NEW child \in Procs \ {0}, Enter, ~Live(child), ForkCopy(child)
        PROVE  mem'[pn] = mem[pn]
    BY <2>3, ForkKeeps, <1>n DEF pn
  <2>4. QED
    BY <1>4, <2>1, <2>2, <2>3 DEF SysFork
<1>5. CASE UNCHANGED mem
  BY <1>5
<1>6. ASSUME NEW a, PageAlloc(a), AddrKind(space[current], a) \notin Damaging
      PROVE  UNCHANGED mem
  BY <1>6, PlainAlloc DEF AllocAt
<1>7. QED
  BY <1>1, <1>2, <1>3, <1>4, <1>5, <1>6, <1>b
  DEF CalmStep, QuietAction, RunFirst, CheckFails, Panic, SysGetpid, Switch, PageFault,
      ForkNoSlot, SysExit, Reboot, Commands, PowerOff, Reset, Off, vars

-----------------------------------------------------------------------------
(* Which mappings a step may change *)

\* Unless it boots the machine, a step changes only the address space of the
\* current process and, of that, no read-only page.
LEMMA MappingKept ==
  ASSUME IInv, CalmStep, mode' # "boot",
         NEW cur \in Procs, cur = current,
         NEW p \in Procs, Live(p), p_state'[p] # "P_FREE", NEW v \in UserVA,
         p # cur \/ space[p][v].perm = PTE_RO
  PROVE  space'[p][v] = space[p][v]
<1>t. TypeOK /\ v \in VPages /\ v \in Int
  BY SMTT(20), ImageSlots DEF IInv, TInv, UserVA
<1>1. ASSUME NEW q \in Procs, ProcessSetup(q) PROVE space' = space
  BY <1>1 DEF ProcessSetup
<1>2. ASSUME NEW a \in Addresses, PageAlloc(a), AddrKind(space[current], a) \notin Damaging
      PROVE  space'[p][v] = space[p][v]
  <2>a. AllocAt(a)
    BY <1>2, PlainAlloc
  <2>1. CASE p # cur
    BY <2>a, <1>t, <2>1 DEF AllocAt, TypeOK
  <2>2. CASE p = cur /\ a.vpn # v
    BY <2>a, <1>t, <2>2 DEF AllocAt, TypeOK
  <2>3. CASE p = cur /\ a.vpn = v
    <3>1. space[cur][v].perm = PTE_RO
      BY <2>3
    <3>2. ~Writable(space[cur], v) /\ space[cur][v].perm # {}
      BY <3>1 DEF Writable, PTE_RO
    <3>3. ~(v < PROC_START) /\ v # VA_LIMIT /\ ~(v >= MEMSIZE_VIRTUAL)
      BY SMTT(20), LayoutAssumption DEF UserVA
    <3>4. CASE a.aligned
      <4>1. AddrKind(space[current], a) = "alloc_text"
        BY <2>3, <3>2, <3>3, <3>4 DEF AddrKind, Below
      <4>2. QED
        BY <1>2, <4>1 DEF Damaging
    <3>5. CASE ~a.aligned
      BY <2>a, <3>5 DEF AllocAt
    <3>6. QED
      BY <3>4, <3>5
  <2>4. QED
    BY <2>1, <2>2, <2>3
<1>3. ASSUME NEW child \in Procs, ~Live(child), ForkCopy(child)
      PROVE  space'[p] = space[p]
  <2>1. p # child
    BY <1>3
  <2>2. QED
    BY <1>3, <1>t, <2>1 DEF ForkCopy, ForkInto, TypeOK
<1>4. CASE SysExit
  <2>1. p # cur
    BY <1>4, <1>t DEF SysExit, TypeOK
  <2>2. QED
    BY <1>4, <1>t, <2>1 DEF SysExit, TypeOK
<1>5. ASSUME NEW command \in Commands \cup {"allocator"}, Boot(command) PROVE FALSE
  BY <1>5 DEF Boot
<1>6. CASE UNCHANGED space
  BY <1>6
<1>7. CASE QuietAction
  BY <1>7, QuietActions DEF Quiet, IInv
<1>8. QED
  BY <1>1, <1>2, <1>3, <1>4, <1>5, <1>6, <1>7
  DEF CalmStep, SysFork, ForkNoSlot, ForkNoTables,
      Reboot, Commands, PowerOff, Reset, Off, vars

-----------------------------------------------------------------------------
(* Theorems *)

\* What NonInterference says of a step.
OthersKept ==
  mode' # "boot" =>
    \A p \in Procs \ {current} : Live(p) /\ p_state'[p] # "P_FREE" =>
      \A v \in UserVA :
        /\ space'[p][v] = space[p][v]
        /\ space[p][v].pn \notin {-1, NULL}
             => mem'[space[p][v].pn] = mem[space[p][v].pn]

\* These steps leave the memory of the other processes alone.
LEMMA KeepsOthers == IInv /\ CalmStep => OthersKept
<1> SUFFICES ASSUME IInv, CalmStep, mode' # "boot",
                    NEW cur \in Procs, cur = current,
                    NEW p \in Procs, p # cur, Live(p), p_state'[p] # "P_FREE",
                    NEW v \in UserVA
             PROVE  /\ space'[p][v] = space[p][v]
                    /\ space[p][v].pn \notin {-1, NULL}
                         => mem'[space[p][v].pn] = mem[space[p][v].pn]
  BY DEF OthersKept, IInv, TInv, TypeOK
<1>1. space'[p][v] = space[p][v]
  BY MappingKept
<1>2. ASSUME space[p][v].pn \notin {-1, NULL}
      PROVE  mem'[space[p][v].pn] = mem[space[p][v].pn]
  <2>1. v \in VPages /\ v >= PROC_START /\ v \notin Tables /\ v \in Int
    BY SMTT(20), ImageSlots DEF UserVA
  <2>2. SaneMapping(v, space[p][v])
    BY <2>1 DEF IInv, TInv, SpacesSane
  <2>3. space[p][v].perm # {}
    BY SMTT(20), <1>2, <2>1, <2>2, LayoutAssumption
    DEF SaneMapping, Unmapped, Map, PTE_RW, PTE_RO, VPages
  <2>4. v \in Uses(p) /\ Frame(p, v) = space[p][v].pn
    BY <2>1, <2>3 DEF Uses, Frame
  <2>5. mem'[Frame(p, v)] = mem[Frame(p, v)]
    BY <1>2, <2>4, PageKept
  <2>6. QED
    BY <2>4, <2>5
<1>3. QED
  BY <1>1, <1>2

\* A step of one process leaves the memory of every other live process as it
\* was, if no program does damage: the second half of a syscall_mapping() store
\* across a page boundary goes to the next physical page, whoever uses it.
THEOREM Interference ==
  ASSUME UserCalls \cap Damaging = {}
  PROVE  Spec => NonInterference
<1>1. IInv /\ [Next]_vars => OthersKept
  BY KeepsOthers, NextCalm
<1>2. NonInterference <=> [][OthersKept]_vars
  BY DEF NonInterference, OthersKept
<1>3. QED
  BY <1>1, <1>2, Invariant, PTL DEF Spec

\* What TextStable says of a step.
TextKept ==
  mode' # "boot" =>
    \A p \in Procs : Live(p) /\ p_state'[p] # "P_FREE" =>
      \A v \in UserVA : space[p][v].perm = PTE_RO =>
        /\ space'[p][v] = space[p][v]
        /\ mem'[space[p][v].pn] = mem[space[p][v].pn]

\* They leave read-only pages alone.
LEMMA KeepsText == IInv /\ CalmStep => TextKept
<1> SUFFICES ASSUME IInv, CalmStep, mode' # "boot",
                    NEW cur \in Procs, cur = current,
                    NEW p \in Procs, Live(p), p_state'[p] # "P_FREE",
                    NEW v \in UserVA, space[p][v].perm = PTE_RO
             PROVE  /\ space'[p][v] = space[p][v]
                    /\ mem'[space[p][v].pn] = mem[space[p][v].pn]
  BY DEF TextKept, IInv, TInv, TypeOK
<1>1. space'[p][v] = space[p][v]
  BY MappingKept
<1>2. v \in ReadOnly(p)
  BY DEF ReadOnly
<1>3. v \in Uses(p) /\ Frame(p, v) = space[p][v].pn /\ v \notin Private(p)
  BY <1>2, ReadOnlyUse
<1>4. v \in VPages /\ v >= PROC_START
  BY ImageSlots
<1>5. SaneMapping(v, space[p][v])
  BY <1>4 DEF IInv, TInv, SpacesSane
<1>6. space[p][v].pn # NULL
  BY SMTT(20), <1>4, <1>5, LayoutAssumption DEF SaneMapping, Unmapped, Map, PTE_RW, PTE_RO, VPages
<1>7. mem'[Frame(p, v)] = mem[Frame(p, v)]
  BY <1>3, <1>6, PageKept
<1>8. QED
  BY <1>1, <1>3, <1>7

\* Read-only pages, which fork shares, never change while they are mapped.
THEOREM SharedPagesStable ==
  ASSUME UserCalls \cap Damaging = {}
  PROVE  Spec => TextStable
<1>1. IInv /\ [Next]_vars => TextKept
  BY KeepsText, NextCalm
<1>2. TextStable <=> [][TextKept]_vars
  BY DEF TextStable, TextKept
<1>3. QED
  BY <1>1, <1>2, Invariant, PTL DEF Spec

\* A fork that succeeds gives each page it copies the contents of its original.
LEMMA CopiesContents ==
  ASSUME IInv, NEW child \in Procs \ {0}, Enter, ~Live(child), ForkCopy(child),
         NEW cur \in Procs, cur = current, NEW v \in Copied(space[cur]),
         space'[child][v].pn # NULL
  PROVE  mem'[space'[child][v].pn] = mem[space[cur][v].pn]
<1> DEFINE S   == Tables \cup Copied(space[cur])
           got == Allocate(pageinfo, S)
           sp  == space[cur]
<1>t. TInv /\ TypeOK
  BY DEF IInv, TInv
<1>1. S \in SUBSET Slots /\ v \in VPages /\ v \in Int /\ ~(v >= MEMSIZE_VIRTUAL)
  BY SMTT(20), <1>t, ForkSlots, ImageSlots, LayoutAssumption DEF UserVA
<1>2. /\ \A w \in S : got[w] = got[v] /\ got[v] # NULL => w = v
      /\ got[v] \in Pages
  BY SMTT(20), <1>1, AllocateSound
<1>3. PICK val \in [Copied(sp) -> Vals] : ForkInto(child, got, val)
  BY ForkFirstFit
<1>a. /\ mem' = ForkMem(got, val) /\ space' = [space EXCEPT ![child] = ForkSpace(got)]
      /\ val[v] = HeldAt(got, val, v, sp[v].pn)
      /\ \A t \in Tables : got[t] # NULL
  BY <1>3 DEF ForkInto
<1>4. space'[child][v].pn = got[v]
  <2> HIDE DEF got
  <2>1. space'[child] = ForkSpace(got)
    BY <1>a, <1>t DEF TypeOK
  <2>2. QED
    BY SMTT(20), <2>1, <1>1 DEF ForkSpace, Map
<1>5. ASSUME NEW w \in S, w \in Tables \/ w < v PROVE got[w] # sp[v].pn
  <2>1. CASE sp[v].pn = NULL
    <3>1. ASSUME w < v, got[w] = NULL PROVE FALSE
      <4>1. got[v] = NULL
        BY SMTT(20), <1>1, <3>1, AllocateInOrder
      <4>2. QED
        BY <4>1, <1>4
    <3>2. QED
      BY <1>5, <1>a, <2>1, <3>1
  <2>2. CASE sp[v].pn # NULL
    <3>1. v \in UserVA /\ Writable(sp, v)
      BY DEF Copied
    <3>2. v \in VPages /\ v >= PROC_START /\ v \notin Tables
      BY <3>1, ImageSlots
    <3>3. v \in Uses(cur) /\ Frame(cur, v) = sp[v].pn
      BY <3>1, <3>2 DEF Uses, Frame, Writable
    <3>4. Live(cur)
      BY <1>t DEF TInv, ProcessesSane, Enter, Live
    <3>5. QED
      BY <2>2, <3>3, <3>4, <1>1, HandedOutUnused
  <2>3. QED
    BY <2>1, <2>2
<1>6. got[v] # NULL
  BY <1>4
<1> HIDE DEF got, sp
<1>7. {w \in DOMAIN val : w < MEMSIZE_VIRTUAL /\ got[w] = got[v]} = {v}
  <2>1. v < MEMSIZE_VIRTUAL
    BY SMTT(20), <1>1, LayoutAssumption
  <2>2. QED
    BY <1>2, <1>6, <2>1 DEF sp
<1>8. (CHOOSE w \in {v} : \A u \in {v} : u <= w) = v
  BY SMTT(20), <1>1
<1>9. ForkMem(got, val)[got[v]] = val[v]
  BY <1>2, <1>7, <1>8 DEF ForkMem, HeldAt
<1>10. val[v] = mem[sp[v].pn]
  <2>1. {w \in DOMAIN val : w < v /\ got[w] = sp[v].pn} = {}
    BY <1>5 DEF sp
  <2>2. ~\E t \in Tables : got[t] = sp[v].pn
    BY <1>5
  <2>3. QED
    BY <1>a, <2>1, <2>2 DEF HeldAt
<1>11. QED
  BY <1>a, <1>4, <1>9, <1>10 DEF sp

\* What ForkIsCopy says of a step.
ChildIsCopy ==
  mode = "user" =>
    \A c \in Procs : ~Live(c) /\ p_state'[c] # "P_FREE" =>
      /\ rax'[current] = c /\ rax'[c] = 0
      /\ \A v \in UserVA :
           /\ space'[c][v].perm = space[current][v].perm
           /\ space'[c][v].pn \notin {-1, NULL}
                => mem'[space'[c][v].pn] = mem[space[current][v].pn]

\* Every step that adds a process is a fork and copies.
LEMMA CopiesChild == IInv /\ CalmStep => ChildIsCopy
<1> SUFFICES ASSUME IInv, CalmStep, mode = "user",
                    NEW cur \in Procs, cur = current,
                    NEW c \in Procs, ~Live(c), p_state'[c] # "P_FREE"
             PROVE  /\ rax'[cur] = c /\ rax'[c] = 0
                    /\ \A v \in UserVA :
                         /\ space'[c][v].perm = space[cur][v].perm
                         /\ space'[c][v].pn \notin {-1, NULL}
                              => mem'[space'[c][v].pn] = mem[space[cur][v].pn]
  BY SMTT(20) DEF ChildIsCopy, IInv, TInv, TypeOK
<1>t. TInv /\ TypeOK /\ Live(cur)
  BY DEF IInv, TInv, ProcessesSane, Live
<1>1. c \in Procs \ {0} /\ Enter /\ ForkCopy(c)
  <2>1. CASE UNCHANGED p_state
    BY <2>1 DEF Live
  <2>2. CASE PageFault \/ SysExit
    BY <2>2, <1>t DEF PageFault, SysExit, Live, TypeOK
  <2>3. ASSUME NEW command \in Commands, Boot(command) PROVE FALSE
    BY <2>3 DEF Boot
  <2>4. ASSUME NEW child \in Procs \ {0}, Enter, ForkCopy(child)
        PROVE  c \in Procs \ {0} /\ Enter /\ ForkCopy(c)
    <3>1. c = child
      BY <2>4, <1>t DEF ForkCopy, ForkInto, TypeOK, Live
    <3>2. QED
      BY <2>4, <3>1
  <2>5. CASE QuietAction
    BY <2>5, <1>t, QuietActions DEF Quiet, Live
  <2>6. ASSUME NEW a, PageAlloc(a), AddrKind(space[current], a) \notin Damaging
        PROVE  UNCHANGED p_state
    BY <2>6, PlainAlloc DEF AllocAt
  <2>7. QED
    BY <2>1, <2>2, <2>3, <2>4, <2>5, <2>6
    DEF CalmStep, ProcessSetup, SysFork, ForkNoSlot, ForkNoTables, Reboot, Reset, Off, vars
<1>2. c # cur /\ rax'[cur] = c /\ rax'[c] = 0
  BY <1>1, <1>t DEF ForkCopy, ForkInto, TypeOK
<1>3. ASSUME NEW v \in UserVA
      PROVE  /\ space'[c][v].perm = space[cur][v].perm
             /\ space'[c][v].pn \notin {-1, NULL}
                  => mem'[space'[c][v].pn] = mem[space[cur][v].pn]
  <2> DEFINE got == Allocate(pageinfo, Tables \cup Copied(space[cur]))
  <2>1. v \in VPages /\ v \in Int /\ ~(v >= MEMSIZE_VIRTUAL)
    BY SMTT(20), ImageSlots, LayoutAssumption DEF UserVA
  <2>2. space'[c] = ForkSpace(got)
    <3>1. PICK val : ForkInto(c, got, val)
      BY <1>1, ForkFirstFit
    <3>2. space' = [space EXCEPT ![c] = ForkSpace(got)]
      BY <3>1 DEF ForkInto
    <3>3. QED
      BY <3>2, <1>t DEF TypeOK
  <2> HIDE DEF got
  <2>3. CASE v \in Copied(space[cur])
    <3>1. space'[c][v].perm = space[cur][v].perm
      BY SMTT(20), <2>1, <2>2, <2>3 DEF ForkSpace, Map
    <3>2. QED
      BY <3>1, <1>1, <2>3, CopiesContents
  <2>4. CASE v \notin Copied(space[cur])
    <3>1. space'[c][v] = space[cur][v]
      BY <2>1, <2>2, <2>4 DEF ForkSpace
    <3>2. ASSUME space[cur][v].pn \notin {-1, NULL}
          PROVE  mem'[space[cur][v].pn] = mem[space[cur][v].pn]
      <4>1. space[cur][v] # Unmapped
        BY SMTT(20), <3>2 DEF Unmapped, Map
      <4>2. v \in ReadOnly(cur)
        BY <1>t, <2>4, <4>1, NotCopied
      <4>3. v \in Uses(cur) /\ Frame(cur, v) = space[cur][v].pn
        BY <4>2, ReadOnlyUse
      <4>4. mem'[Frame(cur, v)] = mem[Frame(cur, v)]
        BY <1>1, <1>t, <3>2, <4>3, ForkKeeps
      <4>5. QED
        BY <4>3, <4>4
    <3>3. QED
      BY <3>1, <3>2
  <2>5. QED
    BY <2>3, <2>4
<1>4. QED
  BY <1>2, <1>3

\* A successful fork answers both processes and copies the parent's memory, but
\* for the pages it found no memory for, which are mapped to page 0.
THEOREM ForkCopies ==
  ASSUME UserCalls \cap Damaging = {}
  PROVE  Spec => ForkIsCopy
<1>1. IInv /\ [Next]_vars => ChildIsCopy
  BY CopiesChild, NextCalm
<1>2. ForkIsCopy <=> [][ChildIsCopy]_vars
  BY DEF ForkIsCopy, ChildIsCopy
<1>3. QED
  BY <1>1, <1>2, Invariant, PTL DEF Spec

-----------------------------------------------------------------------------
(* Exact bookkeeping *)

\* The calls that keep pageinfo[] exact; an unaligned sys_page_alloc() stops
\* the kernel.
ExactCalls == UserCalls \subseteq {"alloc_unaligned", "late_result"}

\* Entries of pageinfo[] hold numbers.
LEMMA InfoTypes ==
  ASSUME EInv, NEW pn \in Pages
  PROVE  pageinfo[pn].owner \in Int /\ pageinfo[pn].refcount \in Int
         /\ pageinfo[pn].owner <= NPROC - 1
  BY SMTT(20), PageAssumption, LayoutAssumption DEF EInv, IInv, TInv, TypeOK, PageInfos

-----------------------------------------------------------------------------
(* Steps that take no page away from a process *)

\* A step that changes neither page tables nor pageinfo[] leaks nothing.
LEMMA QuietExact ==
  ASSUME EInv, UNCHANGED <<pageinfo, p_tables, space>>, Settled' => Settled,
         \A p \in Procs : Live(p)' <=> Live(p)
  PROVE  NothingAbove' /\ PagesUsed' /\ OwnersLive'
<1>1. \A p \in Procs : Uses(p)' = Uses(p) /\ \A s : Frame(p, s)' = Frame(p, s)
  BY DEF Uses, Frame
<1>2. NothingAbove'
  BY DEF EInv, NothingAbove
<1>3. PagesUsed'
  <2> SUFFICES ASSUME Settled', NEW pn \in Pages \ (KernelPages \cup ReservedPages),
                      pageinfo'[pn].refcount # 0
               PROVE  \E p \in Procs : Live(p)' /\ \E s \in Uses(p)' : Frame(p, s)' = pn
    BY DEF PagesUsed
  <2>1. PICK p \in Procs : Live(p) /\ \E s \in Uses(p) : Frame(p, s) = pn
    BY DEF EInv, PagesUsed
  <2>2. QED
    BY <2>1, <1>1
<1>4. OwnersLive'
  <2> SUFFICES ASSUME Settled', NEW pn \in Pages,
                      pageinfo'[pn].refcount > 0, pageinfo'[pn].owner >= 0
               PROVE  p_state'[pageinfo'[pn].owner] # "P_FREE"
    BY DEF OwnersLive, Live
  <2>1. Live(pageinfo[pn].owner) /\ pageinfo'[pn].owner = pageinfo[pn].owner
    BY DEF EInv, OwnersLive
  <2>2. pageinfo[pn].owner \in Procs
    BY SMTT(20), InfoTypes, LayoutAssumption DEF Procs
  <2>3. QED
    BY <2>1, <2>2 DEF Live
<1>5. QED
  BY <1>2, <1>3, <1>4

\* The step takes no page from a process, and every page whose entry it fills
\* in becomes a page of process c.
Covers(c) ==
  /\ Settled
  /\ \A p \in Procs : Live(p) =>
       Live(p)' /\ \A s \in Uses(p) : s \in Uses(p)' /\ Frame(p, s)' = Frame(p, s)
  /\ \A pn \in Pages :
       \/ pageinfo[pn].refcount > 0 /\ pageinfo'[pn].owner = pageinfo[pn].owner
       \/ pageinfo'[pn] = pageinfo[pn]
       \/ /\ Live(c)' /\ pageinfo'[pn].owner = c
          /\ \E s \in Uses(c)' : Frame(c, s)' = pn

\* Such a step leaks nothing.
LEMMA CoverStep ==
  ASSUME EInv, NEW c \in Procs, Covers(c)
  PROVE  PagesUsed' /\ OwnersLive'
<1>1. PagesUsed'
  <2> SUFFICES ASSUME NEW pn \in Pages \ (KernelPages \cup ReservedPages),
                      pageinfo'[pn].refcount # 0
               PROVE  \E p \in Procs : Live(p)' /\ \E s \in Uses(p)' : Frame(p, s)' = pn
    BY DEF PagesUsed
  <2>1. CASE pageinfo[pn].refcount # 0
    <3>1. PICK p \in Procs : Live(p) /\ \E s \in Uses(p) : Frame(p, s) = pn
      BY <2>1 DEF EInv, PagesUsed, Covers
    <3>2. QED
      BY <3>1 DEF Covers
  <2>2. CASE pageinfo[pn].refcount = 0
    BY SMTT(20), <2>2, InfoTypes DEF Covers
  <2>3. QED
    BY <2>1, <2>2
<1>2. OwnersLive'
  <2> SUFFICES ASSUME NEW pn \in Pages,
                      pageinfo'[pn].refcount > 0, pageinfo'[pn].owner >= 0
               PROVE  p_state'[pageinfo'[pn].owner] # "P_FREE"
    BY DEF OwnersLive, Live
  <2>1. CASE /\ pageinfo[pn].refcount > 0 /\ pageinfo[pn].owner >= 0
             /\ pageinfo'[pn].owner = pageinfo[pn].owner
    <3>1. Live(pageinfo[pn].owner) /\ pageinfo[pn].owner \in Procs
      BY SMTT(20), <2>1, InfoTypes, LayoutAssumption DEF Covers, EInv, OwnersLive, Procs
    <3>2. \A p \in Procs : Live(p) => Live(p)'
      BY DEF Covers
    <3>3. QED
      BY <2>1, <3>1, <3>2 DEF Live
  <2>2. CASE Live(c)' /\ pageinfo'[pn].owner = c
    BY <2>2 DEF Live
  <2>3. QED
    BY <2>1, <2>2 DEF Covers
<1>3. QED
  BY <1>1, <1>2

-----------------------------------------------------------------------------
(* Boot *)

\* A machine that has just booted has handed out nothing.
LEMMA FreshEInv == Fresh => EInv
<1> SUFFICES ASSUME Fresh PROVE EInv
  OBVIOUS
<1>1. \A p \in Procs : ~Live(p)
  BY DEF Fresh, Live
<1>2. \A pn \in Pages :
        \/ pageinfo[pn] = Info(PO_FREE, 0)
        \/ /\ pn \in KernelPages \cup ReservedPages
           /\ pageinfo[pn] \in {Info(PO_RESERVED, 1), Info(PO_KERNEL, 1)}
  BY DEF Fresh, pageinfo_init
<1>3. NothingAbove /\ PagesUsed
  BY SMTT(20), <1>1, <1>2 DEF NothingAbove, PagesUsed, Info
<1>4. OwnersLive
  <2> SUFFICES ASSUME NEW pn \in Pages, pageinfo[pn].refcount > 0, pageinfo[pn].owner >= 0
               PROVE  FALSE
    BY DEF OwnersLive
  <2>1. QED
    BY SMTT(20), <1>2 DEF Info, PO_FREE, PO_RESERVED, PO_KERNEL
<1>5. QED
  BY <1>3, <1>4, FreshIInv DEF EInv

-----------------------------------------------------------------------------
(* The handlers that allocate *)

\* Pages that were not handed out keep their entries; NULL never is handed out.
LEMMA AssignKeeps ==
  ASSUME NEW info, NEW S, NEW got, DOMAIN got = S, NEW c, NEW pn \in Pages
  PROVE  \/ Assign(info, got, c)[pn] = info[pn]
         \/ /\ Assign(info, got, c)[pn] = Info(c, 1)
            /\ pn # NULL /\ \E s \in S : got[s] = pn
  BY DEF Assign

\* process_setup() leaks no page unless it fails.
LEMMA SetupExact ==
  ASSUME EInv, NEW p \in Procs, ProcessSetup(p)
  PROVE  NothingAbove' /\ PagesUsed' /\ OwnersLive'
<1> DEFINE got == Allocate(pageinfo, Image \cup {STACK})
<1>t. TypeOK /\ IInv
  BY DEF EInv, IInv, TInv
<1>a. got \in [Image \cup {STACK} -> Pages]
  BY ImageSlots, AllocateSound
<1>1. pageinfo' = Assign(pageinfo, got, p) /\ mode = "boot" /\ p \in setup
  BY DEF ProcessSetup, Image
<1>2. CASE \E s \in Image : got[s] = NULL
  <2>1. mode' = "panic" /\ UNCHANGED <<p_state, space>>
    BY <1>2 DEF ProcessSetup, Image
  <2>2. QED
    BY <2>1 DEF EInv, NothingAbove, PagesUsed, OwnersLive, Settled, Live
<1>3. CASE \A s \in Image : got[s] # NULL
  <2>1. /\ p_state' = [p_state EXCEPT ![p] = "P_RUNNABLE"]
        /\ p_tables' = [p_tables EXCEPT ![p] = [t \in Tables |-> got[t]]]
        /\ space' = [space EXCEPT ![p] = LoadedSpace(got)]
    BY <1>3 DEF ProcessSetup, Image
  <2>2. ~Live(p)
    BY <1>1, <1>t DEF IInv, TInv, ProcessesSane
  <2>3. \A q \in Procs : q # p =>
          /\ Live(q)' <=> Live(q)
          /\ space'[q] = space[q] /\ p_tables'[q] = p_tables[q]
    BY <2>1, <1>t DEF TypeOK, Live
  <2>4. /\ space'[p] = LoadedSpace(got) /\ p_tables'[p] = [t \in Tables |-> got[t]]
        /\ Live(p)'
    BY <2>1, <1>t DEF TypeOK, Live
  <2> HIDE DEF got
  <2>5. ASSUME NEW s \in Image \cup {STACK}, got[s] # NULL
        PROVE  s \in Uses(p)' /\ Frame(p, s)' = got[s]
    <3>1. CASE s \in Tables
      BY <3>1, <2>4 DEF Uses, Frame
    <3>2. CASE s \notin Tables
      <4>1. s \in TextPages \cup DataPages \cup {STACK} /\ s \in UserVA
        BY <3>2, ImageSlots, LayoutAssumption DEF Image
      <4>2. s \in VPages /\ s >= PROC_START /\ ~(s < PROC_START)
        BY SMTT(20), <4>1, ImageSlots, LayoutAssumption DEF UserVA
      <4>3. LoadedSpace(got)[s] \in {Map(got[s], PTE_RO), Map(got[s], PTE_RW)}
        BY <4>1, <4>2, <2>5 DEF LoadedSpace
      <4>4. LoadedSpace(got)[s].pn = got[s] /\ LoadedSpace(got)[s].perm # {}
        BY SMTT(20), <4>3 DEF Map, PTE_RO, PTE_RW
      <4>5. QED
        BY <3>2, <4>2, <4>4, <2>4 DEF Uses, Frame
    <3>3. QED
      BY <3>1, <3>2
  <2>6. \A q \in Procs : Live(q) =>
          Live(q)' /\ \A s \in Uses(q) : s \in Uses(q)' /\ Frame(q, s)' = Frame(q, s)
    BY <2>2, <2>3 DEF Uses, Frame
  <2>7. ASSUME NEW pn \in Pages
        PROVE  \/ pageinfo'[pn] = pageinfo[pn]
               \/ /\ pageinfo'[pn].owner = p
                  /\ \E s \in Uses(p)' : Frame(p, s)' = pn
    <3>1. DOMAIN got = Image \cup {STACK}
      BY <1>a
    <3>2. \/ pageinfo'[pn] = pageinfo[pn]
          \/ /\ pageinfo'[pn] = Info(p, 1) /\ pn # NULL
             /\ \E s \in Image \cup {STACK} : got[s] = pn
      BY SMTT(20), <1>1, <3>1, AssignKeeps
    <3>3. QED
      BY SMTT(20), <3>2, <2>5 DEF Info
  <2>8. Covers(p)
    BY <1>1, <2>4, <2>6, <2>7 DEF Covers, Settled
  <2>9. NothingAbove'
    <3> SUFFICES ASSUME NEW q \in Procs, Live(q)', NEW v \in VPages, v >= MEMSIZE_VIRTUAL
                 PROVE  space'[q][v] = Unmapped
      BY DEF NothingAbove
    <3>1. CASE q # p
      BY <3>1, <2>3 DEF EInv, NothingAbove
    <3>2. CASE q = p
      <4>1. v \notin UserVA /\ ~(v < PROC_START)
        BY SMTT(20), LayoutAssumption DEF UserVA, VPages
      <4>2. LoadedSpace(got)[v] = Unmapped
        BY <4>1, ImageSlots, LayoutAssumption DEF LoadedSpace
      <4>3. QED
        BY <3>2, <4>2, <2>4
    <3>3. QED
      BY <3>1, <3>2
  <2>10. QED
    BY <2>8, <2>9, CoverStep
<1>4. QED
  BY <1>2, <1>3

\* sys_page_alloc() of a page that is not mapped leaks nothing.
LEMMA PageAllocExact ==
  ASSUME EInv, Enter, NEW a \in Addresses, PageAlloc(a),
         AddrKind(space[current], a) \in {"fresh", "alloc_unaligned"},
         NEW cur \in Procs, cur = current
  PROVE  NothingAbove' /\ PagesUsed' /\ OwnersLive'
<1> DEFINE got == Allocate(pageinfo, {a.vpn})
           pn  == got[a.vpn]
<1>t. TypeOK /\ current \in Procs /\ Live(current)
  BY DEF EInv, IInv, TInv, TypeOK, ProcessesSane, Enter, Live
<1>a. a.vpn \in 0 .. VA_LIMIT /\ {a.vpn} \in SUBSET Slots
  BY SMTT(20), LayoutAssumption DEF Addresses, Slots
<1>b. DOMAIN got = {a.vpn} /\ pn \in Pages
  BY SMTT(20), <1>a, AllocateSound
<1>c. AllocAt(a)
  BY PlainAlloc DEF Damaging
<1>1. UNCHANGED <<p_state, p_tables>> /\ pageinfo' = Assign(pageinfo, got, current)
  BY <1>c DEF AllocAt
<1>2. ~Below(a) /\ (a.aligned => AddrKind(space[current], a) = "fresh" /\ a.vpn >= PROC_START)
  BY SMTT(20), <1>a, LayoutAssumption DEF AddrKind
<1>3. \A p \in Procs : Live(p)' <=> Live(p)
  BY <1>1 DEF Live
<1>4. CASE pn = NULL
  <2>1. pageinfo' = pageinfo
    <3>1. pageinfo' = [q \in Pages |-> pageinfo[q]]
      BY <1>1, <1>4, <1>b DEF Assign
    <3>2. QED
      BY <3>1, <1>t DEF TypeOK, PageInfos
  <2>2. space' = space
    BY SMTT(20), <1>c, <1>4 DEF AllocAt
  <2>3. QED
    BY <1>1, <1>3, <2>1, <2>2, QuietExact DEF Enter, Settled
<1>5. CASE pn # NULL /\ ~a.aligned
  <2>1. mode' = "panic" /\ space' = space
    BY SMTT(20), <1>c, <1>5, <1>2 DEF AllocAt
  <2>2. QED
    BY <2>1, <1>1 DEF EInv, NothingAbove, PagesUsed, OwnersLive, Settled, Live
<1>6. CASE pn # NULL /\ a.aligned
  <2>1. /\ a.vpn \in UserVA /\ a.vpn \in VPages /\ a.vpn < MEMSIZE_VIRTUAL
        /\ space[current][a.vpn].perm = {}
    BY SMTT(20), <1>2, <1>6, <1>a, LayoutAssumption DEF AddrKind, UserVA, VPages
  <2>2. space' = [space EXCEPT ![current][a.vpn] = Map(pn, PTE_RW)]
    BY SMTT(20), <1>c, <1>2, <1>6, <2>1, <1>a, LayoutAssumption DEF AllocAt, VPages
  <2>3. \A p \in Procs, v \in VPages :
          space'[p][v] = IF p = current /\ v = a.vpn THEN Map(pn, PTE_RW) ELSE space[p][v]
    BY <2>2, <1>t DEF TypeOK
  <2> HIDE DEF got, pn
  <2>4. a.vpn \notin Tables
    BY <2>1, ImageSlots
  <2>5. a.vpn \in Uses(cur)' /\ Frame(cur, a.vpn)' = pn
    <3>1. space'[cur][a.vpn] = Map(pn, PTE_RW)
      BY <2>1, <2>3, <1>t
    <3>2. QED
      BY SMTT(20), <3>1, <2>1, <2>4, <1>2, <1>6 DEF Uses, Frame, Map, PTE_RW
  <2>6. ASSUME NEW p \in Procs, Live(p), NEW s \in Uses(p)
        PROVE  s \in Uses(p)' /\ Frame(p, s)' = Frame(p, s)
    <3>1. CASE s \in Tables
      BY <3>1, <1>1 DEF Uses, Frame
    <3>2. CASE s \notin Tables
      <4>1. s \in VPages /\ s >= PROC_START /\ space[p][s].perm # {}
        BY <3>2 DEF Uses
      <4>2. space'[p][s] = space[p][s]
        BY <4>1, <2>1, <2>3
      <4>3. QED
        BY <3>2, <4>1, <4>2 DEF Uses, Frame
    <3>3. QED
      BY <3>1, <3>2
  <2>7. ASSUME NEW q \in Pages
        PROVE  \/ pageinfo'[q] = pageinfo[q]
               \/ /\ pageinfo'[q].owner = cur
                  /\ \E s \in Uses(cur)' : Frame(cur, s)' = q
    <3>1. \/ pageinfo'[q] = pageinfo[q]
          \/ pageinfo'[q] = Info(current, 1) /\ \E s \in {a.vpn} : got[s] = q
      BY SMTT(20), <1>1, <1>b, AssignKeeps
    <3>2. QED
      BY SMTT(20), <3>1, <2>5 DEF Info, pn
  <2>8. Covers(cur)
    BY <1>3, <1>t, <2>6, <2>7 DEF Covers, Settled, Enter
  <2>9. NothingAbove'
    <3> SUFFICES ASSUME NEW q \in Procs, Live(q)', NEW v \in VPages, v >= MEMSIZE_VIRTUAL
                 PROVE  space'[q][v] = Unmapped
      BY DEF NothingAbove
    <3>1. v # a.vpn
      BY SMTT(20), <2>1, LayoutAssumption DEF UserVA
    <3>2. QED
      BY SMTT(20), <3>1, <2>3, <1>3 DEF EInv, NothingAbove
  <2>10. QED
    BY <2>8, <2>9, <1>t, CoverStep
<1>7. QED
  BY <1>4, <1>5, <1>6

\* A fork that succeeds leaks nothing, though it may have found no memory for
\* some of the child's pages.
LEMMA ForkExact ==
  ASSUME EInv, Enter, NEW child \in Procs \ {0}, ~Live(child), ForkCopy(child),
         NEW cur \in Procs, cur = current
  PROVE  NothingAbove' /\ PagesUsed' /\ OwnersLive'
<1> DEFINE sp  == space[cur]
           S   == Tables \cup Copied(sp)
           got == Allocate(pageinfo, S)
<1>t. TypeOK /\ IInv /\ Live(cur) /\ Copied(sp) \subseteq UserVA
  BY ForkSlots DEF EInv, IInv, TInv
<1>1. /\ p_state' = [p_state EXCEPT ![child] = "P_RUNNABLE"]
      /\ p_tables' = [p_tables EXCEPT ![child] = [t \in Tables |-> got[t]]]
      /\ space' = [space EXCEPT ![child] = ForkSpace(got)]
  BY <1>t, ForkFirstFit DEF ForkInto
<1>2. \A p \in Procs : p # child =>
        /\ Live(p)' <=> Live(p)
        /\ space'[p] = space[p] /\ p_tables'[p] = p_tables[p]
  BY <1>1, <1>t DEF TypeOK, Live
<1>3. Live(child)' /\ space'[child] = ForkSpace(got) /\ p_tables'[child] = [t \in Tables |-> got[t]]
  BY <1>1, <1>t DEF TypeOK, Live
<1>4. \A p \in Procs : Live(p) =>
        Live(p)' /\ \A s \in Uses(p) : s \in Uses(p)' /\ Frame(p, s)' = Frame(p, s)
  BY <1>2 DEF Uses, Frame
<1>5. ASSUME NEW pn \in Pages
      PROVE  \/ pageinfo[pn].refcount > 0 /\ pageinfo'[pn].owner = pageinfo[pn].owner
             \/ pageinfo'[pn] = pageinfo[pn]
             \/ /\ pageinfo'[pn] = Info(child, 1)
                /\ \E s \in S : got[s] = pn
  <2>1. CASE cur \in Sharers(pn)
    <3>1. pageinfo'[pn] = Info(pageinfo[pn].owner, pageinfo[pn].refcount + 1)
      BY <2>1, <1>t, ForkInfo
    <3>2. PICK v \in ReadOnly(cur) : space[cur][v].pn = pn
      BY <2>1 DEF Sharers
    <3>3. v \in Uses(cur) /\ Frame(cur, v) = pn
      BY <3>2, ReadOnlyUse
    <3>4. pageinfo[pn].refcount > 0
      BY <3>3, <1>t, UsedPositive
    <3>5. QED
      BY SMTT(20), <3>1, <3>4 DEF Info
  <2>2. CASE cur \notin Sharers(pn)
    BY <2>2, <1>t, ForkInfo
  <2>3. QED
    BY <2>1, <2>2
<1> HIDE DEF got
<1>6. ASSUME NEW s \in S PROVE s \in Uses(child)' /\ Frame(child, s)' = got[s]
  <2>1. CASE s \in Tables
    BY <2>1, <1>3 DEF Uses, Frame
  <2>2. CASE s \notin Tables
    <3>1. s \in Copied(sp) /\ s \in VPages /\ s >= PROC_START /\ "W" \in sp[s].perm
      BY <2>2, <1>t, ImageSlots DEF Copied, Writable
    <3>2. ~(s >= MEMSIZE_VIRTUAL)
      BY SMTT(20), <3>1, <1>t, LayoutAssumption DEF UserVA
    <3>3. ForkSpace(got)[s] = Map(got[s], sp[s].perm)
      BY <3>1, <3>2 DEF ForkSpace
    <3>4. ForkSpace(got)[s].pn = got[s] /\ ForkSpace(got)[s].perm # {}
      BY SMTT(20), <3>1, <3>3 DEF Map
    <3>5. QED
      BY <2>2, <3>1, <3>4, <1>3 DEF Uses, Frame
  <2>3. QED
    BY <2>1, <2>2
<1>7. Covers(child)
  BY SMTT(20), <1>3, <1>4, <1>5, <1>6 DEF Covers, Settled, Enter, Info
<1>8. NothingAbove'
  <2> SUFFICES ASSUME NEW q \in Procs, Live(q)', NEW v \in VPages, v >= MEMSIZE_VIRTUAL
               PROVE  space'[q][v] = Unmapped
    BY DEF NothingAbove
  <2>1. CASE q # child
    BY SMTT(20), <2>1, <1>2 DEF EInv, NothingAbove
  <2>2. CASE q = child
    BY <2>2, <1>3 DEF ForkSpace
  <2>3. QED
    BY <2>1, <2>2
<1>9. QED
  BY <1>7, <1>8, CoverStep

-----------------------------------------------------------------------------
(* INT_SYS_EXIT *)

\* exit frees a page of which the process has a private use.
LEMMA ExitFrees ==
  ASSUME EInv, NEW cur \in Procs, cur = current, Live(cur),
         NEW s \in Private(cur), Frame(cur, s) # NULL
  PROVE  ExitInfo(Frame(cur, s)) = Info(PO_FREE, 0)
<1> DEFINE pn == Frame(cur, s)
<1>1. CASE s \in Tables
  BY <1>1 DEF Frame, ExitInfo
<1>2. CASE s \notin Tables
  <2>1. s \in VPages /\ s >= PROC_START /\ Writable(space[cur], s) /\ space[cur][s].pn = pn
    BY <1>2 DEF Private, Uses, Frame
  <2>2. ~(s >= MEMSIZE_VIRTUAL)
    BY SMTT(20), <2>1 DEF EInv, NothingAbove, Writable, Unmapped, Map
  <2>3. s \in UserVA
    BY SMTT(20), <2>1, <2>2, LayoutAssumption DEF UserVA, VPages
  <2>4. pageinfo[pn] = Info(cur, 1)
    BY DEF EInv, IInv, PrivateOwned
  <2>5. pageinfo[pn].refcount = 1 /\ pageinfo[pn].owner = current
    BY SMTT(20), <2>4 DEF Info
  <2> HIDE DEF pn
  <2>6. pn # 0
    BY DEF pn, NULL
  <2> DEFINE ro == {v \in UserVA : space[current][v].pn = pn /\ ~Writable(space[current], v)}
  <2>p. pn \in Pages
    BY UsesSplit DEF pn, Private, EInv, IInv
  <2>7. ASSUME NEW v \in ro PROVE FALSE
    <3>1. v \in VPages /\ v >= PROC_START /\ space[cur][v].pn # -1
      BY SMTT(20), <2>p, ImageSlots, PageAssumption DEF Pages
    <3>2. SaneMapping(v, space[cur][v])
      BY <3>1 DEF EInv, IInv, TInv, SpacesSane
    <3>3. space[cur][v].perm # {}
      BY SMTT(20), <3>1, <3>2, LayoutAssumption
      DEF SaneMapping, Unmapped, Map, PTE_RW, PTE_RO, VPages
    <3>4. v \notin Tables /\ v \in Uses(cur) /\ Frame(cur, v) = pn
      BY <3>1, <3>3, ImageSlots DEF Uses, Frame
    <3>5. v = s
      BY <2>6, <3>4 DEF pn, NULL, EInv, IInv, PagesIsolated
    <3>6. QED
      BY <2>1, <3>5
  <2>8. Dropped(pageinfo[pn].refcount, Cardinality({w \in ro : w < s})) # 0
    <3>1. {w \in ro : w < s} = {}
      BY <2>7
    <3>2. Dropped(1, 0) = 1
      <4>1. 1 \in -REF_HALF .. REF_HALF - 1
        BY SMTT(20), LayoutAssumption, PageAssumption
      <4>2. QED
        BY <4>1, DroppedNone
    <3>3. 1 # 0
      BY SMTT(20)
    <3>4. QED
      BY <2>5, <3>1, <3>2, <3>3, FS_EmptySet
  <2>9. QED
    BY <2>1, <2>3, <2>5, <2>6, <2>8 DEF ExitInfo, pn
<1>3. QED
  BY <1>1, <1>2

\* A page that exit does not free has another user, and kept its owner.
LEMMA ExitLeaves ==
  ASSUME EInv, NEW cur \in Procs, cur = current, Live(cur), Settled,
         NEW pn \in Pages \ (KernelPages \cup ReservedPages), ExitInfo(pn).refcount # 0
  PROVE  /\ \E q \in Procs \ {cur} : Live(q) /\ \E s \in Uses(q) : Frame(q, s) = pn
         /\ pageinfo[pn].refcount > 0
         /\ ExitInfo(pn).owner = pageinfo[pn].owner
<1>t. IInv /\ TInv /\ pn \in Pages /\ pn # NULL
  BY PageAssumption DEF EInv, IInv, NULL
<1>1. \A s \in Private(cur) : Frame(cur, s) # pn
  <2> SUFFICES ASSUME NEW s \in Private(cur), Frame(cur, s) = pn PROVE FALSE
    OBVIOUS
  <2>1. ExitInfo(pn) = Info(PO_FREE, 0)
    BY <1>t, ExitFrees
  <2>2. QED
    BY SMTT(20), <2>1 DEF Info
<1>2. CASE cur \in Sharers(pn)
  <2> DEFINE X == Sharers(pn)
  <2>1. ExitInfo(pn) = Info(pageinfo[pn].owner, pageinfo[pn].refcount - 1)
    BY <1>2, <1>t, ExitShared
  <2>2. PICK v \in ReadOnly(cur) : space[cur][v].pn = pn
    BY <1>2 DEF Sharers
  <2>3. pageinfo[pn].refcount = Cardinality(X) /\ v \in Uses(cur) /\ Frame(cur, v) = pn
    BY <2>2, <1>t, ReadOnlyUse DEF IInv, SharedCounted
  <2>4. pageinfo[pn].refcount > 0
    BY <2>3, <1>t, UsedPositive
  <2>5. X # {cur}
    <3> SUFFICES ASSUME X = {cur} PROVE FALSE
      OBVIOUS
    <3>1. Cardinality(X) = 1
      BY FS_Singleton
    <3> HIDE DEF X
    <3>2. pageinfo[pn].refcount = 1
      BY <3>1, <2>3
    <3>3. QED
      BY SMTT(20), <2>1, <3>2 DEF Info
  <2>6. PICK q \in Procs \ {cur} : Live(q) /\ \E w \in ReadOnly(q) : space[q][w].pn = pn
    BY <1>2, <2>5 DEF Sharers
  <2>7. \E s \in Uses(q) : Frame(q, s) = pn
    BY <2>6, ReadOnlyUse
  <2>8. QED
    BY SMTT(20), <2>1, <2>4, <2>6, <2>7 DEF Info
<1>3. CASE cur \notin Sharers(pn)
  <2>1. \A s \in Uses(cur) : Frame(cur, s) # pn
    BY SMTT(20), <1>1, <1>3, <1>t, UsesSplit, ReadOnlyUse DEF Sharers
  <2>2. ExitInfo(pn) = pageinfo[pn]
    BY <2>1, <1>t, ExitKeeps
  <2>3. PICK q \in Procs : Live(q) /\ \E s \in Uses(q) : Frame(q, s) = pn
    BY <2>2 DEF EInv, PagesUsed
  <2>4. q # cur
    BY <2>1, <2>3
  <2>5. pageinfo[pn].refcount > 0
    BY <2>3, <1>t, UsedPositive
  <2>6. QED
    BY <2>2, <2>3, <2>4, <2>5
<1>4. QED
  BY <1>2, <1>3

\* exit leaks nothing unless it leaves pages it owns to other processes.
LEMMA ExitExact ==
  ASSUME EInv, SysExit, ~OwnsShared(current), NEW cur \in Procs, cur = current
  PROVE  NothingAbove' /\ PagesUsed' /\ OwnersLive'
<1>t. TypeOK /\ IInv /\ TInv /\ Live(cur) /\ Settled
  BY DEF EInv, IInv, TInv, TypeOK, ProcessesSane, SysExit, Enter, Live, Settled
<1>1. /\ p_state' = [p_state EXCEPT ![cur] = "P_FREE"]
      /\ p_tables' = [p_tables EXCEPT ![cur] = NoTables]
      /\ space' = [space EXCEPT ![cur] = NoSpace]
      /\ \A pn \in Pages : pageinfo'[pn] = ExitInfo(pn)
      /\ ~OwnsShared(cur)
  BY DEF SysExit
<1>2. /\ ~Live(cur)'
      /\ \A p \in Procs : p # cur =>
           /\ Live(p)' <=> Live(p)
           /\ space'[p] = space[p] /\ p_tables'[p] = p_tables[p]
  BY <1>1, <1>t DEF TypeOK, Live
<1>3. \A p \in Procs : p # cur => Uses(p)' = Uses(p) /\ \A s : Frame(p, s)' = Frame(p, s)
  BY <1>2 DEF Uses, Frame
<1>4. NothingAbove'
  BY SMTT(20), <1>2 DEF EInv, NothingAbove
<1>5. PagesUsed'
  <2> SUFFICES ASSUME NEW pn \in Pages \ (KernelPages \cup ReservedPages),
                      pageinfo'[pn].refcount # 0
               PROVE  \E p \in Procs : Live(p)' /\ \E s \in Uses(p)' : Frame(p, s)' = pn
    BY DEF PagesUsed
  <2>1. PICK q \in Procs \ {cur} : Live(q) /\ \E s \in Uses(q) : Frame(q, s) = pn
    BY SMTT(20), <1>1, <1>t, ExitLeaves
  <2>2. QED
    BY <2>1, <1>2, <1>3
<1>6. OwnersLive'
  <2> SUFFICES ASSUME NEW pn \in Pages,
                      pageinfo'[pn].refcount > 0, pageinfo'[pn].owner >= 0
               PROVE  p_state'[pageinfo'[pn].owner] # "P_FREE"
    BY DEF OwnersLive, Live
  <2>1. pn \notin KernelPages \cup ReservedPages
    <3>1. IInv'
      BY <1>t, ExitStep
    <3>2. QED
      BY SMTT(20), <3>1 DEF IInv, KernelKept, Info, PO_KERNEL, PO_RESERVED
  <2>2. ExitInfo(pn).refcount # 0
    <3>1. pageinfo'[pn].refcount \in Int
      BY SMTT(20), ExitTInv, <1>t, PageAssumption DEF TInv, TypeOK, PageInfos
    <3>2. QED
      BY SMTT(20), <1>1, <3>1
  <2>3. /\ \E q \in Procs \ {cur} : Live(q) /\ \E s \in Uses(q) : Frame(q, s) = pn
        /\ pageinfo[pn].refcount > 0 /\ pageinfo'[pn].owner = pageinfo[pn].owner
    BY <1>1, <1>t, <2>1, <2>2, ExitLeaves
  <2>4. Live(pageinfo[pn].owner) /\ pageinfo[pn].owner \in Procs
    BY SMTT(20), <2>3, <1>t, InfoTypes, LayoutAssumption DEF EInv, OwnersLive, Procs
  <2>5. pageinfo[pn].owner # cur
    <3>1. PICK q \in Procs \ {cur} : Live(q) /\ \E s \in Uses(q) : Frame(q, s) = pn
      BY <2>3
    <3>2. PICK s \in Uses(q) : Frame(q, s) = pn
      BY <3>1
    <3>3. CASE s \in Private(q)
      <4>1. pageinfo[pn] = Info(q, 1)
        BY <2>1, <3>1, <3>2, <3>3, <1>t, PageAssumption DEF IInv, PrivateOwned, NULL
      <4>2. QED
        BY SMTT(20), <4>1 DEF Info
    <3>4. CASE s \in ReadOnly(q)
      <4>1. s \in UserVA /\ space[q][s].pn = pn /\ pn # -1
        BY SMTT(20), <3>2, <3>4, ReadOnlyUse, PageAssumption DEF ReadOnly, Pages
      <4>2. QED
        BY <4>1, <3>1, <1>1 DEF OwnsShared
    <3>5. QED
      BY <3>1, <3>3, <3>4, <1>t, UsesSplit
  <2>6. QED
    BY <2>3, <2>4, <2>5, <1>2 DEF Live
<1>7. QED
  BY <1>4, <1>5, <1>6

-----------------------------------------------------------------------------
(* The theorems *)

\* The steps that keep pageinfo[] exact: a program allocates only where it has
\* nothing mapped, and no process outlives the owner of a page it uses.
ExactStep ==
  \/ \E p \in Procs : ProcessSetup(p)
  \/ QuietAction
  \/ Enter /\ \E a \in Addresses :
       AddrKind(space[current], a) \in {"fresh", "alloc_unaligned"} /\ PageAlloc(a)
  \/ SysFork
  \/ ~OwnsShared(current) /\ SysExit
  \/ Reboot \/ Reset \/ Off
  \/ UNCHANGED vars

\* Each of them keeps every page counted and used.
LEMMA ExactEInv ==
  ASSUME EInv, ExactStep
  PROVE  EInv'
<1>c. CalmStep
  BY DEF CalmStep, ExactStep, Damaging
<1>t. IInv /\ TInv /\ IInv' /\ current \in Procs
  BY <1>c, CalmIInv DEF EInv, IInv, TInv, TypeOK
<1>q. ASSUME UNCHANGED <<pageinfo, p_tables, space>>, Settled' => Settled,
             \A p \in Procs : Live(p)' <=> Live(p)
      PROVE  EInv'
  BY <1>q, <1>t, QuietExact DEF EInv
<1>1. ASSUME NEW p \in Procs, ProcessSetup(p) PROVE EInv'
  BY <1>1, <1>t, SetupExact DEF EInv
<1>2. CASE QuietAction
  <2>1. UNCHANGED <<pageinfo, p_tables, space>> /\ \A p \in Procs : Live(p)' <=> Live(p)
    BY <1>2, <1>t, QuietActions DEF Quiet
  <2>2. Settled' => Settled
    BY <1>2 DEF QuietAction, RunFirst, CheckFails, Panic, SysGetpid, Switch, PageFault,
                UserWrite, PowerOff, Enter, Settled
  <2>3. QED
    BY <2>1, <2>2, <1>q
<1>3. CASE Enter /\ \E a \in Addresses :
             AddrKind(space[current], a) \in {"fresh", "alloc_unaligned"} /\ PageAlloc(a)
  BY <1>3, <1>t, PageAllocExact DEF EInv
<1>4. CASE SysFork
  <2>1. CASE Enter /\ ForkNoSlot
    BY <2>1, <1>2 DEF QuietAction
  <2>2. ASSUME Enter, NEW child \in Procs \ {0}, ForkNoTables(child) PROVE EInv'
    <3>1. mode' = "returned" /\ UNCHANGED <<p_state, space>>
      BY <2>2 DEF ForkNoTables
    <3>2. NothingAbove' /\ PagesUsed' /\ OwnersLive'
      BY <3>1 DEF EInv, NothingAbove, PagesUsed, OwnersLive, Settled, Live
    <3>3. QED
      BY <3>2, <1>t DEF EInv
  <2>3. ASSUME Enter, NEW child \in Procs \ {0}, ~Live(child), ForkCopy(child) PROVE EInv'
    BY <2>3, <1>t, ForkExact DEF EInv
  <2>4. QED
    BY <1>4, <2>1, <2>2, <2>3 DEF SysFork
<1>5. CASE ~OwnsShared(current) /\ SysExit
  BY <1>5, <1>t, ExitExact DEF EInv
<1>6. CASE Reboot \/ Reset
  <2>1. Fresh'
    BY <1>6, <1>t, BootFresh
  <2>2. QED
    BY <2>1, FreshEInv, PTL
<1>7. CASE Off \/ UNCHANGED vars
  <2>1. UNCHANGED <<pageinfo, p_state, p_tables, space, mode>>
    BY <1>7 DEF Off, vars
  <2>2. QED
    BY <2>1, <1>q DEF Settled, Live
<1>8. QED
  BY <1>1, <1>2, <1>3, <1>4, <1>5, <1>6, <1>7 DEF ExactStep

\* Every step is such a step if programs make none of the other calls.
LEMMA EInvNext ==
  ASSUME ExactCalls
  PROVE  EInv /\ [Next]_vars => EInv'
<1>1. ASSUME NEW a, PageAlloc(a)
      PROVE  AddrKind(space[current], a) \in {"fresh", "alloc_unaligned"}
  <2>1. AddrKind(space[current], a) \in {"fresh", "alloc_unaligned", "late_result"}
    BY <1>1 DEF PageAlloc, ExactCalls
  <2>2. QED
    BY <2>1 DEF AddrKind
<1>2. SysExit => ~OwnsShared(current)
  BY DEF SysExit, ExactCalls
<1>3. [Next]_vars => ExactStep
  <2>1. UserCalls \cap Damaging = {}
    BY DEF ExactCalls, Damaging
  <2>2. QED
    BY <1>1, <1>2, <2>1, NextCalm DEF ExactStep, CalmStep
<1>4. QED
  BY <1>3, ExactEInv

\* The inductive invariant holds in every reachable state.
THEOREM ExactInvariant ==
  ASSUME ExactCalls
  PROVE  Spec => []EInv
<1>1. Init => EInv
  BY InitFresh, FreshEInv
<1>2. EInv /\ [Next]_vars => EInv'
  BY EInvNext
<1>3. QED
  BY <1>1, <1>2, PTL DEF Spec

\* The invariant implies what check_virtual_memory() asserts.
LEMMA EInvChecks == EInv => SelfCheckHolds
<1> SUFFICES ASSUME EInv, mode = "user" PROVE check_virtual_memory
  BY DEF SelfCheckHolds
<1>t. IInv /\ TInv
  BY DEF EInv, IInv
<1>1. ~Live(0)
  BY <1>t DEF TInv, ProcessesSane
<1>2. \A pn \in KernelTables : pageinfo[pn] = Info(PO_KERNEL, 1)
  BY <1>t, LayoutAssumption DEF IInv, KernelKept
<1>3. ASSUME NEW p \in Procs, Live(p) PROVE CheckMappings(p)
  <2> SUFFICES ASSUME NEW v \in KernelPages
               PROVE  space[p][v].pn = v /\ Writable(space[p], v)
    BY DEF CheckMappings
  <2>1. v \in VPages /\ v < PROC_START /\ ~(v >= PROC_START) /\ v \notin UserVA
    BY SMTT(20), LayoutAssumption, PageAssumption DEF VPages, UserVA, Pages
  <2>2. space[p][v] = KernelHalf(v)
    BY <1>3, <1>t, <2>1 DEF TInv, SpacesSane, SaneMapping
  <2>3. QED
    BY SMTT(20), <2>2 DEF KernelHalf, Map, Writable, PTE_RW
<1>4. ASSUME NEW p \in Procs, Live(p) PROVE CheckOwnership(p)
  <2> SUFFICES ASSUME NEW t \in Tables PROVE pageinfo[p_tables[p][t]] = Info(p, 1)
    BY DEF CheckOwnership
  <2>1. t \in Private(p) /\ Frame(p, t) = p_tables[p][t] /\ Frame(p, t) # NULL
    BY <1>4, <1>t DEF Private, Uses, Frame, TInv, SpacesSane
  <2>2. QED
    BY <1>4, <1>t, <2>1 DEF IInv, PrivateOwned
<1>5. \A pn \in Pages : pageinfo[pn].refcount > 0 /\ pageinfo[pn].owner >= 0
                          => Live(pageinfo[pn].owner)
  BY DEF EInv, OwnersLive, Settled
<1>6. QED
  BY <1>1, <1>2, <1>3, <1>4, <1>5 DEF check_virtual_memory

\* check_virtual_memory(), which every exception runs, never panics.
THEOREM SelfCheck ==
  ASSUME ExactCalls
  PROVE  Spec => []SelfCheckHolds
<1>1. QED
  BY EInvChecks, ExactInvariant, PTL

\* As many pairs as first components, if the first determines the second.
LEMMA PairsCount ==
  ASSUME NEW P, IsFiniteSet(P), NEW f, NEW R, R = {<<p, f[p]>> : p \in P}
  PROVE  Cardinality(R) = Cardinality(P)
<1> DEFINE F == [p \in P |-> <<p, f[p]>>]
<1>1. F \in [P -> R] /\ \A a, b \in P : F[a] = F[b] => a = b
  OBVIOUS
<1>2. \A t \in R : \E p \in P : F[p] = t
  OBVIOUS
<1>3. F \in Bijection(P, R)
  BY <1>1, <1>2 DEF Bijection, Injection, Surjection, IsInjective
<1>4. ExistsBijection(P, R)
  BY <1>3 DEF ExistsBijection
<1>5. QED
  BY <1>4, FS_Bijection

\* The invariant implies that every page's reference count is exact.
LEMMA EInvCounts == EInv => RefcountExact
<1> SUFFICES ASSUME EInv, Settled, NEW pn \in Pages \ (KernelPages \cup ReservedPages)
             PROVE  pageinfo[pn].refcount = Cardinality(References(pn))
  BY DEF RefcountExact, Settled
<1>t. IInv /\ TInv /\ pn # NULL /\ Tables \cap VPages = {}
  BY PageAssumption, ImageSlots DEF EInv, IInv, NULL
<1>u. ASSUME NEW p, NEW s
      PROVE  <<p, s>> \in References(pn) <=>
               p \in Procs /\ Live(p) /\ s \in Uses(p) /\ Frame(p, s) = pn
  BY DEF References, Uses
<1>v. \A u \in References(pn) : u = <<u[1], u[2]>>
  BY SMTT(20) DEF References
<1>1. CASE pageinfo[pn].refcount = 0
  <2>1. ASSUME NEW u \in References(pn) PROVE FALSE
    <3>1. /\ u[1] \in Procs /\ Live(u[1]) /\ u[2] \in Uses(u[1])
          /\ Frame(u[1], u[2]) = pn
      BY DEF References
    <3>2. pageinfo[pn].refcount > 0
      BY <3>1, <1>t, UsedPositive
    <3>3. QED
      BY SMTT(20), <1>1, <3>2
  <2>2. References(pn) = {}
    BY <2>1
  <2>3. QED
    BY <1>1, <2>2, FS_EmptySet
<1>2. CASE pageinfo[pn].refcount # 0
  <2>1. PICK p \in Procs : Live(p) /\ \E s \in Uses(p) : Frame(p, s) = pn
    BY <1>2 DEF EInv, PagesUsed
  <2>2. PICK s \in Uses(p) : Frame(p, s) = pn
    BY <2>1
  <2>3. CASE s \in Private(p)
    <3>1. References(pn) = {<<p, s>>}
      <4>1. <<p, s>> \in References(pn)
        BY <2>1, <2>2, <1>u
      <4>2. ASSUME NEW u \in References(pn) PROVE u = <<p, s>>
        <5>1. /\ u[1] \in Procs /\ Live(u[1]) /\ u[2] \in Uses(u[1])
              /\ Frame(u[1], u[2]) = pn
          BY DEF References
        <5>2. p = u[1] /\ s = u[2]
          BY <2>1, <2>2, <2>3, <5>1, <1>t DEF IInv, PagesIsolated
        <5>3. QED
          BY <5>2, <1>v
      <4>3. QED
        BY <4>1, <4>2
    <3>2. Cardinality(References(pn)) = 1
      BY <3>1, FS_Singleton
    <3>3. pageinfo[pn] = Info(p, 1)
      BY <2>1, <2>2, <2>3, <1>t DEF IInv, PrivateOwned
    <3>4. QED
      BY SMTT(20), <3>2, <3>3 DEF Info
  <2>4. CASE s \in ReadOnly(p)
    <3> DEFINE P == Sharers(pn)
               f == [q \in P |-> CHOOSE v \in ReadOnly(q) : space[q][v].pn = pn]
    <3>1. \A q \in P : f[q] \in ReadOnly(q) /\ space[q][f[q]].pn = pn
                       /\ q \in Procs /\ Live(q)
      BY DEF Sharers
    <3>2. ASSUME NEW q, NEW w
          PROVE  <<q, w>> \in References(pn) <=> q \in P /\ w = f[q]
      <4>1. ASSUME q \in P, w = f[q] PROVE <<q, w>> \in References(pn)
        BY <4>1, <3>1, <1>u, ReadOnlyUse
      <4>2. ASSUME <<q, w>> \in References(pn) PROVE q \in P /\ w = f[q]
        <5>1. q \in Procs /\ Live(q) /\ w \in Uses(q) /\ Frame(q, w) = pn
          BY <4>2, <1>u
        <5>2. w \notin Private(q)
          <6> SUFFICES ASSUME w \in Private(q) PROVE FALSE
            OBVIOUS
          <6>1. q = p /\ w = s
            BY SMTT(20), <5>1, <2>1, <2>2, <1>t DEF IInv, PagesIsolated
          <6>2. QED
            BY <6>1, <2>4, ReadOnlyUse
        <5>3. w \in ReadOnly(q) /\ space[q][w].pn = pn
          BY <5>1, <5>2, <1>t, UsesSplit, ReadOnlyUse
        <5>4. q \in P
          BY <5>1, <5>3 DEF Sharers
        <5>5. w = f[q]
          BY SMTT(20), <5>1, <5>3, <5>4, <3>1, <1>t DEF IInv, SharedCounted
        <5>6. QED
          BY <5>4, <5>5
      <4>3. QED
        BY <4>1, <4>2
    <3> HIDE DEF P, f
    <3>3. References(pn) = {<<q, f[q]>> : q \in P}
      BY SMTT(20), <3>2, <1>v
    <3>4. IsFiniteSet(P)
      BY <1>t, SharersFinite DEF P
    <3>5. Cardinality(References(pn)) = Cardinality(P)
      BY SMTT(20), <3>3, <3>4, PairsCount
    <3>6. pageinfo[pn].refcount = Cardinality(P)
      BY SMTT(20), <2>1, <2>2, <2>4, <1>t, ReadOnlyUse DEF IInv, SharedCounted, P
    <3>7. QED
      BY <3>5, <3>6
  <2>5. QED
    BY <2>1, <2>2, <2>3, <2>4, <1>t, UsesSplit
<1>3. QED
  BY <1>1, <1>2

\* The reference count of a page is the number of its uses, for every page
\* that is not the kernel's or reserved.
THEOREM Exact ==
  ASSUME ExactCalls
  PROVE  Spec => []RefcountExact
<1>1. QED
  BY EInvCounts, ExactInvariant, PTL
=============================================================================
