--------------------------- MODULE ProgramsProofs ---------------------------
(***************************************************************************)
(* The shipped programs on the kernel, for every number of pages and       *)
(* processes: they make only the calls that keep the kernel's bookkeeping  *)
(* exact, whatever else the kernel would let them do (UserCalls), so its   *)
(* guarantees hold for them.  The bound of module Programs applies: a      *)
(* child that fork could not give all its copies takes no step.            *)
(***************************************************************************)
EXTENDS Programs, KernelMemory

\* A leaf is Zenon's unless it names SMT, as the ones with arithmetic do.
USE ZenonT(20)

-----------------------------------------------------------------------------
(* What the invariant says of the running program *)

\* Addresses of the heap are addresses of user memory below the stack.
LEMMA HeapAddresses ==
  /\ HEAP \in Int /\ STACK \in Int /\ PROC_START <= HEAP /\ HEAP <= STACK
  /\ HEAP .. STACK \subseteq UserVA /\ UserVA \subseteq VPages
  /\ STACK < MEMSIZE_VIRTUAL /\ STACK < VA_LIMIT
  /\ 1 \in Procs \ {0} /\ 0 \in Procs
  BY SMTT(20), LayoutAssumption, HeapAssumption DEF STACK, UserVA, VPages, Procs

\* The running program is a live process at one of its places.
LEMMA Running ==
  ASSUME PInv, mode = "user"
  PROVE  /\ current \in Procs /\ Live(current) /\ p_state[current] = "P_RUNNABLE"
         /\ current # 0 /\ loc[current] \in Locs /\ HeapFits(loc[current], space[current])
  BY DEF PInv, EInv, IInv, TInv, TypeOK, ProcessesSane, Live, LocTypeOK, HeapsFit

\* The places where a process waits for a result.
LEMMA WaitPlaces ==
  /\ Waits = {"forked", "forked2", "forked3"}
  /\ Forks["start"] = "forked" /\ Forks["fork2"] = "forked2" /\ Forks["loop"] = "forked3"
<1>1. DOMAIN Forks = {"start", "fork2", "loop"}
  BY SMTT(20) DEF Forks
<1>2. Forks["start"] = "forked" /\ Forks["fork2"] = "forked2" /\ Forks["loop"] = "forked3"
  BY SMTT(20) DEF Forks
<1>3. QED
  BY <1>1, <1>2 DEF Waits

\* Where a process goes on with the result r.
LEMMA ForkedPlace ==
  ASSUME NEW l \in Locs, NEW r \in -1 .. NPROC - 1,
         \/ program = "fork" /\ l.pc \in {"forked", "forked2"}
         \/ program = "forkexit" /\ l.pc \in {"forked", "forked3"}
  PROVE  /\ Forked(l, r) \in Locs
         /\ Forked(l, r).heap_top = l.heap_top
         /\ program = "fork" /\ l.pc = "forked" =>
              Forked(l, r).p1 = r /\ Forked(l, r).pc = IF r >= 0 THEN "fork2" ELSE "assert"
         /\ program = "fork" /\ l.pc = "forked2" =>
              /\ Forked(l, r).p1 = l.p1 /\ Forked(l, r).p2 = r
              /\ Forked(l, r).pc = IF r >= 0 THEN "check" ELSE "assert"
         /\ program = "forkexit" /\ l.pc = "forked" =>
              Forked(l, r).pc = IF r = 0 THEN "prepare" ELSE "start"
         /\ program = "forkexit" /\ l.pc = "forked3" =>
              Forked(l, r).pc = IF r = 0 THEN "getpid" ELSE "loop"
<1>1. CASE program = "fork" /\ l.pc = "forked"
  <2>1. Forked(l, r) = [l EXCEPT !.p1 = r, !.pc = IF r >= 0 THEN "fork2" ELSE "assert"]
    BY <1>1 DEF Forked
  <2>2. QED
    BY <1>1, <2>1 DEF Locs, Places
<1>2. CASE program = "fork" /\ l.pc = "forked2"
  <2>1. Forked(l, r) = [l EXCEPT !.p2 = r, !.pc = IF r >= 0 THEN "check" ELSE "assert"]
    BY <1>2 DEF Forked
  <2>2. QED
    BY <1>2, <2>1 DEF Locs, Places
<1>3. CASE program = "forkexit" /\ l.pc = "forked"
  <2>1. Forked(l, r) = [l EXCEPT !.pc = IF r = 0 THEN "prepare" ELSE "start"]
    BY <1>3 DEF Forked
  <2>2. QED
    BY <1>3, <2>1 DEF Locs, Places
<1>4. CASE program = "forkexit" /\ l.pc = "forked3"
  <2>1. Forked(l, r) = [l EXCEPT !.pc = IF r = 0 THEN "getpid" ELSE "loop"]
    BY <1>4 DEF Forked
  <2>2. QED
    BY <1>4, <2>1 DEF Locs, Places
<1>5. QED
  BY <1>1, <1>2, <1>3, <1>4

\* What a process does next, once it has looked at its result, fits its heap
\* and what p-fork.c and p-forkexit.c expect of their forks.
LEMMA SeenFits ==
  ASSUME PInv, mode \in {"user", "idle"}, NEW p \in Procs, Live(p)
  PROVE  /\ Seen(p) \in Locs /\ Seen(p).pc \notin Waits
         /\ HeapFits(Seen(p), space[p])
         /\ program = "forkexit" /\ p = 1 => Seen(p).pc = "start"
         /\ program = "fork" => ResultsFit(p, Seen(p), rax[p])
         /\ Seen(p).pc \in {"fork2", "check"} => program = "fork"
         /\ Seen(p).pc = "assert" => program = "fork" /\ rax[p] = -1 /\ Full
<1> DEFINE l == loc[p]
           r == rax[p]
           m == Seen(p)
<1>1. /\ l \in Locs /\ r \in -1 .. NPROC - 1 /\ HeapFits(l, space[p]) /\ l.pc # "assert"
      /\ l.pc \in {"fork2", "forked2", "check"} => program = "fork"
      /\ l.pc = "forked" => program \in {"fork", "forkexit"}
      /\ l.pc = "forked3" => program = "forkexit"
      /\ program = "fork" => ResultsFit(p, l, r)
      /\ program = "forkexit" /\ p = 1 => l.pc \in {"start", "forked"} /\ (l.pc = "forked" => r # 0)
  BY DEF PInv, EInv, IInv, TInv, TypeOK, LocTypeOK, HeapsFit, ForksFit, FirstStays
<1>2. CASE l.pc \notin Waits
  <2>1. m = l
    BY <1>2 DEF Seen
  <2>2. QED
    BY <1>1, <1>2, <2>1, WaitPlaces
<1>3. CASE l.pc \in Waits
  <2>1. m = Forked(l, r)
    BY <1>3 DEF Seen
  <2>2. l.pc \in {"forked", "forked2", "forked3"}
    BY <1>3, WaitPlaces
  <2>r. r >= 0 \/ r = -1
    BY SMTT(20), <1>1, LayoutAssumption
  <2> HIDE DEF l, r, m
  <2>3. /\ m \in Locs /\ m.heap_top = l.heap_top
        /\ program = "fork" /\ l.pc = "forked" =>
             m.p1 = r /\ m.pc = IF r >= 0 THEN "fork2" ELSE "assert"
        /\ program = "fork" /\ l.pc = "forked2" =>
             m.p1 = l.p1 /\ m.p2 = r /\ m.pc = IF r >= 0 THEN "check" ELSE "assert"
        /\ program = "forkexit" /\ l.pc = "forked" => m.pc = IF r = 0 THEN "prepare" ELSE "start"
        /\ program = "forkexit" /\ l.pc = "forked3" => m.pc = IF r = 0 THEN "getpid" ELSE "loop"
    BY <1>1, <2>1, <2>2, ForkedPlace
  <2>4. HeapFits(m, space[p])
    BY <1>1, <2>2, <2>3 DEF HeapFits
  <2>5. m.pc \notin Waits
    BY <1>1, <2>2, <2>3, WaitPlaces
  <2>6. program = "fork" => ResultsFit(p, m, r)
    <3> SUFFICES ASSUME program = "fork" PROVE ResultsFit(p, m, r)
      OBVIOUS
    <3>0. ~(-1 >= 0) /\ 0 # -1
      BY SMTT(20)
    <3>1. CASE l.pc = "forked"
      <4>1. m.pc \in {"fork2", "assert"} /\ m.p1 = r /\ (m.pc = "fork2" => r # -1)
        BY <2>3, <2>r, <3>0, <3>1
      <4>2. QED
        BY <1>1, <3>1, <4>1 DEF ResultsFit
    <3>2. CASE l.pc = "forked2"
      <4>1. m.pc \in {"check", "assert"} /\ m.p1 = l.p1 /\ m.p2 = r
        BY <2>3, <3>2
      <4>2. QED
        BY <1>1, <3>2, <4>1 DEF ResultsFit
    <3>3. QED
      BY <1>1, <2>2, <3>1, <3>2
  <2>7. program = "forkexit" /\ p = 1 => m.pc = "start"
    BY <1>1, <2>2, <2>3
  <2>8. m.pc \in {"fork2", "check"} => program = "fork"
    BY <1>1, <2>2, <2>3
  <2>9. m.pc = "assert" => program = "fork" /\ r = -1 /\ Full
    <3>1. m.pc = "assert" => program = "fork" /\ r = -1
      BY <1>1, <2>r, <2>2, <2>3
    <3>2. QED
      BY <3>1, <1>1, <2>2 DEF ResultsFit
  <2>10. QED
    BY <2>3, <2>4, <2>5, <2>6, <2>7, <2>8, <2>9 DEF r, m
<1>4. QED
  BY <1>2, <1>3

\* What that says of the running program.
LEMMA MeFits ==
  ASSUME PInv, mode = "user"
  PROVE  /\ me \in Locs /\ me.pc \notin Waits /\ HeapFits(me, space[current])
         /\ program = "forkexit" /\ current = 1 => me.pc = "start"
         /\ program = "fork" => ResultsFit(current, me, rax[current])
         /\ me.pc \in {"fork2", "check"} => program = "fork"
  BY Running, SeenFits DEF me

\* The running program's calls are ordinary ones.
LEMMA PInvOrdinary ==
  ASSUME PInv
  PROVE  OrdinaryCalls
<1> SUFFICES ASSUME NEW p \in Procs, Live(p), mode \in {"user", "idle"}
             PROVE  /\ Seen(p).pc = "loop" /\ Seen(p).heap_top # STACK
                         => AddrKind(space[p], HeapAddress(Seen(p))) = "fresh"
                    /\ program = "forkexit" /\ Seen(p).pc \in {"loop", "done"} => ~OwnsShared(p)
  BY DEF OrdinaryCalls
<1>1. ASSUME Seen(p).pc = "loop", Seen(p).heap_top # STACK
      PROVE  AddrKind(space[p], HeapAddress(Seen(p))) = "fresh"
  <2>0. PICK m \in Locs : m = Seen(p) /\ HeapFits(m, space[p])
    BY SeenFits
  <2>1. PICK h \in HEAP .. STACK - 1 : h = m.heap_top
    BY SMTT(20), <1>1, <2>0, HeapAddresses DEF Locs
  <2>2. space[p][h].perm = {}
    BY SMTT(20), <1>1, <2>0, <2>1, HeapAddresses DEF HeapFits
  <2>3. ~(h < PROC_START) /\ h # VA_LIMIT /\ ~(h >= MEMSIZE_VIRTUAL)
    BY SMTT(20), <2>1, HeapAddresses, LayoutAssumption
  <2>4. QED
    BY <2>0, <2>1, <2>2, <2>3 DEF AddrKind, HeapAddress, Below
<1>2. ASSUME program = "forkexit", Seen(p).pc \in {"loop", "done"}, OwnsShared(p)
      PROVE  FALSE
  <2>1. PICK q \in Procs \ {p}, v \in UserVA :
          Live(q) /\ space[q][v].pn # -1 /\ pageinfo[space[q][v].pn].owner = p
    BY <1>2 DEF OwnsShared
  <2>2. p # 1 /\ p >= 0
    <3>1. p # 1
      BY <1>2, SeenFits
    <3>2. QED
      BY SMTT(20), <3>1 DEF Procs
  <2>3. v \in VPages /\ v >= PROC_START /\ SaneMapping(v, space[q][v]) /\ v \notin Tables
    BY <2>1, ImageSlots DEF PInv, EInv, IInv, TInv, SpacesSane
  <2>4. CASE space[q][v].perm = PTE_RO
    BY <1>2, <2>1, <2>2, <2>4 DEF PInv, FirstStays, ReadOnly
  <2>5. CASE space[q][v].perm = PTE_RW /\ space[q][v].pn # NULL
    <3>1. v \in Private(q) /\ Frame(q, v) = space[q][v].pn
      BY <2>3, <2>5 DEF Private, Uses, Writable, Frame, PTE_RW
    <3>2. pageinfo[space[q][v].pn] = Info(q, 1)
      BY <2>1, <2>5, <3>1 DEF PInv, EInv, IInv, PrivateOwned
    <3>3. QED
      BY SMTT(20), <2>1, <3>2 DEF Info
  <2>6. CASE space[q][v].pn = NULL
    <3>1. pageinfo[NULL] = Info(PO_RESERVED, 1)
      BY PageAssumption DEF PInv, EInv, IInv, KernelKept, NULL
    <3>2. QED
      BY SMTT(20), <2>1, <2>2, <2>6, <3>1 DEF Info, PO_RESERVED
  <2>7. ~(v < PROC_START)
    BY SMTT(20), <2>3, LayoutAssumption DEF VPages
  <2>8. space[q][v] = Unmapped => space[q][v].pn = -1
    BY SMTT(20) DEF Unmapped, Map
  <2>9. QED
    BY <2>1, <2>3, <2>4, <2>5, <2>6, <2>7, <2>8 DEF SaneMapping
<1>3. QED
  BY <1>1, <1>2

\* What the programs make of the kernel: of its calls, only those that are
\* ordinary.
ProgramStep ==
  \/ \E p \in Procs : ProcessSetup(p)
  \/ RunFirst \/ CheckFails \/ Panic \/ SysGetpid \/ Switch \/ PageFault
  \/ Enter /\ \E a \in Addresses : AddrKind(space[current], a) = "fresh" /\ PageAlloc(a)
  \/ \E v \in UserVA, x \in Vals : UserWrite(v, x)
  \/ SysFork
  \/ ~OwnsShared(current) /\ SysExit
  \/ Reboot \/ PowerOff \/ Reset \/ Off
  \/ UNCHANGED vars

\* Such a step is one of module Kernel's, and one that keeps pageinfo[] exact
\* and other processes' memory alone.
LEMMA ProgramSteps ==
  ASSUME ProgramStep
  PROVE  [Next]_vars /\ ExactStep /\ CalmStep
<1>1. [Next]_vars
  BY DEF ProgramStep, Next, SysPageAlloc
<1>2. ExactStep
  BY DEF ProgramStep, ExactStep, QuietAction
<1>3. CalmStep
  BY <1>2 DEF ExactStep, CalmStep, Damaging
<1>4. QED
  BY <1>1, <1>2, <1>3

\* Every step of the programs is such a step.
LEMMA ProgramsSteps ==
  ASSUME PInv, [ProgramsNext]_progVars
  PROVE  ProgramStep
<1>1. CASE KernelOnly \/ NoStack
  BY <1>1 DEF KernelOnly, Timer, NoStack, ProgramStep
<1>2. CASE Rebooted
  BY <1>2 DEF Rebooted, ProgramStep, Reboot
<1>3. CASE Prepare \/ Check \/ GetPid
  BY <1>3 DEF Prepare, Check, GetPid, ProgramStep
<1>4. CASE HeapFull
  BY <1>4 DEF HeapFull, ProgramStep
<1>5. CASE Alloc
  <2> DEFINE a == HeapAddress(me)
  <2>1. mode = "user" /\ me.pc = "loop" /\ me.heap_top # STACK /\ Enter /\ PageAlloc(a)
    BY <1>5 DEF Alloc, At
  <2>2. a \in Addresses
    <3>1. me.heap_top \in 0 .. VA_LIMIT
      BY SMTT(20), <2>1, MeFits, HeapAddresses, LayoutAssumption DEF Locs
    <3>2. QED
      BY <3>1 DEF Addresses, HeapAddress
  <2>3. AddrKind(space[current], a) = "fresh"
    BY <2>1, Running, PInvOrdinary DEF OrdinaryCalls, me
  <2> HIDE DEF a
  <2>4. QED
    BY <2>1, <2>2, <2>3 DEF ProgramStep
<1>6. CASE Store
  <2>1. mode = "user"
    BY <1>6 DEF Store, At
  <2>2. me.heap_top \in UserVA /\ 0 \in Vals
    BY <2>1, MeFits, HeapAddresses, LayoutAssumption DEF Locs
  <2>3. UserWrite(me.heap_top, 0) \/ PageFault
    BY <1>6 DEF Store
  <2>4. QED
    BY <2>2, <2>3 DEF ProgramStep
<1>7. CASE YieldCall
  BY <1>7 DEF YieldCall, ProgramStep
<1>8. CASE ForkCall
  BY <1>8 DEF ForkCall, ProgramStep
<1>9. CASE AssertFails
  BY <1>9 DEF AssertFails, ProgramStep
<1>10. CASE ExitCall
  <2>1. mode = "user" /\ program = "forkexit" /\ me.pc \in {"loop", "done"} /\ SysExit
    BY <1>10 DEF ExitCall, At
  <2>2. ~OwnsShared(current)
    BY <2>1, Running, PInvOrdinary DEF OrdinaryCalls, me
  <2>3. QED
    BY <2>1, <2>2 DEF ProgramStep
<1>11. CASE UNCHANGED progVars
  BY <1>11 DEF progVars, ProgramStep
<1>12. QED
  BY <1>1, <1>2, <1>3, <1>4, <1>5, <1>6, <1>7, <1>8, <1>9, <1>10, <1>11 DEF ProgramsNext

-----------------------------------------------------------------------------
(* Steps that change no process *)

\* A process that waits for no result does not care what it would be.
LEMMA ResultUnused ==
  ASSUME NEW p, NEW l, l.pc \notin Waits, NEW r, NEW q, ResultsFit(p, l, r)
  PROVE  ResultsFit(p, l, q)
  BY WaitPlaces DEF ResultsFit

\* The kernel's own steps, which leave every result that is waited for.
LEMMA UnmovedStep ==
  ASSUME PInv, EInv', UNCHANGED <<pageinfo, space, setup, program, loc>>,
         \A p \in Procs : \/ p_state'[p] = p_state[p]
                          \/ Live(p) /\ p_state'[p] = "P_BROKEN" /\ ~HasStack(p),
         mode' \in {"boot", "user", "idle"} =>
           \A p \in Procs : loc[p].pc \in Waits => rax'[p] = rax[p],
         mode' = "boot" => mode = "boot",
         mode' \in {"user", "idle"} => mode \in {"user", "idle"} \/ (mode = "boot" /\ setup = {})
  PROVE  PInv'
<1>1. \A p \in Procs : (Live(p)' <=> Live(p)) /\ ReadOnly(p)' = ReadOnly(p)
  BY DEF Live, ReadOnly
<1>2. LocTypeOK' /\ ProgramsNeverFault'
  BY DEF PInv, LocTypeOK, ProgramsNeverFault, HasStack
<1>3. BootSane'
  BY DEF PInv, BootSane
<1>4. HeapsFit'
  BY <1>1 DEF PInv, HeapsFit
<1>5. FirstLives'
  BY <1>1, HeapAddresses DEF PInv, FirstLives
<1>6. FirstStays'
  <2> SUFFICES ASSUME program = "forkexit"
               PROVE  /\ loc[1].pc = "forked" /\ mode' \in {"user", "idle"} => rax'[1] # 0
                      /\ \A p \in Procs : Live(p)' =>
                           \A v \in ReadOnly(p)' : pageinfo[space[p][v].pn].owner = 1
    BY DEF PInv, FirstStays
  <2>1. ASSUME loc[1].pc = "forked", mode' \in {"user", "idle"} PROVE rax'[1] # 0
    <3>1. mode \in {"user", "idle"}
      <4>0. Start.pc # "forked"
        BY DEF Start
      <4>1. loc # [p \in Procs |-> Start]
        BY <2>1, <4>0, HeapAddresses
      <4>2. QED
        BY <2>1, <4>1 DEF PInv, BootSane
    <3>2. QED
      BY <2>1, <3>1, WaitPlaces, HeapAddresses DEF PInv, FirstStays
  <2>2. QED
    BY <1>1, <2>1 DEF PInv, FirstStays
<1>7. ForksFit'
  <2> SUFFICES ASSUME program = "fork", mode' \in {"boot", "user", "idle"},
                      NEW p \in Procs, Live(p)'
               PROVE  ResultsFit(p, loc[p], rax[p])'
    BY DEF PInv, ForksFit
  <2>1. ResultsFit(p, loc[p], rax[p])
    BY <1>1 DEF PInv, ForksFit
  <2>2. ResultsFit(p, loc[p], rax'[p])
    BY <2>1, ResultUnused
  <2>3. QED
    BY <1>1, <2>2 DEF ResultsFit, Full
<1>8. QED
  BY <1>2, <1>3, <1>4, <1>5, <1>6, <1>7 DEF PInv

\* A program goes on to the place l.
LEMMA MoveStep ==
  ASSUME PInv, EInv', UNCHANGED <<pageinfo, p_state, space, program>>,
         mode = "user", mode' # "boot", \A p \in Procs : p # current => rax'[p] = rax[p],
         NEW l \in Locs, loc' = [loc EXCEPT ![current] = l],
         HeapFits(l, space[current]), l.pc # "assert",
         program = "forkexit" /\ current = 1 =>
           l.pc \in {"start", "forked"} /\ (l.pc = "forked" => rax'[1] # 0),
         program = "fork" => ResultsFit(current, l, rax'[current]),
         l.pc \in {"fork2", "forked2", "check"} => program = "fork",
         l.pc = "forked" => program \in {"fork", "forkexit"},
         l.pc = "forked3" => program = "forkexit"
  PROVE  PInv'
<1>1. \A p : (Live(p)' <=> Live(p)) /\ ReadOnly(p)' = ReadOnly(p)
  BY DEF Live, ReadOnly
<1>2. LocTypeOK' /\ ProgramsNeverFault'
  BY DEF PInv, LocTypeOK, ProgramsNeverFault, HasStack
<1>3. /\ current \in Procs /\ loc'[current] = l
      /\ \A p \in Procs : p # current => loc'[p] = loc[p]
  BY Running DEF PInv, LocTypeOK
<1>4. BootSane'
  BY DEF BootSane
<1>5. HeapsFit'
  BY <1>1, <1>3 DEF PInv, HeapsFit
<1>6. FirstStays' /\ FirstLives'
  <2>1. FirstLives'
    BY <1>1 DEF PInv, FirstLives
  <2>2. program = "forkexit" =>
          loc'[1].pc \in {"start", "forked"} /\ (loc'[1].pc = "forked" => rax'[1] # 0)
    BY <1>3, HeapAddresses DEF PInv, FirstStays
  <2>3. QED
    BY <1>1, <2>1, <2>2 DEF PInv, FirstStays
<1>7. ForksFit'
  <2>0. \A p \in Procs :
          /\ loc'[p].pc # "assert"
          /\ loc'[p].pc \in {"fork2", "forked2", "check"} => program = "fork"
          /\ loc'[p].pc = "forked" => program \in {"fork", "forkexit"}
          /\ loc'[p].pc = "forked3" => program = "forkexit"
    BY <1>3 DEF PInv, ForksFit
  <2> SUFFICES ASSUME program = "fork", NEW p \in Procs, Live(p)
               PROVE  ResultsFit(p, loc[p], rax[p])'
    BY <1>1, <2>0 DEF ForksFit
  <2>1. ResultsFit(p, loc'[p], rax'[p])
    BY <1>3 DEF PInv, ForksFit
  <2>2. QED
    BY <2>1, <1>1 DEF ResultsFit, Full
<1>8. QED
  BY <1>2, <1>4, <1>5, <1>6, <1>7 DEF PInv

\* A program goes on with the same heap and nothing to store.
LEMMA GotoStep ==
  ASSUME PInv, EInv', UNCHANGED <<pageinfo, p_state, space, program>>,
         mode = "user", mode' # "boot", \A p \in Procs : p # current => rax'[p] = rax[p],
         NEW pc \in {"prepare", "loop", "done"}, Goto(pc), HasStack(current),
         me.pc # "store", pc = "prepare" => me.pc = "check", me.pc # "start"
  PROVE  PInv'
<1> DEFINE l == [me EXCEPT !.pc = pc]
<1>1. me \in Locs /\ HeapFits(me, space[current]) /\ current \in Procs /\ Live(current)
  BY Running, MeFits
<1>2. /\ l \in Locs /\ l.pc = pc /\ l.heap_top = me.heap_top
      /\ me.heap_top \in HEAP .. STACK
  BY <1>1 DEF Locs, Places
<1>3. loc' = [loc EXCEPT ![current] = l]
  BY DEF Goto, Move
<1> HIDE DEF l
<1>4. HeapFits(l, space[current])
  BY <1>1, <1>2 DEF HeapFits, HasStack
<1>5. program = "forkexit" => current # 1
  BY MeFits
<1>6. program = "fork" => ResultsFit(current, l, rax'[current])
  BY <1>1, <1>2 DEF ResultsFit
<1>7. QED
  BY <1>2, <1>3, <1>4, <1>5, <1>6, MoveStep

\* sys_getpid() answers the caller and touches nothing.
LEMMA GetpidQuiet ==
  ASSUME PInv, SysGetpid
  PROVE  /\ UNCHANGED <<pageinfo, p_state, space>> /\ mode = "user" /\ mode' # "boot"
         /\ rax'[current] = current /\ \A p \in Procs : p # current => rax'[p] = rax[p]
<1>1. mode = "user"
  BY DEF SysGetpid, Enter
<1>2. current \in Procs /\ rax \in [Procs -> -1 .. NPROC - 1]
  BY <1>1, Running DEF PInv, EInv, IInv, TInv, TypeOK
<1>3. QED
  BY <1>1, <1>2 DEF SysGetpid, run

\* The start of a program that asks for its pid and sets up its heap.
LEMMA PrepareStep ==
  ASSUME PInv, EInv', Prepare
  PROVE  PInv'
<1> DEFINE l == [me EXCEPT !.pc = "loop", !.heap_top = HEAP]
<1>1. /\ UNCHANGED <<pageinfo, p_state, space, program>> /\ mode = "user" /\ mode' # "boot"
      /\ \A p \in Procs : p # current => rax'[p] = rax[p]
  BY GetpidQuiet DEF Prepare
<1>2. me \in Locs /\ HeapFits(me, space[current]) /\ current \in Procs /\ Live(current)
  BY <1>1, Running, MeFits
<1>3. me.pc \in {"start", "prepare"} /\ (me.pc = "start" => Looping) /\ HasStack(current)
  BY DEF Prepare, At, Runs
<1>4. l \in Locs /\ l.pc = "loop" /\ l.heap_top = HEAP /\ me.heap_top = HEAP
  BY <1>2, <1>3, HeapAddresses DEF Locs, Places, HeapFits
<1>5. loc' = [loc EXCEPT ![current] = l]
  BY DEF Prepare, Move
<1> HIDE DEF l
<1>6. HeapFits(l, space[current])
  BY <1>2, <1>3, <1>4 DEF HeapFits, HasStack
<1>7. program = "forkexit" => current # 1
  BY <1>1, <1>3, MeFits DEF Looping
<1>8. program = "fork" => ResultsFit(current, l, rax'[current])
  BY <1>4 DEF ResultsFit
<1>9. QED
  BY <1>1, <1>4, <1>5, <1>6, <1>7, <1>8, MoveStep

\* A store never faults: the page is there and can be written.
LEMMA StoreStep ==
  ASSUME PInv, EInv', Store
  PROVE  PInv'
<1> DEFINE l == [me EXCEPT !.pc = AfterStore, !.heap_top = me.heap_top + 1]
<1>1. mode = "user" /\ me.pc = "store" /\ UNCHANGED program /\ HasStack(current)
  BY DEF Store, At, Runs
<1>2. me \in Locs /\ HeapFits(me, space[current]) /\ current \in Procs /\ Live(current)
  BY <1>1, Running, MeFits
<1>3. PICK h \in HEAP .. STACK - 1 : h = me.heap_top
  BY SMTT(20), <1>1, <1>2, HeapAddresses DEF Locs, HeapFits
<1>4. space[current][h].perm = PTE_RW
  BY SMTT(20), <1>1, <1>2, <1>3, HeapAddresses DEF HeapFits
<1>5. UserWrite(me.heap_top, 0) /\ loc' = [loc EXCEPT ![current] = l]
  <2>1. {"W", "U"} \subseteq space[current][me.heap_top].perm
    BY <1>3, <1>4 DEF PTE_RW
  <2>2. UserWrite(me.heap_top, 0) /\ Move([me EXCEPT !.pc = AfterStore, !.heap_top = @ + 1])
    BY <2>1 DEF Store
  <2>3. [me EXCEPT !.pc = AfterStore, !.heap_top = @ + 1] = l
    BY <1>2 DEF Locs
  <2>4. QED
    BY <2>2, <2>3 DEF Move
<1>6. UNCHANGED <<pageinfo, p_state, space, rax>> /\ mode' # "boot"
  BY <1>1, <1>5 DEF UserWrite
<1>7. /\ l \in Locs /\ l.pc \in {"loop", "yield"} /\ l.heap_top = h + 1
  <2>1. h + 1 \in HEAP .. STACK
    BY SMTT(20), <1>3, HeapAddresses
  <2>2. AfterStore \in {"loop", "yield"}
    BY DEF AfterStore
  <2>3. QED
    BY <1>2, <1>3, <2>1, <2>2 DEF Locs, Places
<1> HIDE DEF l
<1>8. HeapFits(l, space[current])
  <2>1. \A v \in h + 1 .. STACK - 1 : v \in h .. STACK - 1 /\ v # h
    BY SMTT(20), <1>3, HeapAddresses
  <2>2. \A v \in h .. STACK - 1 : v # h => space[current][v].perm = {}
    BY <1>2, <1>3 DEF HeapFits
  <2>3. QED
    BY <1>1, <1>7, <2>1, <2>2 DEF HeapFits, HasStack
<1>9. program = "forkexit" => current # 1
  BY <1>1, MeFits
<1>10. program = "fork" => ResultsFit(current, l, rax'[current])
  BY <1>7 DEF ResultsFit
<1>11. QED
  BY <1>1, <1>5, <1>6, <1>7, <1>8, <1>9, <1>10, MoveStep

\* sys_yield() takes a program round its loop.
LEMMA YieldStep ==
  ASSUME PInv, EInv', YieldCall
  PROVE  PInv'
<1>1. /\ mode = "user" /\ UNCHANGED <<pageinfo, p_state, space, program>> /\ mode' # "boot"
      /\ HasStack(current)
  BY DEF YieldCall, Switch, Enter, schedule, run, At, Runs
<1>2. me \in Locs /\ HeapFits(me, space[current]) /\ current \in Procs /\ Live(current)
  BY <1>1, Running, MeFits
<1>3. \A p \in Procs : p # current => rax'[p] = rax[p]
  BY <1>2 DEF YieldCall, Switch, SavedRax, PInv, EInv, IInv, TInv, TypeOK
<1>4. CASE me.pc = "start"
  <2>1. program = "forkexit" /\ Goto("start")
    BY <1>4 DEF YieldCall, At
  <2>2. [me EXCEPT !.pc = "start"] = me
    BY <1>2, <1>4 DEF Locs
  <2>3. loc' = [loc EXCEPT ![current] = me]
    BY <2>1, <2>2 DEF Goto, Move
  <2>4. QED
    BY <1>1, <1>2, <1>3, <1>4, <2>1, <2>3, MoveStep
<1>5. CASE me.pc # "start"
  <2>1. PICK pc \in {"loop", "done"} : Goto(pc) /\ me.pc \in {"loop", "yield", "done"}
    BY <1>5 DEF YieldCall, At
  <2>2. QED
    BY <1>1, <1>3, <2>1, GotoStep
<1>6. QED
  BY <1>4, <1>5

\* The assertions of p-fork.c hold.
LEMMA ChecksSucceed ==
  ASSUME PInv, Check
  PROVE  Goto("prepare")
<1>1. mode = "user" /\ me.pc = "check" /\ rax'[current] = current
  BY GetpidQuiet DEF Check, At
<1>2. ResultsFit(current, me, rax[current])
  BY <1>1, MeFits
<1>3. ForkResultsRight(current)
  BY <1>1, <1>2 DEF ResultsFit, ForkResultsRight
<1>4. QED
  BY <1>1, <1>3 DEF Check

\* p-fork.c compares the results of its forks.
LEMMA CheckStep ==
  ASSUME PInv, EInv', Check
  PROVE  PInv'
<1>1. /\ UNCHANGED <<pageinfo, p_state, space, program>> /\ mode = "user" /\ mode' # "boot"
      /\ me.pc = "check" /\ HasStack(current)
      /\ \A p \in Procs : p # current => rax'[p] = rax[p]
  BY GetpidQuiet DEF Check, At, Runs
<1>2. QED
  BY <1>1, ChecksSucceed, GotoStep

-----------------------------------------------------------------------------
(* Steps that change processes *)

\* A page that a process reads is in use, so no allocation changes its entry.
LEMMA ReadOnlyKept ==
  ASSUME IInv, NEW S \in SUBSET Slots, NEW c, NEW q \in Procs, Live(q), NEW v \in ReadOnly(q)
  PROVE  Assign(pageinfo, Allocate(pageinfo, S), c)[space[q][v].pn] = pageinfo[space[q][v].pn]
<1>1. PICK pn \in Pages : pn = space[q][v].pn /\ pageinfo[pn].refcount > 0
  BY ReadOnlyUse, UsesSplit, UsedPositive DEF IInv
<1>2. PICK got \in [S -> Pages] :
        /\ got = Allocate(pageinfo, S)
        /\ \A s \in S : got[s] = NULL \/ got[s] \in FreePages(pageinfo)
  BY AllocateSound
<1>3. \A s \in S : got[s] = pn => pn = NULL
  BY SMTT(20), <1>1, <1>2 DEF FreePages
<1>4. Assign(pageinfo, got, c)[pn] = pageinfo[pn]
  BY SMTT(20), <1>2, <1>3, AssignKeeps
<1>5. QED
  BY <1>1, <1>2, <1>4

\* process_setup() leaves the heap to sys_page_alloc().
LEMMA SetupStep ==
  ASSUME PInv, EInv', NEW p \in Procs, ProcessSetup(p), UNCHANGED <<program, loc>>
  PROVE  PInv'
<1> DEFINE got == Allocate(pageinfo, Image \cup {STACK})
<1>1. /\ mode = "boot" /\ p \in setup /\ pageinfo' = Assign(pageinfo, got, p)
      /\ loc = [q \in Procs |-> Start] /\ rax' = rax
  BY DEF ProcessSetup, Image, PInv, BootSane
<1>2. ~Live(p) /\ IInv /\ TypeOK
  BY <1>1 DEF PInv, EInv, IInv, TInv, ProcessesSane
<1>3. /\ got \in [Image \cup {STACK} -> Pages]
      /\ Image \cup {STACK} \in SUBSET Slots
  BY ImageSlots, AllocateSound
<1>4. \A q \in Procs : Live(q) => \A v \in ReadOnly(q) :
        pageinfo'[space[q][v].pn] = pageinfo[space[q][v].pn]
  BY <1>1, <1>2, <1>3, ReadOnlyKept
<1>5. LocTypeOK'
  BY DEF PInv, LocTypeOK
<1>6. CASE \E s \in Image : got[s] = NULL
  <2>1. mode' = "panic" /\ UNCHANGED <<p_state, space>>
    BY <1>6 DEF ProcessSetup, Image
  <2>2. \A q : (Live(q)' <=> Live(q)) /\ ReadOnly(q)' = ReadOnly(q)
    BY <2>1 DEF Live, ReadOnly
  <2>3. BootSane' /\ FirstLives' /\ ProgramsNeverFault'
    BY <2>1 DEF BootSane, FirstLives, ProgramsNeverFault, HasStack, PInv
  <2>4. HeapsFit'
    BY <2>1, <2>2 DEF PInv, HeapsFit
  <2>5. FirstStays'
    BY <2>1, <2>2, <1>4 DEF PInv, FirstStays
  <2>6. ForksFit'
    BY <2>1 DEF PInv, ForksFit
  <2>7. QED
    BY <1>5, <2>3, <2>4, <2>5, <2>6 DEF PInv
<1>7. CASE ~\E s \in Image : got[s] = NULL
  <2>1. /\ p_state' = [p_state EXCEPT ![p] = "P_RUNNABLE"]
        /\ space' = [space EXCEPT ![p] = LoadedSpace(got)]
        /\ setup' = setup \ {p} /\ mode' = "boot"
    BY <1>1, <1>7 DEF ProcessSetup, Image
  <2>2. /\ space'[p] = LoadedSpace(got) /\ Live(p)' /\ p_state'[p] = "P_RUNNABLE"
        /\ \A q \in Procs : q # p =>
             /\ space'[q] = space[q] /\ p_state'[q] = p_state[q]
             /\ Live(q)' <=> Live(q)
             /\ ReadOnly(q)' = ReadOnly(q)
    BY <2>1, <1>2 DEF TypeOK, Live, ReadOnly
  <2> HIDE DEF got
  <2>3. BootSane' /\ ProgramsNeverFault'
    <3>1. BootSane'
      BY <1>1, <2>1 DEF PInv, BootSane
    <3>2. \A q \in Procs : p_state'[q] = "P_BROKEN" =>
            p_state[q] = "P_BROKEN" /\ space'[q] = space[q]
      BY <2>2
    <3>3. QED
      BY <3>1, <3>2 DEF PInv, ProgramsNeverFault, HasStack
  <2>4. FirstLives'
    <3>1. program \in {"fork", "forkexit"} => 1 \in setup' \/ Live(1)'
      <4>1. program \in {"fork", "forkexit"} => 1 \in setup \/ Live(1)
        BY <1>1 DEF PInv, FirstLives
      <4>2. 1 \in Procs
        BY HeapAddresses
      <4>3. QED
        BY <4>1, <4>2, <2>1, <2>2
    <3>2. QED
      BY <2>1, <3>1 DEF FirstLives
  <2>5. HeapsFit'
    <3>1. loc[p] = Start /\ loc' = loc
      BY <1>1
    <3>2. \A v \in HEAP .. STACK - 1 : LoadedSpace(got)[v].perm = {}
      <4> SUFFICES ASSUME NEW v \in HEAP .. STACK - 1 PROVE LoadedSpace(got)[v].perm = {}
        OBVIOUS
      <4>1. v \in VPages /\ ~(v < PROC_START) /\ v # STACK /\ v \notin TextPages \cup DataPages
        <5>1. v \in HEAP .. STACK /\ v # STACK /\ ~(v < PROC_START) /\ ~(v < HEAP)
          BY SMTT(20), HeapAddresses, LayoutAssumption
        <5>2. QED
          BY <5>1, HeapAddresses, HeapAssumption
      <4>2. LoadedSpace(got)[v] = Unmapped
        BY <4>1 DEF LoadedSpace
      <4>3. QED
        BY SMTT(20), <4>2 DEF Unmapped, Map
    <3>3. HeapFits(Start, LoadedSpace(got))
      BY <3>2 DEF HeapFits, Start
    <3>4. QED
      BY <2>2, <3>1, <3>3 DEF PInv, HeapsFit
  <2>6. FirstStays'
    <3> SUFFICES ASSUME program = "forkexit", NEW q \in Procs, Live(q)', NEW v \in ReadOnly(q)'
                 PROVE  pageinfo'[space'[q][v].pn].owner = 1
      BY <2>1 DEF PInv, FirstStays
    <3>1. CASE q # p
      BY SMTT(20), <3>1, <2>2, <1>4 DEF PInv, FirstStays
    <3>2. CASE q = p
      <4>1. p = 1
        BY <1>1 DEF PInv, BootSane
      <4>2. v \in UserVA /\ v \in VPages /\ LoadedSpace(got)[v].perm = PTE_RO /\ v \in Int
        <5>1. v \in UserVA /\ space'[q][v].perm = PTE_RO
          BY DEF ReadOnly
        <5>2. space'[q] = LoadedSpace(got)
          BY <3>2, <2>2
        <5>3. v \in VPages /\ v \in Int
          BY SMTT(20), <5>1, ImageSlots DEF UserVA
        <5>4. QED
          BY <5>1, <5>2, <5>3
      <4>3. LoadedSpace(got)[v] = Map(got[v], PTE_RO) /\ v \in TextPages
        BY SMTT(20), <4>2, LayoutAssumption DEF LoadedSpace, UserVA, Map, Unmapped, PTE_RO, PTE_RW
      <4>4. v \in Image /\ got[v] # NULL /\ got[v] \in Pages
        BY <4>3, <1>3, <1>7 DEF Image
      <4>5. pageinfo'[got[v]] = Info(p, 1)
        BY <4>4, <1>1, <1>3 DEF Assign
      <4>6. QED
        BY SMTT(20), <3>2, <2>2, <4>1, <4>3, <4>5 DEF Map, Info
    <3>3. QED
      BY <3>1, <3>2
  <2>7. ForksFit'
    <3>1. \A q : Live(q) => q = p \/ q \notin Procs \/ Live(q)'
      BY <2>2
    <3>2. ASSUME program = "fork", NEW q \in Procs, Live(q)' PROVE ResultsFit(q, loc[q], rax[q])'
      <4>1. loc[q].pc = "start" /\ loc' = loc
        BY <1>1 DEF Start
      <4>2. q = p \/ Live(q)
        BY <2>2, <3>2
      <4>3. q = p => q = 1
        BY <1>1, <3>2 DEF PInv, BootSane
      <4>4. q = 1
        BY <1>1, <3>2, <4>1, <4>2, <4>3 DEF PInv, ForksFit, ResultsFit
      <4>5. QED
        BY <4>1, <4>4 DEF ResultsFit
    <3>3. QED
      BY <3>2 DEF PInv, ForksFit
  <2>8. QED
    BY <1>5, <2>3, <2>4, <2>5, <2>6, <2>7 DEF PInv
<1>8. QED
  BY <1>6, <1>7

\* A machine that has just booted, before the first process is set up.
LEMMA FreshPInv ==
  ASSUME EInv, Fresh, program \in Commands, loc = [p \in Procs |-> Start],
         setup = 1 .. Loaded(program)
  PROVE  PInv
<1>1. \A p \in Procs : ~Live(p) /\ p_state[p] = "P_FREE"
  BY DEF Fresh, Live
<1>2. Start \in Locs /\ Start.pc = "start"
  BY SMTT(20), HeapAddresses, LayoutAssumption DEF Start, Locs, Places
<1>3. program \in {"fork", "forkexit"} => setup = {1}
  BY SMTT(20) DEF Loaded
<1>4. BootSane /\ LocTypeOK
  BY <1>2, <1>3 DEF BootSane, LocTypeOK
<1>5. HeapsFit /\ ProgramsNeverFault
  BY <1>1 DEF HeapsFit, ProgramsNeverFault
<1>6. FirstLives
  BY <1>3 DEF FirstLives, Fresh
<1>7. FirstStays
  BY <1>1, <1>2, HeapAddresses DEF FirstStays
<1>8. ForksFit
  BY <1>1, <1>2 DEF ForksFit
<1>9. QED
  BY <1>4, <1>5, <1>6, <1>7, <1>8 DEF PInv

\* sys_page_alloc(heap_top) maps the page or answers -1.
LEMMA AllocStep ==
  ASSUME PInv, EInv', Alloc
  PROVE  PInv'
<1> DEFINE a   == HeapAddress(me)
           got == Allocate(pageinfo, {a.vpn})
<1>1. /\ mode = "user" /\ me.pc = "loop" /\ me.heap_top # STACK /\ PageAlloc(a)
      /\ UNCHANGED program
  BY DEF Alloc, At
<1>2. /\ me \in Locs /\ HeapFits(me, space[current]) /\ current \in Procs /\ Live(current)
      /\ p_state[current] = "P_RUNNABLE" /\ IInv /\ TypeOK
  BY <1>1, Running, MeFits DEF PInv, EInv, IInv, TInv
<1>3. PICK h \in HEAP .. STACK - 1 : h = me.heap_top
  BY SMTT(20), <1>1, <1>2, HeapAddresses DEF Alloc, Locs
<1>4. /\ h \in UserVA /\ h \in VPages /\ ~(h < PROC_START) /\ h < VA_LIMIT /\ {h} \in SUBSET Slots
  BY SMTT(20), <1>3, HeapAddresses, LayoutAssumption, ImageSlots
<1>5. a.vpn = h /\ a.aligned /\ ~Below(a) /\ AllocAt(a)
  <2>1. a.vpn = h /\ a.aligned
    BY <1>3 DEF HeapAddress
  <2>2. AddrKind(space[current], a) = "fresh"
    BY <1>1, <1>2, PInvOrdinary DEF OrdinaryCalls, me
  <2>3. AllocAt(a)
    BY <1>1, <2>2, PlainAlloc DEF Damaging
  <2>4. QED
    BY <1>4, <2>1, <2>3 DEF Below
<1>6. /\ pageinfo' = Assign(pageinfo, got, current) /\ UNCHANGED p_state /\ mode' # "boot"
      /\ \/ space' = space /\ rax' = [rax EXCEPT ![current] = -1]
         \/ /\ space' = [space EXCEPT ![current][h] = Map(got[h], PTE_RW)]
            /\ rax' = [rax EXCEPT ![current] = 0]
  BY <1>4, <1>5 DEF AllocAt, run
<1> HIDE DEF a
<1>7. got = Allocate(pageinfo, {h})
  BY <1>5
<1> HIDE DEF got
<1>8. \A q \in Procs : Live(q) => \A v \in ReadOnly(q) :
        pageinfo'[space[q][v].pn] = pageinfo[space[q][v].pn]
  BY SMTT(20), <1>2, <1>4, <1>6, <1>7, ReadOnlyKept
<1>9. \A p : Live(p)' <=> Live(p)
  BY <1>6 DEF Live
<1>10. PICK pc \in {"done", "store"} :
         /\ loc' = [loc EXCEPT ![current] = [me EXCEPT !.pc = pc]]
         /\ pc = "done" => space' = space
         /\ pc = "store" => space' = [space EXCEPT ![current][h] = Map(got[h], PTE_RW)]
  <2>1. Goto(IF rax'[current] < 0 THEN "done" ELSE "store")
    BY DEF Alloc
  <2>2. CASE space' = space /\ rax' = [rax EXCEPT ![current] = -1]
    <3>1. rax'[current] = -1
      BY <2>2, <1>2 DEF TypeOK
    <3>2. Goto("done")
      BY SMTT(20), <2>1, <3>1
    <3>3. QED
      BY <2>2, <3>2, <1>2 DEF Goto, Move
  <2>3. CASE /\ space' = [space EXCEPT ![current][h] = Map(got[h], PTE_RW)]
             /\ rax' = [rax EXCEPT ![current] = 0]
    <3>1. rax'[current] = 0
      BY <2>3, <1>2 DEF TypeOK
    <3>2. Goto("store")
      BY SMTT(20), <2>1, <3>1
    <3>3. QED
      BY <2>3, <3>2, <1>2 DEF Goto, Move
  <2>4. QED
    BY <2>2, <2>3, <1>6
<1>11. PICK l \in Locs : /\ l = [me EXCEPT !.pc = pc] /\ l.pc = pc /\ l.heap_top = h
                         /\ loc' = [loc EXCEPT ![current] = l]
  <2>1. [me EXCEPT !.pc = pc] \in Locs
    BY <1>2 DEF Locs, Places
  <2>2. QED
    BY <2>1, <1>2, <1>3, <1>10 DEF Locs
<1>12. /\ loc' \in [Procs -> Locs] /\ loc'[current] = l
       /\ \A p \in Procs : p # current => loc'[p] = loc[p] /\ space'[p] = space[p]
  BY SMTT(20), <1>2, <1>10, <1>11 DEF PInv, LocTypeOK, TypeOK
<1>13. \A v \in VPages :
         space'[current][v] = IF pc = "store" /\ v = h THEN Map(got[h], PTE_RW)
                              ELSE space[current][v]
  BY SMTT(20), <1>2, <1>10 DEF TypeOK
<1>14. LocTypeOK' /\ ProgramsNeverFault' /\ BootSane'
  <2>1. \A p \in Procs : p_state'[p] = "P_BROKEN" => p_state[p] = "P_BROKEN" /\ space'[p] = space[p]
    BY <1>2, <1>6, <1>12
  <2>2. QED
    BY <1>1, <1>6, <1>12, <2>1 DEF PInv, LocTypeOK, ProgramsNeverFault, HasStack, BootSane
<1>15. HeapsFit'
  <2>1. HeapFits(l, space'[current])
    <3>1. \A v \in h .. STACK - 1 : v \in VPages
      BY SMTT(20), <1>3, HeapAddresses
    <3>2. \A v \in h .. STACK - 1 : space[current][v].perm = {}
      BY <1>1, <1>2, <1>3 DEF HeapFits
    <3>3. Map(got[h], PTE_RW).perm = PTE_RW
      BY DEF Map
    <3>4. \A v \in h .. STACK - 1 :
            space'[current][v].perm = IF pc = "store" /\ v = h THEN PTE_RW ELSE {}
      BY <3>1, <3>2, <3>3, <1>13
    <3>5. h # STACK
      BY SMTT(20), <1>3, HeapAddresses
    <3>6. space'[current][STACK] = space[current][STACK] /\ me.pc # "start"
      <4>1. STACK \in VPages /\ STACK # h
        BY SMTT(20), <1>3, HeapAddresses
      <4>2. QED
        BY <1>1, <1>13, <4>1
    <3>7. QED
      BY <3>4, <3>5, <3>6, <1>2, <1>11 DEF HeapFits
  <2>2. QED
    BY <1>9, <1>12, <2>1 DEF PInv, HeapsFit
<1>16. FirstLives'
  BY <1>1, <1>6, <1>9 DEF PInv, FirstLives
<1>17. FirstStays'
  <2>1. program = "forkexit" => current # 1
    BY <1>1, MeFits
  <2>r. \A p \in Procs : p # current => rax'[p] = rax[p]
    BY <1>2, <1>6 DEF TypeOK
  <2>2. ASSUME NEW p \in Procs, NEW v \in ReadOnly(p)'
        PROVE  v \in ReadOnly(p) /\ space'[p][v] = space[p][v]
    <3>1. v \in UserVA /\ v \in VPages /\ space'[p][v].perm = PTE_RO
      BY <2>2, HeapAddresses DEF ReadOnly
    <3>2. Map(got[h], PTE_RW).perm # PTE_RO
      BY SMTT(20) DEF Map, PTE_RW, PTE_RO
    <3>3. space'[p][v] = space[p][v]
      BY <3>1, <3>2, <1>12, <1>13
    <3>4. QED
      BY <3>1, <3>3 DEF ReadOnly
  <2>3. program = "forkexit" =>
          /\ loc'[1].pc \in {"start", "forked"}
          /\ loc'[1].pc = "forked" /\ mode' \in {"user", "idle"} => rax'[1] # 0
    BY <1>1, <1>12, <2>1, <2>r, HeapAddresses DEF PInv, FirstStays
  <2>4. program = "forkexit" =>
          \A p \in Procs : Live(p) => \A v \in ReadOnly(p) : pageinfo[space[p][v].pn].owner = 1
    BY DEF PInv, FirstStays
  <2>5. QED
    BY SMTT(20), <1>1, <1>8, <1>9, <2>2, <2>3, <2>4 DEF FirstStays
<1>18. ForksFit'
  <2>1. \A p \in Procs :
          /\ loc'[p].pc # "assert"
          /\ loc'[p].pc \in {"fork2", "forked2", "check"} => program = "fork"
          /\ loc'[p].pc = "forked" => program \in {"fork", "forkexit"}
          /\ loc'[p].pc = "forked3" => program = "forkexit"
    BY <1>11, <1>12 DEF PInv, ForksFit
  <2>r. \A p \in Procs : p # current => rax'[p] = rax[p]
    BY <1>2, <1>6 DEF TypeOK
  <2>2. ASSUME program = "fork", NEW p \in Procs, Live(p)' PROVE ResultsFit(p, loc[p], rax[p])'
    <3>1. CASE p = current
      BY <3>1, <1>11, <1>12 DEF ResultsFit
    <3>2. CASE p # current
      <4>1. ResultsFit(p, loc'[p], rax'[p])
        BY <3>2, <2>2, <2>r, <1>1, <1>9, <1>12 DEF PInv, ForksFit
      <4>2. QED
        BY <4>1, <1>9 DEF ResultsFit, Full
    <3>3. QED
      BY <3>1, <3>2
  <2>3. QED
    BY <1>1, <2>1, <2>2 DEF ForksFit
<1>19. QED
  BY <1>14, <1>15, <1>16, <1>17, <1>18 DEF PInv

\* exit() keeps the owner of the pages that others read.
LEMMA ExitOwner ==
  ASSUME IInv, NEW cur \in Procs, cur = current, Live(cur),
         NEW q \in Procs \ {cur}, Live(q), NEW v \in ReadOnly(q)
  PROVE  ExitInfo(space[q][v].pn).owner = pageinfo[space[q][v].pn].owner
<1>1. PICK pn \in Pages : pn = space[q][v].pn /\ pn = Frame(q, v) /\ v \in Uses(q)
  BY ReadOnlyUse, UsesSplit DEF IInv
<1>2. CASE cur \in Sharers(pn)
  BY SMTT(20), <1>1, <1>2, ExitShared DEF Info
<1>3. CASE cur \notin Sharers(pn) /\ pn # NULL
  <2>1. ASSUME NEW s \in Uses(cur), Frame(cur, s) = pn PROVE FALSE
    <3>1. s \in Private(cur) \/ s \in ReadOnly(cur)
      BY <2>1, UsesSplit DEF IInv
    <3>2. s \notin Private(cur)
      BY <1>1, <1>3, <2>1 DEF IInv, PagesIsolated
    <3>3. space[cur][s].pn = pn /\ s \in ReadOnly(cur)
      BY <3>1, <3>2, <2>1, ReadOnlyUse
    <3>4. QED
      BY <3>3, <1>3 DEF Sharers
  <2>2. ExitInfo(pn) = pageinfo[pn]
    BY <2>1, ExitKeeps
  <2>3. QED
    BY <1>1, <2>2
<1>4. CASE pn = NULL
  BY <1>1, <1>4, ExitKeeps
<1>5. QED
  BY <1>2, <1>3, <1>4

\* A process of p-forkexit.c exits; the first never does.
LEMMA ExitCallStep ==
  ASSUME PInv, EInv', ExitCall
  PROVE  PInv'
<1>1. /\ mode = "user" /\ program = "forkexit" /\ me.pc \in {"loop", "done"}
      /\ SysExit /\ UNCHANGED program
      /\ loc' = [loc EXCEPT ![current] = Start]
  BY DEF ExitCall, At, Move
<1>2. /\ current \in Procs /\ Live(current) /\ IInv /\ TypeOK
      /\ current # 1
  BY <1>1, Running, MeFits DEF PInv, EInv, IInv, TInv
<1>3. /\ p_state' = [p_state EXCEPT ![current] = "P_FREE"]
      /\ space' = [space EXCEPT ![current] = NoSpace]
      /\ \A pn \in Pages : pageinfo'[pn] = ExitInfo(pn)
      /\ mode' # "boot"
  BY <1>1 DEF SysExit, schedule, run
<1>c. PICK cur \in Procs : cur = current
  BY <1>2
<1>4. /\ ~Live(cur)' /\ p_state'[cur] = "P_FREE" /\ loc'[cur] = Start
      /\ \A p \in Procs : p # cur =>
           /\ Live(p)' <=> Live(p)
           /\ space'[p] = space[p] /\ loc'[p] = loc[p] /\ p_state'[p] = p_state[p]
           /\ ReadOnly(p)' = ReadOnly(p)
  BY <1>1, <1>2, <1>3, <1>c DEF Live, ReadOnly, TypeOK, PInv, LocTypeOK
<1>5. Start \in Locs
  BY SMTT(20), HeapAddresses, LayoutAssumption DEF Start, Locs, Places
<1>6. LocTypeOK' /\ BootSane'
  BY <1>1, <1>3, <1>5 DEF PInv, LocTypeOK, BootSane
<1>7. ProgramsNeverFault'
  <2>1. \A p \in Procs : p_state'[p] = "P_BROKEN" => p_state[p] = "P_BROKEN" /\ space'[p] = space[p]
    BY <1>4
  <2>2. QED
    BY <2>1 DEF PInv, ProgramsNeverFault, HasStack
<1>8. HeapsFit'
  BY <1>4 DEF PInv, HeapsFit
<1>9. FirstLives'
  BY <1>1, <1>2, <1>3, <1>4, <1>c, HeapAddresses DEF PInv, FirstLives
<1>10. FirstStays'
  <2>1. /\ loc'[1].pc \in {"start", "forked"}
        /\ loc'[1].pc = "forked" => rax'[1] # 0
    <3>1. rax'[1] = rax[1] /\ loc'[1] = loc[1]
      BY <1>1, <1>2, <1>4, <1>c, HeapAddresses DEF SysExit, SavedRax, TypeOK
    <3>2. QED
      BY <1>1, <3>1 DEF PInv, FirstStays
  <2>2. ASSUME NEW p \in Procs, Live(p)', NEW v \in ReadOnly(p)'
        PROVE  pageinfo'[space'[p][v].pn].owner = 1
    <3>1. p # cur /\ Live(p) /\ v \in ReadOnly(p) /\ space'[p] = space[p]
      BY <2>2, <1>4
    <3>2. space[p][v].pn \in Pages
      BY <3>1, <1>2, ReadOnlyUse, UsesSplit DEF IInv
    <3>3. ExitInfo(space[p][v].pn).owner = pageinfo[space[p][v].pn].owner
      BY <3>1, <1>2, <1>c, ExitOwner
    <3>4. QED
      BY <3>1, <3>2, <3>3, <1>1, <1>3 DEF PInv, FirstStays
  <2>3. QED
    BY <2>1, <2>2 DEF FirstStays
<1>11. ForksFit'
  <2>1. Start.pc = "start"
    BY DEF Start
  <2>2. QED
    BY <1>1, <1>4, <2>1 DEF PInv, ForksFit
<1>12. QED
  BY <1>6, <1>7, <1>8, <1>9, <1>10, <1>11 DEF PInv

-----------------------------------------------------------------------------
(* Forks *)

\* A program forks at these places, ...
AtFork(l) ==
  \/ program = "fork" /\ l.pc \in {"start", "fork2"}
  \/ program = "forkexit" /\ l.pc \in {"start", "loop"}

\* ... and here it waits for the result.
Waiting(l) == [l EXCEPT !.pc = Forks[l.pc]]

\* The place and the heap of who waits.
LEMMA WaitingPlace ==
  ASSUME NEW l \in Locs, AtFork(l), NEW sp, HeapFits(l, sp), NEW sq,
         {"W", "U"} \subseteq sq[STACK].perm, \A v \in UserVA : sq[v].perm = sp[v].perm
  PROVE  /\ Waiting(l) \in Locs /\ HeapFits(Waiting(l), sq)
         /\ Waiting(l).p1 = l.p1
         /\ \/ l.pc = "start" /\ Waiting(l).pc = "forked"
            \/ program = "fork" /\ l.pc = "fork2" /\ Waiting(l).pc = "forked2"
            \/ program = "forkexit" /\ l.pc = "loop" /\ Waiting(l).pc = "forked3"
<1>0. Forks[l.pc] \in Waits /\ Waits \subseteq Places
  BY WaitPlaces DEF AtFork, Places
<1>1. PICK m : m = Waiting(l)
  OBVIOUS
<1>2. /\ m \in Locs /\ m.heap_top = l.heap_top /\ m.p1 = l.p1 /\ m.pc = Forks[l.pc]
      /\ l.heap_top \in HEAP .. STACK
  BY <1>0, <1>1 DEF Waiting, Locs
<1>3. \/ l.pc = "start" /\ m.pc = "forked"
      \/ program = "fork" /\ l.pc = "fork2" /\ m.pc = "forked2"
      \/ program = "forkexit" /\ l.pc = "loop" /\ m.pc = "forked3"
  BY <1>2, WaitPlaces DEF AtFork
<1>4. \A v \in l.heap_top .. STACK - 1 : v \in UserVA
  BY SMTT(20), <1>2, HeapAddresses
<1>5. HeapFits(m, sq)
  BY <1>2, <1>3, <1>4 DEF HeapFits
<1>6. QED
  BY <1>1, <1>2, <1>3, <1>5

\* The child's address space allows what the parent's does, and its read-only
\* pages are the parent's.
LEMMA ForkedSpace ==
  ASSUME IInv, Enter, NEW child \in Procs \ {0}, ~Live(child), ForkCopy(child), NEW v \in UserVA
  PROVE  /\ space'[child][v].perm = space[current][v].perm
         /\ space'[child][v].perm = PTE_RO => space'[child][v] = space[current][v]
<1> DEFINE got == Allocate(pageinfo, Tables \cup Copied(space[current]))
<1>0. PICK val : ForkInto(child, got, val)
  BY ForkFirstFit
<1>1. space' = [space EXCEPT ![child] = ForkSpace(got)]
  BY <1>0 DEF ForkInto
<1> HIDE DEF got
<1>2. space'[child] = ForkSpace(got)
  BY <1>1 DEF IInv, TInv, TypeOK
<1>3. v \in VPages /\ ~(v >= MEMSIZE_VIRTUAL)
  BY SMTT(20), LayoutAssumption, HeapAddresses DEF UserVA
<1>4. space'[child][v] = IF v \in Copied(space[current]) THEN Map(got[v], space[current][v].perm)
                         ELSE space[current][v]
  BY <1>2, <1>3 DEF ForkSpace
<1>5. v \in Copied(space[current]) => space[current][v].perm # PTE_RO
  BY SMTT(20) DEF Copied, Writable, PTE_RO
<1>6. QED
  BY SMTT(20), <1>4, <1>5 DEF Map

\* A fork that finds the process table full answers -1 and changes nothing
\* else.
LEMMA NoSlotStep ==
  ASSUME PInv, EInv', ForkCall, Enter, ForkNoSlot, AtFork(me), HasStack(current)
  PROVE  PInv'
<1>1. /\ mode = "user" /\ current \in Procs /\ p_state[current] = "P_RUNNABLE"
      /\ me \in Locs /\ HeapFits(me, space[current]) /\ TypeOK /\ TInv'
  BY Running, MeFits DEF Enter, PInv, EInv, IInv, TInv
<1>2. UNCHANGED <<pageinfo, p_state, space, program>> /\ run(current)
  BY DEF ForkNoSlot, ForkCall
<1>3. mode' = "user"
  BY <1>1, <1>2, RunSucceeds
<1>4. rax'[current] = -1 /\ Full /\ \A p \in Procs : p # current => rax'[p] = rax[p]
  BY <1>1 DEF ForkNoSlot, TypeOK, Full
<1>5. \A p \in Procs : ~(~Live(p) /\ p_state'[p] # "P_FREE")
  BY <1>2 DEF Live
<1>6. loc' = [loc EXCEPT ![current] = Waiting(me)]
  BY <1>1, <1>3, <1>5 DEF ForkCall, Waiting, PInv, LocTypeOK
<1>7. PICK l \in Locs :
        /\ l = Waiting(me) /\ HeapFits(l, space[current]) /\ l.p1 = me.p1
        /\ \/ me.pc = "start" /\ l.pc = "forked"
           \/ program = "fork" /\ me.pc = "fork2" /\ l.pc = "forked2"
           \/ program = "forkexit" /\ me.pc = "loop" /\ l.pc = "forked3"
  BY <1>1, WaitingPlace DEF HasStack
<1>8. -1 # 0 /\ \A q \in Procs : -1 # q
  BY SMTT(20) DEF Procs
<1>9. program = "forkexit" /\ current = 1 => l.pc = "forked" /\ rax'[1] # 0
  BY <1>1, <1>4, <1>7, <1>8, MeFits
<1>10. program = "fork" => ResultsFit(current, l, -1)
  <2>1. program = "fork" => ResultsFit(current, me, rax[current])
    BY <1>1, MeFits
  <2>2. QED
    BY <2>1, <1>4, <1>7, <1>8 DEF ResultsFit
<1>11. program \in {"fork", "forkexit"}
  BY DEF AtFork
<1>12. QED
  BY <1>1, <1>2, <1>3, <1>4, <1>6, <1>7, <1>9, <1>10, <1>11, MoveStep

\* One that finds no memory for the page table returns from exception(), and
\* the machine stops.
LEMMA NoTablesStep ==
  ASSUME PInv, EInv', ForkCall, Enter, NEW child \in Procs, ForkNoTables(child)
  PROVE  PInv'
<1>1. /\ mode' = "returned" /\ UNCHANGED <<p_state, space, program>>
      /\ pageinfo' = Assign(pageinfo, Allocate(pageinfo, Tables), child)
  BY DEF ForkNoTables, ForkCall
<1>2. loc' = loc
  BY <1>1 DEF ForkCall, PInv, LocTypeOK
<1>3. \A p : (Live(p)' <=> Live(p)) /\ ReadOnly(p)' = ReadOnly(p)
  BY <1>1 DEF Live, ReadOnly
<1>4. \A q \in Procs : Live(q) => \A v \in ReadOnly(q) :
        pageinfo'[space[q][v].pn] = pageinfo[space[q][v].pn]
  BY SMTT(20), <1>1, ReadOnlyKept, ImageSlots DEF PInv, EInv
<1>5. LocTypeOK' /\ ProgramsNeverFault' /\ BootSane' /\ FirstLives'
  BY <1>1, <1>2 DEF PInv, LocTypeOK, ProgramsNeverFault, HasStack, BootSane, FirstLives
<1>6. HeapsFit' /\ ForksFit'
  BY <1>1, <1>2, <1>3 DEF PInv, HeapsFit, ForksFit
<1>7. FirstStays'
  BY <1>1, <1>2, <1>3, <1>4 DEF PInv, FirstStays
<1>8. QED
  BY <1>5, <1>6, <1>7 DEF PInv

\* Fork leaves the owners of read-only pages as they were.
LEMMA ForkOwner ==
  ASSUME IInv, Enter, NEW child \in Procs \ {0}, ~Live(child), ForkCopy(child),
         NEW q \in Procs, Live(q), NEW v \in ReadOnly(q)
  PROVE  pageinfo'[space[q][v].pn].owner = pageinfo[space[q][v].pn].owner
<1>1. PICK pn \in Pages : pn = space[q][v].pn /\ pageinfo[pn].refcount > 0
  BY ReadOnlyUse, UsesSplit, UsedPositive DEF IInv
<1>2. PICK cur \in Procs : cur = current
  BY ForkSlots DEF IInv
<1>3. CASE cur \in Sharers(pn)
  <2>1. pageinfo'[pn] = Info(pageinfo[pn].owner, pageinfo[pn].refcount + 1)
    BY <1>2, <1>3, ForkInfo
  <2>2. QED
    BY SMTT(20), <1>1, <2>1 DEF Info
<1>4. CASE cur \notin Sharers(pn)
  <2>1. pageinfo'[pn] = pageinfo[pn] \/ pageinfo[pn].refcount = 0
    BY <1>2, <1>4, ForkInfo
  <2>2. pageinfo[pn].refcount # 0
    BY SMTT(20), <1>1
  <2>3. QED
    BY <1>1, <2>1, <2>2
<1>5. QED
  BY <1>3, <1>4

\* A fork that makes a child: it and its parent wait for their results.
LEMMA CopyStep ==
  ASSUME PInv, EInv', ForkCall, Enter, AtFork(me), HasStack(current),
         NEW child \in Procs \ {0}, ~Live(child), ForkCopy(child)
  PROVE  PInv'
<1>c. PICK cur \in Procs : cur = current
  BY Running DEF Enter
<1>1. /\ mode = "user" /\ Live(cur) /\ p_state[cur] = "P_RUNNABLE" /\ cur # 0
      /\ me \in Locs /\ HeapFits(me, space[cur]) /\ HasStack(cur)
      /\ IInv /\ TypeOK /\ TInv' /\ child # cur
  BY <1>c, Running, MeFits DEF Enter, PInv, EInv, IInv, TInv
<1>2. /\ p_state' = [p_state EXCEPT ![child] = "P_RUNNABLE"]
      /\ rax' = [rax EXCEPT ![child] = 0, ![cur] = child]
      /\ \A p \in Procs : p # child => space'[p] = space[p]
      /\ run(cur) /\ UNCHANGED program
  BY <1>c, <1>1 DEF ForkCopy, ForkInto, ForkCall, TypeOK
<1>3. /\ p_state'[child] = "P_RUNNABLE" /\ Live(child)'
      /\ \A p \in Procs : p # child => p_state'[p] = p_state[p] /\ (Live(p)' <=> Live(p))
  BY <1>1, <1>2 DEF TypeOK, Live
<1>4. /\ rax'[child] = 0 /\ rax'[cur] = child
      /\ \A p \in Procs : p # cur /\ p # child => rax'[p] = rax[p]
  BY <1>1, <1>2 DEF TypeOK
<1>5. mode' = "user"
  BY <1>1, <1>2, <1>3, RunSucceeds
<1>6. \A p \in Procs : ~Live(p) /\ p_state'[p] # "P_FREE" <=> p = child
  BY <1>3 DEF Live
<1>s. \A v \in UserVA : space'[child][v].perm = space[cur][v].perm
  BY <1>c, <1>1, ForkedSpace
<1>7. PICK l \in Locs :
        /\ l = Waiting(me) /\ HeapFits(l, space'[cur]) /\ HeapFits(l, space'[child])
        /\ l.p1 = me.p1
        /\ \/ me.pc = "start" /\ l.pc = "forked"
           \/ program = "fork" /\ me.pc = "fork2" /\ l.pc = "forked2"
           \/ program = "forkexit" /\ me.pc = "loop" /\ l.pc = "forked3"
  <2>1. {"W", "U"} \subseteq space'[cur][STACK].perm /\ {"W", "U"} \subseteq space'[child][STACK].perm
    BY <1>1, <1>2, <1>s, ImageSlots DEF HasStack
  <2>2. /\ Waiting(me) \in Locs /\ Waiting(me).p1 = me.p1
        /\ HeapFits(Waiting(me), space'[cur])
        /\ \/ me.pc = "start" /\ Waiting(me).pc = "forked"
           \/ program = "fork" /\ me.pc = "fork2" /\ Waiting(me).pc = "forked2"
           \/ program = "forkexit" /\ me.pc = "loop" /\ Waiting(me).pc = "forked3"
    BY <1>1, <1>2, <2>1, WaitingPlace
  <2>3. HeapFits(Waiting(me), space'[child])
    BY <1>1, <1>s, <2>1, WaitingPlace
  <2>4. QED
    BY <2>2, <2>3
<1>8. /\ loc' \in [Procs -> Locs] /\ loc'[cur] = l /\ loc'[child] = l
      /\ \A p \in Procs : p # cur /\ p # child => loc'[p] = loc[p]
  <2>1. loc' = [p \in Procs |->
                 IF mode' = "user" /\ (p = current \/ (~Live(p) /\ p_state'[p] # "P_FREE"))
                 THEN Waiting(me) ELSE loc[p]]
    BY DEF ForkCall, Waiting
  <2>2. QED
    BY <2>1, <1>c, <1>5, <1>6, <1>7 DEF PInv, LocTypeOK
<1>9. child # 1 /\ child # -1 /\ child # 0 /\ 0 # -1 /\ program \in {"fork", "forkexit"}
  <2>1. program \in {"fork", "forkexit"}
    BY DEF AtFork
  <2>2. child # 1
    BY <1>1, <2>1 DEF PInv, FirstLives
  <2>3. QED
    BY SMTT(20), <2>1, <2>2 DEF Procs
<1>10. LocTypeOK' /\ BootSane' /\ ProgramsNeverFault'
  <2>1. LocTypeOK' /\ BootSane'
    BY <1>2, <1>5, <1>8 DEF PInv, LocTypeOK, BootSane
  <2>2. \A p \in Procs : p_state'[p] = "P_BROKEN" => p_state[p] = "P_BROKEN" /\ space'[p] = space[p]
    BY <1>2, <1>3
  <2>3. QED
    BY <2>1, <2>2 DEF PInv, ProgramsNeverFault, HasStack
<1>11. HeapsFit'
  BY <1>1, <1>2, <1>3, <1>7, <1>8 DEF PInv, HeapsFit
<1>12. FirstLives'
  BY <1>1, <1>2, <1>3, <1>5, <1>9, HeapAddresses DEF PInv, FirstLives
<1>13. FirstStays'
  <2> SUFFICES ASSUME program = "forkexit"
               PROVE  /\ loc'[1].pc \in {"start", "forked"}
                      /\ loc'[1].pc = "forked" => rax'[1] # 0
                      /\ \A p \in Procs : Live(p)' => \A v \in ReadOnly(p)' :
                           pageinfo'[space'[p][v].pn].owner = 1
    BY <1>2 DEF FirstStays
  <2>1. loc'[1].pc \in {"start", "forked"} /\ (loc'[1].pc = "forked" => rax'[1] # 0)
    <3>1. CASE cur = 1
      BY <3>1, <1>c, <1>1, <1>4, <1>7, <1>8, <1>9, MeFits
    <3>2. CASE cur # 1
      BY <3>2, <1>1, <1>4, <1>8, <1>9, HeapAddresses DEF PInv, FirstStays
    <3>3. QED
      BY <3>1, <3>2
  <2>2. ASSUME NEW p \in Procs, Live(p)', NEW v \in ReadOnly(p)'
        PROVE  pageinfo'[space'[p][v].pn].owner = 1
    <3>1. PICK q \in Procs : Live(q) /\ v \in ReadOnly(q) /\ space'[p][v] = space[q][v]
      <4>1. v \in UserVA /\ space'[p][v].perm = PTE_RO
        BY <2>2 DEF ReadOnly
      <4>2. CASE p = child
        <5>1. space'[child][v] = space[cur][v]
          BY <1>c, <1>1, <4>1, <4>2, ForkedSpace
        <5>2. QED
          BY <1>1, <4>1, <4>2, <5>1 DEF ReadOnly
      <4>3. CASE p # child
        BY <1>2, <1>3, <2>2, <4>1, <4>3 DEF ReadOnly
      <4>4. QED
        BY <4>2, <4>3
    <3>2. pageinfo'[space[q][v].pn].owner = pageinfo[space[q][v].pn].owner
      BY <1>1, <3>1, ForkOwner
    <3>3. QED
      BY <3>1, <3>2 DEF PInv, FirstStays
  <2>3. QED
    BY <2>1, <2>2
<1>14. ForksFit'
  <2>1. \A p \in Procs :
          /\ loc'[p].pc # "assert"
          /\ loc'[p].pc \in {"fork2", "forked2", "check"} => program = "fork"
          /\ loc'[p].pc = "forked" => program \in {"fork", "forkexit"}
          /\ loc'[p].pc = "forked3" => program = "forkexit"
    BY <1>7, <1>8, <1>9 DEF PInv, ForksFit
  <2>2. ASSUME program = "fork", NEW p \in Procs, Live(p)' PROVE ResultsFit(p, loc[p], rax[p])'
    <3>1. ResultsFit(cur, me, rax[cur])
      BY <2>2, <1>c, <1>1, MeFits
    <3>2. \A q \in Procs : Live(q) => Live(q)'
      BY <1>3
    <3>3. CASE p = cur
      <4>1. l.pc = "forked" => cur = 1
        BY <2>2, <1>7, <3>1 DEF ResultsFit
      <4>2. cur = 1 /\ l.pc = "forked2" => /\ l.p1 \in Procs \ {0} /\ Live(l.p1)
                                           /\ child # l.p1
        BY <2>2, <1>7, <3>1 DEF ResultsFit
      <4>3. cur # 1 /\ l.pc = "forked2" => l.p1 = 0
        BY <2>2, <1>7, <3>1 DEF ResultsFit
      <4>4. l.pc \in {"forked", "forked2"} /\ loc'[p] = l /\ rax'[p] = child
        BY <2>2, <1>4, <1>7, <1>8, <3>3
      <4>5. QED
        BY <3>2, <3>3, <4>1, <4>2, <4>3, <4>4, <1>3, <1>9 DEF ResultsFit
    <3>4. CASE p = child
      <4>1. l.pc \in {"forked", "forked2"} /\ loc'[p] = l /\ rax'[p] = 0
        BY <2>2, <1>4, <1>7, <1>8, <3>4
      <4>2. QED
        BY <3>4, <4>1, <1>9 DEF ResultsFit
    <3>5. CASE p # cur /\ p # child
      <4>1. ResultsFit(p, loc[p], rax[p]) /\ loc'[p] = loc[p] /\ rax'[p] = rax[p]
        BY <2>2, <3>5, <1>1, <1>3, <1>4, <1>8 DEF PInv, ForksFit
      <4>2. QED
        BY <4>1, <3>2 DEF ResultsFit, Full
    <3>6. QED
      BY <3>3, <3>4, <3>5
  <2>3. QED
    BY <1>2, <2>1, <2>2 DEF ForksFit
<1>15. QED
  BY <1>10, <1>11, <1>12, <1>13, <1>14 DEF PInv

\* The three outcomes of a fork.
LEMMA ForkCallStep ==
  ASSUME PInv, EInv', ForkCall
  PROVE  PInv'
<1>1. SysFork /\ AtFork(me) /\ HasStack(current)
  BY DEF ForkCall, At, AtFork, Runs
<1>2. CASE ForkNoSlot
  BY <1>1, <1>2, NoSlotStep DEF SysFork
<1>3. ASSUME NEW child \in Procs \ {0}, ~Live(child), ForkNoTables(child) PROVE PInv'
  BY <1>1, <1>3, NoTablesStep DEF SysFork
<1>4. ASSUME NEW child \in Procs \ {0}, ~Live(child), ForkCopy(child) PROVE PInv'
  BY <1>1, <1>4, CopyStep DEF SysFork
<1>5. QED
  BY <1>1, <1>2, <1>3, <1>4 DEF SysFork

-----------------------------------------------------------------------------
(* Boots, and the steps of the kernel alone *)

\* The state in which kernel(program) starts.
FreshPrograms ==
  /\ EInv /\ Fresh /\ program \in Commands
  /\ loc = [p \in Procs |-> Start] /\ setup = 1 .. Loaded(program)

\* The invariant holds when kernel(program) starts.
LEMMA FreshProgramsPInv == FreshPrograms => PInv
  BY FreshPInv DEF FreshPrograms

\* A boot forgets where the programs were.
LEMMA RebootedStep ==
  ASSUME PInv, EInv', Rebooted
  PROVE  PInv'
<1>1. TInv
  BY DEF PInv, EInv, IInv
<1>2. (Reboot \/ Reset) /\ setup' = 1 .. Loaded(program') /\ program' \in Commands
  BY DEF Rebooted, Reboot, Reset, Boot, Commands
<1>3. Fresh'
  BY <1>1, <1>2, BootFresh
<1>4. FreshPrograms'
  BY <1>2, <1>3 DEF FreshPrograms, Rebooted
<1>5. FreshPrograms' => PInv'
  BY FreshProgramsPInv, PTL
<1>6. QED
  BY <1>4, <1>5

\* The kernel's own steps and the timer move no program, and the timer keeps
\* a result that has not been looked at.
LEMMA KernelOnlyStep ==
  ASSUME PInv, EInv', KernelOnly
  PROVE  PInv'
<1>1. ASSUME NEW p \in Procs, ProcessSetup(p) PROVE PInv'
  BY <1>1, SetupStep DEF KernelOnly
<1>2. CASE RunFirst
  BY <1>2, UnmovedStep DEF KernelOnly, RunFirst, run
<1>3. CASE CheckFails
  BY <1>3, UnmovedStep DEF KernelOnly, CheckFails
<1>4. CASE PowerOff
  BY <1>4, UnmovedStep DEF KernelOnly, PowerOff
<1>5. CASE Off
  BY <1>5, UnmovedStep DEF KernelOnly, Off, vars
<1>6. CASE Timer
  <2>1. rax \in [Procs -> -1 .. NPROC - 1]
    BY DEF PInv, EInv, IInv, TInv, TypeOK
  <2>2. \A p \in Procs : loc[p].pc \in Waits => rax'[p] = rax[p]
    BY <1>6, <2>1 DEF Timer, Switch, SavedRax
  <2>3. QED
    BY <1>6, <2>2, UnmovedStep DEF KernelOnly, Timer, Switch, Enter, schedule, run
<1>7. QED
  BY <1>1, <1>2, <1>3, <1>4, <1>5, <1>6 DEF KernelOnly

\* A process without a stack waits for no result, and is stopped.
LEMMA NoStackStep ==
  ASSUME PInv, EInv', NoStack
  PROVE  PInv'
<1>1. /\ mode = "user" /\ ~HasStack(current) /\ UNCHANGED <<pageinfo, space, setup, program, loc>>
      /\ mode' # "boot"
  BY DEF NoStack, PageFault, schedule, run
<1>2. current \in Procs /\ Live(current) /\ HeapFits(loc[current], space[current]) /\ TypeOK
  BY <1>1, Running DEF PInv, EInv, IInv, TInv
<1>3. loc[current].pc = "start"
  BY <1>1, <1>2 DEF HeapFits, HasStack
<1>4. \A p \in Procs : loc[p].pc \in Waits => rax'[p] = rax[p]
  BY <1>2, <1>3, WaitPlaces DEF NoStack, PageFault, SavedRax, TypeOK
<1>5. \A p \in Procs : \/ p_state'[p] = p_state[p]
                       \/ Live(p) /\ p_state'[p] = "P_BROKEN" /\ ~HasStack(p)
  BY <1>1, <1>2 DEF NoStack, PageFault, TypeOK
<1>6. QED
  BY <1>1, <1>4, <1>5, UnmovedStep

\* The heap has met the stack.
LEMMA HeapFullStep ==
  ASSUME PInv, EInv', HeapFull
  PROVE  PInv'
<1>1. /\ UNCHANGED <<pageinfo, p_state, space, program>> /\ mode = "user" /\ mode' # "boot"
      /\ me.pc = "loop" /\ Goto("done") /\ HasStack(current) /\ UNCHANGED rax
  BY DEF HeapFull, At, Runs, vars
<1>2. QED
  BY <1>1, GotoStep

\* A child of p-forkexit.c asks for its pid.
LEMMA GetPidStep ==
  ASSUME PInv, EInv', GetPid
  PROVE  PInv'
<1>1. /\ UNCHANGED <<pageinfo, p_state, space, program>> /\ mode = "user" /\ mode' # "boot"
      /\ me.pc = "getpid" /\ Goto("loop") /\ HasStack(current)
      /\ \A p \in Procs : p # current => rax'[p] = rax[p]
  BY GetpidQuiet DEF GetPid, At, Runs
<1>2. QED
  BY <1>1, GotoStep

\* The invariant is kept by every step.
LEMMA PInvNext ==
  ASSUME PInv, [ProgramsNext]_progVars
  PROVE  PInv'
<1>1. EInv'
  BY ProgramsSteps, ProgramSteps, ExactEInv DEF PInv
<1>2. CASE AssertFails
  BY <1>1, <1>2, UnmovedStep DEF AssertFails, Panic, SavedRax
<1>3. CASE UNCHANGED progVars
  BY <1>1, <1>3, UnmovedStep DEF progVars, vars
<1>4. QED
  BY <1>1, <1>2, <1>3, KernelOnlyStep, NoStackStep, RebootedStep, PrepareStep, HeapFullStep, AllocStep,
     StoreStep, YieldStep, ForkCallStep, CheckStep, GetPidStep, ExitCallStep
  DEF ProgramsNext

\* The invariant holds when the machine starts.
LEMMA PInvInit == ProgramsInit => PInv
<1> SUFFICES ASSUME ProgramsInit PROVE PInv
  OBVIOUS
<1>1. Fresh /\ EInv
  BY InitFresh, FreshEInv DEF ProgramsInit
<1>2. setup = 1 .. Loaded(program) /\ program \in Commands
  BY DEF ProgramsInit, Init, Loaded, Commands
<1>3. QED
  BY <1>1, <1>2, FreshPInv DEF ProgramsInit

-----------------------------------------------------------------------------
(* Theorems *)

\* The inductive invariant of the programs and the kernel under them.
THEOREM ProgramsInvariant == ProgramsSpec => []PInv
<1>1. PInv /\ [ProgramsNext]_progVars => PInv'
  BY PInvNext
<1>2. QED
  BY <1>1, PInvInit, PTL DEF ProgramsSpec

\* Every call the shipped programs make is an ordinary one: the page asked for
\* is not mapped yet, and who exits owns no page that another process uses.
THEOREM OnlyOrdinaryCalls == ProgramsSpec => []OrdinaryCalls
<1>1. PInv => OrdinaryCalls
  BY PInvOrdinary
<1>2. QED
  BY <1>1, ProgramsInvariant, PTL

\* No store of a shipped program faults: the kernel stops a process for a page
\* fault only if it loaded it without a stack.
THEOREM NeverFault == ProgramsSpec => []ProgramsNeverFault
<1>1. PInv => ProgramsNeverFault
  BY DEF PInv
<1>2. QED
  BY <1>1, ProgramsInvariant, PTL

\* An assertion of p-fork.c fails only when fork finds the process table full,
\* whatever happens before its result is looked at.
THEOREM ForksAsExpected == ProgramsSpec => []AssertsOnlyWhenFull
<1>1. PInv => AssertsOnlyWhenFull
  BY Running, SeenFits DEF AssertsOnlyWhenFull, At, me, Full
<1>2. QED
  BY <1>1, ProgramsInvariant, PTL

\* The programs are users of the kernel: whatever holds of every behaviour of
\* module Kernel holds of theirs.
THEOREM ProgramsRefineKernel == ProgramsSpec => Spec
<1>1. ProgramsInit => Init
  BY DEF ProgramsInit
<1>2. PInv /\ [ProgramsNext]_progVars => [Next]_vars
  BY ProgramsSteps, ProgramSteps
<1>3. QED
  BY <1>1, <1>2, ProgramsInvariant, PTL DEF ProgramsSpec, Spec

\* With them every reference count is exact: no page leaks and none is freed
\* while it is in use, whatever UserCalls the kernel would allow.
THEOREM ProgramsCountExactly == ProgramsSpec => []RefcountExact
<1>1. PInv => RefcountExact
  BY EInvCounts DEF PInv
<1>2. QED
  BY <1>1, ProgramsInvariant, PTL

\* check_virtual_memory() never panics under them.
THEOREM ProgramsPassCheck == ProgramsSpec => []SelfCheckHolds
<1>1. PInv => SelfCheckHolds
  BY EInvChecks DEF PInv
<1>2. QED
  BY <1>1, ProgramsInvariant, PTL

\* They share no memory but read-only pages.
THEOREM ProgramsIsolated == ProgramsSpec => []PagesIsolated
<1>1. PInv => PagesIsolated
  BY DEF PInv, EInv, IInv
<1>2. QED
  BY <1>1, ProgramsInvariant, PTL

\* No step of one process changes the memory of another, and no step changes
\* the code they share.
THEOREM ProgramsKeepMemory == ProgramsSpec => NonInterference /\ TextStable
<1>1. PInv /\ [ProgramsNext]_progVars => OthersKept /\ TextKept
  BY ProgramsSteps, ProgramSteps, KeepsOthers, KeepsText DEF PInv, EInv
<1>2. (NonInterference <=> [][OthersKept]_vars) /\ (TextStable <=> [][TextKept]_vars)
  BY DEF NonInterference, OthersKept, TextStable, TextKept
<1>3. QED
  BY <1>1, <1>2, ProgramsInvariant, PTL DEF ProgramsSpec

\* Every child of a fork of theirs has its parent's mappings and contents, but
\* for the pages that fork found no memory for and mapped to page 0.
THEOREM ProgramsForksCopy == ProgramsSpec => ForkIsCopy
<1>1. PInv /\ [ProgramsNext]_progVars => ChildIsCopy
  BY ProgramsSteps, ProgramSteps, CopiesChild DEF PInv, EInv
<1>2. ForkIsCopy <=> [][ChildIsCopy]_vars
  BY DEF ForkIsCopy, ChildIsCopy
<1>3. QED
  BY <1>1, <1>2, ProgramsInvariant, PTL DEF ProgramsSpec
=============================================================================
