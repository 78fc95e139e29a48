------------------------------- MODULE Kernel -------------------------------
(***************************************************************************)
(* The WeensyOS kernel (kernel.c): boot, exception dispatch, the system    *)
(* calls, scheduling, the kernel's own consistency check, and soft reboot. *)
(*                                                                         *)
(* The machine has one CPU and interrupts are off while the kernel runs,   *)
(* so one exception, from entry to run(), is one step.  What interleaves   *)
(* is the user programs: the CPU may take a timer interrupt, a fault or a  *)
(* system call at any point of the current program.                        *)
(*                                                                         *)
(* An address space is a function from virtual page numbers to mappings,   *)
(* the value virtual_memory_lookup() returns for the page; its page-       *)
(* table pages are negative integers, smaller than every virtual page,     *)
(* because duplicate_pagetable() allocates them first.                     *)
(***************************************************************************)
EXTENDS PageInfo

CONSTANTS
  NPROC,            \* size of the process table (16); processes[0] is unused
  NBOOT,            \* processes the default boot command loads (4)
  PROC_START,       \* first virtual page of user memory (0x100)
  MEMSIZE_VIRTUAL,  \* first virtual page above the stack (0x300)
  VA_LIMIT,         \* first virtual page the two L4 tables do not reach (0x400)
  NTABLES,          \* pages of a process's page table (5: L1, L2, L3, L4_1, L4_2)
  CONSOLE,          \* the console's page (0xB8)
  KernelText,       \* kernel pages below start_data
  KernelTables,     \* the pages of kernel_pagetables[]
  BootTables,       \* free pages a boot builds a temporary page table in (8, 9, 10)
  TextPages,        \* virtual pages of a program image's read-only segment
  DataPages,        \* virtual pages of its writable segment
  Vals,             \* abstract page contents; 0 is what the kernel fills in
  UserCalls         \* the kinds of unusual call user programs make

Procs  == 0 .. NPROC - 1
VPages == 0 .. VA_LIMIT - 1
UserVA == PROC_START .. MEMSIZE_VIRTUAL - 1
STACK  == MEMSIZE_VIRTUAL - 1
Tables == -NTABLES .. -1

\* The calls that can make the kernel write over page tables or over itself:
\* syscall_mapping() across a page boundary; sys_page_alloc() of a kernel page,
\* named by an address with bits that pageindex() drops; and sys_page_alloc()
\* over read-only memory, which in the end wraps a reference count around.
Damaging == {"map_straddle", "alloc_kernel", "alloc_text"}

\* "late_result": a program is interrupted before it looks at a call's result
CallKinds == Damaging \cup {"alloc_data", "alloc_low", "alloc_high", "alloc_beyond",
                            "alloc_unaligned", "exit_owner", "late_result"}

ASSUME LayoutAssumption ==
  /\ NPROC \in Nat /\ 2 < NPROC /\ NBOOT \in 1 .. NPROC - 1 /\ NPROC <= REF_HALF
  /\ PROC_START \in Nat /\ MEMSIZE_VIRTUAL \in Nat /\ VA_LIMIT \in Nat
  /\ PROC_START < MEMSIZE_VIRTUAL /\ MEMSIZE_VIRTUAL <= VA_LIMIT
  /\ PROC_START <= NPAGES
  /\ NTABLES \in Nat \ {0}
  /\ CONSOLE \in ReservedPages /\ CONSOLE # 0 /\ CONSOLE < PROC_START
  /\ KernelText \subseteq KernelPages /\ KernelTables \subseteq KernelPages
  /\ \A pn \in KernelPages : pn < PROC_START
  /\ BootTables \subseteq Pages \ (KernelPages \cup ReservedPages)
  /\ TextPages \subseteq UserVA \ {STACK} /\ DataPages \subseteq UserVA \ {STACK}
  /\ \A t \in TextPages, d \in DataPages : t < d
  /\ 0 \in Vals
  /\ UserCalls \subseteq CallKinds

VARIABLES
  pageinfo,   \* owner and reference count of every physical page
  p_state,    \* processes[].p_state
  p_tables,   \* processes[].p_pagetable: the five pages of its page table
  space,      \* what that page table maps
  rax,        \* processes[].p_registers.reg_rax: the result of a system call,
              \* or 0 for what a program that made none left there
  current,    \* pid of `current`; 0 before the first run()
  mode,       \* what the CPU is doing
  setup,      \* pids kernel() has still to set up
  mem         \* contents of the physical pages

vars == <<pageinfo, p_state, p_tables, space, rax, current, mode, setup, mem>>

\* "user": `current` runs; "idle": schedule() finds nobody; "panic": fail();
\* "returned": exception() has returned to k-exception.S
Modes == {"boot", "user", "idle", "panic", "returned", "off"}

-----------------------------------------------------------------------------
(* Address spaces *)

PTE_RW == {"P", "W", "U"}
PTE_RO == {"P", "U"}

Map(pn, perm) == [pn |-> pn, perm |-> perm]
Unmapped      == Map(-1, {})
Mappings      == [pn : Pages \cup {-1}, perm : SUBSET PTE_RW]

\* kernel_pagetable below PROC_START: identity, the console open to users
KernelHalf(v) == Map(v, IF v = CONSOLE THEN PTE_RW ELSE {"P", "W"})

Lookup(sp, v) == IF v \in VPages THEN sp[v] ELSE Unmapped

Writable(sp, v) == "W" \in sp[v].perm

NoTables == [t \in Tables |-> NULL]
NoSpace  == [v \in VPages |-> Unmapped]

\* Mutant: the console test is inverted, so fork shares the writable pages.
Copied_Inverted(sp) == {v \in UserVA : Writable(sp, v) /\ sp[v].pn = CONSOLE}

\* the user pages of sp that fork copies; it shares the others
Copied(sp) == {v \in UserVA : Writable(sp, v) /\ sp[v].pn # CONSOLE}

\* Mutant: fork does not count the child's reference to a shared page.
SharedAt_Uncounted(sp, pn) == {v \in UserVA \ Copied(sp) : sp[v].pn = pn /\ pn = 0}

\* the user pages of sp that are mapped to pn and not copied by fork
SharedAt(sp, pn) == {v \in UserVA \ Copied(sp) : sp[v].pn = pn}

Live(p) == p_state[p] # "P_FREE"

PageInfos == [Pages -> [owner : -2 .. NPROC - 1,
                        refcount : -REF_HALF .. REF_HALF - 1]]

\* The variables hold values of the C types; reference counts stay in int8_t.
TypeOK ==
  /\ pageinfo \in PageInfos
  /\ p_state \in [Procs -> {"P_FREE", "P_RUNNABLE", "P_BROKEN"}]
  /\ p_tables \in [Procs -> [Tables -> Pages]]
  /\ space \in [Procs -> [VPages -> Mappings]]
  /\ rax \in [Procs -> -1 .. NPROC - 1]
  /\ current \in Procs
  /\ mode \in Modes
  /\ setup \subseteq Procs \ {0}
  /\ mem \in [Pages -> Vals]

\* What is known of the machine once a page table or the kernel itself has been
\* overwritten.
Anything == TypeOK'

-----------------------------------------------------------------------------
(* run() and schedule() *)

\* set_pagetable() asserts that the kernel is mapped where it runs.
KernelMapped(sp) == \A v \in KernelPages : sp[v].pn = v

run(p) ==
  /\ current' = p
  /\ mode' = IF p_state'[p] = "P_RUNNABLE" /\ KernelMapped(space'[p])
             THEN "user" ELSE "panic"

\* Mutant: the scan starts at the first slot instead of after `current`.
Hops_FromFirst(q) == q

\* Mutant: the scan goes down instead of up.
Hops_Down(q) == (current - q - 1) % NPROC

\* how many steps schedule() takes from `current` to q
Hops(q) == (q - current - 1) % NPROC

schedule ==
  \/ \E q \in Procs :
       /\ p_state'[q] = "P_RUNNABLE"
       /\ \A r \in Procs : p_state'[r] = "P_RUNNABLE" => Hops(q) <= Hops(r)
       /\ run(q)
  \/ /\ \A q \in Procs : p_state'[q] # "P_RUNNABLE"
     /\ mode' = "idle"
     /\ UNCHANGED current

-----------------------------------------------------------------------------
(* Boot: kernel() and process_setup() *)

\* The number of processes kernel() loads for the argument of a soft reboot.
Loaded(command) ==
  CASE command \in {"fork", "forkexit", "test"} -> 1
    [] command = "test2" -> 2
    [] OTHER -> NBOOT

\* "allocator" is no command of kernel()'s, so it selects the default.
Commands == {"allocator", "fork", "forkexit", "test", "test2"}

Init ==
  /\ pageinfo = pageinfo_init
  /\ p_state = [p \in Procs |-> "P_FREE"]
  /\ p_tables = [p \in Procs |-> NoTables]
  /\ space = [p \in Procs |-> NoSpace]
  /\ rax = [p \in Procs |-> 0]
  /\ current = 0
  /\ mode = "boot"
  /\ setup = 1 .. NBOOT
  /\ mem = [pn \in Pages |-> 0]

\* The temporary page table, entry_from_boot, and kernel(command) up to the
\* first process_setup().  The contents of the other user pages survive, and
\* so does `current`, which nothing reads before RunFirst.
Boot(command) ==
  /\ pageinfo' = pageinfo_init
  /\ p_state' = [p \in Procs |-> "P_FREE"]
  /\ p_tables' = [p \in Procs |-> NoTables]
  /\ space' = [p \in Procs |-> NoSpace]
  /\ rax' = [p \in Procs |-> 0]
  /\ mode' = "boot"
  /\ setup' = 1 .. Loaded(command)
  /\ mem' = [pn \in Pages |-> IF pn \in BootTables THEN 0 ELSE mem[pn]]
  /\ UNCHANGED current

\* What a loaded process's page table maps when process_setup() is done.
LoadedSpace(got) ==
  [v \in VPages |->
     IF v < PROC_START THEN KernelHalf(v)
     ELSE IF v \in TextPages THEN Map(got[v], PTE_RO)
     ELSE IF v \in DataPages \/ (v = STACK /\ got[v] # NULL) THEN Map(got[v], PTE_RW)
     ELSE Unmapped]

\* process_setup(p): five page tables, the segments of the image, a stack
\* page.  Loading asserts that it found memory; the stack is not checked.
ProcessSetup(p) ==
  LET image  == Tables \cup TextPages \cup DataPages
      got    == Allocate(pageinfo, image \cup {STACK})
      filled == {got[t] : t \in Tables} \cup ({got[s] : s \in image} \ {NULL})
  IN  /\ mode = "boot"
      /\ p \in setup /\ \A q \in setup : p <= q
      /\ pageinfo' = Assign(pageinfo, got, p)
      /\ mem' = [pn \in Pages |-> IF pn \in filled THEN 0 ELSE mem[pn]]
      /\ IF \E s \in image : got[s] = NULL
         THEN /\ mode' = "panic"
              /\ UNCHANGED <<p_state, p_tables, space, setup>>
         ELSE /\ p_state' = [p_state EXCEPT ![p] = "P_RUNNABLE"]
              /\ p_tables' = [p_tables EXCEPT ![p] = [t \in Tables |-> got[t]]]
              /\ space' = [space EXCEPT ![p] = LoadedSpace(got)]
              /\ setup' = setup \ {p}
              /\ UNCHANGED mode
      /\ UNCHANGED <<rax, current>>

RunFirst ==
  /\ mode = "boot" /\ setup = {}
  /\ UNCHANGED <<pageinfo, p_state, p_tables, space, rax, setup, mem>>
  /\ run(1)

-----------------------------------------------------------------------------
(* Entry to the kernel *)

\* check_virtual_memory(): the assertions the kernel makes on every exception.
CheckMappings(p) ==
  \A v \in KernelPages : /\ space[p][v].pn = v
                         /\ v \notin KernelText => Writable(space[p], v)

CheckOwnership(p) == \A t \in Tables : pageinfo[p_tables[p][t]] = Info(p, 1)

check_virtual_memory ==
  /\ ~Live(0)
  /\ \A pn \in KernelTables : pageinfo[pn] = Info(PO_KERNEL, 1)
  /\ \A p \in Procs : Live(p) => CheckMappings(p) /\ CheckOwnership(p)
  /\ \A pn \in Pages :
       pageinfo[pn].refcount > 0 /\ pageinfo[pn].owner >= 0
         => Live(pageinfo[pn].owner)

\* exception() reaches its switch statement
Enter == mode = "user" /\ check_virtual_memory

\* the registers exception() saved, for a handler that returns no result and
\* a program that has used the last one
SavedRax == rax' = [rax EXCEPT ![current] = 0]

\* an exception whose check_virtual_memory() fails
CheckFails ==
  /\ mode = "user" /\ ~check_virtual_memory
  /\ mode' = "panic"
  /\ SavedRax
  /\ UNCHANGED <<pageinfo, p_state, p_tables, space, current, setup, mem>>

\* INT_SYS_PANIC, a general protection fault, an unassigned system call
Panic ==
  /\ Enter
  /\ mode' = "panic"
  /\ SavedRax
  /\ UNCHANGED <<pageinfo, p_state, p_tables, space, current, setup, mem>>

-----------------------------------------------------------------------------
(* Scheduling exceptions *)

SysGetpid ==
  /\ Enter
  /\ rax' = [rax EXCEPT ![current] = current]
  /\ UNCHANGED <<pageinfo, p_state, p_tables, space, setup, mem>>
  /\ run(current)

\* INT_SYS_YIELD and INT_TIMER.  A program that has not looked at the result of
\* its last call finds it when it runs again.
Switch ==
  /\ Enter
  /\ SavedRax \/ ("late_result" \in UserCalls /\ UNCHANGED rax)
  /\ UNCHANGED <<pageinfo, p_state, p_tables, space, setup, mem>>
  /\ schedule

\* INT_PAGEFAULT in user mode
PageFault ==
  /\ Enter
  /\ p_state' = [p_state EXCEPT ![current] = "P_BROKEN"]
  /\ SavedRax
  /\ UNCHANGED <<pageinfo, p_tables, space, setup, mem>>
  /\ schedule

-----------------------------------------------------------------------------
(* Memory system calls *)

\* An address argument of sys_page_alloc(): the page that pageindex() makes of
\* it, and whether one of the bits above bit 47 is set, which pageindex() drops
\* and the comparison with PROC_START does not.  VA_LIMIT stands for every page
\* the two L4 tables do not reach.
Addresses == [vpn : 0 .. VA_LIMIT, aligned : BOOLEAN, over : BOOLEAN]

Below(a) == a.vpn < PROC_START /\ ~a.over

\* What an address is to the caller; "fresh" is the use of shipped programs.
AddrKind(sp, a) ==
  IF Below(a) THEN "alloc_low"
  ELSE IF ~a.aligned THEN "alloc_unaligned"
  ELSE IF a.vpn < PROC_START THEN "alloc_kernel"
  ELSE IF a.vpn = VA_LIMIT THEN "alloc_beyond"
  ELSE IF a.vpn >= MEMSIZE_VIRTUAL THEN "alloc_high"
  ELSE IF sp[a.vpn].perm = {} THEN "fresh"
  ELSE IF Writable(sp, a.vpn) THEN "alloc_data"
  ELSE "alloc_text"

\* sys_page_alloc_find_free(): the page is assigned before the address is
\* looked at, virtual_memory_map() asserts alignment, and its failure for an
\* address without a page table is ignored.
AllocAt(a) ==
  LET got == Allocate(pageinfo, {a.vpn})
      pn  == got[a.vpn]
      r   == IF pn = NULL \/ Below(a) THEN -1 ELSE 0
  IN  /\ pageinfo' = Assign(pageinfo, got, current)
      /\ space' = IF r = 0 /\ a.aligned /\ a.vpn < VA_LIMIT
                  THEN [space EXCEPT ![current][a.vpn] = Map(pn, PTE_RW)]
                  ELSE space
      /\ UNCHANGED <<p_state, p_tables, setup, mem>>
      /\ IF r = 0 /\ ~a.aligned
         THEN mode' = "panic" /\ SavedRax /\ UNCHANGED current
         ELSE rax' = [rax EXCEPT ![current] = r] /\ run(current)

\* A process that maps its own page over one of the kernel's has replaced what
\* the entry to the kernel and the way out of it run on.
PageAlloc(a) ==
  LET kind == AddrKind(space[current], a)
  IN  /\ kind \in UserCalls \cup {"fresh"}
      /\ IF kind = "alloc_kernel" /\ a.vpn \in KernelPages /\ FreePages(pageinfo) # {}
         THEN Anything
         ELSE AllocAt(a)

SysPageAlloc == Enter /\ \E a \in Addresses : PageAlloc(a)

\* Mutant: the destination is not checked for write access.
StoreMapping_Unchecked(v, straddles, x) ==
  /\ straddles => "map_straddle" \in UserCalls
  /\ "U" \in space[current][v].perm
  /\ mem' = [mem EXCEPT ![space[current][v].pn] = x]
  /\ SavedRax
  /\ UNCHANGED <<pageinfo, p_state, p_tables, space, setup>>
  /\ run(current)

\* syscall_mapping() stores a vamapping through the physical address of v.
\* The write check for the end of the structure looks the end's PHYSICAL
\* address up as if it were virtual; `straddles` says that the structure
\* crosses into the next page.  The rest of it goes to the next physical page,
\* be that memory, the kernel, or a page table, of which it then writes the
\* first entries.  A store past the end of memory faults.
StoreMapping(v, straddles, x) ==
  LET pn  == space[current][v].pn
      end == IF straddles THEN pn + 1 ELSE pn
      ok  == /\ {"W", "U"} \subseteq space[current][v].perm
             /\ {"W", "P"} \subseteq Lookup(space[current], end).perm
      tables == {p_tables[p][t] : p \in {q \in Procs : Live(q)}, t \in Tables}
  IN  /\ straddles => "map_straddle" \in UserCalls
      /\ IF straddles /\ ok /\ end \in KernelPages \cup tables THEN Anything
         ELSE /\ mem' = IF ok THEN [q \in Pages |-> IF q \in {pn, end} THEN x ELSE mem[q]]
                        ELSE mem
              /\ SavedRax
              /\ UNCHANGED <<pageinfo, p_state, p_tables, space, setup>>
              /\ IF ok /\ end = NPAGES THEN mode' = "panic" /\ UNCHANGED current
                 ELSE run(current)

SysMapping ==
  /\ Enter
  /\ \E v \in VPages, straddles \in BOOLEAN, x \in Vals :
       StoreMapping(v, straddles, x)

\* A store of the running program, no exception
UserWrite(v, x) ==
  /\ mode = "user"
  /\ {"W", "U"} \subseteq space[current][v].perm
  /\ mem' = [mem EXCEPT ![space[current][v].pn] = x]
  /\ UNCHANGED <<pageinfo, p_state, p_tables, space, rax, current, mode, setup>>

-----------------------------------------------------------------------------
(* INT_SYS_FORK *)

ForkNoSlot ==
  /\ \A p \in Procs \ {0} : Live(p)
  /\ rax' = [rax EXCEPT ![current] = -1]
  /\ UNCHANGED <<pageinfo, p_state, p_tables, space, setup, mem>>
  /\ run(current)

\* duplicate_pagetable() clears all five tables, NULL ones included, before
\* it looks for failure, and exception() returns.
ForkNoTables(child) ==
  LET got == Allocate(pageinfo, Tables)
  IN  /\ \E t \in Tables : got[t] = NULL
      /\ pageinfo' = Assign(pageinfo, got, child)
      /\ mem' = [pn \in Pages |-> IF \E t \in Tables : got[t] = pn THEN 0 ELSE mem[pn]]
      /\ rax' = [rax EXCEPT ![current] = -1]
      /\ mode' = "returned"
      /\ UNCHANGED <<p_state, p_tables, space, current, setup>>

\* The count of page pn when fork, having made the allocations `got`, gets to
\* slot s: it goes up by one for every page shared before s, and starts again
\* at 1 when the page is handed out.
CountAt(got, sp, s, pn) ==
  LET taken == {w \in DOMAIN got : w < s /\ got[w] = pn /\ pn # NULL}
      since == {v \in SharedAt(sp, pn) : v < s /\ \A w \in taken : w < v}
  IN  Int8((IF taken = {} THEN pageinfo[pn].refcount ELSE 1) + Cardinality(since))

\* every slot gets the first page that is free when its turn comes
InTurn(got, sp) ==
  \A s \in DOMAIN got :
    LET free == {pn \in 1 .. NPAGES - 1 : CountAt(got, sp, s, pn) = 0}
    IN  IF free = {} THEN got[s] = NULL
        ELSE got[s] \in free /\ \A pn \in free : got[s] <= pn

\* the count of a shared page is 0 before, during or after the fork
Wraps(sp) ==
  \E v \in UserVA \ Copied(sp) :
    /\ sp[v].pn # -1
    /\ \E k \in 0 .. Cardinality(SharedAt(sp, sp[v].pn)) :
         Int8(pageinfo[sp[v].pn].refcount + k) = 0

\* The pages a fork allocates.  Unless a count goes through 0 on the way, those
\* that are free when it starts are those that are free throughout.
ForkPages(sp) ==
  LET slots == Tables \cup Copied(sp)
  IN  IF Wraps(sp) THEN {got \in [slots -> Pages] : InTurn(got, sp)}
      ELSE {Allocate(pageinfo, slots)}

ForkSpace(got) ==
  [v \in VPages |->
     IF v >= MEMSIZE_VIRTUAL THEN Unmapped
     ELSE IF v \in Copied(space[current]) THEN Map(got[v], space[current][v].perm)
     ELSE space[current][v]]

\* What page pn holds when fork gets to slot s, if it copied the contents val[w]
\* for each slot w.  A copy that found no memory is written to page 0.
HeldAt(got, val, s, pn) ==
  LET copies == {w \in DOMAIN val : w < s /\ got[w] = pn}
  IN  IF copies # {} THEN val[CHOOSE w \in copies : \A u \in copies : u <= w]
      ELSE IF \E t \in Tables : got[t] = pn THEN 0
      ELSE mem[pn]

\* Mutant: the pages are mapped but their contents are not copied.
ForkMem_NoCopy(got, val) ==
  [pn \in Pages |-> IF \E t \in Tables : got[t] = pn THEN 0 ELSE mem[pn]]

ForkMem(got, val) == [pn \in Pages |-> HeldAt(got, val, MEMSIZE_VIRTUAL, pn)]

\* For a page that is not mapped the code increments pageinfo[-1].refcount;
\* in the build that byte is padding between `ticks` and pageinfo[], so the
\* increment changes no state.
ForkInto(child, got, val) ==
  LET sp == space[current]
  IN  /\ \A t \in Tables : got[t] # NULL
      /\ \A v \in Copied(sp) : val[v] = HeldAt(got, val, v, sp[v].pn)
      /\ pageinfo' = [pn \in Pages |->
                        [Assign(pageinfo, got, child)[pn] EXCEPT !.refcount =
                           CountAt(got, sp, MEMSIZE_VIRTUAL, pn)]]
      /\ p_state' = [p_state EXCEPT ![child] = "P_RUNNABLE"]
      /\ p_tables' = [p_tables EXCEPT ![child] = [t \in Tables |-> got[t]]]
      /\ space' = [space EXCEPT ![child] = ForkSpace(got)]
      /\ mem' = ForkMem(got, val)
      /\ rax' = [rax EXCEPT ![child] = 0, ![current] = child]
      /\ UNCHANGED setup
      /\ run(current)

ForkCopy(child) ==
  \E got \in ForkPages(space[current]), val \in [Copied(space[current]) -> Vals] :
    ForkInto(child, got, val)

SysFork ==
  /\ Enter
  /\ \/ ForkNoSlot
     \/ \E child \in Procs \ {0} :
          /\ ~Live(child) /\ \A q \in 1 .. child - 1 : Live(q)
          /\ ForkNoTables(child) \/ ForkCopy(child)

-----------------------------------------------------------------------------
(* INT_SYS_EXIT *)

\* Another process still uses a page that p owns.
OwnsShared(p) ==
  \E q \in Procs \ {p}, v \in UserVA :
    Live(q) /\ space[q][v].pn # -1 /\ pageinfo[space[q][v].pn].owner = p

\* Mutant: the pages of the page table itself are not freed.
ExitInfo_KeepsTables(pn) ==
  LET sp == space[current]
  IN  IF pn # 0 /\ pageinfo[pn].owner = current
         /\ \E v \in UserVA : sp[v].pn = pn /\ Writable(sp, v)
      THEN Info(PO_FREE, 0) ELSE pageinfo[pn]

\* Mutant: every page the process owns is freed, shared ones included.
ExitInfo_FreesShared(pn) ==
  IF \/ pageinfo[pn].owner = current
     \/ \E t \in Tables : p_tables[current][t] = pn
  THEN Info(PO_FREE, 0) ELSE pageinfo[pn]

\* a reference count r after n references are dropped; at 0 it stays
Dropped(r, n) == IF r % (2 * REF_HALF) <= n THEN 0 ELSE Int8(r - n)

\* A read-only page loses one reference for each of the caller's mappings of
\* it and keeps its owner; a writable page is freed if the caller owns it.
ExitInfo(pn) ==
  LET sp   == space[current]
      info == pageinfo[pn]
      ro   == {v \in UserVA : sp[v].pn = pn /\ ~Writable(sp, v)}
      rw   == {v \in UserVA : sp[v].pn = pn /\ Writable(sp, v)}
      left(S) == Dropped(info.refcount, Cardinality(S))
  IN  IF \E t \in Tables : p_tables[current][t] = pn THEN Info(PO_FREE, 0)
      ELSE IF pn = 0 THEN info
      ELSE IF info.owner = current /\ \E v \in rw : left({w \in ro : w < v}) # 0
           THEN Info(PO_FREE, 0)
      ELSE [info EXCEPT !.refcount = left(ro)]

\* The freed page table is dead from here on, so its contents are dropped.
SysExit ==
  /\ Enter
  /\ OwnsShared(current) => "exit_owner" \in UserCalls
  /\ pageinfo' = [pn \in Pages |-> ExitInfo(pn)]
  /\ p_state' = [p_state EXCEPT ![current] = "P_FREE"]
  /\ p_tables' = [p_tables EXCEPT ![current] = NoTables]
  /\ space' = [space EXCEPT ![current] = NoSpace]
  /\ SavedRax
  /\ UNCHANGED <<setup, mem>>
  /\ schedule

-----------------------------------------------------------------------------
(* The keyboard, and what follows a return from exception() *)

\* check_keyboard() runs on every exception and in the loops of schedule()
\* and fail().
Polls == Enter \/ mode \in {"idle", "panic"}

Reboot == Polls /\ \E command \in Commands : Boot(command)

PowerOff ==
  /\ Polls
  /\ mode' = "off"
  /\ SavedRax
  /\ UNCHANGED <<pageinfo, p_state, p_tables, space, current, setup, mem>>

\* exception_return restores the registers from address 0, all zero; the
\* iretq faults, the fault's handler runs off the bottom of the stack, and
\* the machine resets and boots from disk.
Reset == mode = "returned" /\ Boot("allocator")

\* The machine stays off.
Off == mode = "off" /\ UNCHANGED vars

Next ==
  \/ \E p \in Procs : ProcessSetup(p)
  \/ RunFirst
  \/ CheckFails \/ Panic
  \/ SysGetpid \/ Switch \/ PageFault
  \/ SysPageAlloc
  \/ SysMapping
  \/ \E v \in UserVA, x \in Vals : UserWrite(v, x)
  \/ SysFork
  \/ SysExit
  \/ Reboot
  \/ PowerOff
  \/ Reset
  \/ Off

Spec == Init /\ [][Next]_vars

\* The kernel's own code goes on by itself.  The timer is periodic, interrupts
\* are on in every program (process_init() sets EFLAGS_IF) and the controller
\* acknowledges them itself, so a program cannot keep the CPU.
Fairness ==
  /\ WF_vars(\E p \in Procs : ProcessSetup(p))
  /\ WF_vars(RunFirst)
  /\ WF_vars(Switch)

FairSpec == Spec /\ Fairness

-----------------------------------------------------------------------------
(* Properties *)

\* The physical pages process p uses, by purpose: a table of its page table or
\* a page of its user memory.
Uses(p) == Tables \cup {v \in VPages : v >= PROC_START /\ space[p][v].perm # {}}

Frame(p, s) == IF s \in Tables THEN p_tables[p][s] ELSE space[p][s].pn

\* the uses through which p, or the kernel on p's behalf, may change a page
Private(p) == {s \in Uses(p) : s \in Tables \/ Writable(space[p], s)}

\* Isolation (fork, exit and sys_page_alloc together): a page that is a page
\* table or that a process can write has no other use, in any process.  Page 0
\* is excepted: fork sends the copies it found no memory for there.
PagesIsolated ==
  \A p, q \in Procs : Live(p) /\ Live(q) =>
    \A s \in Private(p), t \in Uses(q) :
      Frame(p, s) = Frame(q, t) /\ Frame(p, s) # NULL => p = q /\ s = t

\* A page in use is never one that alloc_page_process() would hand out again
\* (kernel.c, PAGEINFO: "0 means it's free"): fork and exit keep the reference
\* count of a shared page from 0 until its last user is gone.
UsedNotFree ==
  \A p \in Procs : Live(p) =>
    \A s \in Uses(p) : pageinfo[Frame(p, s)].refcount # 0

\* The kernel's half of every address space is the kernel's identity map, with
\* only the console open to programs, and no user page is mapped to the
\* kernel's or to reserved memory, whatever was allocated, freed and forked.
KernelProtected ==
  \A p \in Procs : Live(p) =>
    /\ \A v \in 0 .. PROC_START - 1 : space[p][v] = KernelHalf(v)
    /\ \A s \in Uses(p) : Frame(p, s) \notin (KernelPages \cup ReservedPages) \ {NULL}

\* kernel.c, PAGEINFO: "refcount is the number of times physical page pn is
\* currently referenced.  0 means it's free."
References(pn) ==
  {u \in Procs \X (Tables \cup VPages) :
     Live(u[1]) /\ u[2] \in Uses(u[1]) /\ Frame(u[1], u[2]) = pn}

RefcountExact ==
  mode \in {"user", "idle"} =>
    \A pn \in Pages \ (KernelPages \cup ReservedPages) :
      pageinfo[pn].refcount = Cardinality(References(pn))

\* No exception makes check_virtual_memory() panic.
SelfCheckHolds == mode = "user" => check_virtual_memory

\* A step of one process (its stores, its system calls, its exit) leaves the
\* memory of every other live process as it was: same pages, same contents.
NonInterference ==
  [][mode' # "boot" =>
       \A p \in Procs \ {current} : Live(p) /\ p_state'[p] # "P_FREE" =>
         \A v \in UserVA :
           /\ space'[p][v] = space[p][v]
           /\ space[p][v].pn \notin {-1, NULL}
                => mem'[space[p][v].pn] = mem[space[p][v].pn]]_vars

\* A program's read-only pages, which fork shares between processes, never
\* change while a process maps them, not even by a step of that process.
TextStable ==
  [][mode' # "boot" =>
       \A p \in Procs : Live(p) /\ p_state'[p] # "P_FREE" =>
         \A v \in UserVA : space[p][v].perm = PTE_RO =>
           /\ space'[p][v] = space[p][v]
           /\ mem'[space[p][v].pn] = mem[space[p][v].pn]]_vars

\* A successful fork returns the child's pid to the parent and 0 to the child,
\* and the child's user memory has the parent's permissions and contents, except
\* for the copies that found no memory and went to page 0 (ForkFailureReported).
ForkIsCopy ==
  [][mode = "user" =>
       \A c \in Procs : ~Live(c) /\ p_state'[c] # "P_FREE" =>
         /\ rax'[current] = c /\ rax'[c] = 0
         /\ \A v \in UserVA :
              /\ space'[c][v].perm = space[current][v].perm
              /\ space'[c][v].pn \notin {-1, NULL}
                   => mem'[space'[c][v].pn] = mem[space[current][v].pn]]_vars

\* schedule() starves nobody: a process that is runnable, loaded at boot or
\* forked later, comes to run, unless it leaves the table or the machine stops
\* first.  In particular schedule() never idles while one is runnable.
RunnableRuns ==
  \A p \in Procs :
    p_state[p] = "P_RUNNABLE"
      ~> \/ mode = "user" /\ current = p
         \/ p_state[p] # "P_RUNNABLE"
         \/ mode \in {"panic", "returned", "off"}

\* The kernel implements the process table's specification: slots are taken in
\* order, given up only by their process, a faulting process never runs again,
\* and exception() leaves to the next runnable process in the order of pids,
\* without failing the assertions of run() and set_pagetable().
Processes == INSTANCE ProcessTable WITH
  NPROC <- NPROC, p_state <- p_state, current <- current, mode <- mode

ImplementsProcessTable == Processes!FairSpec

-----------------------------------------------------------------------------
(* The inductive invariant behind the isolation properties *)

\* process 0 is never used, and a process that runs is runnable
ProcessesSane ==
  /\ ~Live(0)
  /\ mode = "user" => p_state[current] = "P_RUNNABLE"
  /\ mode = "boot" => \A p \in setup : ~Live(p)

\* what the code may map at virtual page v
SaneMapping(v, m) ==
  \/ v < PROC_START /\ m = KernelHalf(v)
  \/ v >= PROC_START /\ m = Unmapped
  \/ v >= PROC_START /\ m.perm = PTE_RW /\ m.pn # -1
  \/ v \in UserVA /\ m.perm = PTE_RO /\ m.pn \notin {-1, NULL}

SpacesSane ==
  \A p \in Procs : Live(p) =>
    /\ \A t \in Tables : p_tables[p][t] # NULL
    /\ \A v \in VPages : SaneMapping(v, space[p][v])

\* The strengthening of TypeOK that every step preserves.
TInv == TypeOK /\ ProcessesSane /\ SpacesSane

\* pageinfo[] keeps what pageinfo_init() wrote for the kernel's own pages
KernelKept ==
  /\ \A pn \in ReservedPages : pageinfo[pn] = Info(PO_RESERVED, 1)
  /\ \A pn \in KernelPages : pageinfo[pn] = Info(PO_KERNEL, 1)

\* a page with a private use has one owner and one reference
PrivateOwned ==
  \A p \in Procs : Live(p) =>
    \A s \in Private(p) : Frame(p, s) # NULL => pageinfo[Frame(p, s)] = Info(p, 1)

ReadOnly(p) == {v \in UserVA : space[p][v].perm = PTE_RO}

Sharers(pn) == {q \in Procs : Live(q) /\ \E v \in ReadOnly(q) : space[q][v].pn = pn}

\* a read-only page has as many references as processes that map it, and
\* belongs to a process, though its owner may be gone
SharedCounted ==
  \A p \in Procs : Live(p) =>
    \A v \in ReadOnly(p) :
      /\ pageinfo[space[p][v].pn].refcount = Cardinality(Sharers(space[p][v].pn))
      /\ pageinfo[space[p][v].pn].owner >= 0
      /\ \A w \in ReadOnly(p) : space[p][w].pn = space[p][v].pn => v = w

\* The strengthening of PagesIsolated, UsedNotFree and KernelProtected that
\* every step of the kernel preserves as long as no program makes one of the
\* damaging calls.
IInv ==
  /\ TInv
  /\ KernelKept
  /\ PrivateOwned
  /\ SharedCounted
  /\ PagesIsolated

\* the kernel is between two exceptions, or booting, and has not failed
Settled == mode \in {"boot", "user", "idle"}

\* exit frees no page above the stack, so there must be none
NothingAbove ==
  \A p \in Procs : Live(p) =>
    \A v \in VPages : v >= MEMSIZE_VIRTUAL => space[p][v] = Unmapped

\* no page is leaked: one that is not free has a live user
PagesUsed ==
  Settled => \A pn \in Pages \ (KernelPages \cup ReservedPages) :
    pageinfo[pn].refcount # 0 =>
      \E p \in Procs : Live(p) /\ \E s \in Uses(p) : Frame(p, s) = pn

\* the owner of a page that is not free is live
OwnersLive ==
  Settled => \A pn \in Pages :
    pageinfo[pn].refcount > 0 /\ pageinfo[pn].owner >= 0 => Live(pageinfo[pn].owner)

\* The strengthening of RefcountExact and SelfCheckHolds that every step
\* preserves as long as programs allocate only where they have nothing mapped
\* and no process outlives the owner of a page it uses.
EInv ==
  /\ IInv
  /\ NothingAbove
  /\ PagesUsed
  /\ OwnersLive

-----------------------------------------------------------------------------
(* Statements of the repository that the code does not keep *)

\* k-exception.S: "`exception` should never return."
ExceptionNeverReturns == mode # "returned"

\* process.h, sys_fork(): "On failure, return -1."  A fork that could not give
\* the child a page for each writable page of the parent has failed.
ForkFailureReported ==
  [][mode = "user" =>
       \A c \in Procs : ~Live(c) /\ p_state'[c] # "P_FREE" =>
         \A v \in Copied(space[current]) : space'[c][v].pn # NULL]_vars

\* tests/p-sys_page_alloc.c: sys_page_alloc() answers -1 for an address that is
\* not page-aligned and for one above MEMSIZE_VIRTUAL.
BadAddressRejected ==
  [][\A a \in Addresses :
       /\ Enter /\ PageAlloc(a)
       /\ ~a.aligned \/ a.vpn > MEMSIZE_VIRTUAL \/ a.over
       => rax'[current] = -1]_vars
=============================================================================
