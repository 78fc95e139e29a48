------------------------------ MODULE Programs ------------------------------
(***************************************************************************)
(* The shipped programs on top of the kernel: p-allocator.c and p-test.c,  *)
(* which are the same program, p-fork.c and p-forkexit.c.  Kernel lets     *)
(* programs make any call at any time; here each process follows the code  *)
(* of its program from one system call or store to the next, and the timer *)
(* can come in between.                                                    *)
(*                                                                         *)
(* rand() is a free choice.  Bound Runs: a child that fork could not give  *)
(* all its copies takes no step of its own, for its code does not say what *)
(* it would do: the pages it did not get are all page 0, its own and those *)
(* of every such child, so its variables are what was last copied there.   *)
(***************************************************************************)
EXTENDS Kernel

CONSTANT HEAP  \* the first page after `end`: where the heap starts

ASSUME HeapAssumption ==
  /\ HEAP \in PROC_START .. STACK
  /\ \A v \in TextPages \cup DataPages : v < HEAP

VARIABLES
  program,  \* the argument of the last boot: which program the processes run
  loc       \* for each process: where it is in its code, its heap_top, and
            \* the results p1 and p2 of p-fork.c

progVars == <<vars, program, loc>>

Start == [pc |-> "start", heap_top |-> HEAP, p1 |-> 0, p2 |-> 0]

Looping == program \in {"allocator", "test", "test2"}

ProgramsInit ==
  /\ Init
  /\ program = "allocator"
  /\ loc = [p \in Procs |-> Start]

HasStack(p) == {"W", "U"} \subseteq space[p][STACK].perm

\* the bound: fork found memory for every page of the process
Runs(p) == HasStack(p) /\ \A v \in UserVA : space[p][v].pn # NULL

\* where a process is between a call of sys_fork() and the use of its result
Forks == [start |-> "forked", fork2 |-> "forked2", loop |-> "forked3"]
Waits == {Forks[pc] : pc \in DOMAIN Forks}

\* Mutant: the second fork's result goes to p1.
Forked_First(l, r) ==
  CASE program = "fork" /\ l.pc = "forked" ->
         [l EXCEPT !.p1 = r, !.pc = IF r >= 0 THEN "fork2" ELSE "assert"]
    [] program = "fork" /\ l.pc = "forked2" ->
         [l EXCEPT !.p1 = r, !.pc = IF r >= 0 THEN "check" ELSE "assert"]
    [] program = "forkexit" /\ l.pc = "forked" ->
         [l EXCEPT !.pc = IF r = 0 THEN "prepare" ELSE "start"]
    [] program = "forkexit" /\ l.pc = "forked3" ->
         [l EXCEPT !.pc = IF r = 0 THEN "getpid" ELSE "loop"]

\* Mutant: the parent leaves the first loop of p-forkexit.c, not the child.
Forked_ParentLeaves(l, r) ==
  CASE program = "fork" /\ l.pc = "forked" ->
         [l EXCEPT !.p1 = r, !.pc = IF r >= 0 THEN "fork2" ELSE "assert"]
    [] program = "fork" /\ l.pc = "forked2" ->
         [l EXCEPT !.p2 = r, !.pc = IF r >= 0 THEN "check" ELSE "assert"]
    [] program = "forkexit" /\ l.pc = "forked" ->
         [l EXCEPT !.pc = IF r # 0 THEN "prepare" ELSE "start"]
    [] program = "forkexit" /\ l.pc = "forked3" ->
         [l EXCEPT !.pc = IF r = 0 THEN "getpid" ELSE "loop"]

\* where a process goes on when it sees the result r of its fork
Forked(l, r) ==
  CASE program = "fork" /\ l.pc = "forked" ->
         [l EXCEPT !.p1 = r, !.pc = IF r >= 0 THEN "fork2" ELSE "assert"]
    [] program = "fork" /\ l.pc = "forked2" ->
         [l EXCEPT !.p2 = r, !.pc = IF r >= 0 THEN "check" ELSE "assert"]
    [] program = "forkexit" /\ l.pc = "forked" ->
         [l EXCEPT !.pc = IF r = 0 THEN "prepare" ELSE "start"]
    [] program = "forkexit" /\ l.pc = "forked3" ->
         [l EXCEPT !.pc = IF r = 0 THEN "getpid" ELSE "loop"]

Seen(p) == IF loc[p].pc \in Waits THEN Forked(loc[p], rax[p]) ELSE loc[p]

\* The running process looks at its result when it goes on.
me     == Seen(current)
At(pc) == mode = "user" /\ me.pc = pc /\ Runs(current)

Move(l)  == loc' = [loc EXCEPT ![current] = l]
Goto(pc) == Move([me EXCEPT !.pc = pc])

-----------------------------------------------------------------------------
(* Kernel steps that do not move a program *)

\* The timer comes at any time, so also before a fork's result is looked at.
Timer ==
  /\ Switch
  /\ rax'[current] = IF loc[current].pc \in Waits THEN rax[current] ELSE 0

KernelOnly ==
  /\ UNCHANGED <<program, loc>>
  /\ \/ \E p \in Procs : ProcessSetup(p)
     \/ RunFirst \/ CheckFails \/ PowerOff \/ Off
     \/ Timer

Rebooted ==
  /\ \/ Polls /\ \E command \in Commands : Boot(command) /\ program' = command
     \/ Reset /\ program' = "allocator"
  /\ loc' = [p \in Procs |-> Start]

-----------------------------------------------------------------------------
(* The part all programs share *)

\* process_setup() does not look whether there was a page for the stack; the
\* first instruction of a program pushes a register.
NoStack ==
  /\ mode = "user" /\ ~HasStack(current)
  /\ PageFault
  /\ UNCHANGED <<program, loc>>

\* pid_t p = sys_getpid(); heap_top = ROUNDUP(end); stack_bottom = ...
Prepare ==
  /\ (At("start") /\ Looping) \/ At("prepare")
  /\ SysGetpid
  /\ Move([me EXCEPT !.pc = "loop", !.heap_top = HEAP])
  /\ UNCHANGED program

\* "if (heap_top == stack_bottom ...) break;"
HeapFull ==
  /\ At("loop") /\ me.heap_top = STACK
  /\ Goto("done")
  /\ UNCHANGED <<vars, program>>

HeapAddress(l) == [vpn |-> l.heap_top, aligned |-> TRUE, over |-> FALSE]

\* Mutant: the result of sys_page_alloc() is not looked at.
Alloc_Unchecked ==
  /\ At("loop") /\ me.heap_top # STACK
  /\ Enter /\ PageAlloc(HeapAddress(me))
  /\ Goto("store")
  /\ UNCHANGED program

\* "... || sys_page_alloc(heap_top) < 0) break;"
Alloc ==
  /\ At("loop") /\ me.heap_top # STACK
  /\ Enter /\ PageAlloc(HeapAddress(me))
  /\ Goto(IF rax'[current] < 0 THEN "done" ELSE "store")
  /\ UNCHANGED program

AfterStore == IF program = "forkexit" THEN "loop" ELSE "yield"

\* "*heap_top = p; heap_top += PAGESIZE;", a page fault if the page is not
\* there to be written
Store ==
  /\ At("store")
  /\ IF {"W", "U"} \subseteq space[current][me.heap_top].perm
     THEN /\ UserWrite(me.heap_top, 0)
          /\ Move([me EXCEPT !.pc = AfterStore, !.heap_top = @ + 1])
     ELSE PageFault /\ UNCHANGED loc
  /\ UNCHANGED program

YieldCall ==
  /\ At("loop") \/ At("yield") \/ At("done") \/ (At("start") /\ program = "forkexit")
  /\ Switch /\ rax'[current] = 0
  /\ Goto(IF me.pc = "yield" THEN "loop" ELSE me.pc)
  /\ UNCHANGED program

-----------------------------------------------------------------------------
(* p-fork.c *)

\* the process, and its child if there is one, wait for the result
ForkCall ==
  /\ \/ program = "fork" /\ (At("start") \/ At("fork2"))
     \/ program = "forkexit" /\ (At("start") \/ At("loop"))
  /\ SysFork
  /\ loc' = [p \in Procs |->
               IF mode' = "user" /\ (p = current \/ (~Live(p) /\ p_state'[p] # "P_FREE"))
               THEN [me EXCEPT !.pc = Forks[me.pc]] ELSE loc[p]]
  /\ UNCHANGED program

\* the assertions of p-fork.c on the two results
ForkResultsRight(pid) ==
  IF pid = 1 THEN me.p1 # 0 /\ me.p2 # 0 /\ me.p1 # me.p2
  ELSE me.p1 = 0 \/ me.p2 = 0

Check ==
  /\ At("check")
  /\ SysGetpid
  /\ Goto(IF ForkResultsRight(rax'[current]) THEN "prepare" ELSE "assert")
  /\ UNCHANGED program

\* a failed assertion: assert_fail() calls sys_panic()
AssertFails == At("assert") /\ Panic /\ UNCHANGED <<program, loc>>

-----------------------------------------------------------------------------
(* p-forkexit.c *)

\* "p = sys_getpid();" in the child of a fork inside the loop
GetPid == At("getpid") /\ SysGetpid /\ Goto("loop") /\ UNCHANGED program

ExitCall ==
  /\ program = "forkexit" /\ (At("loop") \/ At("done"))
  /\ SysExit
  /\ Move(Start)
  /\ UNCHANGED program

-----------------------------------------------------------------------------

ProgramsNext ==
  \/ KernelOnly \/ Rebooted
  \/ NoStack \/ Prepare \/ HeapFull \/ Alloc \/ Store \/ YieldCall
  \/ ForkCall \/ Check \/ AssertFails \/ GetPid \/ ExitCall

\* The programs' own progress: a program that runs often enough gets past
\* every point, and rand() does not avoid an allocation forever (it is a
\* generator of full period).
Progress(p) ==
  /\ current = p
  /\ Prepare \/ HeapFull \/ Alloc \/ Store \/ (me.pc = "yield" /\ YieldCall)

ProgramsSpec ==
  /\ ProgramsInit /\ [][ProgramsNext]_progVars
  /\ WF_progVars(KernelOnly)
  /\ \A p \in Procs \ {0} : SF_progVars(Progress(p))

-----------------------------------------------------------------------------
(* Properties *)

\* The shipped programs keep to the ordinary calls: a heap page they allocate
\* is a page of their own address space that is not mapped yet, below the
\* stack, in whatever order parents and children allocate and fork; and the
\* process that owns the shared code never exits (p-forkexit.c, first loop).
OrdinaryCalls ==
  mode \in {"user", "idle"} =>
    \A p \in Procs : Live(p) =>
      /\ Seen(p).pc = "loop" /\ Seen(p).heap_top # STACK
           => AddrKind(space[p], HeapAddress(Seen(p))) = "fresh"
      /\ program = "forkexit" /\ Seen(p).pc \in {"loop", "done"} => ~OwnsShared(p)

\* No store of a program to a page sys_page_alloc() gave it faults ("check we
\* have write access to new page"): a process the kernel stopped for a page
\* fault is one it had no stack for when it loaded it.
ProgramsNeverFault == \A p \in Procs : p_state[p] = "P_BROKEN" => ~HasStack(p)

\* The assertions of p-fork.c fail only when fork answers -1, and it does so
\* only with a full process table: the values fork returns to parents and
\* children, at any interleaving of the four, are what p-fork.c expects, and
\* what happens before a process looks at its result does not change it.
AssertsOnlyWhenFull ==
  At("assert") => rax[current] = -1 /\ \A q \in Procs \ {0} : Live(q)

AtWork(p) == Live(p) /\ Runs(p) /\ loc[p].pc \in {"prepare", "loop", "store", "yield"}

\* Every allocator comes to its end, it hits its stack or memory runs out: there
\* is a time when none is at work, and one that was is then through for good,
\* unless the machine stops or the keyboard reboots it.
AllocatorsFinish ==
  (program # "forkexit" /\ mode = "user" /\ \E p \in Procs : AtWork(p))
    ~> (mode # "user" \/ \A p \in Procs : ~AtWork(p))

-----------------------------------------------------------------------------
(* The inductive invariant behind the three safety properties *)

Places == {"start", "prepare", "loop", "store", "yield", "done",
           "fork2", "check", "assert", "getpid"} \cup Waits

Locs == [pc : Places, heap_top : HEAP .. STACK, p1 : -1 .. NPROC - 1, p2 : -1 .. NPROC - 1]

LocTypeOK == program \in Commands /\ loc \in [Procs -> Locs]

\* while kernel() loads programs, none has run
BootSane ==
  mode = "boot" =>
    /\ loc = [p \in Procs |-> Start]
    /\ program \in {"fork", "forkexit"} => setup \subseteq {1}

\* A program at the place l of its code has nothing mapped from heap_top, or
\* from the page after the one it is about to store to, up to its stack, and
\* it has a stack once it is past its first instruction.
HeapFits(l, sp) ==
  /\ \A v \in l.heap_top .. STACK - 1 :
       sp[v].perm = IF l.pc = "store" /\ v = l.heap_top THEN PTE_RW ELSE {}
  /\ l.pc = "store" => l.heap_top # STACK
  /\ l.pc \in {"start", "prepare", "forked", "fork2", "forked2", "check"}
       => l.heap_top = HEAP
  /\ l.pc # "start" => {"W", "U"} \subseteq sp[STACK].perm

HeapsFit == \A p \in Procs : Live(p) => HeapFits(loc[p], space[p])

\* The process that kernel() loads for p-fork.c or p-forkexit.c never exits.
FirstLives ==
  program \in {"fork", "forkexit"} =>
    /\ mode \in {"user", "idle"} => Live(1)
    /\ mode = "boot" => 1 \in setup \/ Live(1)

\* p-forkexit.c: it stays in its first loop, and owns the code of every other.
FirstStays ==
  program = "forkexit" =>
    /\ loc[1].pc \in {"start", "forked"}
    /\ loc[1].pc = "forked" /\ mode \in {"user", "idle"} => rax[1] # 0
    /\ \A p \in Procs : Live(p) =>
         \A v \in ReadOnly(p) : pageinfo[space[p][v].pn].owner = 1

Full == \A q \in Procs \ {0} : Live(q)

\* p-fork.c: what process p knows of the two forks at the place l, and what
\* the result r that it waits for can be
ResultsFit(p, l, r) ==
  /\ l.pc \in {"forked", "forked2"} => r # -1 \/ Full
  /\ IF p = 1
     THEN /\ l.pc = "forked" => r = -1 \/ (r \in Procs \ {0} /\ Live(r))
          /\ l.pc \in {"fork2", "forked2", "check"} => l.p1 \in Procs \ {0} /\ Live(l.p1)
          /\ l.pc = "forked2" => r \notin {0, l.p1}
          /\ l.pc = "check" => l.p2 \notin {0, l.p1}
     ELSE /\ l.pc # "start"
          /\ l.pc = "forked" => r = 0
          /\ l.pc = "fork2" => l.p1 = 0
          /\ l.pc = "forked2" => l.p1 = 0 \/ r = 0
          /\ l.pc = "check" => l.p1 = 0 \/ l.p2 = 0

\* Which program waits for what; only a result not yet looked at can fail an
\* assertion.
ForksFit ==
  /\ \A p \in Procs :
       /\ loc[p].pc # "assert"
       /\ loc[p].pc \in {"fork2", "forked2", "check"} => program = "fork"
       /\ loc[p].pc = "forked" => program \in {"fork", "forkexit"}
       /\ loc[p].pc = "forked3" => program = "forkexit"
  /\ program = "fork" /\ mode \in {"boot", "user", "idle"} =>
       \A p \in Procs : Live(p) => ResultsFit(p, loc[p], rax[p])

\* The inductive invariant behind the three safety properties: the kernel's
\* bookkeeping is exact (EInv), each program's heap lies where its variables
\* say, the first process lives as long as its code promises, and the results
\* of p-fork.c's calls fit the processes there are.
PInv ==
  /\ EInv
  /\ LocTypeOK
  /\ BootSane
  /\ HeapsFit
  /\ FirstLives
  /\ FirstStays
  /\ ForksFit
  /\ ProgramsNeverFault
=============================================================================
