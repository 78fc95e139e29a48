------------------------------ MODULE Machine ------------------------------
(***************************************************************************)
(* Processes on the processor: exceptions with their register frames, the  *)
(* timer, the memory viewer that every exception animates, and programs    *)
(* that print with app_printf() through the shared `cursorpos`.            *)
(*                                                                         *)
(* The process table is the one ProcessTable specifies (Kernel implements  *)
(* it); memory and the keyboard are left to the other modules.  A program  *)
(* lives in its registers: %rip is its place in the code, %rdi and %rsi    *)
(* hold app_printf()'s cursor and the text still to print.                 *)
(***************************************************************************)
EXTENDS ProcessTable, Context, Console

CONSTANTS
  TICKS,       \* `ticks` is an unsigned int: it counts modulo TICKS (2^32)
  HALF_SECOND, \* HZ / 2
  Texts        \* what programs print

ASSUME MachineAssumption ==
  /\ NPROC \in Nat /\ 2 <= NPROC
  /\ TICKS \in Nat \ {0} /\ HALF_SECOND \in Nat

VARIABLES
  cpu,         \* the processor's registers
  p_registers, \* processes[].p_registers
  virtual,     \* what each process takes to be the processor's registers
  ticks,       \* timer interrupts so far
  last_ticks,  \* memshow_virtual_animate(): when it last moved on
  showing,     \*   and the process it shows
  disp_global, \* is the memory viewer on?
  cursorpos    \* the shared cursor position

viewer  == <<last_ticks, showing>>
context == <<cpu, p_registers, virtual>>
mvars   == <<table, context, ticks, viewer, disp_global, cursorpos>>

Live == PIDs \ Free

NoRegisters == [r \in Registers |-> Zero]
NoFields    == [f \in InSeq(Fields) |-> Zero]

MachineInit ==
  /\ Init
  /\ cpu = NoRegisters
  /\ p_registers = [p \in PIDs |-> NoFields]
  /\ virtual = [p \in PIDs |-> NoRegisters]
  /\ ticks = 0 /\ last_ticks = 0 /\ showing = 1 /\ disp_global = TRUE
  /\ cursorpos = 0

\* kernel(): "memset(processes, 0, ...)", console_clear()
Cleared ==
  /\ cpu' = NoRegisters
  /\ p_registers' = [p \in PIDs |-> NoFields]
  /\ virtual' = [p \in PIDs |-> NoRegisters]
  /\ cursorpos' = 0

\* The end of exception(): run() restores the registers of the next process
\* from the descriptors `saved`.  Its own descriptor and those of processes
\* that never run again are dead from here on, so their contents are dropped.
Leave(saved, seen) ==
  /\ cpu' = IF mode' = "user" THEN Restored(saved[current']) ELSE NoRegisters
  /\ p_registers' = [p \in PIDs |->
                       IF p_state'[p] = "P_RUNNABLE" /\ ~(mode' = "user" /\ p = current')
                       THEN saved[p] ELSE NoFields]
  /\ virtual' = [p \in PIDs |-> IF p_state'[p] = "P_RUNNABLE" THEN seen[p] ELSE NoRegisters]

\* process_setup()
LoadProcess(p) ==
  /\ Load(p)
  /\ p_registers' = [p_registers EXCEPT ![p] = process_init]
  /\ virtual' = [virtual EXCEPT ![p] = [r \in Registers |-> process_init[r]]]
  /\ UNCHANGED <<cpu, ticks, viewer, disp_global, cursorpos>>

StartFirst ==
  /\ Start
  /\ Leave(p_registers, virtual)
  /\ UNCHANGED <<ticks, viewer, disp_global, cursorpos>>

-----------------------------------------------------------------------------
(* The memory viewer *)

\* Mutant: a free slot is skipped once, not until a live one is found.
FirstShown_Once(s) == IF s % NPROC \in Free THEN s + 1 ELSE s

\* "while (showing <= 2*NPROC && processes[showing % NPROC].p_state == P_FREE)"
FirstShown(s) ==
  CHOOSE t \in s .. 2 * NPROC + 1 :
    /\ t > 2 * NPROC \/ t % NPROC \notin Free
    /\ \A u \in s .. t - 1 : u % NPROC \in Free

MovesOn == last_ticks = 0 \/ (ticks - last_ticks) % TICKS >= HALF_SECOND

Shown == FirstShown(IF MovesOn THEN showing + 1 ELSE showing) % NPROC

\* Mutant: the viewer stays with a process for as long as it lives.
memshow_virtual_animate_Stays ==
  /\ last_ticks' = IF MovesOn THEN ticks ELSE last_ticks
  /\ showing' = FirstShown(showing) % NPROC

memshow_virtual_animate ==
  /\ last_ticks' = IF MovesOn THEN ticks ELSE last_ticks
  /\ showing' = Shown

-----------------------------------------------------------------------------
(* Exceptions *)

\* Entry with vector v: the frame, exception()'s copy of it, and the viewer,
\* which general protection faults (their error code has no PFERR_USER bit)
\* do not reach.
Enter(v) ==
  /\ mode = "user"
  /\ IF disp_global /\ v # INT_GPF THEN memshow_virtual_animate ELSE UNCHANGED viewer

\* what exception() stores for the current process; nothing reads the vector
\* and the error code after it has returned, so they are dropped
Entered(v) ==
  [Stored(Frame(v, Word("error", "user"), cpu)) EXCEPT !["intno"] = Zero, !["err"] = Zero]

WithResult(regs, x) == [regs EXCEPT !["rax"] = Word("number", x)]

NoResult(v) ==
  Leave([p_registers EXCEPT ![current] = Entered(v)], virtual)

\* the controller and the processor let an interrupt line through
Unmasked(irq) ==
  mode = "user" /\ irq \in interrupts_enabled /\ cpu["rflags"] = Word("flags", "IF")

Interrupt(irq) ==
  /\ Unmasked(irq)
  /\ ticks' = (ticks + 1) % TICKS
  /\ Enter(INT_HARDWARE + irq)
  /\ Yield
  /\ NoResult(INT_HARDWARE + irq)
  /\ UNCHANGED <<disp_global, cursorpos>>

At(pc)  == cpu["rip"] = Word("at", pc)
AtMain  == mode = "user" /\ At("main")

SysYield ==
  /\ AtMain /\ Enter(INT_SYS_YIELD)
  /\ Yield
  /\ NoResult(INT_SYS_YIELD)
  /\ UNCHANGED <<ticks, disp_global, cursorpos>>

\* sys_mem_tog(0); with another argument it toggles a flag that nothing reads
SysMemTog ==
  /\ AtMain /\ Enter(INT_SYS_MEM_TOG)
  /\ disp_global' = ~disp_global
  /\ UNCHANGED table
  /\ NoResult(INT_SYS_MEM_TOG)
  /\ UNCHANGED <<ticks, cursorpos>>

SysExit ==
  /\ AtMain /\ Enter(INT_SYS_EXIT)
  /\ Exit
  /\ NoResult(INT_SYS_EXIT)
  /\ UNCHANGED <<ticks, disp_global, cursorpos>>

PageFault ==
  /\ AtMain /\ Enter(INT_PAGEFAULT)
  /\ Fault
  /\ NoResult(INT_PAGEFAULT)
  /\ UNCHANGED <<ticks, disp_global, cursorpos>>

\* a fork that succeeds
SysFork(child) ==
  /\ AtMain /\ Enter(INT_SYS_FORK)
  /\ Fork(child)
  /\ LET saved == Entered(INT_SYS_FORK)
     IN  Leave([p_registers EXCEPT ![child] = WithResult(saved, 0),
                                   ![current] = WithResult(saved, child)],
               [virtual EXCEPT ![child] = WithResult(virtual[current], 0),
                               ![current] = WithResult(@, child)])
  /\ UNCHANGED <<ticks, disp_global, cursorpos>>

\* an exception with the vector v that exception() has no case for
Panics(v) ==
  /\ AtMain /\ Enter(v)
  /\ mode' = "panic" /\ Stop
  /\ NoResult(v)
  /\ UNCHANGED <<ticks, disp_global, cursorpos>>

\* `int v` with a vector that is no system call
BadInt(v) == Panics(Delivered(v))

\* An instruction of the program that the processor refuses.  Some of these
\* exceptions come in through default_int_handler, with 0 for their vector
\* and, but for INT_ALIGN, a frame that is one word short.
Refused(v) ==
  IF TripleFault(v)
  THEN /\ AtMain /\ Restart /\ Cleared
       /\ ticks' = 0 /\ last_ticks' = 0 /\ showing' = 1 /\ disp_global' = TRUE
  ELSE Panics(Raised(v))

\* A soft reboot, which check_keyboard() starts in the idle loops and in the
\* middle of any exception; the variables that kernel() does not set survive it.
SoftReboot ==
  /\ \/ mode \in {"idle", "panic"} /\ UNCHANGED viewer
     \/ Enter(INT_SYS_YIELD)
  /\ Restart /\ Cleared
  /\ UNCHANGED <<ticks, disp_global>>

-----------------------------------------------------------------------------
(* Programs *)

\* an instruction of the running program, which leaves it the registers regs
Computes(regs) ==
  /\ mode = "user"
  /\ cpu' = regs
  /\ virtual' = [virtual EXCEPT ![current] = regs]
  /\ UNCHANGED <<table, p_registers, ticks, viewer, disp_global>>

Jump(pc) == [cpu EXCEPT !["rip"] = Word("at", pc)]

\* the return from app_printf() to code that does not use its scratch registers
Return ==
  [Jump("main") EXCEPT !["rax"] = Zero, !["rdi"] = Zero, !["rsi"] = Zero]

\* The program fills its registers; each gets a value of its own.
Work ==
  /\ At("entry")
  /\ Computes([r \in Registers |->
                 IF r = "rip" THEN Word("at", "main")
                 ELSE IF r \in {"cs", "rflags", "ss"} THEN cpu[r] ELSE Word(r, "own")])
  /\ UNCHANGED cursorpos

\* app_printf(): console_vprintf(cursorpos, ...) reads the position, ...
PrintStarts(text) ==
  /\ At("main")
  /\ Computes([Jump("put") EXCEPT !["rdi"] = Word("cell", StartAt(cursorpos)),
                                  !["rsi"] = Word("text", text)])
  /\ UNCHANGED cursorpos

\* ... prints character by character, ...
PrintPuts ==
  /\ At("put")
  /\ LET text == cpu["rsi"][2]
     IN  Computes([Jump(IF Len(text) > 1 THEN "put" ELSE "store") EXCEPT
                     !["rdi"] = Word("cell", After(@[2], Head(text))),
                     !["rsi"] = Word("text", Tail(text))])
  /\ UNCHANGED cursorpos

\* ... the result is stored in cursorpos, ...
PrintStores ==
  /\ At("store")
  /\ cursorpos' = cpu["rdi"][2]
  /\ Computes([Jump("test") EXCEPT !["rdi"] = Zero])

\* Mutant: the row is compared with > instead of >=.
PrintTests_OffByOne ==
  /\ At("test")
  /\ Computes(IF CROW(cursorpos) > LAST_ROW THEN Jump("top") ELSE Return)
  /\ UNCHANGED cursorpos

\* ... which is read again and reset at the bottom of the screen.
PrintTests ==
  /\ At("test")
  /\ Computes(IF CROW(cursorpos) >= LAST_ROW THEN Jump("top") ELSE Return)
  /\ UNCHANGED cursorpos

PrintResets ==
  /\ At("top")
  /\ cursorpos' = 0
  /\ Computes(Return)

Program ==
  \/ Work \/ (\E text \in Texts : PrintStarts(text))
  \/ PrintPuts \/ PrintStores \/ PrintTests \/ PrintResets

-----------------------------------------------------------------------------

MachineNext ==
  \/ \E p \in PIDs : LoadProcess(p) \/ SysFork(p)
  \/ StartFirst
  \/ \E irq \in {0, 1} : Interrupt(irq)
  \/ SysYield \/ SysMemTog \/ SysExit \/ PageFault
  \/ \E v \in {0, INT_TIMER, INT_HARDWARE + 1} : BadInt(v)
  \/ \E v \in {INT_DIVIDE, INT_INVALIDOP, INT_FPU, INT_ALIGN} : Refused(v)
  \/ SoftReboot
  \/ Program

\* The timer is periodic, so time goes on while its interrupts are let in; the
\* step that changes `ticks` so is Interrupt(0).
Tick == Unmasked(0) /\ ticks' = (ticks + 1) % TICKS

MachineSpec == MachineInit /\ [][MachineNext]_mvars /\ WF_ticks(Tick)

-----------------------------------------------------------------------------
(* Properties *)

\* Whatever exceptions and other processes come in between, a program runs as
\* if it had the processor's registers to itself: what the stubs push, what
\* struct x86_64_registers names and what exception_return pops agree, each
\* process gets its own results of a fork, and no exception that comes in
\* through the stub of default_int_handler, whose frame can be one word short,
\* returns to a program.
RegistersKept == mode = "user" => cpu = virtual[current]

\* The memory viewer always finds a process to show: memshow_virtual() never
\* gets the page table of a free slot and never leaves the screen empty.
ViewerFindsLive == mode = "user" /\ disp_global => Shown \in Live

\* While the viewer is on it comes round to every process, whatever the clock
\* (which wraps) and the processes around it do.
EveryoneShown ==
  \A p \in PIDs :
    p \in Live ~> showing = p \/ p \notin Live \/ ~disp_global \/ mode # "user"

\* Every cell app_printf() writes is on the screen, however the processes that
\* share cursorpos interleave.  (cursorpos itself lies behind the last cell.)
ConsoleInBounds ==
  \A p \in Live :
    LET regs == virtual[p]
    IN  regs["rip"] = Word("at", "put") =>
          Written(regs["rdi"][2], Head(regs["rsi"][2])) \subseteq Cells

\* A cursor in the bottom rows, which the kernel keeps for its messages, does
\* not stay there: some process is still on its way through the test of
\* app_printf() that resets it, though the test reads cursorpos anew.
CursorLeavesBottom ==
  CROW(cursorpos) >= LAST_ROW =>
    \E p \in Live : virtual[p]["rip"] \in {Word("at", "test"), Word("at", "top")}

-----------------------------------------------------------------------------
(* The inductive invariant behind the four safety properties *)

\* process 0 is never used, a process that runs is runnable, and the viewer
\* shows a slot of the table
TableSane ==
  /\ p_state \in [PIDs -> {"P_FREE", "P_RUNNABLE", "P_BROKEN"}]
  /\ p_state[0] = "P_FREE"
  /\ current \in PIDs
  /\ mode = "user" => p_state[current] = "P_RUNNABLE"
  /\ showing \in PIDs

IsContext(regs) == regs = [r \in Registers |-> regs[r]]

\* What a process takes to be its registers is in the processor if it runs, and
\* otherwise what exception_return would pop from its descriptor; of the process
\* that ran into a panic nothing is kept.
ContextsKept ==
  /\ p_registers = [p \in PIDs |-> p_registers[p]]
  /\ virtual = [p \in PIDs |-> virtual[p]]
  /\ \A p \in PIDs : IsContext(virtual[p])
  /\ \A p \in PIDs \ Runnable : virtual[p] = NoRegisters
  /\ mode = "user" => cpu = virtual[current]
  /\ \A p \in Runnable :
       ~(mode \in {"user", "panic"} /\ p = current) => Restored(p_registers[p]) = virtual[p]

\* A position that app_printf() works with is a cell, or the end of the screen.
CursorsSane ==
  /\ cursorpos \in 0 .. END
  /\ \A p \in PIDs :
       virtual[p]["rip"] \in {Word("at", "put"), Word("at", "store")}
         => virtual[p]["rdi"][2] \in 0 .. END

\* Between any two instructions of any process: the table is sane, no register
\* of a waiting process is lost, and app_printf()'s positions are on the screen.
MInv == TableSane /\ ContextsKept /\ CursorsSane /\ CursorLeavesBottom
=============================================================================
