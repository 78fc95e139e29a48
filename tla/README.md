# WeensyOS: TLA+ models and proofs

WeensyOS is a teaching kernel for x86-64: one CPU, 2 MiB of physical memory, up
to 15 processes with four-level page tables, and a handful of system calls. This
directory holds TLA+ models of it, configurations that model-check them with TLC,
and proofs checked by TLAPS.

## The system

| Part | Source | Modelled in |
|---|---|---|
| Boot loader | `boot.c` | `BootLoader` |
| Page tables | `vm.c`, `x86-64.h` | `PageTable`, `Paging`; what they promise: `AddressSpace` |
| Program loader, `process_setup()` page by page | `k-loader.c`, `kernel.c` | `Loader` |
| Physical pages: `pageinfo[]`, first-fit allocation | `kernel.c` | `PageInfo` |
| Boot, exceptions, `schedule()`, `run()`, self-check | `kernel.c` | `Kernel`; what they promise: `ProcessTable` |
| `sys_page_alloc`, `sys_mapping`, `sys_fork`, `sys_exit` | `kernel.c` | `Kernel` |
| Exception entry and return, interrupt gates and mask | `k-exception.S`, `k-hardware.c` | `Context`, `Machine` |
| Timer, memory viewer, `sys_mem_tog` | `kernel.c` | `Machine` |
| Keyboard, soft reboot, power-off, `panic()` | `k-hardware.c` | `Keyboard`, `Kernel` |
| Console, `app_printf()`, formatted output | `lib.c`, `process.c` | `Console`, `Printf`, `Machine` |
| User programs | `p-*.c` | `Programs` |

A user program runs until it makes a system call, faults, or is interrupted by
the timer. The CPU then enters `exception()` with interrupts off. The kernel
checks its own invariants, polls the keyboard, handles the exception and leaves
through `run()`. So the kernel never interleaves with itself, and one exception
is one step of the model; what interleaves is the programs. Between two steps of
a program any number of steps of the others, and a soft reboot, may come.

`PROJECT.json` lists the parts, the line-by-line correspondence ("map"), the
runs, the hazards of the code with the properties that cover them, and the
theorems.

## Modules

**PageInfo** is the `pageinfo[]` array. Page numbers stand for addresses; NULL is
page 0, because memory is identity mapped and the code can write through NULL.
Reference counts are `int8_t` (`Int8`, with `REF_HALF` = 128). Every allocation
in the kernel takes the lowest page whose count is 0. A handler that allocates
for several purposes in a row therefore gives its k-th purpose the k-th lowest
free page, and `Allocate` says just that: purposes are integers in the order the
code allocates for them (page tables are negative, then the virtual pages). In
one case pages become free between the allocations: fork increments the count of
a shared page and can wrap it to 0. `ForkPages` in `Kernel` treats it apart.

**Kernel** has the process table (`p_state`, `p_tables`, `space`, `rax`), the
running process (`current`), what the CPU does (`mode`), the processes still to be
loaded at boot (`setup`), and the contents of physical pages (`mem`).

| Action | Code |
|---|---|
| `ProcessSetup`, `RunFirst` | `kernel()`, `process_setup()`, `duplicate_pagetable()`, `program_load()` |
| `CheckFails` | an assertion of `check_virtual_memory()` fails at the next exception |
| `Panic` | `INT_SYS_PANIC`, a protection fault, a call without handler |
| `SysGetpid`, `Switch`, `PageFault` | `INT_SYS_GETPID`; `INT_SYS_YIELD` and `INT_TIMER`; `INT_PAGEFAULT` |
| `SysPageAlloc`, `SysMapping`, `SysFork`, `SysExit` | the system calls of these names |
| `UserWrite` | a store of the running program |
| `Reboot`, `PowerOff` | `check_keyboard()` in `exception()`, `schedule()` and `fail()` |
| `Reset` | what the hardware does when `exception()` returns |

Every action includes the tail of `exception()`: the choice between `run()` and
`schedule()`, the assertion in `run()`, and the check in `set_pagetable()`.

What is abstracted: an address space is a function from virtual pages to what
`virtual_memory_lookup()` answers for them, with the permissions P, W and U; the
hardware's accessed and dirty bits are left out. The only register kept is
`reg_rax`, and it holds the result of a system call or 0 for anything a program
computed. The content of a page is one member of `Vals`; what the kernel itself
fills in (a cleared page, a program image, a page table) is 0. An address of
`sys_page_alloc` is the page that `pageindex()` makes of it, whether it is
aligned, and whether bits above bit 47 are set, which `pageindex()` drops.

One piece of undefined behaviour is resolved by the build. For a virtual page
that is not mapped, fork increments `pageinfo[-1].refcount`. `obj/kernel.sym`
puts `ticks` (4 bytes) at 0x4ee20 and `pageinfo` at 0x4ee40, so the byte is
padding and the increment changes nothing.

**What programs may do.** The constant `UserCalls` selects, beyond the ordinary
calls, which unusual ones the programs make: `alloc_data` and `alloc_text`
(`sys_page_alloc` over a page already mapped writable or read-only), `alloc_low`,
`alloc_high`, `alloc_beyond`, `alloc_unaligned` (an address below user memory,
above `MEMSIZE_VIRTUAL`, beyond the page tables, not page-aligned),
`alloc_kernel` (an address with bits above bit 47 whose page is in the kernel's
half), `map_straddle` (a `sys_mapping` buffer that crosses a page boundary),
`exit_owner` (exit while another process shares a page the caller owns) and
`late_result` (an interrupt before a call's result is looked at). But for the
last, the shipped programs make none of these: their heaps grow over fresh pages
below the stack, and in `p-forkexit.c` process 1, which owns the shared code
page, never exits.

Three of them are `Damaging`: `map_straddle` and `alloc_kernel` can make the
kernel write over a page table or over itself, after which the model allows any
state (`Anything`), and `alloc_text` in the end makes a page in use free. The
properties of `Kernel` are stated for programs that make none of the three.

**ProcessTable** is the abstract specification of processes: who is in the table,
who runs, in which order the CPU goes round. `Kernel` implements it
(`ImplementsProcessTable`; the mapping is the identity on `p_state`, `current`
and `mode`), and `Machine` is built on it.

**PageTable, Paging, AddressSpace.** `PageTable` has the walks of `vm.c` as
operators and the processor's own walk (external) to compare them with. `Paging`
has the operations: a new table, and `virtual_memory_map()` with one action per
round of its loop. `AddressSpace` is what callers rely on, a function from
virtual pages to mappings; it is also `Kernel`'s view. `Paging` implements it
under the mapping that sends tables to the answers of `virtual_memory_lookup()`.

**BootLoader, Loader** follow the machine from the first sector to the first
instruction of a program: `boot()` sector by sector, with a disk that answers
when it likes; `kernel()` building its own page table; `process_setup()` page by
page; then programs that allocate, and soft reboots into memory full of old
tables and programs. Memory is bytes. The n-th byte of the disk is the number n,
so a byte in memory tells where it came from. Assertions of the code are guards:
one that could fail would show as a deadlock. So is one thing the code takes for
granted, that `duplicate_pagetable()` gets its five pages (`Setup`).

**Context, Machine, Console, Printf.** `Context` has the lists of `k-exception.S`
and `x86-64.h` that carry registers through the kernel; nothing but positions
ties them together. `Machine` runs processes with all their registers. Its
variable `virtual` is what each process takes the processor's registers to be.
Exceptions come between any two steps of `app_printf()`, whose cursor all
processes share. Every exception but a protection fault also animates the memory
viewer. A program can also run into an exception without a handler of its own
(`Refused`): an empty gate means a protection fault, which panics, or for a
division error a triple fault, which resets the machine; vectors 16 and 17 come
in through `default_int_handler` and panic. Vector 19 cannot come: `bootstart.S`
leaves `CR4.OSXMMEXCPT` clear, and the processor raises 6 in its place. `Console` is
the cursor arithmetic, `Printf` is `printer_vprintf()` and `panic()`'s buffer.

**Keyboard** has the scan-code decoder with its two static variables, the
controller's queue in front of it, and a user who presses and releases 16 keys:
letters, digits, both Shift and both Control keys, lock keys, extended keys. The
user types only while the queue has room.

**Programs** composes the shipped programs with `Kernel`: each process follows
its code from one system call or store to the next. `rand()` is a free choice.
After a fork, parent and child wait at a place of their own (`Waits`) and look at
the result when they go on, so the timer and every step of the others can come
before. A process that `process_setup()` found no stack page for faults at its
first instruction (`NoStack`).

The modules `KernelTypes`, `KernelIsolation` and `KernelMemory` hold the proofs
about `Kernel`; `PagingProofs` those about the page tables of `Loader` and the
boot loader, and `LoaderProofs` those about the programs it loads;
`ProgramsProofs`, `MachineProofs` and `KeyboardProofs` those about the modules
they are named after.

## Properties and runs

| Run (configuration) | Programs and machine | Properties |
|---|---|---|
| `apps` (`KernelApps`) | ordinary calls only | `RefcountExact`, `SelfCheckHolds`, `EInv`, `RunnableRuns`, `ImplementsProcessTable` |
| `any` (`KernelAny`) | all unusual calls but the damaging ones | `TypeOK`, `PagesIsolated`, `UsedNotFree`, `KernelProtected`, `IInv` |
| `contents` (`KernelContents`) | ordinary calls, `exit_owner` and `late_result`, two page contents | `NonInterference`, `TextStable`, `ForkIsCopy` |
| `programs` (`Programs`) | the shipped programs, all calls allowed | `OrdinaryCalls`, `ProgramsNeverFault`, `PInv`, `AssertsOnlyWhenFull`, `AllocatorsFinish` |
| `loader` (`Loader`) | disk to running programs, reboots | `LookupIsHardware`, `KernelLoaded`, `ProgramsLoaded`, `BootInv`, `LInv`, `ImagesInv`, `ImplementsAddressSpace`, `BootFinishes` |
| `machine` (`Machine`) | registers, timer, viewer, printing | `RegistersKept`, `ViewerFindsLive`, `EveryoneShown`, `ConsoleInBounds`, `CursorLeavesBottom`, `FormatNotOverrun`, `FieldsReadBack`, `PanicMessageFits`, `MInv` |
| `keyboard` (`Keyboard`) | any typing on 16 keys | `NoStuckModifier`, `KInv`, `CommandsMeant`, `ControlCExits` |

`IInv`, `EInv`, `PInv`, `BootInv`, `LInv`, `ImagesInv`, `MInv` and `KInv` are the
inductive invariants of the proofs (see there); the runs check them on small
instances.

Memory and processes:

- `PagesIsolated`: a page-table page, or a page some process can write, has
  exactly one use in the whole system.
- `UsedNotFree`: no page in use has count 0, so none is handed out again.
- `KernelProtected`: the lower half of every address space is the kernel's
  identity map with only the console open, and no user page maps kernel or
  reserved memory.
- `RefcountExact`: the count of every user page is the number of its uses.
- `SelfCheckHolds`: `check_virtual_memory()` never panics.
- `NonInterference`, `TextStable`: a step of one process leaves the memory of
  the others alone; read-only pages never change.
- `ForkIsCopy`: the child has the parent's permissions and contents, but for the
  pages fork found no memory for, and both get the right result.
- `RunnableRuns`: a runnable process comes to run.
- `OrdinaryCalls`: the shipped programs make none of the unusual calls, so what
  is shown of ordinary programs applies to them. `ProgramsNeverFault`: the kernel
  stops one for a page fault only if it loaded it without a stack.
  `AssertsOnlyWhenFull`: the assertions of `p-fork.c` fail only when the process
  table is full, however late a result is looked at.

Page 0 is excepted from `PagesIsolated`, `NonInterference`, `KernelProtected` and
`ForkIsCopy`: fork sends the copies it finds no memory for there (see below).

The other parts:

- `LookupIsHardware`: `virtual_memory_lookup()` takes the flags of each level OUT
  of the next instead of intersecting them. Over four levels whose upper three
  carry the same flags the result is the processor's.
- `KernelLoaded`: when `boot()` jumps, every segment of the kernel is in memory,
  although whole sectors are read over what lies around it and the bss is
  cleared only afterwards.
- `ProgramsLoaded`: when a program starts, every byte of its segments, read
  through its page table, is its file's byte or zero, whatever its pages held
  before, and only the segments that may be written are writable.
- `ImplementsAddressSpace`: the L4 table remembered between rounds is never a
  stale one, and old contents of pages never show.
- `RegistersKept`: a program that runs has the registers it left off with, after
  any exceptions. In particular nothing that enters through
  `default_int_handler`, whose frame can be a word short, returns to a program:
  the mask lets only the timer in, `int` with such a vector is a protection
  fault, and the processor's own exceptions that come that way panic.
- `ConsoleInBounds`, `CursorLeavesBottom`: processes that race for `cursorpos`
  mix their output but never write outside the screen, and never leave the
  cursor in the rows kept for kernel messages.
- `NoStuckModifier`, `CommandsMeant`: the driver reads codes late, and the second
  code of an extended key alone looks like another key; still no flag sticks and
  no command comes from a key that does not mean it.
- `ControlCExits`: Control-C gets through. Its exception is in the statement:
  both Control keys share one flag, so releasing either clears it.

*Bounds.* `Kernel`: three user pages (code, heap, stack), one page above
`MEMSIZE_VIRTUAL`, six kernel-half pages of which one is the console, one or two
page-table pages per process, two or three processes besides the unused process
0, and 10 to 13 physical pages, 6 to 9 of them free at boot. In these runs
memory runs out among the copies of a fork, and in `KernelApps` and `KernelAny`
also among its page tables. All boot commands are taken, so one or two processes
are loaded. `Programs` has three slots, so the four processes of `p-fork.c` are
never all present (the theorem `ForksAsExpected` is about every number of
slots), but both a fork that succeeds and one that answers -1 are reached. It
boots up to three allocators in 11 free pages, so that one comes without a stack.

The bound `Runs` of `Programs`: a child that fork left with pages it had no
memory for takes no step of its own. Such pages are all page 0. The child's data
and stack there are shared with every other such child, and its variables are
what was last copied or stored there, so its code no longer says what it does. In
particular two such children of `p-forkexit.c` share `heap_top`, and could
allocate over pages they have. The fork itself, its parent and everybody else's
steps are in the model.

`Loader`: 18 pages of 4 bytes, sectors of 2 bytes, 12 entries per page-table
page, so that the identity map crosses from one L4 table to the next; kernels
of one segment and of two, ending at and inside a sector; program images
with one, two and four pages, half-empty last pages, a segment that is not
loaded, one that leaves no room for the stack and one that does not fit. One
process is loaded per boot (`NLOAD`), so that the images of several processes
stay apart is shown by the theorem `ProgramsAreLoaded` only.
`Machine`: two processes, a screen of 2 by 2 cells, a clock that wraps at 3
(so it passes 0, where `last_ticks == 0` has a meaning of its own), and all
formats of up to four characters from an alphabet of 13. `Keyboard`: two keys
held at once and three codes waiting.

Symmetry is not used: first fit and round robin order pages and pids. All state
spaces are finite and searched completely.

Deadlock is checked in every run. It shows that even with no runnable process,
or after a panic, the machine still reacts to the keyboard. `Off` and `Hang` let
a machine that is off, or without a bootable disk, stay so.

*Fairness.* Liveness needs the following, and nothing else is assumed.

- The kernel's own code goes on by itself (`ProcessSetup`, `RunFirst`,
  `KernelStep`, `MapStep`, `BootStep`), and the disk answers.
- The timer is periodic. `process_init()` sets `EFLAGS_IF`, programs cannot
  clear it, and the controller acknowledges interrupts itself, so `Switch` and
  `Tick` are weakly fair.
- Every exception polls the keyboard, so `Poll` is weakly fair.
- `AllocatorsFinish` alone needs strong fairness of a program's own steps. A
  program that runs again and again gets past each of its instructions, and
  `rand()`, a generator of full period, does not avoid an allocation for ever.

### Where the code and its documentation disagree

| Run | Statement | What the run shows |
|---|---|---|
| `OwnerExits` | `kernel.c:605`, "Check that all referenced pages refer to active processes" | A parent that exits before its child leaves the shared code page owned by a free slot; the next exception panics. |
| `ForkNoTables` | `k-exception.S:154`, "`exception` should never return." | A fork without memory for page tables returns from `exception()`; the machine resets. |
| `ForkNoMemory` | `process.h:49`, "On failure, return -1." | A fork without memory for a page maps page 0 instead and reports success. |
| `AllocBadAddress` | `tests/p-sys_page_alloc.c:28`, -1 for an unaligned address, and `:33`, -1 above `MEMSIZE_VIRTUAL` | `sys_page_alloc` of an unaligned address panics the kernel. With `alloc_high` alone the same run shows that above `MEMSIZE_VIRTUAL` it returns 0. |
| `RefcountWraps` | `kernel.c:46`, "0 means it's free" | 254 rounds of fork, allocation over the code page and exit bring the `int8_t` count to -1. The next fork increments it to 0 while the page is mapped twice and then takes the page for the child's stack; when the parent exits, the page is free and mapped. The run uses the real width of the counter. |

A smaller one needs no run: `memshow_virtual_animate()` moves on after `HZ / 2`
ticks, its comment says "every 0.25 sec" (`kernel.c:706`).

## Proofs

The theorems hold for every value of the constants that satisfies the named
assumptions, which TLC evaluates in the runs of the same modules.

- `Kernel`: every number of pages and processes, every image layout and every set
  of contents with `PageAssumption` and `LayoutAssumption` (for instance: page 0
  and the console are reserved, kernel pages lie below `PROC_START`, the number
  of processes fits in an `int8_t`).
- `Programs`: in addition `HeapAssumption`, the heap starts above the image and
  not above the stack (`end` is rounded up in the programs, and the linker script
  puts it last). The bound `Runs` is part of the model, as said above, and so of
  every theorem about `Programs`.
- `Loader`: every number of entries of a table (at least 2), of pages and of
  processes and every set of programs with `PageTableAssumption`,
  `OwnersAssumption` and `LoaderAssumption`. `BootAssumption` says what
  `link/kernel.ld` and the page alignment of ELF files guarantee: segments lie
  upwards in memory and begin in sectors of their own, at the same place of a
  sector as in the file, and none is loaded over the ELF header.
  `ProgramsAssumption` says the same of `link/process.ld`: a program's segments
  begin at pages, lie upwards from `PROC_START` and end below the stack.
  `ImagesAssumption` says where the programs' files are: among the kernel's data,
  in segments that lie in its file as they lie in memory, and in pages that
  `pageinfo_init()` does not leave free.
- `Machine`: every number of processes (at least 2, since process 0 is not used),
  period of the clock, size of the screen and set of texts, with
  `MachineAssumption` and `ConsoleAssumption`.
- `Keyboard`: every subset of the 16 keys, number of keys held at once and length
  of the queue (at least 2), with `KeyboardAssumption`.

| Theorem | Module | States | Assumes of programs |
|---|---|---|---|
| `TypeCorrect` | KernelTypes | `[]TypeOK` | no damaging call |
| `RefinesProcessTable` | KernelTypes | `Processes!Spec` | no damaging call |
| `Invariant`, `Isolation`, `NoReuse`, `KernelSafe` | KernelIsolation | `[]IInv`, `[]PagesIsolated`, `[]UsedNotFree`, `[]KernelProtected` | no damaging call |
| `ForkCopies` | KernelMemory | `ForkIsCopy` | no damaging call |
| `Interference`, `SharedPagesStable` | KernelMemory | `NonInterference`, `TextStable` | no damaging call |
| `ExactInvariant`, `SelfCheck`, `Exact` | KernelMemory | `[]EInv`, `[]SelfCheckHolds`, `[]RefcountExact` | only `alloc_unaligned` and `late_result` beyond the ordinary calls (`ExactCalls`) |
| `PageTablesBuilt`, `LookupAgrees` | PagingProofs | `[]LInv`, `[]LookupIsHardware` | canonical addresses |
| `TablesAreSpaces` | PagingProofs | `ImplementsAddressSpace` | canonical addresses |
| `BootInvariant`, `KernelIsLoaded` | PagingProofs | `[]BootInv`, `[]KernelLoaded` | nothing |
| `ImagesInvariant`, `ProgramsAreLoaded` | LoaderProofs | `[]ImagesInv`, `[]ProgramsLoaded` | segments as the linker lays them out |
| `ProgramsInvariant`, `OnlyOrdinaryCalls`, `NeverFault`, `ForksAsExpected` | ProgramsProofs | `[]PInv`, `[]OrdinaryCalls`, `[]ProgramsNeverFault`, `[]AssertsOnlyWhenFull` | the shipped programs, bound `Runs` |
| `ProgramsRefineKernel` | ProgramsProofs | the `Spec` of `Kernel` | the shipped programs, bound `Runs` |
| `ProgramsCountExactly`, `ProgramsPassCheck`, `ProgramsIsolated`, `ProgramsKeepMemory`, `ProgramsForksCopy` | ProgramsProofs | `[]RefcountExact`, `[]SelfCheckHolds`, `[]PagesIsolated`, `NonInterference` and `TextStable`, `ForkIsCopy` | the shipped programs, bound `Runs` |
| `MachineInvariant`, `RegistersAreKept`, `ViewerFinds`, `ConsoleStaysInBounds`, `CursorLeaves` | MachineProofs | `[]MInv`, `[]RegistersKept`, `[]ViewerFindsLive`, `[]ConsoleInBounds`, `[]CursorLeavesBottom` | nothing |
| `KeyboardInvariant`, `NoModifierStuck`, `CommandsAreMeant` | KeyboardProofs | `[]KInv`, `[]NoStuckModifier`, `CommandsMeant` | any typing |

"No damaging call" is the hypothesis `UserCalls \cap Damaging = {}`. The
hypotheses are needed. `RefcountWraps` shows it for `alloc_text`, `OwnerExits`
for `exit_owner`. With `map_straddle`, `sys_mapping` writes the second half of
its structure to the next physical page, whoever uses it; with `alloc_kernel` a
process gets a page of its own where the kernel's code, stack or data should be.
The other calls excluded from `Exact` leak pages. The shipped programs, within
the bound `Runs`, meet all the hypotheses: `OnlyOrdinaryCalls` proves it, and
`ProgramsCountExactly` and the four theorems listed with it are the results for a
kernel that would allow every call (`UserCalls` is arbitrary there).

`TypeOK` is not inductive: fork reads the contents of the pages it copies, so one
must know that a writable mapping has a page behind it. `TInv` adds that
(`SpacesSane`) and that the running process is runnable (`ProcessesSane`).

`PagesIsolated` is not inductive either. A new page is in no other use only if
every used page has a nonzero count, and exit frees a page only rightly if its
owner is its only user. `IInv` therefore adds: a page with a private use has
that process as owner and count 1 (`PrivateOwned`); the count of a read-only
page is the number of processes that map it (`SharedCounted`); the kernel's own
entries are untouched (`KernelKept`).

`IInv` says that used pages are counted, not that counted pages are used. `EInv`
adds that, for `RefcountExact` and `SelfCheckHolds`: nothing is mapped above the
stack, where exit does not look (`NothingAbove`); a page that is not free has a
live user (`PagesUsed`) and a live owner (`OwnersLive`).

`LookupIsHardware` says nothing of how tables are connected, so a step could
break it. `PInv` of `Paging` adds that the five tables of an owner are linked as
they were built, that no two owners share a table page, and that a call in
progress remembers the L4 table of its last page; `LInv` adds which process is
being set up.

`KernelLoaded` speaks of the last moment only. `BInv` says, for every moment,
that the earlier segments are complete, that the present one is read up to
`ptr`, that `sect` is the sector of `ptr`, and that the drive was asked for it.
`BootInv` adds that `kernel()` has not begun.

`ProgramsLoaded` speaks of running programs only, and a later copy or call could
spoil what an earlier one did. `ImagesInv` says of every moment: the programs'
files in the kernel's memory are as on the disk (`FilesInv`); user pages have
frames of their own, none of them the kernel's (`FramesOwn`); a call of
`virtual_memory_map()` in progress maps a frame nobody has, or one page of the
present segment to the frame it has already (`CallersPage`); the processes before
`pid`, and the segments before `seg`, are in (`EarlierLoaded`), and the present
segment is as far as the loops of `program_load_segment()` say (`Loading`).

`OrdinaryCalls` depends on what all processes did before. `PInv` of `Programs` is
`EInv` and: nothing is mapped between a process's `heap_top` and its stack
(`HeapsFit`), process 1 of `p-fork.c` and `p-forkexit.c` lives and, in the
latter, owns all shared code (`FirstLives`, `FirstStays`), and the results
`p-fork.c` remembers fit the processes there are (`ForksFit`). The two depend on
each other: `EInv` is preserved because calls are ordinary, and they are
ordinary because of the rest.

`RegistersKept` speaks of the running process. `MInv` adds that what
`exception_return` would pop for each waiting process is what the process takes
its registers to be (`ContextsKept`), that process 0 is free and the running one
runnable (`TableSane`), and that the cursor and the positions in registers are
on the screen (`CursorsSane`).

`NoStuckModifier` speaks of an empty queue. `KInv` says of any queue what the
flags will be after each of its codes (`WillBeSet`): a flag that will be set has
a key that is down (`FlagsHeld`), the driver will see Control as the user had it
(`ControlSeen`), and a 0xE0 is always followed by the code it belongs to
(`EscapesPaired`).

The argument, by module:

1. KernelTypes. `AllocateSound`: first fit gives different purposes different
   free pages (ranks in a finite set of integers are injective). Then `TInv`
   is preserved, one lemma per handler.
   `BootOrder` adds to `TInv` that `kernel()` has set up the first processes and
   no others. `RunSucceeds`: the assertions of `run()` and `set_pagetable()` hold.
   `StepRefines` maps each handler to a step of `ProcessTable`.
2. KernelIsolation. `GrowStep`: a step that only adds fresh pages to one process
   preserves `IInv`; `sys_page_alloc`, process setup and a failing fork are such
   steps. `ForkInfo` computes `pageinfo[]` after a fork; each shared page
   gains exactly one reference, and the count, at most `NPROC - 1`, does not wrap.
   `ExitKeeps` and `ExitShared` compute `pageinfo[]` after an exit. `CalmIInv`
   puts the handlers together, for steps that are no damaging call (`CalmStep`),
   whatever `UserCalls` is.
3. KernelMemory, counts. `CoverStep`: a step whose new pages all have a use keeps
   every page used; `ExitFrees` and `ExitLeaves` show that exit frees exactly what
   nobody else uses. `PairsCount` turns owners and sharers into the number of
   uses that `RefcountExact` counts. `ExactEInv` is the result for one step
   (`ExactStep`).
4. KernelMemory, contents. `PageKept`: a page handed out is in nobody's use and a
   page a process can write is in no other use, so no store reaches a page of
   another process (`KeepsOthers`, `KeepsText`). `CopiesContents`: different copies of a fork go to
   different pages.
5. ProgramsProofs. `ProgramsSteps`: in a state of `PInv` the programs make only
   ordinary calls (`ProgramStep`), so every step is an `ExactStep` and a
   `CalmStep` and the lemmas of the modules above apply to it. Then one lemma per
   place of the programs' code.
6. PagingProofs. `UpperIndices`: canonical pages with the upper indices of an L4
   table are exactly those below its end, so no two pages share an entry.
   `LookupFlat` and `HardwareFlat`: in linked tables both walks come down to one
   entry of an L4 table, the masks of the kernel's walk cancelling out.
   `MapPageInv`: a round writes one entry of one L4 table of its caller's.
   `StepImplements` maps each step to one of `AddressSpace`. `TransferReads`: the
   sector read holds the segment's bytes and lies above the earlier segments.
   `ClearCompletes`: clearing the bss completes the segment. `SegmentsApart`: no
   page holds bytes of two segments. `PageMapped`: what one round of
   `virtual_memory_map()` does to what lookup shows.
7. LoaderProofs. `FilesLoaded`: a complete kernel holds the programs' files.
   `CopyWrites`: because frames are different, the copy puts each byte in
   its place and nothing anywhere else; `CopyKeeps` and `MapKeeps`: so it, and
   every round, leaves the segments already in alone. Then one lemma per
   action, and `ImagesStep` puts them together.
8. MachineProofs. `RegisterField` and `FrameRegister` compare the three lists of
   registers position by position; `ExceptionKeeps`: entry through the stub of
   any vector that can come in and exit pop what was pushed. `FirstShownLive`:
   the viewer's search passes every slot. `PutcOnScreen`, `CursorStep`: one step
   of one process in `app_printf()`, whatever `cursorpos` has become meanwhile.
9. KeyboardProofs. `SendStep`: a press or release adds codes whose effect is what
   the user did. `DecodedMeaning`: in step with the escapes, the driver decodes
   each code as the key that sent it. `PollStep`: reading a code moves its effect
   from `WillBeSet` into the flags.

Only model-checked: liveness (`RunnableRuns`, `AllocatorsFinish`, `EveryoneShown`,
`BootFinishes`, `ControlCExits`, and the fairness of `ImplementsProcessTable`),
which is out of the prover's reach; and `FormatNotOverrun`, `FieldsReadBack` and
`PanicMessageFits`, which are about what a loop over a string computes and would
need induction over data.

## Not modelled

- The drawing of the memory viewer (`memshow_physical()`, `memshow_virtual()`):
  it changes only characters and colours on the screen. That its colour table is
  indexed inside its bounds is part of `TypeOK` (the range of `owner`).
- `display_status`, which `sys_mem_tog` toggles and nothing reads.
- `bootstart.S`, the bit layout of descriptors, the port sequences that program
  the interrupt controller, timer and PCI devices: straight-line code run once,
  before there is any state to protect.
- The log on the parallel port: it changes no state of the system.
- `memcpy()`, `memmove()`, `strlen()` and their kind, `rand()`: small pure
  functions; their effects are part of the actions that call them.
- Addresses of more than 48 bits below the system calls: `pageindex()` ignores
  their upper bits, and `Paging` takes callers to pass canonical ones (`Canonical`
  in `MapCall`). At `sys_page_alloc` they are modelled, in `Kernel`.
- What the machine does once a page table or the kernel has been overwritten
  (`Anything`), and what a child does whose pages went to page 0 (the bound `Runs`).
- A keyboard controller that is full and drops codes (the bound `MAXQUEUE`).
- Program headers that are not page-aligned: the linker script aligns the
  programs' segments, and `ProgramsAssumption` says so.
- Of the processor's exceptions, 0, 6, 16 and 17 stand for the others that end
  the same way.
- The test programs in `tests/`: what they assert is among the properties.
- Build tools: no part of the running system.
