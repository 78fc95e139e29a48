------------------------------- MODULE Loader -------------------------------
(***************************************************************************)
(* From the disk to running processes: the boot loader reads the kernel,   *)
(* kernel() builds its page table, and process_setup() gives every process *)
(* a page table, the segments of its program (k-loader.c) and a stack.     *)
(* The programs' images are part of the kernel's image.  Kernel abstracts  *)
(* all this to one step per process; here it is done page by page.         *)
(*                                                                         *)
(* An assertion of the code is a guard: if one could fail, the run would   *)
(* stop in a deadlock.                                                     *)
(***************************************************************************)
EXTENDS BootLoader, Paging, FiniteSets

CONSTANTS
  KernelTables,    \* the pages of kernel_pagetables[], by level
  NotFree,         \* pages pageinfo_init() marks as reserved or the kernel's
  KernelCode,      \* pages of the code set_pagetable() looks for
  PROC_START,      \* first virtual page of user memory
  STACK,           \* virtual page of the stack
  CONSOLE,         \* the console's page
  NLOAD,           \* number of processes to load
  Programs         \* the programs' images: records of begin, the address of
                   \* the ELF file, and segs, its program headers

\* Page v holds bytes of segment s, whose address is that of a page.
InSegment(s, v) == s.va \div PAGESIZE <= v /\ v * PAGESIZE < s.va + s.memsz

ASSUME LoaderAssumption ==
  /\ MEMSIZE = NPAGES * PAGESIZE
  /\ {KernelTables[l] : l \in Levels} \subseteq NotFree /\ 0 \in NotFree
  /\ NLOAD \in Nat /\ 1 .. NLOAD \subseteq Owners
  /\ PROC_START \in Nat /\ STACK \in Nat /\ PROC_START .. STACK \subseteq VPages

\* The linker script aligns every segment of a program to a page, above
\* PROC_START and below the stack; an ELF file lists the segments upwards.
ASSUME ProgramsAssumption ==
  /\ Programs \subseteq [begin : Nat, segs : Seq([va : Nat, offset : Nat, filesz : Nat,
                                                memsz : Nat, load : BOOLEAN, write : BOOLEAN])]
  /\ \A p \in Programs : \A i \in DOMAIN p.segs : p.segs[i].load =>
       /\ p.segs[i].va % PAGESIZE = 0 /\ p.segs[i].va >= PROC_START * PAGESIZE
       /\ p.segs[i].filesz <= p.segs[i].memsz
       /\ p.segs[i].va + p.segs[i].memsz <= STACK * PAGESIZE
       /\ \A j \in 1 .. i - 1 : p.segs[j].load =>
            p.segs[j].va + p.segs[j].memsz <= p.segs[i].va

\* The programs' files are data of the kernel, in the file part of segments
\* that lie in the kernel's file as they do in memory, and pageinfo_init()
\* marks the kernel's pages.
ASSUME ImagesAssumption ==
  \A image \in KernelImages :
    /\ \A i \in DOMAIN image : \A a \in image[i].va .. image[i].va + image[i].memsz - 1 :
         a \div PAGESIZE \in NotFree
    /\ \A p \in Programs : \A j \in DOMAIN p.segs : p.segs[j].load =>
         \A k \in 0 .. p.segs[j].filesz - 1 : \E i \in DOMAIN image :
           /\ p.begin + p.segs[j].offset + k
                \in image[i].va .. image[i].va + image[i].filesz - 1
           /\ image[i].va - image[i].offset = image[1].va - image[1].offset

VARIABLES
  used,   \* pages assigned to processes
  pc,     \* where kernel() is
  pid,    \* the process being set up
  prog,   \* the program each process runs
  seg,    \* the segment being loaded
  va      \* loop variable: a virtual page

loadVars == <<used, pc, pid, prog, seg, va>>
vars == <<mem, bootVars, PagingVars, loadVars>>

NoProgram == [begin |-> 0, segs |-> <<>>]

Init ==
  /\ BootInit /\ PagingInit
  /\ used = {} /\ pc = "boot" /\ pid = 0 /\ seg = 0 /\ va = 0
  /\ prog = [o \in Owners |-> NoProgram]

-----------------------------------------------------------------------------
(* kernel() up to the first process *)

\* set_pagetable()'s assertions
Settable(o) ==
  /\ \A v \in KernelCode \cup {tables[0]["L1"]} : LookupOf(o, v).pn = v
  /\ LookupOf(0, tables[o]["L1"]).pn = tables[o]["L1"]

\* virtual_memory_init() and the two calls that follow it in kernel()
KernelInit ==
  /\ boot.pc \in {"jump", "kernel"} /\ pc = "boot"
  /\ NewTables(0, KernelTables)
  /\ boot' = [boot EXCEPT !.pc = "kernel"]
  /\ pc' = "identity"
  /\ UNCHANGED <<mem, disk, ph, magic, used, pid, prog, seg, va>>

MapIdentity ==
  /\ pc = "identity"
  /\ MapCall(0, 0, 0, NPAGES, PTE_PWU)
  /\ pc' = "protect"
  /\ UNCHANGED <<mem, bootVars, used, pid, prog, seg, va>>

Protect ==
  /\ pc = "protect"
  /\ \A v \in Pages : LookupOf(0, v).pn = v /\ PTE_PW \subseteq LookupOf(0, v).perm
  /\ Settable(0)
  /\ MapCall(0, 0, 0, PROC_START, PTE_PW)
  /\ pc' = "console"
  /\ UNCHANGED <<mem, bootVars, used, pid, prog, seg, va>>

OpenConsole ==
  /\ pc = "console"
  /\ MapCall(0, CONSOLE, CONSOLE, 1, PTE_PWU)
  /\ pc' = "setup" /\ pid' = 1
  /\ UNCHANGED <<mem, bootVars, used, prog, seg, va>>

-----------------------------------------------------------------------------
(* process_setup() *)

FreePages == Pages \ (NotFree \cup used)

\* the page alloc_page_process() finds when k others have just been taken
Nth(k) == CHOOSE pn \in FreePages : Cardinality({q \in FreePages : q < pn}) = k

LevelOrder == [L1 |-> 0, L2 |-> 1, L3 |-> 2, L4_1 |-> 3, L4_2 |-> 4]

\* duplicate_pagetable() for a process that is to run program p; it relies on
\* five free pages, for it clears them before it looks whether it got them.
Setup(p) ==
  LET T == [l \in Levels |-> Nth(LevelOrder[l])]
  IN  /\ pc = "setup" /\ pid <= NLOAD
      /\ T \in [Levels -> FreePages]
      /\ NewTables(pid, T)
      /\ used' = used \cup {T[l] : l \in Levels}
      /\ prog' = [prog EXCEPT ![pid] = p]
      /\ pc' = "duplicate" /\ va' = 0
      /\ UNCHANGED <<mem, bootVars, pid, seg>>

DuplicatePage ==
  /\ pc = "duplicate" /\ va < PROC_START
  /\ MapCall(pid, va, LookupOf(0, va).pn, 1, LookupOf(0, va).perm)
  /\ va' = va + 1
  /\ UNCHANGED <<mem, bootVars, used, pc, pid, prog, seg>>

\* program_load() starts, or goes on with the next segment.
Goto(next) ==
  IF next > Len(prog[pid].segs) THEN pc' = "stack" /\ seg' = 0 /\ va' = STACK
  ELSE /\ seg' = next
       /\ va' = prog[pid].segs[next].va \div PAGESIZE
       /\ pc' = IF prog[pid].segs[next].load THEN "allocate" ELSE "skip"

StartLoading ==
  /\ pc = "duplicate" /\ va >= PROC_START /\ Idle
  /\ Goto(1)
  /\ UNCHANGED <<mem, bootVars, PagingVars, used, pid, prog>>

SkipSegment ==
  /\ pc = "skip"
  /\ Goto(seg + 1)
  /\ UNCHANGED <<mem, bootVars, PagingVars, used, pid, prog>>

\* program_load_segment(): one page of the segment at a time
Segment == prog[pid].segs[seg]
EndMem  == Segment.va + Segment.memsz

AllocatePage ==
  /\ pc = "allocate" /\ va * PAGESIZE < EndMem /\ call.ret = 0
  /\ FreePages # {}
  /\ MapCall(pid, va, Nth(0), 1, PTE_PWU)
  /\ used' = used \cup {Nth(0)}
  /\ va' = va + 1
  /\ UNCHANGED <<mem, bootVars, pc, pid, prog, seg>>

\* no page, or no page table for it: process_setup() asserts that r >= 0
LoadFails ==
  /\ pc = "allocate" /\ Idle
  /\ call.ret = -1 \/ (va * PAGESIZE < EndMem /\ FreePages = {})
  /\ pc' = "panic"
  /\ UNCHANGED <<mem, bootVars, PagingVars, used, pid, prog, seg, va>>

\* The physical address the processor uses for address a of process o
Physical(o, a) ==
  HardwareWalk(tab, tables[o]["L1"], a \div PAGESIZE).pn * PAGESIZE + (a % PAGESIZE)

\* Mutant: only the file's part of the segment is written.
Copied_NoClear ==
  LET src == prog[pid].begin + Segment.offset
      at  == [k \in 0 .. Segment.filesz - 1 |-> Physical(pid, Segment.va + k)]
  IN  [a \in DOMAIN mem |->
         IF \E k \in DOMAIN at : at[k] = a
         THEN mem[src + CHOOSE k \in DOMAIN at : at[k] = a]
         ELSE mem[a]]

\* memory after the memcpy() and memset() through the process's page table
Copied ==
  LET src == prog[pid].begin + Segment.offset
      at  == [k \in 0 .. Segment.memsz - 1 |-> Physical(pid, Segment.va + k)]
      from(k) == IF k < Segment.filesz THEN mem[src + k] ELSE 0
  IN  [a \in DOMAIN mem |->
         IF \E k \in DOMAIN at : at[k] = a
         THEN from(CHOOSE k \in DOMAIN at : at[k] = a)
         ELSE mem[a]]

CopySegment ==
  /\ pc = "allocate" /\ va * PAGESIZE >= EndMem /\ Idle /\ call.ret = 0
  /\ Settable(pid)
  /\ mem' = Copied
  /\ pc' = "readonly" /\ va' = Segment.va \div PAGESIZE
  /\ UNCHANGED <<bootVars, PagingVars, used, pid, prog, seg>>

\* Mutant: the segment's flags are not looked at.
ReadOnlyPage_Always ==
  /\ pc = "readonly" /\ va * PAGESIZE < EndMem
  /\ MapCall(pid, va, LookupOf(pid, va).pn, 1, PTE_PU)
  /\ va' = va + 1
  /\ UNCHANGED <<mem, bootVars, used, pc, pid, prog, seg>>

ReadOnlyPage ==
  /\ pc = "readonly" /\ va * PAGESIZE < EndMem /\ ~Segment.write
  /\ MapCall(pid, va, LookupOf(pid, va).pn, 1, PTE_PU)
  /\ va' = va + 1
  /\ UNCHANGED <<mem, bootVars, used, pc, pid, prog, seg>>

SegmentDone ==
  /\ pc = "readonly" /\ (Segment.write \/ va * PAGESIZE >= EndMem) /\ Idle
  /\ Settable(0)
  /\ Goto(seg + 1)
  /\ UNCHANGED <<mem, bootVars, PagingVars, used, pid, prog>>

\* sys_page_alloc_find_free() for the stack; its failure is not noticed.
GiveStack ==
  /\ pc = "stack"
  /\ IF FreePages = {} THEN UNCHANGED <<PagingVars, used>>
     ELSE MapCall(pid, STACK, Nth(0), 1, PTE_PWU) /\ used' = used \cup {Nth(0)}
  /\ pc' = "setup" /\ pid' = pid + 1
  /\ UNCHANGED <<mem, bootVars, prog, seg, va>>

-----------------------------------------------------------------------------
(* After boot *)

RunFirst ==
  /\ pc = "setup" /\ pid > NLOAD /\ Idle
  /\ Settable(1)
  /\ pc' = "user"
  /\ UNCHANGED <<mem, bootVars, PagingVars, used, pid, prog, seg, va>>

\* sys_page_alloc() of a process for a page it does not have
UserAlloc(o, v) ==
  /\ pc = "user" /\ FreePages # {} /\ LookupOf(o, v) = Unmapped
  /\ MapCall(o, v, Nth(0), 1, PTE_PWU)
  /\ used' = used \cup {Nth(0)}
  /\ UNCHANGED <<mem, bootVars, pc, pid, prog, seg, va>>

\* A soft reboot enters kernel() again; memory keeps its contents.
Reboot ==
  /\ pc \in {"user", "panic"}
  /\ ForgetTables
  /\ used' = {} /\ pc' = "boot" /\ pid' = 0 /\ seg' = 0 /\ va' = 0
  /\ prog' = [o \in Owners |-> NoProgram]
  /\ UNCHANGED <<mem, bootVars>>

MapStep == MapPage /\ UNCHANGED <<mem, bootVars, loadVars>>

BootStep == BootNext /\ UNCHANGED <<PagingVars, loadVars>>

\* Without an ELF header the boot loader waits forever.
Hang == boot.pc = "hang" /\ UNCHANGED vars

KernelStep ==
  \/ KernelInit \/ MapIdentity \/ Protect \/ OpenConsole
  \/ \E p \in Programs : Setup(p)
  \/ DuplicatePage \/ StartLoading \/ SkipSegment
  \/ AllocatePage \/ LoadFails \/ CopySegment \/ ReadOnlyPage \/ SegmentDone
  \/ GiveStack \/ RunFirst

Next ==
  \/ BootStep \/ MapStep \/ KernelStep
  \/ \E o \in 1 .. NLOAD, v \in {w \in VPages : w >= PROC_START} : UserAlloc(o, v)
  \/ Reboot \/ Hang

\* The boot loader and the kernel go on by themselves, and the drive answers.
Spec ==
  /\ Init /\ [][Next]_vars
  /\ WF_vars(BootStep) /\ WF_vars(MapStep) /\ WF_vars(KernelStep)

-----------------------------------------------------------------------------
(* Properties *)

\* byte k of segment s of program p: the file's byte, as the kernel's file on
\* the disk has it, or zero past the file's part
ImageByte(p, s, k) ==
  IF k < s.filesz THEN SECTORSIZE + ph[1].offset + (p.begin - ph[1].va) + s.offset + k ELSE 0

\* what the program may do with the pages of segment s
Granted(s) == IF s.write THEN PTE_PWU ELSE PTE_PU

\* A program starts with its image in place: every byte of every segment, read
\* by the processor through the process's page table, is the file's byte or,
\* past the file's part, zero; the page is open to the program, and writable
\* only if the segment is.  Pages that held other programs before a reboot,
\* and half-empty last pages, make no difference.
ProgramsLoaded ==
  pc = "user" =>
    \A o \in 1 .. NLOAD : \A i \in DOMAIN prog[o].segs :
      LET s == prog[o].segs[i]
      IN  s.load => \A k \in 0 .. s.memsz - 1 :
            /\ mem[Physical(o, s.va + k)] = ImageByte(prog[o], s, k)
            /\ HardwareWalk(tab, tables[o]["L1"], (s.va + k) \div PAGESIZE).perm = Granted(s)

\* A machine with a bootable disk comes to run its programs, or panics because
\* they do not fit in memory.
BootFinishes == boot.pc # "hang" /\ magic ~> pc \in {"user", "panic"}

-----------------------------------------------------------------------------
(* The invariants behind them *)

\* The process being set up is one of the NLOAD.
SetupInv ==
  /\ pid \in Nat
  /\ pc = "setup" => pid >= 1
  /\ pc \in {"duplicate", "allocate", "skip", "readonly", "stack"} => pid \in 1 .. NLOAD

\* The inductive invariant behind LookupIsHardware and ImplementsAddressSpace:
\* every owner's tables are linked as they were built and share no page, a call
\* of virtual_memory_map() in progress remembers no stale L4 table (PInv), and
\* process_setup() works on a process of its own.
LInv == PInv /\ SetupInv

\* The inductive invariant behind KernelLoaded: until kernel() is entered the
\* boot loader is at work alone, and its loops have read what BInv says.
BootInv == boot.pc # "kernel" => BInv /\ pc = "boot"

\* The user pages that the processes' tables show are pages of their own, taken
\* from the free ones.
User == {v \in VPages : v >= PROC_START}

Page(o, v) == Mappings[o][v]

FramesOwn ==
  /\ used \subseteq Pages /\ used \cap NotFree = {}
  /\ \A o \in 1 .. NLOAD, v \in User : Page(o, v) # Unmapped =>
       /\ Page(o, v).pn \in used
       /\ \A q \in 1 .. NLOAD, w \in User : Page(q, w).pn = Page(o, v).pn => q = o /\ w = v

\* the call in progress maps a page that no process has yet
Fresh ==
  /\ call.perm = PTE_PWU /\ call.pn \in used
  /\ \A o \in 1 .. NLOAD, v \in User : Page(o, v).pn # call.pn

\* What the call of virtual_memory_map() in progress may be, by its caller
CallersPage ==
  call.n # 0 =>
    \/ call.owner = 0 /\ pc \in {"protect", "console", "setup"}
    \/ /\ call.n = 1 /\ call.owner \in 1 .. NLOAD
       /\ \/ pc = "duplicate" /\ call.v < PROC_START
          \/ /\ pc = "allocate" /\ Fresh
             /\ call.owner = pid /\ call.v = va - 1 /\ InSegment(Segment, call.v)
          \/ /\ pc = "readonly" /\ ~Segment.write
             /\ call.owner = pid /\ call.v = va - 1 /\ InSegment(Segment, call.v)
             /\ call.perm = PTE_PU /\ call.pn = Page(pid, call.v).pn
          \/ pc = "setup" /\ Fresh /\ call.v = STACK
          \/ pc = "user" /\ Fresh /\ call.v \in User /\ Page(call.owner, call.v) = Unmapped

\* the physical address of address a of process o, by what lookup shows
ByteAt(o, a) == Page(o, a \div PAGESIZE).pn * PAGESIZE + (a % PAGESIZE)

\* The bytes of segment s of process o are in place ...
BytesInPlace(o, s) ==
  \A k \in 0 .. s.memsz - 1 : mem[ByteAt(o, s.va + k)] = ImageByte(prog[o], s, k)

\* ... and its pages are open to the program.
SegmentIn(o, s) ==
  s.load => /\ BytesInPlace(o, s)
            /\ \A v \in User : InSegment(s, v) => Page(o, v).perm = Granted(s)

\* How far program_load() is: the earlier segments are in, the present one has
\* its pages up to va, or has its bytes and is read-only up to va.
Loading ==
  /\ pc \in {"allocate", "skip", "readonly"} =>
       /\ seg \in DOMAIN prog[pid].segs
       /\ Segment.load <=> pc # "skip"
       /\ \A i \in 1 .. seg - 1 : SegmentIn(pid, prog[pid].segs[i])
  /\ pc = "stack" => \A i \in DOMAIN prog[pid].segs : SegmentIn(pid, prog[pid].segs[i])
  /\ pc \in {"allocate", "readonly"} => va >= Segment.va \div PAGESIZE
  /\ pc = "allocate" =>
       \A v \in User :
         InSegment(Segment, v) /\ v < va /\ (v = va - 1 => Idle /\ call.ret = 0) =>
           Page(pid, v).perm = PTE_PWU
  /\ pc = "readonly" =>
       /\ BytesInPlace(pid, Segment)
       /\ \A v \in User : InSegment(Segment, v) =>
            Page(pid, v).perm = IF v < va /\ (v = va - 1 => Idle) /\ ~Segment.write
                                THEN PTE_PU ELSE PTE_PWU

\* the programs' files in the kernel's memory are as they were on the disk
FilesKept ==
  \A p \in Programs : \A j \in DOMAIN p.segs : p.segs[j].load =>
    \A k \in 0 .. p.segs[j].filesz - 1 :
      mem[p.begin + p.segs[j].offset + k] = ImageByte(p, p.segs[j], k)

\* The processes set up so far have their images.
EarlierLoaded ==
  \A o \in 1 .. NLOAD : o < pid =>
    \A i \in DOMAIN prog[o].segs : SegmentIn(o, prog[o].segs[i])

\* Where kernel() is, and what its variables may hold
ControlInv ==
  /\ pc # "boot" => boot.pc = "kernel"
  /\ (pc = "boot" => pid = 0) /\ (pc = "user" => pid > NLOAD)
  /\ prog \in [Owners -> Programs \cup {NoProgram}] /\ seg \in Nat /\ va \in Nat

\* Once boot() has jumped, the kernel's memory holds the programs' files.
FilesInv ==
  boot.pc = "kernel" =>
    mem \in [0 .. MEMSIZE - 1 -> Int] /\ ph \in KernelImages /\ FilesKept

\* The inductive invariant behind ProgramsLoaded: the processes set up so far
\* have their images, in pages of their own that no call in progress and no
\* later copy touches, and the programs' files stay as they are.
ImagesInv ==
  ControlInv /\ FilesInv /\ FramesOwn /\ CallersPage /\ EarlierLoaded /\ Loading
=============================================================================
