----------------------------- MODULE BootLoader -----------------------------
(***************************************************************************)
(* The boot loader (boot.c): it reads the kernel's ELF header and then     *)
(* every segment from the disk, sector by sector, clears the rest of each  *)
(* segment and jumps to the kernel.  Memory and disk are byte addressed;   *)
(* the n-th byte of the disk is the number n, so that a byte in memory     *)
(* tells where it came from.  0 is a cleared byte.                         *)
(***************************************************************************)
EXTENDS Integers, Sequences

CONSTANTS
  SECTORSIZE,   \* bytes of a sector (512)
  PAGESIZE,     \* bytes of a page (4096)
  MEMSIZE,      \* bytes of memory
  ELFHDR,       \* where the ELF header is read to (0x10000)
  KernelImages  \* program headers the kernel on the disk may have: sequences
                \* of records of va, offset, filesz and memsz

RoundDown(a, size) == a - (a % size)

\* The linker lays the segments out upwards, in sectors of their own; a header
\* for no memory at all, like the linker's stack note, may be anywhere.  No
\* segment is loaded over the headers, which boot() reads in place.
ASSUME BootAssumption ==
  /\ SECTORSIZE \in Nat \ {0} /\ PAGESIZE \in Nat \ {0} /\ MEMSIZE \in Nat /\ ELFHDR \in Nat
  /\ PAGESIZE % SECTORSIZE = 0 /\ ELFHDR % SECTORSIZE = 0 /\ ELFHDR + PAGESIZE <= MEMSIZE
  /\ KernelImages \subseteq Seq([va : Nat, offset : Nat, filesz : Nat, memsz : Nat])
  /\ \A image \in KernelImages : \A i \in DOMAIN image :
       /\ image[i].filesz <= image[i].memsz
       /\ image[i].va + image[i].memsz <= MEMSIZE
       /\ image[i].offset % SECTORSIZE = image[i].va % SECTORSIZE
       /\ \/ image[i].memsz = 0 \/ image[i].va >= ELFHDR + PAGESIZE
          \/ image[i].va + image[i].memsz <= ELFHDR
       /\ \A j \in 1 .. i - 1 :
            \/ image[i].memsz = 0 /\ image[i].va % SECTORSIZE = 0
            \/ image[j].va + image[j].memsz <= RoundDown(image[i].va, SECTORSIZE)

VARIABLES
  mem,    \* physical memory
  disk,   \* the ATA controller: its status and the sector asked for
  ph,     \* the program headers of the kernel on the disk
  magic,  \* whether the disk holds an ELF file at all
  boot    \* boot_readseg() in progress, and the segments still to read

bootVars == <<disk, ph, magic, boot>>

\* boot_readseg(ptr, sect, filesz, memsz), entered in its first loop; i is the
\* number of the segment, 0 for the header.
ReadSeg(i, ptr, sect, filesz, memsz) ==
  [pc |-> "wait", seg |-> i, ptr |-> RoundDown(ptr, SECTORSIZE), sect |-> sect,
   end |-> ptr + filesz, mem_end |-> ptr + memsz]

BootInit ==
  /\ mem = [a \in 0 .. MEMSIZE - 1 |-> 0]
  /\ disk = [status |-> "ready", sect |-> 0]
  /\ ph \in KernelImages
  /\ magic \in BOOLEAN
  /\ boot = ReadSeg(0, ELFHDR, 1, PAGESIZE, PAGESIZE)

\* boot_readsect(): wait until the disk is ready, give it the command, wait
\* again, and move the data into memory.
Command ==
  /\ boot.pc = "wait" /\ boot.ptr < boot.end
  /\ disk.status = "ready"
  /\ disk' = [status |-> "busy", sect |-> boot.sect]
  /\ boot' = [boot EXCEPT !.pc = "data"]
  /\ UNCHANGED <<mem, ph, magic>>

\* The disk drive (external) finishes a command.
DiskReady ==
  /\ disk.status = "busy"
  /\ disk' = [disk EXCEPT !.status = "ready"]
  /\ UNCHANGED <<mem, ph, magic, boot>>

\* Mutant: the loop of boot_readseg() does not advance.
Transfer_NoAdvance ==
  /\ boot.pc = "data" /\ disk.status = "ready"
  /\ mem' = [a \in DOMAIN mem |->
               IF a \in boot.ptr .. boot.ptr + SECTORSIZE - 1
               THEN disk.sect * SECTORSIZE + (a - boot.ptr) ELSE mem[a]]
  /\ boot' = [boot EXCEPT !.pc = "wait"]
  /\ UNCHANGED <<disk, ph, magic>>

Transfer ==
  /\ boot.pc = "data" /\ disk.status = "ready"
  /\ mem' = [a \in DOMAIN mem |->
               IF a \in boot.ptr .. boot.ptr + SECTORSIZE - 1
               THEN disk.sect * SECTORSIZE + (a - boot.ptr) ELSE mem[a]]
  /\ boot' = [boot EXCEPT !.pc = "wait", !.ptr = @ + SECTORSIZE, !.sect = @ + 1]
  /\ UNCHANGED <<disk, ph, magic>>

\* Mutant: the sector number does not count the boot sector.
NextSeg_NoBootSector(i) ==
  IF i > Len(ph) THEN [boot EXCEPT !.pc = "jump"]
  ELSE ReadSeg(i, ph[i].va, ph[i].offset \div SECTORSIZE, ph[i].filesz, ph[i].memsz)

\* boot() goes on with segment i, or jumps to the kernel.
NextSeg(i) ==
  IF i > Len(ph) THEN [boot EXCEPT !.pc = "jump"]
  ELSE ReadSeg(i, ph[i].va, ph[i].offset \div SECTORSIZE + 1, ph[i].filesz, ph[i].memsz)

\* The second loop of boot_readseg() clears the bss, and boot() goes on.  A
\* header without the magic number stops it for good.
ClearBss ==
  /\ boot.pc = "wait" /\ boot.ptr >= boot.end
  /\ mem' = [a \in DOMAIN mem |->
               IF a \in boot.end .. boot.mem_end - 1 THEN 0 ELSE mem[a]]
  /\ boot' = IF boot.seg = 0 /\ ~magic THEN [boot EXCEPT !.pc = "hang"]
             ELSE NextSeg(boot.seg + 1)
  /\ UNCHANGED <<disk, ph, magic>>

BootNext == Command \/ DiskReady \/ Transfer \/ ClearBss

-----------------------------------------------------------------------------
(* Properties *)

\* Segment i of the kernel is in memory.
SegmentLoaded(i) ==
  /\ \A k \in 0 .. ph[i].filesz - 1 : mem[ph[i].va + k] = SECTORSIZE + ph[i].offset + k
  /\ \A k \in ph[i].filesz .. ph[i].memsz - 1 : mem[ph[i].va + k] = 0

\* When boot() jumps, the file part of every segment is in memory, taken from
\* the kernel's file, which starts at sector 1 of the disk, and the rest of the
\* segment is zero, whatever whole sectors were read over it.
KernelLoaded == boot.pc = "jump" => \A i \in DOMAIN ph : SegmentLoaded(i)

\* Segment i has been read up to boot.ptr, and boot.sect is the sector that
\* holds the byte for boot.ptr.
SegmentRead(i) ==
  /\ boot.end = ph[i].va + ph[i].filesz /\ boot.mem_end = ph[i].va + ph[i].memsz
  /\ boot.ptr >= RoundDown(ph[i].va, SECTORSIZE)
  /\ boot.sect * SECTORSIZE = SECTORSIZE + ph[i].offset + (boot.ptr - ph[i].va)
  /\ \A k \in 0 .. ph[i].filesz - 1 :
       ph[i].va + k < boot.ptr => mem[ph[i].va + k] = SECTORSIZE + ph[i].offset + k

\* The inductive invariant behind KernelLoaded: earlier segments are complete,
\* the present one is as far as the loop says, and the drive holds the sector
\* the loop asked for.
BInv ==
  /\ mem \in [0 .. MEMSIZE - 1 -> Int]
  /\ ph \in KernelImages
  /\ disk \in [status : {"ready", "busy"}, sect : Int]
  /\ boot \in [pc : {"wait", "data", "jump", "hang"}, seg : 0 .. Len(ph),
               ptr : Int, sect : Int, end : Int, mem_end : Int]
  /\ boot.pc \in {"wait", "data"} =>
       /\ \A i \in 1 .. boot.seg - 1 : SegmentLoaded(i)
       /\ boot.seg # 0 => SegmentRead(boot.seg)
  /\ boot.pc = "data" => boot.ptr < boot.end /\ disk.sect = boot.sect
  /\ KernelLoaded
=============================================================================
