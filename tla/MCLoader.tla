------------------------------ MODULE MCLoader ------------------------------
(* Loader on a machine of 18 pages of 4 bytes and sectors of 2 bytes. *)
EXTENDS Loader

\* The kernel lies in pages 5 and 6 (bytes 20 to 27), in one segment or two, its
\* page tables in pages 1 to 4 and 7.  The file's part ends at or inside a
\* sector; the last header, like the linker's stack note, is empty.
KernelHeader(at, offset, filesz, memsz) ==
  [va |-> at, offset |-> offset, filesz |-> filesz, memsz |-> memsz]

MCKernelImages ==
  {<<KernelHeader(20, 4, f, 8), KernelHeader(0, 0, 0, 0)>> : f \in {7, 8}}
    \cup {<<KernelHeader(20, 4, 4, 4), KernelHeader(24, 8, 3, 4), KernelHeader(0, 0, 0, 0)>>}

MCKernelTables == [L1 |-> 1, L2 |-> 2, L3 |-> 3, L4_1 |-> 4, L4_2 |-> 7]

Header(at, offset, filesz, memsz, load, write) ==
  [va |-> at, offset |-> offset, filesz |-> filesz, memsz |-> memsz,
   load |-> load, write |-> write]

\* Three programs: one of a page of code and no initialised data, like the
\* shipped ones; one of two pages of code and two of data, which leaves no page
\* for the stack; one that does not fit in memory.
MCPrograms ==
  {[begin |-> 20,
    segs |-> <<Header(40, 1, 3, 3, TRUE, FALSE), Header(44, 0, 0, 2, TRUE, TRUE)>>],
   [begin |-> 21,
    segs |-> <<Header(0, 0, 0, 0, FALSE, TRUE), Header(40, 0, 5, 5, TRUE, FALSE),
               Header(48, 5, 1, 7, TRUE, TRUE)>>],
   [begin |-> 20, segs |-> <<Header(40, 0, 4, 20, TRUE, TRUE)>>]}
=============================================================================
