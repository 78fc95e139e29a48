------------------------------ MODULE PageInfo ------------------------------
(***************************************************************************)
(* Physical memory of WeensyOS: the pageinfo[] array of kernel.c and the   *)
(* operations that hand out and initialise physical pages.  A page is      *)
(* named by its page number (PAGENUMBER), so address 0 is page 0, which is *)
(* also what a NULL pointer means to the kernel: physical memory is        *)
(* identity mapped and page 0 can be written through NULL.                 *)
(***************************************************************************)
EXTENDS Integers, FiniteSets

CONSTANTS
  NPAGES,         \* number of physical pages (512)
  ReservedPages,  \* pages physical_memory_isreserved() answers true for
  KernelPages,    \* the kernel's image and its stack page
  REF_HALF        \* refcount is an int8_t: -REF_HALF .. REF_HALF-1 (128)

Pages == 0 .. NPAGES - 1

ASSUME PageAssumption ==
  /\ NPAGES \in Nat
  /\ ReservedPages \subseteq Pages
  /\ KernelPages \subseteq Pages
  /\ ReservedPages \cap KernelPages = {}
  /\ 0 \in ReservedPages
  /\ REF_HALF \in Nat \ {0}

NULL == 0

PO_FREE     == 0
PO_RESERVED == -1
PO_KERNEL   == -2

\* The value an int8_t counter holds after the sum x is stored in it.
Int8(x) == ((x + REF_HALF) % (2 * REF_HALF)) - REF_HALF

Info(owner, refcount) == [owner |-> owner, refcount |-> refcount]

\* Mutant: the I/O range is not recognised as reserved.
pageinfo_init_NoReserved ==
  [pn \in Pages |-> IF pn \in KernelPages \cup {0} THEN Info(PO_KERNEL, 1)
                    ELSE Info(PO_FREE, 0)]

pageinfo_init ==
  [pn \in Pages |->
     IF pn \in ReservedPages THEN Info(PO_RESERVED, 1)
     ELSE IF pn \in KernelPages THEN Info(PO_KERNEL, 1)
     ELSE Info(PO_FREE, 0)]

-----------------------------------------------------------------------------
(***************************************************************************)
(* Allocation.  Every allocation of the kernel scans pageinfo[] from page  *)
(* 1 for the first entry with refcount 0.  A handler that allocates for    *)
(* several purposes in a row (five page tables, then one page for every    *)
(* virtual address in ascending order) therefore gives the k-th purpose    *)
(* the k-th lowest free page, and NULL once the pages have run out, as     *)
(* long as it frees nothing in between: fork's counting of shared pages,   *)
(* which may wrap a count around to 0, is treated apart (Kernel!ForkPages).*)
(* The purposes are integers, and S is the set of them.                    *)
(***************************************************************************)
\* Mutant: the scan runs one entry past the end of the array.
FreePages_OffByOne(info) ==
  {pn \in 1 .. NPAGES : pn = NPAGES \/ info[pn].refcount = 0}

FreePages(info) == {pn \in 1 .. NPAGES - 1 : info[pn].refcount = 0}

Rank(S, x) == Cardinality({y \in S : y < x})

\* alloc_page_process() called once for each member of S, in ascending order
Allocate(info, S) ==
  LET free == FreePages(info)
      Fits(s) == {pn \in free : Rank(free, pn) = Rank(S, s)}
  IN  [s \in S |-> IF Fits(s) = {} THEN NULL ELSE CHOOSE pn \in Fits(s) : TRUE]

\* assign_physical_page() for every page of the allocation `got`
Assign(info, got, owner) ==
  [pn \in Pages |->
     IF pn # NULL /\ \E s \in DOMAIN got : got[s] = pn
     THEN Info(owner, 1)
     ELSE info[pn]]
=============================================================================
