---------------------------- MODULE LoaderProofs ----------------------------
(***************************************************************************)
(* Processes start with their programs' images in place, for every size of *)
(* a page and of memory, all programs the linker lays out and every number *)
(* of processes.                                                           *)
(***************************************************************************)
EXTENDS PagingProofs

\* A leaf is Zenon's unless it names SMT, as the ones with arithmetic do.
USE ZenonT(20)

-----------------------------------------------------------------------------
(* Images that stay in place *)

\* The processes' programs are programs.
LEMMA ProcessSegments ==
  ASSUME ControlInv, NEW o \in 1 .. NLOAD, NEW i \in DOMAIN prog[o].segs
  PROVE  /\ prog[o] \in Programs
         /\ prog[o].segs[i].load => LaidOut(prog[o].segs[i])
<1>1. prog[o] \in Programs \cup {NoProgram}
  BY LoaderAssumption DEF ControlInv
<1>2. prog[o] # NoProgram
  BY SMTT(20) DEF NoProgram
<1>3. QED
  BY <1>1, <1>2, SegmentsLaidOut

\* A segment stays as it is if its pages do and nothing is written to them.
LEMMA SegmentStays ==
  ASSUME NEW o, NEW s, LaidOut(s), prog'[o] = prog[o], ph' = ph,
         \A v \in User : InSegment(s, v) => Page(o, v)'.pn = Page(o, v).pn,
         \A k \in 0 .. s.memsz - 1 : mem'[ByteAt(o, s.va + k)] = mem[ByteAt(o, s.va + k)],
         BytesInPlace(o, s)
  PROVE  BytesInPlace(o, s)'
<1> SUFFICES ASSUME NEW k \in 0 .. s.memsz - 1
             PROVE  mem'[ByteAt(o, s.va + k)'] = ImageByte(prog[o], s, k)'
  BY DEF BytesInPlace
<1>1. (s.va + k) \div PAGESIZE \in User /\ InSegment(s, (s.va + k) \div PAGESIZE)
  BY SegmentBytes
<1>2. ByteAt(o, s.va + k)' = ByteAt(o, s.va + k)
  BY <1>1 DEF ByteAt
<1>3. ImageByte(prog[o], s, k)' = ImageByte(prog[o], s, k)
  BY DEF ImageByte
<1>4. mem'[ByteAt(o, s.va + k)] = mem[ByteAt(o, s.va + k)]
  OBVIOUS
<1>5. mem[ByteAt(o, s.va + k)] = ImageByte(prog[o], s, k)
  BY DEF BytesInPlace
<1>6. QED
  BY <1>2, <1>3, <1>4, <1>5

\* The segments of a process stay if memory and the process's pages do.
LEMMA ImageStays ==
  ASSUME ControlInv, UNCHANGED <<mem, ph>>, NEW o \in 1 .. NLOAD, prog'[o] = prog[o],
         NEW i \in DOMAIN prog[o].segs, SegmentIn(o, prog[o].segs[i]),
         \A v \in User : InSegment(prog[o].segs[i], v) => Page(o, v)' = Page(o, v)
  PROVE  SegmentIn(o, prog[o].segs[i])'
<1>1. PICK s : s = prog[o].segs[i] /\ prog'[o].segs[i] = s
  OBVIOUS
<1>2. s.load => LaidOut(s)
  BY <1>1, ProcessSegments
<1>3. SegmentIn(o, s) /\ \A v \in User : InSegment(s, v) => Page(o, v)' = Page(o, v)
  BY <1>1
<1>4. s.load => BytesInPlace(o, s)'
  BY <1>2, <1>3, SegmentStays DEF SegmentIn
<1>5. SegmentIn(o, s)'
  BY <1>3, <1>4 DEF SegmentIn
<1>6. QED
  BY <1>1, <1>5

-----------------------------------------------------------------------------
(* Control *)

\* The number of a program's segments
LEMMA LengthOf ==
  ASSUME ControlInv, NEW o \in 1 .. NLOAD
  PROVE  Len(prog[o].segs) \in Nat /\ DOMAIN prog[o].segs = 1 .. Len(prog[o].segs)
<1>1. prog[o] \in Programs \cup {NoProgram}
  BY LoaderAssumption DEF ControlInv
<1>2. CASE prog[o] = NoProgram
  BY SMTT(20), <1>2 DEF NoProgram
<1>3. CASE prog[o] \in Programs
  <2>1. \E H : prog[o].segs \in Seq(H)
    BY <1>3, ProgramsAssumption
  <2>2. QED
    BY SMTT(20), <2>1
<1>4. QED
  BY <1>1, <1>2, <1>3

\* program_load() goes on with a segment of the program, or with the stack.
LEMMA GotoControl ==
  ASSUME ControlInv, pc # "boot", pid \in 1 .. NLOAD, NEW next \in Nat \ {0}, Goto(next),
         UNCHANGED <<boot, pid, prog>>
  PROVE  /\ ControlInv'
         /\ \/ next > Len(prog[pid].segs) /\ pc' = "stack"
            \/ /\ next \in DOMAIN prog[pid].segs /\ seg' = next
               /\ va' = prog[pid].segs[next].va \div PAGESIZE
               /\ pc' = IF prog[pid].segs[next].load THEN "allocate" ELSE "skip"
<1>1. CASE next > Len(prog[pid].segs)
  <2>1. pc' = "stack" /\ seg' = 0 /\ va' = STACK
    BY <1>1 DEF Goto
  <2>2. 0 \in Nat /\ STACK \in Nat
    BY SMTT(20), LoaderAssumption
  <2>3. QED
    BY <1>1, <2>1, <2>2 DEF ControlInv
<1>2. CASE ~(next > Len(prog[pid].segs))
  <2>1. /\ seg' = next /\ va' = prog[pid].segs[next].va \div PAGESIZE
        /\ pc' = IF prog[pid].segs[next].load THEN "allocate" ELSE "skip"
    BY <1>2 DEF Goto
  <2>2. next \in DOMAIN prog[pid].segs
    <3>1. Len(prog[pid].segs) \in Nat /\ DOMAIN prog[pid].segs = 1 .. Len(prog[pid].segs)
      BY LengthOf
    <3>2. QED
      BY SMTT(20), <1>2, <3>1
  <2>3. prog[pid].segs[next].va \div PAGESIZE \in Nat
    BY <2>2, ProcessSegments, ProgramHeaders, PageOf
  <2>4. next \in Nat /\ pc' \notin {"boot", "user"}
    BY <2>1
  <2>5. QED
    BY <2>1, <2>2, <2>3, <2>4 DEF ControlInv
<1>3. QED
  BY <1>1, <1>2

\* kernel() is entered once the kernel is loaded, and loads one process after
\* the other.
LEMMA ControlStep ==
  ASSUME LInv, BootInv, ImagesInv, [Next]_vars
  PROVE  ControlInv'
<1>0. ControlInv /\ SetupInv
  BY DEF LInv, ImagesInv
<1>1. ASSUME UNCHANGED <<boot, pc, pid, prog, seg, va>> PROVE ControlInv'
  BY <1>0, <1>1 DEF ControlInv
<1>2. ASSUME pc # "boot", pc' \notin {"boot", "user"}, UNCHANGED <<boot, pid, prog, seg>>, va' \in Nat
      PROVE  ControlInv'
  BY <1>0, <1>2 DEF ControlInv
<1>3. CASE UNCHANGED vars \/ Hang
  BY <1>1, <1>3 DEF Hang, vars, bootVars, loadVars
<1>4. CASE BootStep
  <2>1. boot.pc = "kernel" => boot'.pc = "kernel"
    BY <1>4 DEF BootStep, BootNext, Command, DiskReady, Transfer, ClearBss
  <2>2. QED
    BY <1>0, <1>4, <2>1 DEF BootStep, loadVars, ControlInv
<1>5. CASE MapStep
  BY <1>1, <1>5 DEF MapStep, bootVars, loadVars
<1>6. CASE \E o \in 1 .. NLOAD, v \in {w \in VPages : w >= PROC_START} : UserAlloc(o, v)
  BY <1>1, <1>6 DEF UserAlloc, bootVars
<1>7. CASE Reboot
  <2>1. NoProgram \in Programs \cup {NoProgram} /\ 0 \in Nat
    OBVIOUS
  <2>2. QED
    BY <1>0, <1>7, <2>1 DEF Reboot, ControlInv
<1>8. CASE KernelInit
  <2>1. boot'.pc = "kernel"
    BY SMTT(20), <1>8 DEF KernelInit, BootInv, BInv
  <2>2. pc = "boot" /\ pc' = "identity" /\ UNCHANGED <<pid, prog, seg, va>>
    BY <1>8 DEF KernelInit
  <2>3. QED
    BY <1>0, <2>1, <2>2 DEF ControlInv
<1>9. CASE MapIdentity \/ Protect
  BY <1>0, <1>2, <1>9 DEF MapIdentity, Protect, bootVars, ControlInv
<1>10. CASE OpenConsole
  BY <1>0, <1>10 DEF OpenConsole, bootVars, ControlInv
<1>11. ASSUME NEW p \in Programs, Setup(p) PROVE ControlInv'
  <2>1. /\ pc = "setup" /\ prog' = [prog EXCEPT ![pid] = p] /\ pc' = "duplicate" /\ va' = 0
        /\ UNCHANGED <<boot, pid, seg>>
    BY <1>11 DEF Setup, bootVars
  <2>2. prog' \in [Owners -> Programs \cup {NoProgram}] /\ 0 \in Nat
    BY <1>0, <2>1 DEF ControlInv
  <2>3. QED
    BY <1>0, <2>1, <2>2 DEF ControlInv
<1>12. CASE DuplicatePage \/ AllocatePage \/ ReadOnlyPage
  <2>1. va' = va + 1 /\ va \in Nat
    BY <1>0, <1>12 DEF DuplicatePage, AllocatePage, ReadOnlyPage, ControlInv
  <2>2. va' \in Nat
    BY SMTT(20), <2>1
  <2>3. QED
    BY <1>2, <1>12, <2>2 DEF DuplicatePage, AllocatePage, ReadOnlyPage, bootVars
<1>13. CASE StartLoading
  <2>1. pid \in 1 .. NLOAD
    BY <1>0, <1>13 DEF StartLoading, SetupInv
  <2>2. 1 \in Nat \ {0}
    BY SMTT(20)
  <2>3. QED
    BY <1>0, <1>13, <2>1, <2>2, GotoControl DEF StartLoading, bootVars
<1>14. CASE SkipSegment \/ SegmentDone
  <2>1. pid \in 1 .. NLOAD /\ seg \in Nat
    BY <1>0, <1>14 DEF SkipSegment, SegmentDone, SetupInv, ControlInv
  <2>2. seg + 1 \in Nat \ {0}
    BY SMTT(20), <2>1
  <2>3. QED
    BY <1>0, <1>14, <2>1, <2>2, GotoControl DEF SkipSegment, SegmentDone, bootVars
<1>15. CASE LoadFails
  BY <1>0, <1>2, <1>15 DEF LoadFails, bootVars, ControlInv
<1>16. CASE CopySegment
  <2>1. /\ pc = "allocate" /\ pc' = "readonly" /\ va' = Segment.va \div PAGESIZE
        /\ UNCHANGED <<boot, pid, prog, seg>>
    BY <1>16 DEF CopySegment, bootVars
  <2>2. pid \in 1 .. NLOAD /\ seg \in DOMAIN prog[pid].segs
    BY <1>0, <2>1 DEF SetupInv, ImagesInv, Loading
  <2>3. Segment.va \div PAGESIZE \in Nat
    BY <1>0, <2>2, ProcessSegments, ProgramHeaders, PageOf DEF Segment
  <2>4. QED
    BY <1>2, <2>1, <2>3
<1>17. CASE GiveStack
  BY <1>0, <1>17 DEF GiveStack, bootVars, ControlInv
<1>18. CASE RunFirst
  BY <1>0, <1>18 DEF RunFirst, bootVars, ControlInv
<1>19. QED
  BY <1>3, <1>4, <1>5, <1>6, <1>7, <1>8, <1>9, <1>10, <1>11, <1>12, <1>13, <1>14, <1>15,
     <1>16, <1>17, <1>18 DEF Next, KernelStep

-----------------------------------------------------------------------------
(* Frames *)

\* A page of a process is one of an owner and a virtual page.
LEMMA UserPage ==
  /\ \A o \in 1 .. NLOAD : o \in Owners /\ o # 0
  /\ \A v \in User : v \in VPages /\ v \in Nat /\ v >= PROC_START
<1>1. \A o \in 1 .. NLOAD : o \in Owners
  BY LoaderAssumption
<1>2. \A o \in 1 .. NLOAD : o # 0
  BY SMTT(20), LoaderAssumption
<1>3. QED
  BY <1>1, <1>2, VPage DEF User

\* Pages that alloc_page_process() takes are nobody's frames.
LEMMA FramesGrow ==
  ASSUME FramesOwn, NEW X, X \subseteq FreePages, used' = used \cup X,
         \A o \in 1 .. NLOAD, v \in User : Page(o, v)' = Page(o, v)
  PROVE  FramesOwn'
<1>1. used' \subseteq Pages /\ used' \cap NotFree = {}
  BY DEF FramesOwn, FreePages
<1>2. ASSUME NEW o \in 1 .. NLOAD, NEW v \in User, Page(o, v)' # Unmapped
      PROVE  /\ Page(o, v)'.pn \in used'
             /\ \A q \in 1 .. NLOAD, w \in User :
                  Page(q, w)'.pn = Page(o, v)'.pn => q = o /\ w = v
  <2>1. Page(o, v)' = Page(o, v)
    OBVIOUS
  <2>2. /\ Page(o, v).pn \in used
        /\ \A q \in 1 .. NLOAD, w \in User : Page(q, w).pn = Page(o, v).pn => q = o /\ w = v
    BY <1>2, <2>1 DEF FramesOwn
  <2>3. \A q \in 1 .. NLOAD, w \in User : Page(q, w)'.pn = Page(q, w).pn
    OBVIOUS
  <2>4. QED
    BY <2>1, <2>2, <2>3
<1>3. QED
  BY <1>1, <1>2 DEF FramesOwn

\* No user page changes.
LEMMA FramesSame ==
  ASSUME FramesOwn, used' = used,
         \A o \in 1 .. NLOAD, v \in User : Page(o, v)' = Page(o, v)
  PROVE  FramesOwn'
<1>1. PICK X : X = {}
  OBVIOUS
<1>2. used' = used \cup X /\ X \subseteq FreePages
  BY <1>1
<1>3. QED
  BY <1>2, FramesGrow

\* A process gets empty tables.
LEMMA FramesCleared ==
  ASSUME FramesOwn, NEW X, X \subseteq FreePages, used' = used \cup X,
         \A o \in 1 .. NLOAD, v \in User : Page(o, v)' = Page(o, v) \/ Page(o, v)' = Unmapped
  PROVE  FramesOwn'
<1>1. used' \subseteq Pages /\ used' \cap NotFree = {}
  BY DEF FramesOwn, FreePages
<1>2. Unmapped.pn \notin Pages
  BY SMTT(20) DEF Unmapped, Mapping, Pages
<1>3. ASSUME NEW o \in 1 .. NLOAD, NEW v \in User, Page(o, v)' # Unmapped
      PROVE  /\ Page(o, v)'.pn \in used'
             /\ \A q \in 1 .. NLOAD, w \in User :
                  Page(q, w)'.pn = Page(o, v)'.pn => q = o /\ w = v
  <2>1. Page(o, v)' = Page(o, v)
    BY <1>3
  <2>2. /\ Page(o, v).pn \in used
        /\ \A q \in 1 .. NLOAD, w \in User : Page(q, w).pn = Page(o, v).pn => q = o /\ w = v
    BY <1>3, <2>1 DEF FramesOwn
  <2>3. Page(o, v)'.pn \in used /\ used \subseteq Pages
    BY <2>1, <2>2 DEF FramesOwn
  <2>4. ASSUME NEW q \in 1 .. NLOAD, NEW w \in User, Page(q, w)'.pn = Page(o, v)'.pn
        PROVE  q = o /\ w = v
    <3>1. Page(q, w)' # Unmapped
      BY <1>2, <2>3, <2>4
    <3>2. Page(q, w)' = Page(q, w)
      BY <3>1
    <3>3. QED
      BY <2>1, <2>2, <2>4, <3>2
  <2>5. QED
    BY <2>3, <2>4
<1>4. QED
  BY <1>1, <1>3 DEF FramesOwn

\* No page of a process has a free frame.
LEMMA FreeFrame ==
  ASSUME FramesOwn, NEW pn \in FreePages, NEW o \in 1 .. NLOAD, NEW v \in User
  PROVE  Page(o, v).pn # pn
<1>1. pn \notin used /\ pn \in Nat
  BY SMTT(20) DEF FreePages, Pages
<1>2. Unmapped.pn \notin Nat
  BY SMTT(20) DEF Unmapped, Mapping
<1>3. CASE Page(o, v) = Unmapped
  BY <1>1, <1>2, <1>3
<1>4. CASE Page(o, v) # Unmapped
  <2>1. Page(o, v).pn \in used
    BY <1>4 DEF FramesOwn
  <2>2. QED
    BY <1>1, <2>1
<1>5. QED
  BY <1>3, <1>4

\* A page from alloc_page_process() is about to be mapped.
LEMMA FreshCall ==
  ASSUME PInv, FramesOwn, FreePages # {}, NEW o, NEW v,
         MapCall(o, v, Nth(0), 1, PTE_PWU), used' = used \cup {Nth(0)}
  PROVE  /\ FramesOwn' /\ Fresh'
         /\ call.n = 0 /\ call'.n = 1 /\ call'.owner = o /\ call'.v = v
         /\ \A q, w : Page(q, w)' = Page(q, w)
<1>1. PICK pn : pn = Nth(0)
  OBVIOUS
<1>2. pn \in FreePages
  BY <1>1, FirstFree
<1>3. /\ call.n = 0 /\ call'.n = 1 /\ call'.owner = o /\ call'.v = v
      /\ call'.pn = pn /\ call'.perm = PTE_PWU
      /\ \A q, w : Page(q, w)' = Page(q, w)
  BY <1>1, PagesCalled
<1>4. used' = used \cup {pn}
  BY <1>1
<1>5. FramesOwn'
  <2>1. {pn} \subseteq FreePages
    BY <1>2
  <2>2. \A q \in 1 .. NLOAD, w \in User : Page(q, w)' = Page(q, w)
    BY <1>3
  <2>3. QED
    BY <1>4, <2>1, <2>2, FramesGrow
<1>6. Fresh'
  <2>1. \A q \in 1 .. NLOAD, w \in User : Page(q, w).pn # pn
    BY <1>2, FreeFrame
  <2>2. \A q \in 1 .. NLOAD, w \in User : Page(q, w)'.pn # call'.pn
    BY <1>3, <2>1
  <2>3. call'.perm = PTE_PWU /\ call'.pn \in used'
    BY <1>3, <1>4
  <2>4. QED
    BY <2>2, <2>3 DEF Fresh
<1>7. QED
  BY <1>3, <1>5, <1>6

\* A page that no process had becomes one page of one process.
LEMMA FreshMapped ==
  ASSUME PInv, FramesOwn, MapPage, used' = used, Fresh, call.owner \in 1 .. NLOAD
  PROVE  FramesOwn'
<1>1. "P" \in call.perm /\ call.pn \in used
  BY DEF Fresh, PTE_PWU
<1>2. ASSUME NEW o \in 1 .. NLOAD, NEW v \in User
      PROVE  \/ Page(o, v)' = Page(o, v) /\ Page(o, v).pn # call.pn
             \/ o = call.owner /\ v = call.v /\ Page(o, v)'.pn = call.pn
  <2>1. Page(o, v)' = IF o = call.owner /\ v = call.v /\ v < 2 * NENT
                      THEN Mapping(call.pn, call.perm) ELSE Page(o, v)
    BY <1>1, UserPage, PageMapped
  <2>2. Page(o, v).pn # call.pn
    BY DEF Fresh
  <2>3. Mapping(call.pn, call.perm).pn = call.pn
    BY DEF Mapping
  <2>4. QED
    BY <2>1, <2>2, <2>3
<1>3. ASSUME NEW o \in 1 .. NLOAD, NEW v \in User, Page(o, v)' # Unmapped
      PROVE  Page(o, v)'.pn \in used
  <2>1. CASE Page(o, v)' = Page(o, v)
    BY <1>3, <2>1 DEF FramesOwn
  <2>2. CASE Page(o, v)'.pn = call.pn
    BY <1>1, <2>2
  <2>3. QED
    BY <1>2, <2>1, <2>2
<1>4. ASSUME NEW o \in 1 .. NLOAD, NEW v \in User, Page(o, v)' # Unmapped,
             NEW q \in 1 .. NLOAD, NEW w \in User, Page(q, w)'.pn = Page(o, v)'.pn
      PROVE  q = o /\ w = v
  <2>1. CASE Page(o, v)' = Page(o, v) /\ Page(o, v).pn # call.pn
    <3>1. Page(q, w)'.pn # call.pn
      BY <1>4, <2>1
    <3>2. Page(q, w)' = Page(q, w)
      BY <1>2, <3>1
    <3>3. Page(o, v) # Unmapped /\ Page(q, w).pn = Page(o, v).pn
      BY <1>4, <2>1, <3>2
    <3>4. QED
      BY <3>3 DEF FramesOwn
  <2>2. CASE o = call.owner /\ v = call.v /\ Page(o, v)'.pn = call.pn
    <3>1. Page(q, w)'.pn = call.pn
      BY <1>4, <2>2
    <3>2. q = call.owner /\ w = call.v
      BY <1>2, <3>1
    <3>3. QED
      BY <2>2, <3>2
  <2>3. QED
    BY <1>2, <2>1, <2>2
<1>5. QED
  BY <1>3, <1>4 DEF FramesOwn

\* Changing permissions moves no page.
LEMMA FramesRemapped ==
  ASSUME FramesOwn, used' = used,
         \A o \in 1 .. NLOAD, v \in User :
           /\ Page(o, v)'.pn = Page(o, v).pn
           /\ Page(o, v)' # Unmapped => Page(o, v) # Unmapped
  PROVE  FramesOwn'
<1>1. ASSUME NEW o \in 1 .. NLOAD, NEW v \in User, Page(o, v)' # Unmapped
      PROVE  /\ Page(o, v)'.pn \in used
             /\ \A q \in 1 .. NLOAD, w \in User :
                  Page(q, w)'.pn = Page(o, v)'.pn => q = o /\ w = v
  <2>1. Page(o, v) # Unmapped /\ Page(o, v)'.pn = Page(o, v).pn
    BY <1>1
  <2>2. /\ Page(o, v).pn \in used
        /\ \A q \in 1 .. NLOAD, w \in User : Page(q, w).pn = Page(o, v).pn => q = o /\ w = v
    BY <2>1 DEF FramesOwn
  <2>3. \A q \in 1 .. NLOAD, w \in User : Page(q, w)'.pn = Page(q, w).pn
    OBVIOUS
  <2>4. QED
    BY <2>1, <2>2, <2>3
<1>2. QED
  BY <1>1 DEF FramesOwn

-----------------------------------------------------------------------------
(* The programs' files *)

\* A byte of a program's file is in the file part of a segment of the kernel.
LEMMA FileBytes ==
  ASSUME ph \in KernelImages, NEW p \in Programs, NEW j \in DOMAIN p.segs, p.segs[j].load,
         NEW k \in 0 .. p.segs[j].filesz - 1
  PROVE  \E i \in DOMAIN ph, m \in Nat :
           /\ m \in 0 .. ph[i].filesz - 1
           /\ p.begin + p.segs[j].offset + k = ph[i].va + m
           /\ ph[i].va + m \in 0 .. MEMSIZE - 1
           /\ (ph[i].va + m) \div PAGESIZE \in NotFree
           /\ ImageByte(p, p.segs[j], k) = SECTORSIZE + ph[i].offset + m
<1>1. PICK i \in DOMAIN ph :
        /\ p.begin + p.segs[j].offset + k \in ph[i].va .. ph[i].va + ph[i].filesz - 1
        /\ ph[i].va - ph[i].offset = ph[1].va - ph[1].offset
  <2>1. \A q \in Programs : \A l \in DOMAIN q.segs : q.segs[l].load =>
          \A n \in 0 .. q.segs[l].filesz - 1 : \E i \in DOMAIN ph :
            /\ q.begin + q.segs[l].offset + n \in ph[i].va .. ph[i].va + ph[i].filesz - 1
            /\ ph[i].va - ph[i].offset = ph[1].va - ph[1].offset
    BY ImagesAssumption
  <2>2. QED
    BY <2>1
<1>2. ph \in Seq([va : Nat, offset : Nat, filesz : Nat, memsz : Nat])
  BY BootAssumption
<1>3. i \in 1 .. Len(ph) /\ 1 \in 1 .. Len(ph)
  BY SMTT(20), <1>2
<1>4. /\ ph[i].va \in Nat /\ ph[i].offset \in Nat /\ ph[i].filesz \in Nat
      /\ ph[i].memsz \in Nat /\ ph[i].filesz <= ph[i].memsz
      /\ ph[i].va + ph[i].memsz <= MEMSIZE
      /\ ph[1].va \in Nat /\ ph[1].offset \in Nat
  BY <1>3, Headers
<1>5. /\ p.begin \in Nat /\ p.segs[j].offset \in Nat /\ p.segs[j].filesz \in Nat
      /\ SECTORSIZE \in Nat /\ MEMSIZE \in Nat
  BY ProgramHeaders, BootAssumption
<1>6. PICK m \in Nat : p.begin + p.segs[j].offset + k = ph[i].va + m
                       /\ m \in 0 .. ph[i].filesz - 1
  <2>1. p.begin + p.segs[j].offset + k - ph[i].va \in 0 .. ph[i].filesz - 1
    BY SMTT(20), <1>1, <1>4, <1>5
  <2>2. QED
    BY SMTT(20), <1>4, <1>5, <2>1
<1>7. /\ ph[i].va + m \in ph[i].va .. ph[i].va + ph[i].memsz - 1
      /\ ph[i].va + m \in 0 .. MEMSIZE - 1
  BY SMTT(20), <1>4, <1>5, <1>6
<1>8. (ph[i].va + m) \div PAGESIZE \in NotFree
  BY <1>7, ImagesAssumption
<1>9. ImageByte(p, p.segs[j], k) = SECTORSIZE + ph[i].offset + m
  <2>1. ImageByte(p, p.segs[j], k)
          = SECTORSIZE + ph[1].offset + (p.begin - ph[1].va) + p.segs[j].offset + k
    <3>1. k < p.segs[j].filesz
      BY SMTT(20), <1>5
    <3>2. QED
      BY <3>1 DEF ImageByte
  <2>2. PICK b \in Nat, o \in Nat : b = p.begin /\ o = p.segs[j].offset
    BY <1>5
  <2>3. PICK v \in Nat, f \in Nat, v1 \in Nat, f1 \in Nat :
          v = ph[i].va /\ f = ph[i].offset /\ v1 = ph[1].va /\ f1 = ph[1].offset
    BY <1>4
  <2>4. v - f = v1 - f1 /\ b + o + k = v + m
    BY <1>1, <1>6, <2>2, <2>3
  <2>5. SECTORSIZE + f1 + (b - v1) + o + k = SECTORSIZE + f + m
    BY SMTT(20), <1>5, <2>4
  <2>6. QED
    BY <2>1, <2>2, <2>3, <2>5
<1>10. QED
  BY <1>6, <1>7, <1>8, <1>9

\* When boot() jumps, the programs' files are in memory with the kernel.
LEMMA FilesLoaded ==
  ASSUME BInv, boot.pc = "jump"
  PROVE  mem \in [0 .. MEMSIZE - 1 -> Int] /\ ph \in KernelImages /\ FilesKept
<1>1. mem \in [0 .. MEMSIZE - 1 -> Int] /\ ph \in KernelImages
  BY DEF BInv
<1>2. ASSUME NEW p \in Programs, NEW j \in DOMAIN p.segs, p.segs[j].load,
             NEW k \in 0 .. p.segs[j].filesz - 1
      PROVE  mem[p.begin + p.segs[j].offset + k] = ImageByte(p, p.segs[j], k)
  <2>1. PICK i \in DOMAIN ph, m \in Nat :
          /\ m \in 0 .. ph[i].filesz - 1
          /\ p.begin + p.segs[j].offset + k = ph[i].va + m
          /\ ImageByte(p, p.segs[j], k) = SECTORSIZE + ph[i].offset + m
    BY <1>1, <1>2, FileBytes
  <2>2. mem[ph[i].va + m] = SECTORSIZE + ph[i].offset + m
    BY <2>1 DEF BInv, KernelLoaded, SegmentLoaded
  <2>3. QED
    BY <2>1, <2>2
<1>3. QED
  BY <1>1, <1>2 DEF FilesKept

\* They stay if nothing is written to the pages of the kernel.
LEMMA FilesStay ==
  ASSUME ph \in KernelImages, ph' = ph, FilesKept,
         \A a \in 0 .. MEMSIZE - 1 : a \div PAGESIZE \in NotFree => mem'[a] = mem[a]
  PROVE  FilesKept'
<1> SUFFICES ASSUME NEW p \in Programs, NEW j \in DOMAIN p.segs, p.segs[j].load,
                    NEW k \in 0 .. p.segs[j].filesz - 1
             PROVE  mem'[p.begin + p.segs[j].offset + k] = ImageByte(p, p.segs[j], k)'
  BY DEF FilesKept
<1>1. PICK a \in 0 .. MEMSIZE - 1 :
        a = p.begin + p.segs[j].offset + k /\ a \div PAGESIZE \in NotFree
  BY FileBytes
<1>2. mem[a] = ImageByte(p, p.segs[j], k)
  BY <1>1 DEF FilesKept
<1>3. ImageByte(p, p.segs[j], k)' = ImageByte(p, p.segs[j], k)
  BY DEF ImageByte
<1>4. QED
  BY <1>1, <1>2, <1>3

-----------------------------------------------------------------------------
(* memcpy() and memset() through the process's page table *)

\* A page below the end of a segment has been allocated when the loop ends.
LEMMA BelowEnd ==
  ASSUME NEW s, LaidOut(s), NEW v \in Nat, InSegment(s, v), NEW n \in Nat,
         n * PAGESIZE >= s.va + s.memsz
  PROVE  v < n
<1>1. /\ PAGESIZE \in Nat /\ PAGESIZE >= 1 /\ v * PAGESIZE \in Nat /\ n * PAGESIZE \in Nat
      /\ s.va + s.memsz \in Nat
  BY SMTT(20), BootAssumption DEF LaidOut
<1>2. v * PAGESIZE < s.va + s.memsz
  BY DEF InSegment
<1>3. n < v => n * PAGESIZE + PAGESIZE <= v * PAGESIZE
  BY PagesApart
<1>4. n # v
  BY SMTT(20), <1>1, <1>2
<1>5. QED
  BY SMTT(20), <1>1, <1>2, <1>3, <1>4

\* The segment has all its pages when it is copied.
LEMMA PagesThere ==
  ASSUME LInv, ImagesInv, CopySegment
  PROVE  /\ pid \in 1 .. NLOAD /\ seg \in DOMAIN prog[pid].segs /\ LaidOut(Segment)
         /\ prog[pid] \in Programs /\ call.n = 0 /\ call.ret = 0
         /\ \A v \in User : InSegment(Segment, v) =>
              /\ Page(pid, v).perm = PTE_PWU /\ Page(pid, v) # Unmapped
              /\ Page(pid, v).pn \in used /\ Page(pid, v).pn \in Pages \ NotFree
              /\ HardwareWalk(tab, tables[pid]["L1"], v) = Page(pid, v)
<1>1. pc = "allocate" /\ call.n = 0 /\ call.ret = 0 /\ va * PAGESIZE >= EndMem
  BY DEF CopySegment, Idle
<1>2. pid \in 1 .. NLOAD /\ seg \in DOMAIN prog[pid].segs /\ Segment.load
  BY <1>1 DEF LInv, SetupInv, ImagesInv, Loading
<1>3. prog[pid] \in Programs /\ LaidOut(Segment)
  BY <1>2, ProcessSegments DEF ImagesInv, Segment
<1>4. va \in Nat
  BY DEF ImagesInv, ControlInv
<1>5. ASSUME NEW v \in User, InSegment(Segment, v)
      PROVE  /\ Page(pid, v).perm = PTE_PWU /\ Page(pid, v) # Unmapped
             /\ Page(pid, v).pn \in used /\ Page(pid, v).pn \in Pages \ NotFree
             /\ HardwareWalk(tab, tables[pid]["L1"], v) = Page(pid, v)
  <2>1. v < va
    BY <1>1, <1>3, <1>4, <1>5, UserPage, BelowEnd DEF EndMem
  <2>2. Page(pid, v).perm = PTE_PWU
    BY <1>1, <1>5, <2>1 DEF ImagesInv, Loading, Idle
  <2>3. Page(pid, v) # Unmapped
    <3>1. Unmapped.perm = {} /\ PTE_PWU # {}
      BY DEF Unmapped, Mapping, PTE_PWU
    <3>2. QED
      BY <2>2, <3>1
  <2>4. Page(pid, v).pn \in used /\ Page(pid, v).pn \in Pages \ NotFree
    BY <1>2, <2>3 DEF ImagesInv, FramesOwn
  <2>5. HardwareWalk(tab, tables[pid]["L1"], v) = Page(pid, v)
    BY <1>2, <2>3, UserPage, MappedPage DEF LInv
  <2>6. QED
    BY <2>2, <2>3, <2>4, <2>5
<1>6. QED
  BY <1>1, <1>2, <1>3, <1>5

\* The address of a byte in a page of a process is in memory.
LEMMA ByteAddress ==
  ASSUME FramesOwn, NEW o \in 1 .. NLOAD, NEW s, LaidOut(s), NEW k \in 0 .. s.memsz - 1,
         Page(o, (s.va + k) \div PAGESIZE) # Unmapped
  PROVE  /\ ByteAt(o, s.va + k) \in 0 .. MEMSIZE - 1
         /\ ByteAt(o, s.va + k) \div PAGESIZE = Page(o, (s.va + k) \div PAGESIZE).pn
         /\ ByteAt(o, s.va + k) % PAGESIZE = (s.va + k) % PAGESIZE
         /\ Page(o, (s.va + k) \div PAGESIZE).pn \in used
<1>1. /\ s.va + k \in Nat /\ (s.va + k) \div PAGESIZE \in User
      /\ (s.va + k) % PAGESIZE \in 0 .. PAGESIZE - 1
  BY SegmentBytes, PageOf
<1>2. PICK n \in Nat : n = Page(o, (s.va + k) \div PAGESIZE).pn /\ n \in used /\ n < NPAGES
  <2>1. Page(o, (s.va + k) \div PAGESIZE).pn \in used
    BY <1>1 DEF FramesOwn
  <2>2. used \subseteq Pages
    BY DEF FramesOwn
  <2>3. \A q \in Pages : q \in Nat /\ q < NPAGES
    BY SMTT(20), PageTableAssumption DEF Pages
  <2>4. QED
    BY <2>1, <2>2, <2>3
<1>3. PICK r \in 0 .. PAGESIZE - 1 : r = (s.va + k) % PAGESIZE
  BY <1>1
<1>4. ByteAt(o, s.va + k) = n * PAGESIZE + r
  BY <1>2, <1>3 DEF ByteAt
<1>5. /\ n * PAGESIZE + r \in Nat
      /\ (n * PAGESIZE + r) \div PAGESIZE = n /\ (n * PAGESIZE + r) % PAGESIZE = r
  BY PageOfAddress
<1>6. n * PAGESIZE + r \in 0 .. MEMSIZE - 1
  <2>1. n * PAGESIZE + PAGESIZE <= NPAGES * PAGESIZE
    BY <1>2, PagesApart, PageTableAssumption
  <2>2. /\ MEMSIZE = NPAGES * PAGESIZE /\ MEMSIZE \in Nat
        /\ PAGESIZE \in Nat /\ n * PAGESIZE \in Nat
    BY SMTT(20), LoaderAssumption, BootAssumption
  <2>3. QED
    BY SMTT(20), <1>5, <2>1, <2>2
<1>7. QED
  BY <1>2, <1>3, <1>4, <1>5, <1>6

\* Different bytes of a segment are at different addresses.
LEMMA BytesApart ==
  ASSUME FramesOwn, NEW o \in 1 .. NLOAD, NEW s, LaidOut(s),
         \A v \in User : InSegment(s, v) => Page(o, v) # Unmapped,
         NEW j \in 0 .. s.memsz - 1, NEW k \in 0 .. s.memsz - 1,
         ByteAt(o, s.va + j) = ByteAt(o, s.va + k)
  PROVE  j = k
<1>1. \A m \in 0 .. s.memsz - 1 :
        /\ s.va + m \in Nat /\ (s.va + m) \div PAGESIZE \in User
        /\ Page(o, (s.va + m) \div PAGESIZE) # Unmapped
  BY SegmentBytes
<1>2. /\ Page(o, (s.va + j) \div PAGESIZE).pn = Page(o, (s.va + k) \div PAGESIZE).pn
      /\ (s.va + j) % PAGESIZE = (s.va + k) % PAGESIZE
  <2>1. /\ ByteAt(o, s.va + j) \div PAGESIZE = Page(o, (s.va + j) \div PAGESIZE).pn
        /\ ByteAt(o, s.va + j) % PAGESIZE = (s.va + j) % PAGESIZE
    BY <1>1, ByteAddress
  <2>2. /\ ByteAt(o, s.va + k) \div PAGESIZE = Page(o, (s.va + k) \div PAGESIZE).pn
        /\ ByteAt(o, s.va + k) % PAGESIZE = (s.va + k) % PAGESIZE
    BY <1>1, ByteAddress
  <2>3. QED
    BY <2>1, <2>2
<1>3. (s.va + j) \div PAGESIZE = (s.va + k) \div PAGESIZE
  <2>1. PICK v \in User, w \in User : v = (s.va + j) \div PAGESIZE /\ w = (s.va + k) \div PAGESIZE
    BY <1>1
  <2>2. Page(o, w) # Unmapped /\ Page(o, v).pn = Page(o, w).pn
    BY <1>1, <1>2, <2>1
  <2>3. v = w
    BY <2>2 DEF FramesOwn
  <2>4. QED
    BY <2>1, <2>3
<1>4. /\ s.va + j = ((s.va + j) \div PAGESIZE) * PAGESIZE + ((s.va + j) % PAGESIZE)
      /\ s.va + k = ((s.va + k) \div PAGESIZE) * PAGESIZE + ((s.va + k) % PAGESIZE)
  BY <1>1, PageOf
<1>5. s.va + j = s.va + k
  BY <1>2, <1>3, <1>4
<1>6. s.va \in Nat
  BY DEF LaidOut
<1>7. QED
  BY SMTT(20), <1>5, <1>6

\* The segment gets its bytes, and nothing outside its pages changes.
LEMMA CopyWrites ==
  ASSUME LInv, ImagesInv, CopySegment
  PROVE  /\ \A k \in 0 .. Segment.memsz - 1 :
              mem'[ByteAt(pid, Segment.va + k)] = ImageByte(prog[pid], Segment, k)
         /\ \A a \in 0 .. MEMSIZE - 1 :
              (\A v \in User : InSegment(Segment, v) => Page(pid, v).pn # a \div PAGESIZE)
                => mem'[a] = mem[a]
         /\ mem' \in [0 .. MEMSIZE - 1 -> Int]
<1>1. PICK s, b : s = Segment /\ b = prog[pid].begin + s.offset
  OBVIOUS
<1>2. /\ pid \in 1 .. NLOAD /\ seg \in DOMAIN prog[pid].segs /\ LaidOut(s)
      /\ prog[pid] \in Programs
      /\ \A v \in User : InSegment(s, v) =>
           /\ Page(pid, v) # Unmapped /\ Page(pid, v).pn \in used
           /\ HardwareWalk(tab, tables[pid]["L1"], v) = Page(pid, v)
  BY <1>1, PagesThere
<1>3. mem \in [0 .. MEMSIZE - 1 -> Int] /\ FilesKept /\ ph \in KernelImages /\ FramesOwn
  <2>1. pc # "boot"
    BY DEF CopySegment
  <2>2. QED
    BY <2>1 DEF ImagesInv, ControlInv, FilesInv
<1> DEFINE at == [k \in 0 .. s.memsz - 1 |-> ByteAt(pid, s.va + k)]
           from(k) == IF k < s.filesz THEN mem[b + k] ELSE 0
<1>4. mem' = [a \in 0 .. MEMSIZE - 1 |->
                IF \E k \in 0 .. s.memsz - 1 : at[k] = a
                THEN from(CHOOSE k \in 0 .. s.memsz - 1 : at[k] = a)
                ELSE mem[a]]
  <2>1. \A k \in 0 .. s.memsz - 1 : Physical(pid, s.va + k) = ByteAt(pid, s.va + k)
    BY <1>2, SegmentBytes DEF Physical, ByteAt
  <2>2. [k \in 0 .. s.memsz - 1 |-> Physical(pid, s.va + k)] = at
    BY <2>1
  <2>3. DOMAIN mem = 0 .. MEMSIZE - 1 /\ DOMAIN at = 0 .. s.memsz - 1
    BY <1>3
  <2>4. mem' = LET at0 == [k \in 0 .. s.memsz - 1 |-> Physical(pid, s.va + k)]
               IN  [a \in DOMAIN mem |->
                      IF \E k \in DOMAIN at0 : at0[k] = a
                      THEN from(CHOOSE k \in DOMAIN at0 : at0[k] = a)
                      ELSE mem[a]]
    BY <1>1 DEF CopySegment, Copied
  <2> HIDE DEF at, from
  <2>5. mem' = [a \in DOMAIN mem |->
                  IF \E k \in DOMAIN at : at[k] = a
                  THEN from(CHOOSE k \in DOMAIN at : at[k] = a) ELSE mem[a]]
    BY <2>2, <2>4
  <2>6. QED
    BY <2>3, <2>5
<1>5. ASSUME NEW k \in 0 .. s.memsz - 1
      PROVE  /\ at[k] = ByteAt(pid, s.va + k) /\ at[k] \in 0 .. MEMSIZE - 1
             /\ at[k] \div PAGESIZE = Page(pid, (s.va + k) \div PAGESIZE).pn
             /\ \A j \in 0 .. s.memsz - 1 : at[j] = at[k] => j = k
  <2>1. at[k] = ByteAt(pid, s.va + k)
    OBVIOUS
  <2>2. Page(pid, (s.va + k) \div PAGESIZE) # Unmapped
    BY <1>2, SegmentBytes
  <2>3. at[k] \in 0 .. MEMSIZE - 1 /\ at[k] \div PAGESIZE = Page(pid, (s.va + k) \div PAGESIZE).pn
    BY <1>2, <1>3, <2>1, <2>2, ByteAddress
  <2>4. \A v \in User : InSegment(s, v) => Page(pid, v) # Unmapped
    BY <1>2
  <2>5. \A j \in 0 .. s.memsz - 1 : at[j] = at[k] => j = k
    BY <1>2, <1>3, <2>4, BytesApart
  <2>6. QED
    BY <2>1, <2>3, <2>5
<1>6. ASSUME NEW k \in 0 .. s.memsz - 1
      PROVE  from(k) = ImageByte(prog[pid], s, k) /\ from(k) \in Int
  <2>1. CASE k < s.filesz
    <3>1. k \in 0 .. s.filesz - 1
      BY SMTT(20), <1>2, <2>1 DEF LaidOut
    <3>2. s = prog[pid].segs[seg] /\ s.load
      BY <1>1, <1>2 DEF Segment, LaidOut
    <3>3. mem[b + k] = ImageByte(prog[pid], s, k)
      BY <1>1, <1>2, <1>3, <3>1, <3>2 DEF FilesKept
    <3>4. b + k \in 0 .. MEMSIZE - 1
      <4>1. PICK p \in Programs : p = prog[pid]
        BY <1>2
      <4>2. /\ seg \in DOMAIN p.segs /\ p.segs[seg].load /\ k \in 0 .. p.segs[seg].filesz - 1
            /\ b + k = p.begin + p.segs[seg].offset + k
        BY <1>1, <1>2, <3>1, <3>2, <4>1
      <4>3. p.begin + p.segs[seg].offset + k \in 0 .. MEMSIZE - 1
        BY <1>3, <4>2, FileBytes
      <4>4. QED
        BY <4>2, <4>3
    <3>5. mem[b + k] \in Int
      BY <1>3, <3>4
    <3>6. QED
      BY <2>1, <3>3, <3>5
  <2>2. CASE ~(k < s.filesz)
    <3>1. 0 \in Int
      BY SMTT(20)
    <3>2. QED
      BY <2>2, <3>1 DEF ImageByte
  <2>3. QED
    BY <2>1, <2>2
<1> HIDE DEF at, from
<1>7. ASSUME NEW k \in 0 .. s.memsz - 1 PROVE mem'[at[k]] = from(k)
  <2>1. (CHOOSE j \in 0 .. s.memsz - 1 : at[j] = at[k]) = k
    BY <1>5
  <2>2. QED
    BY <1>4, <1>5, <2>1
<1>8. ASSUME NEW a \in 0 .. MEMSIZE - 1,
             \A v \in User : InSegment(s, v) => Page(pid, v).pn # a \div PAGESIZE
      PROVE  mem'[a] = mem[a]
  <2>1. \A k \in 0 .. s.memsz - 1 : at[k] # a
    BY <1>2, <1>5, <1>8, SegmentBytes
  <2>2. QED
    BY <1>4, <2>1
<1>9. mem' \in [0 .. MEMSIZE - 1 -> Int]
  <2>1. ASSUME NEW a \in 0 .. MEMSIZE - 1 PROVE mem'[a] \in Int
    <3>1. CASE \E k \in 0 .. s.memsz - 1 : at[k] = a
      BY <1>6, <1>7, <3>1
    <3>2. CASE ~(\E k \in 0 .. s.memsz - 1 : at[k] = a)
      BY <1>3, <1>4, <3>2
    <3>3. QED
      BY <3>1, <3>2
  <2>2. QED
    BY <1>4, <2>1
<1>10. \A k \in 0 .. s.memsz - 1 : mem'[ByteAt(pid, s.va + k)] = ImageByte(prog[pid], s, k)
  BY <1>5, <1>6, <1>7
<1>11. QED
  BY <1>1, <1>8, <1>9, <1>10

-----------------------------------------------------------------------------
(* Steps that write no memory *)

\* The files stay when memory does.
LEMMA FilesSame ==
  ASSUME FilesInv, UNCHANGED <<mem, ph, boot>>
  PROVE  FilesInv'
<1>1. \A p, t, k : ImageByte(p, t, k)' = ImageByte(p, t, k)
  BY DEF ImageByte
<1>2. FilesKept => FilesKept'
  BY <1>1 DEF FilesKept
<1>3. QED
  BY <1>2 DEF FilesInv

\* Memory, programs and user pages stay: so do the files and the images.
LEMMA SameMemory ==
  ASSUME ImagesInv, UNCHANGED <<mem, ph, boot, prog>>,
         \A o \in 1 .. NLOAD, v \in User : Page(o, v)' = Page(o, v)
  PROVE  /\ FilesInv'
         /\ \A o \in 1 .. NLOAD : \A i \in DOMAIN prog[o].segs :
              SegmentIn(o, prog[o].segs[i]) => SegmentIn(o, prog[o].segs[i])'
         /\ pid' = pid => EarlierLoaded'
<1>1. FilesInv'
  BY FilesSame DEF ImagesInv
<1>2. ASSUME NEW o \in 1 .. NLOAD, NEW i \in DOMAIN prog[o].segs,
             SegmentIn(o, prog[o].segs[i])
      PROVE  SegmentIn(o, prog[o].segs[i])'
  BY <1>2, ImageStays DEF ImagesInv
<1>3. pid' = pid => EarlierLoaded'
  <2> SUFFICES ASSUME pid' = pid, NEW o \in 1 .. NLOAD, o < pid, NEW i \in DOMAIN prog[o].segs
               PROVE  SegmentIn(o, prog[o].segs[i])'
    BY DEF EarlierLoaded
  <2>1. SegmentIn(o, prog[o].segs[i])
    BY DEF ImagesInv, EarlierLoaded
  <2>2. QED
    BY <1>2, <2>1
<1>4. QED
  BY <1>1, <1>2, <1>3

\* Nothing is being loaded outside of program_load().
LEMMA NotLoading ==
  ASSUME pc' \notin {"allocate", "skip", "readonly", "stack"}
  PROVE  Loading'
BY DEF Loading

\* The page tables are not touched.
LEMMA SamePages ==
  ASSUME ImagesInv, UNCHANGED <<mem, bootVars, PagingVars, used, prog>>
  PROVE  /\ FilesInv' /\ FramesOwn'
         /\ (\A q, w : Page(q, w)' = Page(q, w)) /\ call' = call
         /\ pid' = pid => EarlierLoaded'
         /\ \A o \in 1 .. NLOAD : \A i \in DOMAIN prog[o].segs :
              SegmentIn(o, prog[o].segs[i]) => SegmentIn(o, prog[o].segs[i])'
<1>1. (\A q, w : Page(q, w)' = Page(q, w)) /\ call' = call
  BY PagesKept
<1>2. \A o \in 1 .. NLOAD, v \in User : Page(o, v)' = Page(o, v)
  BY <1>1
<1>3. /\ FilesInv' /\ (pid' = pid => EarlierLoaded')
      /\ \A o \in 1 .. NLOAD : \A i \in DOMAIN prog[o].segs :
           SegmentIn(o, prog[o].segs[i]) => SegmentIn(o, prog[o].segs[i])'
  BY <1>2, SameMemory DEF bootVars
<1>4. FramesOwn'
  BY <1>2, FramesSame DEF ImagesInv
<1>5. QED
  BY <1>1, <1>3, <1>4

\* program_load() comes to a segment, or to its end: what it has passed is in.
LEMMA GotoLoads ==
  ASSUME ImagesInv, ControlInv', pc # "boot", pid \in 1 .. NLOAD, NEW next \in Nat \ {0}, Goto(next),
         UNCHANGED <<mem, bootVars, PagingVars, used, pid, prog>>, Idle,
         \A i \in DOMAIN prog[pid].segs : i < next => SegmentIn(pid, prog[pid].segs[i])
  PROVE  ImagesInv'
<1>1. /\ FilesInv' /\ FramesOwn' /\ EarlierLoaded' /\ call' = call
      /\ \A i \in DOMAIN prog[pid].segs : i < next => SegmentIn(pid, prog[pid].segs[i])'
  BY SamePages
<1>2. CallersPage'
  BY <1>1 DEF CallersPage, Idle
<1>3. /\ DOMAIN prog[pid].segs \subseteq Nat
      /\ \/ /\ next > Len(prog[pid].segs) /\ pc' = "stack"
            /\ \A i \in DOMAIN prog[pid].segs : i < next
         \/ /\ next \in DOMAIN prog[pid].segs /\ seg' = next
            /\ \A i \in 1 .. next - 1 : i \in DOMAIN prog[pid].segs /\ i < next
            /\ va' = prog[pid].segs[next].va \div PAGESIZE
            /\ pc' = IF prog[pid].segs[next].load THEN "allocate" ELSE "skip"
  <2>1. /\ \/ next > Len(prog[pid].segs) /\ pc' = "stack"
           \/ /\ next \in DOMAIN prog[pid].segs /\ seg' = next
              /\ va' = prog[pid].segs[next].va \div PAGESIZE
              /\ pc' = IF prog[pid].segs[next].load THEN "allocate" ELSE "skip"
    BY GotoControl DEF ImagesInv, bootVars
  <2>2. Len(prog[pid].segs) \in Nat /\ DOMAIN prog[pid].segs = 1 .. Len(prog[pid].segs)
    BY LengthOf DEF ImagesInv
  <2>3. \A i \in 1 .. next - 1 : i < next
    BY SMTT(20)
  <2>4. next > Len(prog[pid].segs) => \A i \in DOMAIN prog[pid].segs : i < next
    BY SMTT(20), <2>2
  <2>5. next \in DOMAIN prog[pid].segs => \A i \in 1 .. next - 1 : i \in DOMAIN prog[pid].segs
    BY SMTT(20), <2>2
  <2>6. DOMAIN prog[pid].segs \subseteq Nat
    BY SMTT(20), <2>2
  <2>7. QED
    BY <2>1, <2>3, <2>4, <2>5, <2>6
<1>4. CASE pc' = "stack"
  <2>1. \A i \in DOMAIN prog[pid].segs : SegmentIn(pid, prog[pid].segs[i])'
    BY <1>1, <1>3, <1>4
  <2>2. Loading'
    BY <1>4, <2>1 DEF Loading
  <2>3. QED
    BY <1>1, <1>2, <2>2 DEF ImagesInv
<1>5. CASE pc' # "stack"
  <2>1. /\ next \in DOMAIN prog[pid].segs /\ seg' = next
        /\ \A i \in 1 .. next - 1 : SegmentIn(pid, prog[pid].segs[i])'
        /\ va' = prog[pid].segs[next].va \div PAGESIZE
        /\ pc' = IF prog[pid].segs[next].load THEN "allocate" ELSE "skip"
    BY <1>1, <1>3, <1>5
  <2>2. PICK s : s = prog[pid].segs[next] /\ Segment' = s
    BY <2>1 DEF Segment
  <2>3. va' >= s.va \div PAGESIZE /\ \A v \in User : InSegment(s, v) => ~(v < va')
    <3>1. va' \in Nat
      BY DEF ControlInv
    <3>2. va' = s.va \div PAGESIZE
      BY <2>1, <2>2
    <3>3. \A v \in User : v \in Nat
      BY UserPage
    <3>4. QED
      BY SMTT(20), <3>1, <3>2, <3>3 DEF InSegment
  <2>4. pc' # "readonly" /\ (s.load <=> pc' # "skip")
    BY <2>1, <2>2
  <2>5. Loading'
    BY <1>5, <2>1, <2>2, <2>3, <2>4 DEF Loading
  <2>6. QED
    BY <1>1, <1>2, <2>5 DEF ImagesInv
<1>6. QED
  BY <1>4, <1>5

\* Nothing the invariant is about changes.
LEMMA Untouched ==
  ASSUME ImagesInv, UNCHANGED <<mem, ph, boot, PagingVars, loadVars>>
  PROVE  ImagesInv'
<1>1. (\A q, w : Page(q, w)' = Page(q, w)) /\ call' = call
  BY PagesKept
<1>2. UNCHANGED <<mem, ph, boot, used, pc, pid, prog, seg, va>>
  BY DEF loadVars
<1>3. ControlInv' /\ FilesInv'
  <2>1. ControlInv'
    BY <1>2 DEF ImagesInv, ControlInv
  <2>2. QED
    BY <1>2, <2>1, FilesSame DEF ImagesInv
<1>4. FramesOwn'
  BY <1>1, <1>2, FramesSame DEF ImagesInv
<1>5. CallersPage'
  <2>1. Fresh' <=> Fresh
    BY <1>1, <1>2 DEF Fresh
  <2>2. Segment' = Segment
    BY <1>2 DEF Segment
  <2>3. QED
    BY <1>1, <1>2, <2>1, <2>2 DEF ImagesInv, CallersPage
<1>6. \A o, s : (SegmentIn(o, s)' <=> SegmentIn(o, s)) /\ (BytesInPlace(o, s)' <=> BytesInPlace(o, s))
  <2>1. \A o, a : ByteAt(o, a)' = ByteAt(o, a)
    BY <1>1 DEF ByteAt
  <2>2. \A o, s, k : ImageByte(prog[o], s, k)' = ImageByte(prog[o], s, k)
    BY <1>2 DEF ImageByte
  <2>3. \A o, s : BytesInPlace(o, s)' <=> BytesInPlace(o, s)
    BY <1>2, <2>1, <2>2 DEF BytesInPlace
  <2>4. QED
    BY <1>1, <2>3 DEF SegmentIn
<1>7. EarlierLoaded'
  BY <1>2, <1>6 DEF ImagesInv, EarlierLoaded
<1>8. Loading'
  <2>1. Segment' = Segment /\ (Idle' <=> Idle)
    BY <1>1, <1>2 DEF Segment, Idle
  <2>2. QED
    BY <1>1, <1>2, <1>6, <2>1 DEF ImagesInv, Loading
<1>9. QED
  BY <1>3, <1>4, <1>5, <1>7, <1>8 DEF ImagesInv

\* Before boot() jumps nothing is loaded; afterwards only the drive's status
\* changes.
LEMMA BootStepImages ==
  ASSUME BootInv, ImagesInv, ControlInv', BootStep
  PROVE  ImagesInv'
<1>1. CASE boot.pc = "kernel"
  <2>1. UNCHANGED <<mem, ph, boot>>
    BY <1>1 DEF BootStep, BootNext, Command, DiskReady, Transfer, ClearBss
  <2>2. QED
    BY <2>1, Untouched DEF BootStep
<1>2. CASE boot.pc # "kernel"
  <2>1. pc = "boot" /\ pid = 0 /\ BInv
    BY <1>2 DEF BootInv, ImagesInv, ControlInv
  <2>2. UNCHANGED <<used, pc, pid, prog>> /\ UNCHANGED PagingVars
    BY DEF BootStep, loadVars
  <2>3. BInv'
    BY <2>1, BootNextInv DEF BootStep
  <2>4. boot'.pc # "kernel"
    BY <2>3 DEF BInv
  <2>5. FilesInv' /\ Loading'
    BY <2>1, <2>2, <2>4 DEF FilesInv, Loading
  <2>6. EarlierLoaded'
    <3>1. \A o \in 1 .. NLOAD : ~(o < 0)
      BY SMTT(20), LoaderAssumption
    <3>2. QED
      BY <2>1, <2>2, <3>1 DEF EarlierLoaded
  <2>7. (\A q, w : Page(q, w)' = Page(q, w)) /\ call' = call
    BY <2>2, PagesKept
  <2>8. FramesOwn'
    BY <2>2, <2>7, FramesSame DEF ImagesInv
  <2>9. call.n = 0
    BY <2>1 DEF ImagesInv, CallersPage
  <2>10. QED
    BY <2>5, <2>6, <2>7, <2>8, <2>9 DEF ImagesInv, CallersPage
<1>3. QED
  BY <1>1, <1>2

\* kernel() is entered: the files are there, and nothing is loaded yet.
LEMMA KernelInitImages ==
  ASSUME LInv, BootInv, ImagesInv, ControlInv', KernelInit
  PROVE  ImagesInv'
<1>1. pc = "boot" /\ pid = 0 /\ pc' = "identity" /\ boot.pc \in {"jump", "kernel"}
      /\ UNCHANGED <<mem, ph, used, pid, prog>> /\ NewTables(0, KernelTables)
  BY DEF KernelInit, ImagesInv, ControlInv
<1>2. mem \in [0 .. MEMSIZE - 1 -> Int] /\ ph \in KernelImages /\ FilesKept
  BY <1>1, FilesLoaded DEF BootInv, ImagesInv, FilesInv
<1>3. FilesInv'
  BY <1>1, <1>2 DEF FilesInv, FilesKept, ImageByte
<1>4. EarlierLoaded'
  <2>1. \A o \in 1 .. NLOAD : ~(o < 0)
    BY SMTT(20), LoaderAssumption
  <2>2. QED
    BY <1>1, <2>1 DEF EarlierLoaded
<1>5. /\ call' = call /\ call.n = 0
      /\ \A o \in 1 .. NLOAD : \A v : Page(o, v)' = Page(o, v)
  BY <1>1, PagesCreated, OwnersAssumption, UserPage DEF LInv
<1>6. FramesOwn'
  BY <1>1, <1>5, FramesSame DEF ImagesInv
<1>7. Loading' /\ CallersPage'
  BY <1>1, <1>5 DEF Loading, CallersPage
<1>8. QED
  BY <1>3, <1>4, <1>6, <1>7 DEF ImagesInv

\* A call of virtual_memory_map() starts: memory and pages stay.
LEMMA CallStarts ==
  ASSUME LInv, ImagesInv, NEW o, NEW v, NEW pn, NEW n, NEW perm,
         MapCall(o, v, pn, n, perm), UNCHANGED <<mem, bootVars, used, prog>>
  PROVE  /\ FilesInv' /\ FramesOwn' /\ (pid' = pid => EarlierLoaded')
         /\ call.n = 0 /\ Live(o)
         /\ call'.owner = o /\ call'.v = v /\ call'.pn = pn /\ call'.n = n
         /\ call'.perm = perm /\ call'.ret = 0
         /\ \A q, w : Page(q, w)' = Page(q, w)
         /\ \A q \in 1 .. NLOAD : \A i \in DOMAIN prog[q].segs :
              SegmentIn(q, prog[q].segs[i]) => SegmentIn(q, prog[q].segs[i])'
<1>1. /\ call.n = 0 /\ Live(o)
      /\ call'.owner = o /\ call'.v = v /\ call'.pn = pn /\ call'.n = n
      /\ call'.perm = perm /\ call'.ret = 0
      /\ \A q, w : Page(q, w)' = Page(q, w)
  BY PagesCalled DEF LInv
<1>2. \A q \in 1 .. NLOAD, w \in User : Page(q, w)' = Page(q, w)
  BY <1>1
<1>3. /\ FilesInv' /\ (pid' = pid => EarlierLoaded')
      /\ \A q \in 1 .. NLOAD : \A i \in DOMAIN prog[q].segs :
           SegmentIn(q, prog[q].segs[i]) => SegmentIn(q, prog[q].segs[i])'
  BY <1>2, SameMemory DEF bootVars
<1>4. FramesOwn'
  BY <1>1, FramesSame DEF ImagesInv
<1>5. QED
  BY <1>1, <1>3, <1>4

\* The kernel maps memory for itself.
LEMMA KernelMapsImages ==
  ASSUME LInv, ImagesInv, ControlInv', MapIdentity \/ Protect \/ OpenConsole
  PROVE  ImagesInv'
<1>1. PICK v, n, perm : MapCall(0, v, v, n, perm)
  BY DEF MapIdentity, Protect, OpenConsole
<1>2. /\ UNCHANGED <<mem, bootVars, used, prog>>
      /\ pc' \in {"protect", "console", "setup"}
      /\ pid' = pid \/ pid' = 1
  BY DEF MapIdentity, Protect, OpenConsole
<1>3. FilesInv' /\ FramesOwn' /\ (pid' = pid => EarlierLoaded') /\ call'.owner = 0
  BY <1>1, <1>2, CallStarts
<1>4. pid' = 1 => EarlierLoaded'
  <2>1. \A o \in 1 .. NLOAD : ~(o < 1)
    BY SMTT(20), LoaderAssumption
  <2>2. QED
    BY <2>1 DEF EarlierLoaded
<1>5. CallersPage' /\ Loading'
  BY <1>2, <1>3 DEF CallersPage, Loading
<1>6. QED
  BY <1>2, <1>3, <1>4, <1>5 DEF ImagesInv

\* duplicate_pagetable() makes tables for one more process; those of the
\* others, and what they show, stay.
LEMMA SetupImages ==
  ASSUME LInv, ImagesInv, ControlInv', NEW p \in Programs, Setup(p)
  PROVE  ImagesInv'
<1> DEFINE T == [l \in Levels |-> Nth(LevelOrder[l])]
<1>1. /\ pc = "setup" /\ pc' = "duplicate" /\ pid \in 1 .. NLOAD /\ pid' = pid
      /\ T \in [Levels -> FreePages] /\ NewTables(pid, T)
      /\ used' = used \cup {T[l] : l \in Levels}
      /\ prog' = [prog EXCEPT ![pid] = p] /\ UNCHANGED <<mem, bootVars>>
  <2>1. pid \in 1 .. NLOAD
    BY SMTT(20), LoaderAssumption DEF Setup, LInv, SetupInv
  <2>2. QED
    BY <2>1 DEF Setup
<1> HIDE DEF T
<1>2. /\ call' = call /\ call.n = 0
      /\ \A v \in VPages : Page(pid, v)' = Unmapped
      /\ \A q \in Owners \ {pid} : \A v : Page(q, v)' = Page(q, v)
  BY <1>1, PagesCreated, UserPage DEF LInv
<1>3. FilesInv'
  BY <1>1, FilesSame DEF ImagesInv, bootVars
<1>4. FramesOwn'
  <2>1. PICK X : X = {T[l] : l \in Levels}
    OBVIOUS
  <2>2. X \subseteq FreePages /\ used' = used \cup X
    BY <1>1, <2>1
  <2>3. ASSUME NEW o \in 1 .. NLOAD, NEW v \in User
        PROVE  Page(o, v)' = Page(o, v) \/ Page(o, v)' = Unmapped
    <3>1. o \in Owners /\ v \in VPages
      BY UserPage
    <3>2. o = pid => Page(o, v)' = Unmapped
      BY <1>1, <1>2, <3>1 DEF Page
    <3>3. o # pid => Page(o, v)' = Page(o, v)
      BY <1>2, <3>1
    <3>4. QED
      BY <3>2, <3>3
  <2>4. QED
    BY <2>2, <2>3, FramesCleared DEF ImagesInv
<1>5. EarlierLoaded'
  <2> SUFFICES ASSUME NEW o \in 1 .. NLOAD, o < pid, NEW i \in DOMAIN prog'[o].segs
               PROVE  SegmentIn(o, prog[o].segs[i])'
    BY <1>1 DEF EarlierLoaded
  <2>1. o # pid
    BY SMTT(20), <1>1, LoaderAssumption
  <2>2. prog'[o] = prog[o] /\ \A v : Page(o, v)' = Page(o, v)
    BY <1>1, <1>2, <2>1, UserPage DEF ImagesInv, ControlInv
  <2>3. i \in DOMAIN prog[o].segs /\ SegmentIn(o, prog[o].segs[i])
    BY <2>2 DEF ImagesInv, EarlierLoaded
  <2>4. QED
    BY <1>1, <2>2, <2>3, ImageStays DEF ImagesInv, bootVars
<1>6. Loading' /\ CallersPage'
  BY <1>1, <1>2 DEF Loading, CallersPage
<1>7. QED
  BY <1>3, <1>4, <1>5, <1>6 DEF ImagesInv

\* duplicate_pagetable() copies the kernel's mappings, below the user's pages.
LEMMA DuplicateImages ==
  ASSUME LInv, ImagesInv, ControlInv', DuplicatePage
  PROVE  ImagesInv'
<1>1. /\ MapCall(pid, va, LookupOf(0, va).pn, 1, LookupOf(0, va).perm)
      /\ UNCHANGED <<mem, bootVars, used, prog>> /\ pid' = pid
      /\ pc' = "duplicate" /\ pid \in 1 .. NLOAD /\ va < PROC_START
  BY DEF DuplicatePage, LInv, SetupInv
<1>2. FilesInv' /\ FramesOwn' /\ EarlierLoaded'
      /\ call'.owner = pid /\ call'.v = va /\ call'.n = 1
  BY <1>1, CallStarts
<1>3. CallersPage' /\ Loading'
  BY <1>1, <1>2 DEF CallersPage, Loading
<1>4. QED
  BY <1>2, <1>3 DEF ImagesInv

\* program_load() comes to the first segment, ...
LEMMA StartImages ==
  ASSUME LInv, ImagesInv, ControlInv', StartLoading
  PROVE  ImagesInv'
<1>1. pc # "boot" /\ Idle /\ Goto(1) /\ pid \in 1 .. NLOAD
      /\ UNCHANGED <<mem, bootVars, PagingVars, used, pid, prog>>
  BY DEF StartLoading, LInv, SetupInv
<1>2. PICK next \in Nat \ {0} : next = 1
  BY SMTT(20)
<1>3. \A i \in DOMAIN prog[pid].segs : ~(i < next)
  <2>1. Len(prog[pid].segs) \in Nat /\ DOMAIN prog[pid].segs = 1 .. Len(prog[pid].segs)
    BY <1>1, LengthOf DEF ImagesInv
  <2>2. QED
    BY SMTT(20), <1>2, <2>1
<1>4. Goto(next)
  BY <1>1, <1>2
<1>5. QED
  BY <1>1, <1>3, <1>4, GotoLoads

\* ... and then to the next one, when the present one is in.
LEMMA NextImages ==
  ASSUME LInv, ImagesInv, ControlInv', pc \in {"skip", "readonly"}, Goto(seg + 1), Idle,
         SegmentIn(pid, Segment), UNCHANGED <<mem, bootVars, PagingVars, used, pid, prog>>
  PROVE  ImagesInv'
<1>1. pc # "boot" /\ pid \in 1 .. NLOAD /\ seg \in DOMAIN prog[pid].segs /\ seg \in Nat
      /\ \A i \in 1 .. seg - 1 : SegmentIn(pid, prog[pid].segs[i])
  BY DEF LInv, SetupInv, ImagesInv, ControlInv, Loading
<1>2. PICK next \in Nat \ {0} : next = seg + 1
  BY SMTT(20), <1>1
<1>3. ASSUME NEW i \in DOMAIN prog[pid].segs, i < next
      PROVE  SegmentIn(pid, prog[pid].segs[i])
  <2>1. Len(prog[pid].segs) \in Nat /\ DOMAIN prog[pid].segs = 1 .. Len(prog[pid].segs)
    BY <1>1, LengthOf DEF ImagesInv
  <2>2. i = seg \/ i \in 1 .. seg - 1
    BY SMTT(20), <1>1, <1>2, <1>3, <2>1
  <2>3. QED
    BY <1>1, <2>2 DEF Segment
<1>4. Goto(next)
  BY <1>2
<1>5. QED
  BY <1>1, <1>3, <1>4, GotoLoads

\* A segment that is not to be loaded is passed over.
LEMMA SkipImages ==
  ASSUME LInv, ImagesInv, ControlInv', SkipSegment
  PROVE  ImagesInv'
<1>1. pc = "skip" /\ Goto(seg + 1) /\ UNCHANGED <<mem, bootVars, PagingVars, used, pid, prog>>
  BY DEF SkipSegment
<1>2. Idle
  BY <1>1 DEF ImagesInv, CallersPage, Idle
<1>3. SegmentIn(pid, Segment)
  BY <1>1 DEF ImagesInv, Loading, SegmentIn
<1>4. QED
  BY <1>1, <1>2, <1>3, NextImages

\* program_load_segment() returns: all pages have the permissions of the
\* segment.
LEMMA SegmentDoneImages ==
  ASSUME LInv, ImagesInv, ControlInv', SegmentDone
  PROVE  ImagesInv'
<1>1. /\ pc = "readonly" /\ (Segment.write \/ va * PAGESIZE >= EndMem) /\ Idle
      /\ Goto(seg + 1) /\ UNCHANGED <<mem, bootVars, PagingVars, used, pid, prog>>
  BY DEF SegmentDone
<1>2. /\ pid \in 1 .. NLOAD /\ seg \in DOMAIN prog[pid].segs /\ Segment.load /\ va \in Nat
      /\ BytesInPlace(pid, Segment)
      /\ \A v \in User : InSegment(Segment, v) =>
           Page(pid, v).perm = IF v < va /\ (v = va - 1 => Idle) /\ ~Segment.write
                               THEN PTE_PU ELSE PTE_PWU
  BY <1>1 DEF LInv, SetupInv, ImagesInv, ControlInv, Loading
<1>3. LaidOut(Segment)
  BY <1>2, ProcessSegments DEF ImagesInv, Segment
<1>4. ASSUME NEW v \in User, InSegment(Segment, v)
      PROVE  Page(pid, v).perm = Granted(Segment)
  <2>1. CASE Segment.write
    BY <1>2, <1>4, <2>1 DEF Granted
  <2>2. CASE ~Segment.write
    <3>1. va * PAGESIZE >= Segment.va + Segment.memsz /\ v \in Nat
      BY <1>1, <2>2, UserPage DEF EndMem
    <3>2. v < va
      BY <1>2, <1>3, <1>4, <3>1, BelowEnd
    <3>3. QED
      BY <1>1, <1>2, <1>4, <2>2, <3>2 DEF Granted
  <2>3. QED
    BY <2>1, <2>2
<1>5. SegmentIn(pid, Segment)
  BY <1>2, <1>4 DEF SegmentIn
<1>6. QED
  BY <1>1, <1>5, NextImages

\* program_load() gives up, or the first process starts.
LEMMA StopImages ==
  ASSUME LInv, ImagesInv, ControlInv', LoadFails \/ RunFirst
  PROVE  ImagesInv'
<1>1. /\ UNCHANGED <<mem, bootVars, PagingVars, used, prog>> /\ pid' = pid
      /\ pc' \in {"panic", "user"} /\ call.n = 0
  BY DEF LoadFails, RunFirst, Idle
<1>2. FilesInv' /\ FramesOwn' /\ EarlierLoaded' /\ call' = call
  BY <1>1, SamePages
<1>3. CallersPage' /\ Loading'
  BY <1>1, <1>2 DEF CallersPage, Loading
<1>4. QED
  BY <1>2, <1>3 DEF ImagesInv

\* A soft reboot forgets the processes; the programs' files stay in memory.
LEMMA RebootImages ==
  ASSUME LInv, ImagesInv, ControlInv', Reboot
  PROVE  ImagesInv'
<1>1. /\ ForgetTables /\ used' = {} /\ pc' = "boot" /\ pid' = 0
      /\ UNCHANGED <<mem, ph, boot>>
  BY DEF Reboot, bootVars
<1>2. \A o \in Owners : ~Live(o)'
  BY <1>1, ForgetInv DEF LInv
<1>3. \A o \in 1 .. NLOAD, v \in User : Page(o, v)' = Unmapped
  BY <1>2, UserPage DEF Page, Mappings
<1>4. FramesOwn'
  BY <1>1, <1>3 DEF FramesOwn
<1>5. FilesInv'
  BY <1>1, FilesSame DEF ImagesInv
<1>6. EarlierLoaded'
  <2>1. \A o \in 1 .. NLOAD : ~(o < 0)
    BY SMTT(20), LoaderAssumption
  <2>2. QED
    BY <1>1, <2>1 DEF EarlierLoaded
<1>7. CallersPage' /\ Loading'
  BY <1>1 DEF CallersPage, Loading, ForgetTables, Idle
<1>8. QED
  BY <1>4, <1>5, <1>6, <1>7 DEF ImagesInv

-----------------------------------------------------------------------------
(* Calls that map a page of a process *)

\* A page from alloc_page_process() is about to be mapped: memory and pages
\* stay.
LEMMA FreshStarts ==
  ASSUME LInv, ImagesInv, FreePages # {}, NEW o, NEW v,
         MapCall(o, v, Nth(0), 1, PTE_PWU), used' = used \cup {Nth(0)},
         UNCHANGED <<mem, bootVars, prog>>
  PROVE  /\ FilesInv' /\ FramesOwn' /\ Fresh' /\ (pid' = pid => EarlierLoaded')
         /\ call.n = 0 /\ call'.n = 1 /\ call'.owner = o /\ call'.v = v
         /\ \A q, w : Page(q, w)' = Page(q, w)
         /\ \A q \in 1 .. NLOAD : \A i \in DOMAIN prog[q].segs :
              SegmentIn(q, prog[q].segs[i]) => SegmentIn(q, prog[q].segs[i])'
<1>1. /\ FramesOwn' /\ Fresh'
      /\ call.n = 0 /\ call'.n = 1 /\ call'.owner = o /\ call'.v = v
      /\ \A q, w : Page(q, w)' = Page(q, w)
  BY FreshCall DEF LInv, ImagesInv
<1>2. \A q \in 1 .. NLOAD, w \in User : Page(q, w)' = Page(q, w)
  BY <1>1
<1>3. /\ FilesInv' /\ (pid' = pid => EarlierLoaded')
      /\ \A q \in 1 .. NLOAD : \A i \in DOMAIN prog[q].segs :
           SegmentIn(q, prog[q].segs[i]) => SegmentIn(q, prog[q].segs[i])'
  BY <1>2, SameMemory DEF bootVars
<1>4. QED
  BY <1>1, <1>3

\* The segment at hand is one of the program's, and so is its next page.
LEMMA PresentSegment ==
  ASSUME LInv, ImagesInv, pc \in {"allocate", "readonly"}
  PROVE  /\ pid \in 1 .. NLOAD /\ seg \in DOMAIN prog[pid].segs /\ Segment.load
         /\ prog[pid] \in Programs /\ LaidOut(Segment) /\ va \in Nat /\ seg \in Nat
         /\ va >= Segment.va \div PAGESIZE
         /\ va * PAGESIZE < EndMem => InSegment(Segment, va) /\ va \in User
         /\ \A i \in 1 .. seg - 1 : /\ i \in DOMAIN prog[pid].segs
                                    /\ SegmentIn(pid, prog[pid].segs[i])
<1>1. /\ pid \in 1 .. NLOAD /\ seg \in DOMAIN prog[pid].segs /\ Segment.load
      /\ va \in Nat /\ seg \in Nat /\ va >= Segment.va \div PAGESIZE
      /\ \A i \in 1 .. seg - 1 : SegmentIn(pid, prog[pid].segs[i])
  BY DEF LInv, SetupInv, ImagesInv, ControlInv, Loading
<1>2. prog[pid] \in Programs /\ LaidOut(Segment)
  BY <1>1, ProcessSegments DEF ImagesInv, Segment
<1>3. \A i \in 1 .. seg - 1 : i \in DOMAIN prog[pid].segs
  <2>1. Len(prog[pid].segs) \in Nat /\ DOMAIN prog[pid].segs = 1 .. Len(prog[pid].segs)
    BY <1>1, LengthOf DEF ImagesInv
  <2>2. QED
    BY SMTT(20), <1>1, <2>1
<1>4. va * PAGESIZE < EndMem => InSegment(Segment, va)
  <2>1. Segment.va \div PAGESIZE <= va
    <3>1. Segment.va \div PAGESIZE \in Nat
      BY <1>2, PageOf DEF LaidOut
    <3>2. QED
      BY SMTT(20), <1>1, <3>1
  <2>2. QED
    BY <2>1 DEF InSegment, EndMem
<1>5. InSegment(Segment, va) => va \in User
  BY <1>1, <1>2, SegmentPages
<1>6. QED
  BY <1>1, <1>2, <1>3, <1>4, <1>5

\* program_load_segment() takes a page for the segment.
LEMMA AllocateImages ==
  ASSUME LInv, ImagesInv, ControlInv', AllocatePage
  PROVE  ImagesInv'
<1>1. /\ pc = "allocate" /\ pc' = "allocate" /\ va * PAGESIZE < EndMem /\ call.ret = 0
      /\ FreePages # {} /\ MapCall(pid, va, Nth(0), 1, PTE_PWU)
      /\ used' = used \cup {Nth(0)} /\ va' = va + 1
      /\ UNCHANGED <<mem, bootVars, pid, prog, seg>>
  BY DEF AllocatePage
<1>2. /\ pid \in 1 .. NLOAD /\ seg \in DOMAIN prog[pid].segs /\ Segment.load
      /\ LaidOut(Segment) /\ va \in Nat /\ va >= Segment.va \div PAGESIZE
      /\ InSegment(Segment, va)
      /\ \A i \in 1 .. seg - 1 : /\ i \in DOMAIN prog[pid].segs
                                 /\ SegmentIn(pid, prog[pid].segs[i])
  BY <1>1, PresentSegment
<1>3. /\ FilesInv' /\ FramesOwn' /\ Fresh' /\ EarlierLoaded'
      /\ call.n = 0 /\ call'.n = 1 /\ call'.owner = pid /\ call'.v = va
      /\ \A q, w : Page(q, w)' = Page(q, w)
      /\ \A i \in 1 .. seg - 1 : SegmentIn(pid, prog[pid].segs[i])'
  BY <1>1, <1>2, FreshStarts
<1>4. PICK s : s = Segment /\ Segment' = s
  BY <1>1 DEF Segment
<1>5. va' - 1 = va /\ va' >= s.va \div PAGESIZE
  <2>1. s.va \div PAGESIZE \in Nat
    BY <1>2, <1>4, PageOf DEF LaidOut
  <2>2. QED
    BY SMTT(20), <1>1, <1>2, <1>4, <2>1
<1>6. CallersPage'
  BY <1>1, <1>2, <1>3, <1>4, <1>5 DEF CallersPage
<1>7. ASSUME NEW v \in User, InSegment(s, v), v < va', v = va' - 1 => Idle' /\ call'.ret = 0
      PROVE  Page(pid, v)'.perm = PTE_PWU
  <2>1. v # va
    BY SMTT(20), <1>3, <1>5, <1>7 DEF Idle
  <2>2. v < va
    BY SMTT(20), <1>1, <1>2, <1>7, <2>1, UserPage
  <2>3. Idle /\ call.ret = 0
    BY <1>1, <1>3 DEF Idle
  <2>4. Page(pid, v).perm = PTE_PWU
    BY <1>1, <1>4, <1>7, <2>2, <2>3 DEF ImagesInv, Loading
  <2>5. QED
    BY <1>1, <1>3, <2>4 DEF Page
<1>8. Loading'
  <2>1. \A v \in User : InSegment(s, v) /\ v < va' /\ (v = va' - 1 => Idle' /\ call'.ret = 0)
          => Page(pid, v)'.perm = PTE_PWU
    BY <1>7
  <2>2. QED
    BY <1>1, <1>2, <1>3, <1>4, <1>5, <2>1 DEF Loading
<1>9. QED
  BY <1>3, <1>6, <1>8 DEF ImagesInv

\* program_load_segment() takes the right to write away from a page.
LEMMA ReadOnlyImages ==
  ASSUME LInv, ImagesInv, ControlInv', ReadOnlyPage
  PROVE  ImagesInv'
<1>1. /\ pc = "readonly" /\ pc' = "readonly" /\ va * PAGESIZE < EndMem /\ ~Segment.write
      /\ MapCall(pid, va, LookupOf(pid, va).pn, 1, PTE_PU) /\ va' = va + 1
      /\ UNCHANGED <<mem, bootVars, used, pid, prog, seg>>
  BY DEF ReadOnlyPage
<1>2. /\ pid \in 1 .. NLOAD /\ seg \in DOMAIN prog[pid].segs /\ Segment.load
      /\ LaidOut(Segment) /\ va \in Nat /\ va >= Segment.va \div PAGESIZE
      /\ InSegment(Segment, va) /\ va \in User
      /\ \A i \in 1 .. seg - 1 : /\ i \in DOMAIN prog[pid].segs
                                 /\ SegmentIn(pid, prog[pid].segs[i])
  BY <1>1, PresentSegment
<1>3. /\ FilesInv' /\ FramesOwn' /\ EarlierLoaded' /\ call.n = 0 /\ Live(pid)
      /\ call'.n = 1 /\ call'.owner = pid /\ call'.v = va
      /\ call'.pn = LookupOf(pid, va).pn /\ call'.perm = PTE_PU
      /\ \A q, w : Page(q, w)' = Page(q, w)
      /\ \A i \in 1 .. seg - 1 : SegmentIn(pid, prog[pid].segs[i])'
  BY <1>1, <1>2, CallStarts
<1>4. PICK s : s = Segment /\ Segment' = s
  BY <1>1 DEF Segment
<1>5. va' - 1 = va /\ va' >= s.va \div PAGESIZE
  <2>1. s.va \div PAGESIZE \in Nat
    BY <1>2, <1>4, PageOf DEF LaidOut
  <2>2. QED
    BY SMTT(20), <1>1, <1>2, <1>4, <2>1
<1>6. \A v : Page(pid, v)' = Page(pid, v)
  BY <1>1, <1>3 DEF Page
<1>7. CallersPage'
  <2>1. Page(pid, va) = LookupOf(pid, va)
    BY <1>2, <1>3, UserPage DEF Page, Mappings
  <2>2. call'.pn = Page(pid, call.v)'.pn
    BY <1>1, <1>3, <2>1 DEF Page
  <2>3. QED
    BY <1>1, <1>2, <1>3, <1>4, <1>5, <2>2 DEF CallersPage
<1>8. BytesInPlace(pid, s)'
  <2>1. BytesInPlace(pid, s) /\ LaidOut(s)
    BY <1>1, <1>2, <1>4 DEF ImagesInv, Loading
  <2>2. PICK o : o = pid /\ o = pid'
    BY <1>1
  <2>3. BytesInPlace(o, s) /\ \A v \in User : Page(o, v)'.pn = Page(o, v).pn
    BY <1>3, <2>1, <2>2
  <2>4. BytesInPlace(o, s)'
    BY <1>1, <2>1, <2>3, SegmentStays DEF bootVars
  <2>5. QED
    BY <2>2, <2>4 DEF BytesInPlace, ByteAt, Page
<1>9. ASSUME NEW v \in User, InSegment(s, v)
      PROVE  Page(pid, v)'.perm = IF v < va' /\ (v = va' - 1 => Idle') /\ ~s.write
                                  THEN PTE_PU ELSE PTE_PWU
  <2>1. Idle /\ ~Idle'
    BY SMTT(20), <1>3 DEF Idle
  <2>2. v < va' /\ (v = va' - 1 => Idle') <=> v < va /\ (v = va - 1 => Idle)
    <3>1. v < va' /\ v # va <=> v < va
      BY SMTT(20), <1>1, <1>2, UserPage
    <3>2. QED
      BY <1>5, <2>1, <3>1
  <2>3. Page(pid, v).perm = IF v < va /\ (v = va - 1 => Idle) /\ ~s.write
                            THEN PTE_PU ELSE PTE_PWU
    BY <1>1, <1>4, <1>9 DEF ImagesInv, Loading
  <2>4. QED
    BY <1>6, <2>2, <2>3
<1>10. Loading'
  <2>1. \A v \in User : InSegment(s, v) =>
          Page(pid, v)'.perm = IF v < va' /\ (v = va' - 1 => Idle') /\ ~s.write
                               THEN PTE_PU ELSE PTE_PWU
    BY <1>9
  <2>2. BytesInPlace(pid, Segment)'
    BY <1>4, <1>8 DEF BytesInPlace
  <2>3. QED
    BY <1>1, <1>2, <1>3, <1>4, <1>5, <2>1, <2>2 DEF Loading
<1>11. QED
  BY <1>3, <1>7, <1>10 DEF ImagesInv

\* process_setup() ends with the stack: one more process has its image.
LEMMA StackImages ==
  ASSUME LInv, ImagesInv, ControlInv', GiveStack
  PROVE  ImagesInv'
<1>1. /\ pc = "stack" /\ pc' = "setup" /\ pid \in 1 .. NLOAD /\ pid' = pid + 1
      /\ UNCHANGED <<mem, bootVars, prog>>
      /\ \A i \in DOMAIN prog[pid].segs : SegmentIn(pid, prog[pid].segs[i])
      /\ call.n = 0
  BY DEF GiveStack, LInv, SetupInv, ImagesInv, Loading, CallersPage
<1>2. /\ FilesInv' /\ FramesOwn' /\ CallersPage'
      /\ \A q \in 1 .. NLOAD : \A i \in DOMAIN prog[q].segs :
           SegmentIn(q, prog[q].segs[i]) => SegmentIn(q, prog[q].segs[i])'
  <2>1. CASE FreePages = {}
    <3>1. UNCHANGED <<mem, bootVars, PagingVars, used, prog>>
      BY <1>1, <2>1 DEF GiveStack
    <3>2. QED
      BY <1>1, <3>1, SamePages DEF CallersPage
  <2>2. CASE FreePages # {}
    <3>1. MapCall(pid, STACK, Nth(0), 1, PTE_PWU) /\ used' = used \cup {Nth(0)}
      BY <2>2 DEF GiveStack
    <3>2. /\ FilesInv' /\ FramesOwn' /\ Fresh' /\ call'.n = 1
          /\ call'.owner = pid /\ call'.v = STACK
          /\ \A q \in 1 .. NLOAD : \A i \in DOMAIN prog[q].segs :
               SegmentIn(q, prog[q].segs[i]) => SegmentIn(q, prog[q].segs[i])'
      BY <1>1, <2>2, <3>1, FreshStarts
    <3>3. CallersPage'
      BY <1>1, <3>2 DEF CallersPage
    <3>4. QED
      BY <3>2, <3>3
  <2>3. QED
    BY <2>1, <2>2
<1>3. EarlierLoaded'
  <2> SUFFICES ASSUME NEW o \in 1 .. NLOAD, o < pid', NEW i \in DOMAIN prog'[o].segs
               PROVE  SegmentIn(o, prog[o].segs[i])'
    BY DEF EarlierLoaded
  <2>1. o < pid \/ o = pid
    BY SMTT(20), <1>1, LoaderAssumption
  <2>2. i \in DOMAIN prog[o].segs
    BY <1>1
  <2>3. SegmentIn(o, prog[o].segs[i])
    BY <1>1, <2>1, <2>2 DEF ImagesInv, EarlierLoaded
  <2>4. QED
    BY <1>2, <2>2, <2>3
<1>4. Loading'
  BY <1>1 DEF Loading
<1>5. QED
  BY <1>2, <1>3, <1>4 DEF ImagesInv

\* A process asks for a page that it does not have.
LEMMA UserAllocImages ==
  ASSUME LInv, ImagesInv, ControlInv', NEW o \in 1 .. NLOAD, NEW v \in User, UserAlloc(o, v)
  PROVE  ImagesInv'
<1>1. /\ pc = "user" /\ pc' = "user" /\ FreePages # {} /\ LookupOf(o, v) = Unmapped
      /\ MapCall(o, v, Nth(0), 1, PTE_PWU) /\ used' = used \cup {Nth(0)}
      /\ UNCHANGED <<mem, bootVars, pid, prog>>
  BY DEF UserAlloc
<1>2. /\ FilesInv' /\ FramesOwn' /\ Fresh' /\ EarlierLoaded'
      /\ call'.n = 1 /\ call'.owner = o /\ call'.v = v
      /\ \A q, w : Page(q, w)' = Page(q, w)
  BY <1>1, FreshStarts
<1>3. Page(o, v) = Unmapped
  BY <1>1, UserPage DEF Page, Mappings
<1>4. Page(call.owner, call.v)' = Unmapped
  BY <1>2, <1>3 DEF Page
<1>5. CallersPage' /\ Loading'
  BY <1>1, <1>2, <1>4 DEF CallersPage, Loading
<1>6. QED
  BY <1>2, <1>5 DEF ImagesInv

-----------------------------------------------------------------------------
(* The copy of a segment *)

\* A page open to a program is mapped.
LEMMA GrantedMapped ==
  /\ PTE_PU # {} /\ PTE_PWU # {} /\ "P" \in PTE_PU /\ "P" \in PTE_PWU
  /\ \A o, v, s : Page(o, v).perm = Granted(s) => Page(o, v) # Unmapped
<1>1. PTE_PU # {} /\ PTE_PWU # {} /\ "P" \in PTE_PU /\ "P" \in PTE_PWU
  BY DEF PTE_PU, PTE_PWU
<1>2. Unmapped.perm = {}
  BY SMTT(20) DEF Unmapped, Mapping
<1>3. QED
  BY <1>1, <1>2 DEF Granted

\* The segments already in are not among the pages that are copied to.
LEMMA CopyKeeps ==
  ASSUME LInv, ImagesInv, CopySegment, NEW o \in 1 .. NLOAD, NEW i \in DOMAIN prog[o].segs,
         SegmentIn(o, prog[o].segs[i]), o # pid \/ i \in 1 .. seg - 1
  PROVE  SegmentIn(o, prog[o].segs[i])'
<1>1. UNCHANGED <<bootVars, PagingVars, prog, pid, seg>>
  BY DEF CopySegment
<1>2. PICK s : s = prog[o].segs[i] /\ prog'[o].segs[i] = s
  BY <1>1
<1>3. CASE ~s.load
  BY <1>2, <1>3 DEF SegmentIn
<1>4. CASE s.load
  <2>1. LaidOut(s) /\ SegmentIn(o, s)
    BY <1>2, <1>4, ProcessSegments DEF ImagesInv
  <2>2. (\A q, w : Page(q, w)' = Page(q, w)) /\ call' = call
    BY <1>1, PagesKept
  <2>3. BytesInPlace(o, s) /\ \A v \in User : InSegment(s, v) => Page(o, v).perm = Granted(s)
    BY <1>4, <2>1 DEF SegmentIn
  <2>4. ASSUME NEW v \in User, InSegment(s, v), NEW w \in User, InSegment(Segment, w)
        PROVE  Page(pid, w).pn # Page(o, v).pn
    <3> SUFFICES ASSUME Page(pid, w).pn = Page(o, v).pn PROVE FALSE
      OBVIOUS
    <3>1. Page(o, v) # Unmapped
      BY <2>3, <2>4, GrantedMapped
    <3>2. /\ pid \in 1 .. NLOAD /\ seg \in DOMAIN prog[pid].segs /\ prog[pid] \in Programs
          /\ Segment.load
      BY PagesThere DEF ImagesInv, Loading, CopySegment
    <3>3. pid = o /\ w = v
      BY <3>1, <3>2 DEF ImagesInv, FramesOwn
    <3>4. i \in 1 .. seg - 1 /\ v \in Nat
      BY <3>3, UserPage
    <3>5. ~(InSegment(prog[pid].segs[seg], v) /\ InSegment(prog[pid].segs[i], v))
      BY <1>2, <1>4, <3>2, <3>3, <3>4, SegmentsApart DEF Segment
    <3>6. QED
      BY <1>2, <2>4, <3>3, <3>5 DEF Segment
  <2>5. ASSUME NEW k \in 0 .. s.memsz - 1
        PROVE  mem'[ByteAt(o, s.va + k)] = mem[ByteAt(o, s.va + k)]
    <3>1. PICK v \in User : v = (s.va + k) \div PAGESIZE /\ InSegment(s, v)
      BY <2>1, SegmentBytes
    <3>2. Page(o, v) # Unmapped
      BY <2>3, <3>1, GrantedMapped
    <3>3. /\ ByteAt(o, s.va + k) \in 0 .. MEMSIZE - 1
          /\ ByteAt(o, s.va + k) \div PAGESIZE = Page(o, v).pn
      BY <2>1, <3>1, <3>2, ByteAddress DEF ImagesInv
    <3>4. \A w \in User : InSegment(Segment, w) =>
            Page(pid, w).pn # ByteAt(o, s.va + k) \div PAGESIZE
      BY <2>4, <3>1, <3>3
    <3>5. QED
      BY <3>3, <3>4, CopyWrites
  <2>6. BytesInPlace(o, s)'
    <3>1. \A v \in User : InSegment(s, v) => Page(o, v)'.pn = Page(o, v).pn
      BY <2>2
    <3>2. prog'[o] = prog[o] /\ ph' = ph
      BY <1>1 DEF bootVars
    <3>3. QED
      BY <2>1, <2>3, <2>5, <3>1, <3>2, SegmentStays
  <2>7. \A v \in User : InSegment(s, v) => Page(o, v)'.perm = Granted(s)
    BY <2>2, <2>3
  <2>8. SegmentIn(o, s)'
    BY <2>6, <2>7 DEF SegmentIn
  <2>9. QED
    BY <1>2, <2>8 DEF SegmentIn, BytesInPlace
<1>5. QED
  BY <1>3, <1>4

\* The segment's bytes come into its pages, and nothing else changes.
LEMMA CopyImages ==
  ASSUME LInv, ImagesInv, ControlInv', CopySegment
  PROVE  ImagesInv'
<1>1. /\ pc = "allocate" /\ pc' = "readonly" /\ va' = Segment.va \div PAGESIZE
      /\ UNCHANGED <<bootVars, PagingVars, used, pid, prog, seg>>
  BY DEF CopySegment
<1>2. /\ pid \in 1 .. NLOAD /\ seg \in DOMAIN prog[pid].segs /\ Segment.load
      /\ LaidOut(Segment)
      /\ \A i \in 1 .. seg - 1 : /\ i \in DOMAIN prog[pid].segs
                                 /\ SegmentIn(pid, prog[pid].segs[i])
  BY <1>1, PresentSegment
<1>3. (\A q, w : Page(q, w)' = Page(q, w)) /\ call' = call /\ call.n = 0
  BY <1>1, PagesKept, PagesThere
<1>4. FilesInv'
  <2>1. ph \in KernelImages /\ FilesKept /\ ph' = ph
    BY <1>1 DEF ImagesInv, ControlInv, FilesInv, bootVars
  <2>2. ASSUME NEW a \in 0 .. MEMSIZE - 1, a \div PAGESIZE \in NotFree
        PROVE  mem'[a] = mem[a]
    <3>1. \A v \in User : InSegment(Segment, v) => Page(pid, v).pn \in Pages \ NotFree
      BY PagesThere
    <3>2. \A v \in User : InSegment(Segment, v) => Page(pid, v).pn # a \div PAGESIZE
      BY <2>2, <3>1
    <3>3. QED
      BY <3>2, CopyWrites
  <2>3. FilesKept'
    BY <2>1, <2>2, FilesStay
  <2>4. QED
    BY <2>1, <2>3, CopyWrites DEF FilesInv
<1>5. FramesOwn'
  BY <1>1, <1>3, FramesSame DEF ImagesInv
<1>6. CallersPage'
  BY <1>3 DEF CallersPage
<1>7. EarlierLoaded'
  <2> SUFFICES ASSUME NEW o \in 1 .. NLOAD, o < pid, NEW i \in DOMAIN prog[o].segs
               PROVE  SegmentIn(o, prog[o].segs[i])'
    BY <1>1 DEF EarlierLoaded
  <2>1. o # pid
    BY SMTT(20), <1>2, LoaderAssumption
  <2>2. SegmentIn(o, prog[o].segs[i])
    BY DEF ImagesInv, EarlierLoaded
  <2>3. QED
    BY <2>1, <2>2, CopyKeeps
<1>8. \A i \in 1 .. seg - 1 : SegmentIn(pid, prog[pid].segs[i])'
  <2>1. PICK o \in 1 .. NLOAD : o = pid /\ o = pid'
    BY <1>1, <1>2
  <2>2. \A i \in 1 .. seg - 1 : SegmentIn(o, prog[o].segs[i])'
    BY <1>2, <2>1, CopyKeeps
  <2>3. QED
    BY <2>1, <2>2 DEF SegmentIn, BytesInPlace, ByteAt, Page
<1>9. PICK s : s = Segment /\ Segment' = s
  BY <1>1 DEF Segment
<1>10. \A v : Page(pid, v)' = Page(pid, v)
  BY <1>1, <1>3 DEF Page
<1>11. BytesInPlace(pid, s)'
  <2>1. \A k \in 0 .. s.memsz - 1 : mem'[ByteAt(pid, s.va + k)] = ImageByte(prog[pid], s, k)
    BY <1>9, CopyWrites
  <2>2. \A a : ByteAt(pid, a)' = ByteAt(pid, a)
    BY <1>10 DEF ByteAt
  <2>3. \A k : ImageByte(prog[pid], s, k)' = ImageByte(prog[pid], s, k)
    BY <1>1 DEF ImageByte, bootVars
  <2>4. QED
    BY <2>1, <2>2, <2>3 DEF BytesInPlace
<1>12. ASSUME NEW v \in User, InSegment(s, v)
       PROVE  ~(v < va') /\ Page(pid, v)'.perm = PTE_PWU
  <2>1. Page(pid, v).perm = PTE_PWU
    BY <1>9, <1>12, PagesThere
  <2>2. ~(v < va')
    <3>1. va' = s.va \div PAGESIZE /\ va' \in Nat /\ v \in Nat /\ s.va \div PAGESIZE <= v
      BY <1>1, <1>9, <1>12, UserPage DEF ControlInv, InSegment
    <3>2. QED
      BY SMTT(20), <3>1
  <2>3. QED
    BY <1>10, <2>1, <2>2
<1>13. Loading'
  <2>1. va' >= s.va \div PAGESIZE
    <3>1. va' = s.va \div PAGESIZE /\ va' \in Nat
      BY <1>1, <1>9 DEF ControlInv
    <3>2. QED
      BY SMTT(20), <3>1
  <2>2. BytesInPlace(pid, Segment)'
    BY <1>9, <1>11 DEF BytesInPlace
  <2>3. \A v \in User : InSegment(s, v) => ~(v < va') /\ Page(pid, v)'.perm = PTE_PWU
    BY <1>12
  <2>4. QED
    BY <1>1, <1>2, <1>8, <1>9, <2>1, <2>2, <2>3 DEF Loading
<1>14. QED
  BY <1>4, <1>5, <1>6, <1>7, <1>13 DEF ImagesInv

-----------------------------------------------------------------------------
(* virtual_memory_map() at work *)

\* A round of virtual_memory_map() keeps every segment that does not hold the
\* page being mapped.
LEMMA MapKeeps ==
  ASSUME LInv, ImagesInv, MapPage, UNCHANGED <<mem, bootVars, loadVars>>,
         NEW o \in 1 .. NLOAD, NEW i \in DOMAIN prog[o].segs, SegmentIn(o, prog[o].segs[i]),
         o = call.owner /\ prog[o].segs[i].load => ~InSegment(prog[o].segs[i], call.v)
  PROVE  SegmentIn(o, prog[o].segs[i])'
<1>1. UNCHANGED <<mem, ph, prog>>
  BY DEF bootVars, loadVars
<1>2. CASE ~prog[o].segs[i].load
  BY <1>1, <1>2 DEF SegmentIn
<1>3. CASE prog[o].segs[i].load
  <2>1. ASSUME NEW v \in User, InSegment(prog[o].segs[i], v)
        PROVE  Page(o, v)' = Page(o, v)
    <3>1. ~(o = call.owner /\ v = call.v)
      BY <1>3, <2>1
    <3>2. o \in Owners /\ v \in VPages
      BY UserPage
    <3>3. QED
      BY <3>1, <3>2, PageMapped DEF LInv
  <2>2. QED
    BY <1>1, <2>1, ImageStays DEF ImagesInv
<1>4. QED
  BY <1>2, <1>3

\* A round for the kernel, or below the user's pages, changes no user page.
LEMMA MapElsewhere ==
  ASSUME LInv, ImagesInv, ControlInv', MapStep,
         \/ call.owner = 0 /\ pc \in {"protect", "console", "setup"}
         \/ call.n = 1 /\ pc = "duplicate" /\ call.v < PROC_START
  PROVE  ImagesInv'
<1>1. MapPage /\ UNCHANGED <<mem, ph, boot, used, pc, pid, prog>>
  BY DEF MapStep, bootVars, loadVars
<1>2. ASSUME NEW o \in 1 .. NLOAD, NEW v \in User
      PROVE  Page(o, v)' = Page(o, v)
  <2>1. o \in Owners /\ o # 0 /\ v \in VPages /\ v \in Nat /\ v >= PROC_START
    BY UserPage
  <2>2. call.owner = 0 \/ v # call.v
    <3>1. call.v < PROC_START => v # call.v
      BY SMTT(20), <2>1, LoaderAssumption
    <3>2. QED
      BY <3>1
  <2>3. QED
    BY <1>1, <2>1, <2>2, PageMapped DEF LInv
<1>3. FilesInv' /\ EarlierLoaded'
  BY <1>1, <1>2, SameMemory
<1>4. FramesOwn'
  BY <1>1, <1>2, FramesSame DEF ImagesInv
<1>5. CallersPage'
  <2>1. call'.owner = call.owner /\ (call'.n = 0 \/ call'.n = call.n - 1)
    BY <1>1, CallMapped DEF LInv
  <2>2. call.n = 1 => call'.n = 0
    BY SMTT(20), <2>1
  <2>3. QED
    BY <1>1, <2>1, <2>2 DEF CallersPage
<1>6. Loading'
  BY <1>1 DEF Loading
<1>7. QED
  BY <1>3, <1>4, <1>5, <1>6 DEF ImagesInv

\* A page for the stack, or for a process that runs, is in no segment.
LEMMA MapBeside ==
  ASSUME LInv, ImagesInv, ControlInv', MapStep, call.n = 1, call.owner \in 1 .. NLOAD, Fresh,
         \/ pc = "setup" /\ call.v = STACK
         \/ pc = "user" /\ call.v \in User /\ Page(call.owner, call.v) = Unmapped
  PROVE  ImagesInv'
<1>1. MapPage /\ UNCHANGED <<mem, bootVars, loadVars>>
      /\ UNCHANGED <<mem, ph, boot, used, pc, pid, prog>>
  BY DEF MapStep, bootVars, loadVars
<1>2. FramesOwn'
  BY <1>1, FreshMapped DEF LInv, ImagesInv
<1>3. FilesInv'
  BY <1>1, FilesSame DEF ImagesInv
<1>4. CallersPage'
  <2>1. call'.n = 0
    <3>1. call'.n = 0 \/ call'.n = call.n - 1
      BY <1>1, CallMapped DEF LInv
    <3>2. QED
      BY SMTT(20), <3>1
  <2>2. QED
    BY <2>1 DEF CallersPage
<1>5. EarlierLoaded'
  <2> SUFFICES ASSUME NEW o \in 1 .. NLOAD, o < pid, NEW i \in DOMAIN prog[o].segs
               PROVE  SegmentIn(o, prog[o].segs[i])'
    BY <1>1 DEF EarlierLoaded
  <2>1. SegmentIn(o, prog[o].segs[i])
    BY DEF ImagesInv, EarlierLoaded
  <2>2. ASSUME o = call.owner, prog[o].segs[i].load, InSegment(prog[o].segs[i], call.v)
        PROVE  FALSE
    <3>1. LaidOut(prog[o].segs[i])
      BY <2>2, ProcessSegments DEF ImagesInv
    <3>2. CASE call.v = STACK
      <4>1. STACK \in Nat
        BY LoaderAssumption
      <4>2. STACK < STACK
        BY <2>2, <3>1, <3>2, <4>1, SegmentPages
      <4>3. QED
        BY SMTT(20), <4>1, <4>2
    <3>3. CASE call.v \in User /\ Page(call.owner, call.v) = Unmapped
      <4>1. Page(o, call.v).perm = Granted(prog[o].segs[i])
        BY <2>1, <2>2, <3>3 DEF SegmentIn
      <4>2. QED
        BY <2>2, <3>3, <4>1, GrantedMapped
    <3>4. QED
      BY <3>2, <3>3
  <2>3. QED
    BY <1>1, <2>1, <2>2, MapKeeps
<1>6. Loading'
  BY <1>1 DEF Loading
<1>7. QED
  BY <1>2, <1>3, <1>4, <1>5, <1>6 DEF ImagesInv

\* The round that a call for a page of the segment at hand consists of: the
\* call is over, and the segments before the present one are not touched.
LEMMA MapInSegment ==
  ASSUME LInv, ImagesInv, MapStep, pc \in {"allocate", "readonly"}, call.n = 1,
         call.owner = pid, InSegment(Segment, call.v)
  PROVE  /\ MapPage /\ FilesInv' /\ EarlierLoaded' /\ CallersPage'
         /\ UNCHANGED <<mem, ph, boot, used, pc, pid, prog, seg, va>>
         /\ call'.n = 0 /\ call.v \in User
         /\ \A i \in 1 .. seg - 1 : SegmentIn(pid, prog[pid].segs[i])'
         /\ \A v \in User : v # call.v => Page(pid, v)' = Page(pid, v)
<1>1. MapPage /\ UNCHANGED <<mem, bootVars, loadVars>>
      /\ UNCHANGED <<mem, ph, boot, used, pc, pid, prog, seg, va>>
  BY DEF MapStep, bootVars, loadVars
<1>2. /\ pid \in 1 .. NLOAD /\ seg \in DOMAIN prog[pid].segs /\ Segment.load
      /\ prog[pid] \in Programs /\ LaidOut(Segment)
      /\ \A i \in 1 .. seg - 1 : /\ i \in DOMAIN prog[pid].segs
                                 /\ SegmentIn(pid, prog[pid].segs[i])
  BY PresentSegment
<1>3. call.v \in Nat
  BY DEF LInv, PInv, Calls
<1>4. call.v \in User
  BY <1>2, <1>3, SegmentPages
<1>5. FilesInv'
  BY <1>1, FilesSame DEF ImagesInv
<1>6. call'.n = 0
  <2>1. call'.n = 0 \/ call'.n = call.n - 1
    BY <1>1, CallMapped DEF LInv
  <2>2. QED
    BY SMTT(20), <2>1
<1>7. CallersPage'
  BY <1>6 DEF CallersPage
<1>8. EarlierLoaded'
  <2> SUFFICES ASSUME NEW o \in 1 .. NLOAD, o < pid, NEW i \in DOMAIN prog[o].segs
               PROVE  SegmentIn(o, prog[o].segs[i])'
    BY <1>1 DEF EarlierLoaded
  <2>1. SegmentIn(o, prog[o].segs[i])
    BY DEF ImagesInv, EarlierLoaded
  <2>2. o # pid
    BY SMTT(20), <1>2, LoaderAssumption
  <2>3. QED
    BY <1>1, <2>1, <2>2, MapKeeps
<1>9. \A i \in 1 .. seg - 1 : SegmentIn(pid, prog[pid].segs[i])'
  <2>1. PICK o \in 1 .. NLOAD : o = pid /\ o = pid'
    BY <1>1, <1>2
  <2>2. ASSUME NEW i \in 1 .. seg - 1
        PROVE  SegmentIn(o, prog[o].segs[i])'
    <3>1. i \in DOMAIN prog[o].segs /\ SegmentIn(o, prog[o].segs[i])
      BY <1>2, <2>1
    <3>2. prog[o].segs[i].load => ~InSegment(prog[o].segs[i], call.v)
      BY <1>2, <1>3, <2>1, <3>1, SegmentsApart DEF Segment
    <3>3. QED
      BY <1>1, <3>1, <3>2, MapKeeps
  <2>3. pid' = o
    BY <2>1
  <2>4. ASSUME NEW i \in 1 .. seg - 1
        PROVE  SegmentIn(pid, prog[pid].segs[i])'
    <3>1. SegmentIn(o, prog[o].segs[i])'
      BY <2>2
    <3>2. QED
      BY <2>3, <3>1 DEF SegmentIn, BytesInPlace, ByteAt, Page
  <2>5. QED
    BY <2>4
<1>10. ASSUME NEW v \in User, v # call.v
       PROVE  Page(pid, v)' = Page(pid, v)
  <2>1. PICK o \in 1 .. NLOAD : o = pid /\ o = pid'
    BY <1>1, <1>2
  <2>2. Page(o, v)' = Page(o, v)
    BY <1>1, <1>10, UserPage, PageMapped DEF LInv
  <2>3. QED
    BY <2>1, <2>2 DEF Page
<1>11. QED
  BY <1>1, <1>4, <1>5, <1>6, <1>7, <1>8, <1>9, <1>10

\* A page of the segment being loaded is mapped, or there is no page table for
\* it and the call says so.
LEMMA MapAllocated ==
  ASSUME LInv, ImagesInv, ControlInv', MapStep, pc = "allocate", Fresh, call.n = 1,
         call.owner = pid, call.v = va - 1, InSegment(Segment, call.v)
  PROVE  ImagesInv'
<1>1. /\ MapPage /\ FilesInv' /\ EarlierLoaded' /\ CallersPage'
      /\ UNCHANGED <<mem, ph, boot, used, pc, pid, prog, seg, va>>
      /\ call'.n = 0 /\ call.v \in User
      /\ \A i \in 1 .. seg - 1 : SegmentIn(pid, prog[pid].segs[i])'
      /\ \A v \in User : v # call.v => Page(pid, v)' = Page(pid, v)
  BY MapInSegment
<1>2. /\ pid \in 1 .. NLOAD /\ seg \in DOMAIN prog[pid].segs /\ Segment.load
      /\ va >= Segment.va \div PAGESIZE
  BY PresentSegment
<1>3. FramesOwn'
  BY <1>1, <1>2, FreshMapped DEF LInv, ImagesInv
<1>4. PICK s : s = Segment /\ Segment' = s
  BY <1>1 DEF Segment
<1>5. ASSUME NEW v \in User, InSegment(s, v), v < va', v = va' - 1 => Idle' /\ call'.ret = 0
      PROVE  Page(pid, v)'.perm = PTE_PWU
  <2>1. CASE v # call.v
    <3>1. Page(pid, v).perm = PTE_PWU
      BY <1>1, <1>4, <1>5, <2>1 DEF ImagesInv, Loading
    <3>2. QED
      BY <1>1, <2>1, <3>1
  <2>2. CASE v = call.v
    <3>1. call'.ret = 0 /\ call.perm = PTE_PWU /\ "P" \in call.perm
      BY <1>1, <1>5, <2>2, GrantedMapped DEF Fresh
    <3>2. call.v < 2 * NENT
      <4>1. ~(call.v < 2 * NENT) => call'.ret = -1
        BY <1>1, <3>1, CallMapped DEF LInv
      <4>2. QED
        BY SMTT(20), <3>1, <4>1
    <3>3. PICK o \in 1 .. NLOAD : o = pid /\ o = pid'
      BY <1>1, <1>2
    <3>4. o \in Owners /\ v \in VPages /\ o = call.owner
      BY <3>3, UserPage
    <3>5. Page(o, v)' = Mapping(call.pn, call.perm)
      BY <1>1, <2>2, <3>1, <3>2, <3>4, PageMapped DEF LInv
    <3>6. Page(o, v)'.perm = PTE_PWU
      BY SMTT(20), <3>1, <3>5 DEF Mapping
    <3>7. QED
      BY <3>3, <3>6 DEF Page
  <2>3. QED
    BY <2>1, <2>2
<1>6. Loading'
  <2>1. \A v \in User : InSegment(s, v) /\ v < va' /\ (v = va' - 1 => Idle' /\ call'.ret = 0)
          => Page(pid, v)'.perm = PTE_PWU
    BY <1>5
  <2>2. QED
    BY <1>1, <1>2, <1>4, <2>1 DEF Loading
<1>7. QED
  BY <1>1, <1>3, <1>6 DEF ImagesInv

\* A page of the segment keeps its frame and becomes read-only.
LEMMA MapReadOnly ==
  ASSUME LInv, ImagesInv, ControlInv', MapStep, pc = "readonly", ~Segment.write, call.n = 1,
         call.owner = pid, call.v = va - 1, InSegment(Segment, call.v),
         call.perm = PTE_PU, call.pn = Page(pid, call.v).pn
  PROVE  ImagesInv'
<1>1. /\ MapPage /\ FilesInv' /\ EarlierLoaded' /\ CallersPage'
      /\ UNCHANGED <<mem, ph, boot, used, pc, pid, prog, seg, va>>
      /\ call'.n = 0 /\ call.v \in User
      /\ \A i \in 1 .. seg - 1 : SegmentIn(pid, prog[pid].segs[i])'
      /\ \A v \in User : v # call.v => Page(pid, v)' = Page(pid, v)
  BY MapInSegment
<1>2. /\ pid \in 1 .. NLOAD /\ seg \in DOMAIN prog[pid].segs /\ Segment.load /\ LaidOut(Segment)
      /\ va >= Segment.va \div PAGESIZE /\ va \in Nat
  BY PresentSegment
<1>3. PICK s : s = Segment /\ Segment' = s
  BY <1>1 DEF Segment
<1>4. /\ BytesInPlace(pid, s)
      /\ \A v \in User : InSegment(s, v) =>
           Page(pid, v).perm = IF v < va /\ (v = va - 1 => Idle) /\ ~s.write
                               THEN PTE_PU ELSE PTE_PWU
  BY <1>3 DEF ImagesInv, Loading
<1>5. PICK o \in 1 .. NLOAD : o = pid /\ o = pid'
  BY <1>1, <1>2
<1>6. Page(o, call.v) # Unmapped
  <2>1. Page(o, call.v).perm \in {PTE_PU, PTE_PWU}
    BY <1>1, <1>3, <1>4, <1>5
  <2>2. Unmapped.perm = {}
    BY SMTT(20) DEF Unmapped, Mapping
  <2>3. QED
    BY <2>1, <2>2, GrantedMapped
<1>7. Page(o, call.v).pn = call.pn /\ \A v \in User : v = call.v =>
        Page(o, v)' = Mapping(call.pn, PTE_PU)
  <2>1. o \in Owners /\ call.v \in VPages /\ o = call.owner
    BY <1>1, <1>5, UserPage
  <2>2. call.v < 2 * NENT
    BY <1>6, <2>1, MappedPage DEF LInv
  <2>3. QED
    BY <1>1, <1>5, <2>1, <2>2, UserPage, PageMapped, GrantedMapped DEF LInv
<1>8. ASSUME NEW q \in 1 .. NLOAD, NEW v \in User
      PROVE  /\ Page(q, v)'.pn = Page(q, v).pn
             /\ Page(q, v)' # Unmapped => Page(q, v) # Unmapped
  <2>1. CASE q = o /\ v = call.v
    <3>1. Page(q, v)'.pn = call.pn
      BY SMTT(20), <1>7, <2>1 DEF Mapping
    <3>2. QED
      BY <1>6, <1>7, <2>1, <3>1
  <2>2. CASE ~(q = o /\ v = call.v)
    <3>1. q \in Owners /\ v \in VPages /\ ~(q = call.owner /\ v = call.v)
      BY <1>5, <2>2, UserPage
    <3>2. Page(q, v)' = Page(q, v)
      BY <1>1, <3>1, PageMapped DEF LInv
    <3>3. QED
      BY <3>2
  <2>3. QED
    BY <2>1, <2>2
<1>9. FramesOwn'
  BY <1>1, <1>8, FramesRemapped DEF ImagesInv
<1>10. BytesInPlace(pid, Segment)'
  <2>1. LaidOut(s) /\ BytesInPlace(o, s) /\ prog'[o] = prog[o]
    BY <1>1, <1>2, <1>3, <1>4, <1>5
  <2>2. BytesInPlace(o, s)'
    BY <1>1, <1>8, <2>1, SegmentStays
  <2>3. QED
    BY <1>3, <1>5, <2>2 DEF BytesInPlace, ByteAt, Page
<1>11. ASSUME NEW v \in User, InSegment(s, v)
       PROVE  Page(pid, v)'.perm = IF v < va' /\ (v = va' - 1 => Idle') /\ ~s.write
                                   THEN PTE_PU ELSE PTE_PWU
  <2>1. CASE v = call.v
    <3>1. Page(pid, v)' = Page(o, v)'
      BY <1>5 DEF Page
    <3>2. Page(o, v)' = Mapping(call.pn, PTE_PU) /\ Mapping(call.pn, PTE_PU).perm = PTE_PU
      BY <1>7, <2>1 DEF Mapping
    <3>3. v < va'
      BY SMTT(20), <1>1, <1>2, <2>1
    <3>4. Idle' /\ ~s.write
      BY <1>1, <1>3 DEF Idle
    <3>5. QED
      BY <3>1, <3>2, <3>3, <3>4
  <2>2. CASE v # call.v
    BY <1>1, <1>4, <1>11, <2>2
  <2>3. QED
    BY <2>1, <2>2
<1>12. Loading'
  <2>1. \A v \in User : InSegment(s, v) =>
          Page(pid, v)'.perm = IF v < va' /\ (v = va' - 1 => Idle') /\ ~s.write
                               THEN PTE_PU ELSE PTE_PWU
    BY <1>11
  <2>2. QED
    BY <1>1, <1>2, <1>3, <1>10, <2>1 DEF Loading
<1>13. QED
  BY <1>1, <1>9, <1>12 DEF ImagesInv

\* A round of virtual_memory_map(), whoever called it, keeps the images.
LEMMA MapImages ==
  ASSUME LInv, ImagesInv, ControlInv', MapStep
  PROVE  ImagesInv'
<1>1. call.n # 0
  BY DEF MapStep, MapPage
<1>2. CallersPage
  BY DEF ImagesInv
<1>3. QED
  BY <1>1, <1>2, MapElsewhere, MapBeside, MapAllocated, MapReadOnly DEF CallersPage

-----------------------------------------------------------------------------
(* The programs are loaded *)

\* Every step of the boot loader, the kernel and the programs does.
LEMMA ImagesStep ==
  ASSUME LInv, BootInv, ImagesInv, [Next]_vars
  PROVE  ImagesInv'
<1>1. ControlInv'
  BY ControlStep
<1>2. CASE Hang \/ UNCHANGED vars
  <2>1. UNCHANGED <<mem, ph, boot, PagingVars, loadVars>>
    BY <1>2 DEF Hang, vars, bootVars
  <2>2. QED
    BY <2>1, Untouched
<1>3. CASE BootStep
  BY <1>1, <1>3, BootStepImages
<1>4. CASE MapStep
  BY <1>1, <1>4, MapImages
<1>5. CASE KernelStep
  <2>1. CASE KernelInit
    BY <1>1, <2>1, KernelInitImages
  <2>2. CASE MapIdentity \/ Protect \/ OpenConsole
    BY <1>1, <2>2, KernelMapsImages
  <2>3. CASE \E p \in Programs : Setup(p)
    BY <1>1, <2>3, SetupImages
  <2>4. CASE DuplicatePage
    BY <1>1, <2>4, DuplicateImages
  <2>5. CASE StartLoading
    BY <1>1, <2>5, StartImages
  <2>6. CASE SkipSegment
    BY <1>1, <2>6, SkipImages
  <2>7. CASE AllocatePage
    BY <1>1, <2>7, AllocateImages
  <2>8. CASE LoadFails \/ RunFirst
    BY <1>1, <2>8, StopImages
  <2>9. CASE CopySegment
    BY <1>1, <2>9, CopyImages
  <2>10. CASE ReadOnlyPage
    BY <1>1, <2>10, ReadOnlyImages
  <2>11. CASE SegmentDone
    BY <1>1, <2>11, SegmentDoneImages
  <2>12. CASE GiveStack
    BY <1>1, <2>12, StackImages
  <2>13. QED
    BY <1>5, <2>1, <2>2, <2>3, <2>4, <2>5, <2>6, <2>7, <2>8, <2>9, <2>10, <2>11, <2>12
       DEF KernelStep
<1>6. CASE \E o \in 1 .. NLOAD, v \in {w \in VPages : w >= PROC_START} : UserAlloc(o, v)
  <2>1. PICK o \in 1 .. NLOAD, v \in User : UserAlloc(o, v)
    BY <1>6 DEF User
  <2>2. QED
    BY <1>1, <2>1, UserAllocImages
<1>7. CASE Reboot
  BY <1>1, <1>7, RebootImages
<1>8. QED
  BY <1>2, <1>3, <1>4, <1>5, <1>6, <1>7 DEF Next

\* Before anything is read from the disk there is no image to speak of.
LEMMA ImagesInit ==
  ASSUME Init
  PROVE  ImagesInv
<1>1. /\ pc = "boot" /\ pid = 0 /\ used = {} /\ seg = 0 /\ va = 0 /\ boot.pc # "kernel"
      /\ call.n = 0 /\ prog = [o \in Owners |-> NoProgram]
  BY BInvInit DEF Init, PagingInit, NoCall, BInv
<1>2. ControlInv
  <2>1. 0 \in Nat
    BY SMTT(20)
  <2>2. QED
    BY <1>1, <2>1 DEF ControlInv
<1>3. \A o \in Owners : ~Live(o)
  BY DEF Init, PagingInit, NoTables, Live, Levels
<1>4. \A o \in 1 .. NLOAD, v \in User : Page(o, v) = Unmapped
  BY <1>3, UserPage DEF Page, Mappings
<1>5. FramesOwn
  BY <1>1, <1>4 DEF FramesOwn
<1>6. EarlierLoaded
  <2>1. \A o \in 1 .. NLOAD : ~(o < 0)
    BY SMTT(20), LoaderAssumption
  <2>2. QED
    BY <1>1, <2>1 DEF EarlierLoaded
<1>7. FilesInv /\ CallersPage /\ Loading
  BY <1>1 DEF FilesInv, CallersPage, Loading
<1>8. QED
  BY <1>2, <1>5, <1>6, <1>7 DEF ImagesInv

\* Through every loop of process_setup() and program_load_segment(), every
\* round of virtual_memory_map() and every reboot, the processes set up so far
\* have their images in pages of their own (k-loader.c and kernel.c).
THEOREM ImagesInvariant == Spec => []ImagesInv
<1>1. Init => ImagesInv
  BY ImagesInit
<1>2. LInv /\ BootInv /\ ImagesInv /\ [Next]_vars => ImagesInv'
  BY ImagesStep
<1>3. QED
  BY <1>1, <1>2, PageTablesBuilt, BootInvariant, PTL DEF Spec

\* When the first process runs all are set up, and the processor's walk is what
\* lookup shows.
LEMMA ImagesLoaded ==
  ASSUME LInv, ImagesInv
  PROVE  ProgramsLoaded
<1> SUFFICES ASSUME pc = "user", NEW o \in 1 .. NLOAD, NEW i \in DOMAIN prog[o].segs,
                    prog[o].segs[i].load, NEW k \in 0 .. prog[o].segs[i].memsz - 1
             PROVE  /\ mem[Physical(o, prog[o].segs[i].va + k)]
                         = ImageByte(prog[o], prog[o].segs[i], k)
                    /\ HardwareWalk(tab, tables[o]["L1"],
                                    (prog[o].segs[i].va + k) \div PAGESIZE).perm
                         = Granted(prog[o].segs[i])
  BY DEF ProgramsLoaded
<1>1. PICK s : s = prog[o].segs[i]
  OBVIOUS
<1>2. LaidOut(s)
  BY <1>1, ProcessSegments DEF ImagesInv
<1>3. SegmentIn(o, s)
  <2>1. o < pid
    <3>1. pid > NLOAD /\ pid \in Nat
      BY DEF LInv, SetupInv, ImagesInv, ControlInv
    <3>2. QED
      BY SMTT(20), <3>1, LoaderAssumption
  <2>2. QED
    BY <1>1, <2>1 DEF ImagesInv, EarlierLoaded
<1>4. PICK v \in User : v = (s.va + k) \div PAGESIZE /\ InSegment(s, v)
  BY <1>1, <1>2, SegmentBytes
<1>5. /\ mem[ByteAt(o, s.va + k)] = ImageByte(prog[o], s, k)
      /\ Page(o, v).perm = Granted(s)
  BY <1>1, <1>3, <1>4 DEF SegmentIn, BytesInPlace
<1>6. HardwareWalk(tab, tables[o]["L1"], v) = Page(o, v)
  <2>1. Page(o, v) # Unmapped
    BY <1>5, GrantedMapped
  <2>2. QED
    BY <2>1, UserPage, MappedPage DEF LInv
<1>7. Physical(o, s.va + k) = ByteAt(o, s.va + k)
  BY <1>4, <1>6 DEF Physical, ByteAt
<1>8. QED
  BY <1>1, <1>4, <1>5, <1>6, <1>7

\* When the first process runs, every byte of every segment of every program,
\* read by the processor through the process's page table, is the file's byte
\* or zero past the file's part, and the pages have the segment's permissions
\* (program_load_segment() in k-loader.c).
THEOREM ProgramsAreLoaded == Spec => []ProgramsLoaded
<1>1. LInv /\ ImagesInv => ProgramsLoaded
  BY ImagesLoaded
<1>2. QED
  BY <1>1, PageTablesBuilt, ImagesInvariant, PTL
=============================================================================
