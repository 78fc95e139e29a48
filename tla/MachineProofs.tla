--------------------------- MODULE MachineProofs ----------------------------
(***************************************************************************)
(* Programs on the processor, for every number of processes and every size *)
(* of the screen: exceptions restore what they saved, the memory viewer    *)
(* finds a process to show, and what programs print stays on the screen    *)
(* and out of its bottom rows.                                             *)
(***************************************************************************)
EXTENDS Machine, WellFoundedInduction, TLAPS

\* A leaf is Zenon's unless it names SMT, as the ones with arithmetic do.
USE ZenonT(20)

-----------------------------------------------------------------------------
(* The lists of k-exception.S and x86-64.h *)

\* The lengths of the lists.
LEMMA Lengths ==
  /\ Len(Fields) = 24 /\ DOMAIN Fields = 1 .. 24
  /\ Len(Pushed) = 17 /\ DOMAIN Pushed = 1 .. 17
  /\ Len(Popped) = 17 /\ DOMAIN Popped = 1 .. 17
  /\ Len(Iret) = 5 /\ DOMAIN Iret = 1 .. 5
  BY SMTT(20) DEF Fields, Pushed, Popped, Iret

\* What is popped is what the structure's first fields name, and was pushed in
\* the opposite order.
LEMMA PoppedFields ==
  ASSUME NEW i \in 1 .. 17
  PROVE  Fields[i] = Popped[i] /\ Pushed[18 - i] = Popped[i]
<1>1. i \in 1 .. 6 \/ i \in 7 .. 12 \/ i \in 13 .. 17
  BY SMTT(20)
<1>2. CASE i \in 1 .. 6
  BY SMTT(20), <1>2 DEF Fields, Pushed, Popped
<1>3. CASE i \in 7 .. 12
  BY SMTT(20), <1>3 DEF Fields, Pushed, Popped
<1>4. CASE i \in 13 .. 17
  BY SMTT(20), <1>4 DEF Fields, Pushed, Popped
<1>5. QED
  BY <1>1, <1>2, <1>3, <1>4

\* The structure ends with what iretq pops.
LEMMA IretFields ==
  ASSUME NEW i \in 1 .. 5
  PROVE  Fields[19 + i] = Iret[i]
  BY SMTT(20) DEF Fields, Iret

\* No two fields have the same name.
LEMMA FieldsDistinct ==
  ASSUME NEW i \in 1 .. 24, NEW j \in 1 .. 24, Fields[i] = Fields[j]
  PROVE  i = j
  BY SMTT(20) DEF Fields

\* exception_return finds each register in the field of its name.
LEMMA RegisterField ==
  ASSUME NEW r \in Registers
  PROVE  /\ Fields[ReturnOffset[r]] = r
         /\ \/ ReturnOffset[r] \in 1 .. 17 /\ r = Popped[ReturnOffset[r]]
            \/ ReturnOffset[r] - 19 \in 1 .. 5 /\ r = Iret[ReturnOffset[r] - 19]
<1>1. CASE r \in InSeq(Popped)
  <2>1. PICK i \in 1 .. 17 : i = ReturnOffset[r] /\ Popped[i] = r
    <3>1. \E i \in DOMAIN Popped : Popped[i] = r
      BY <1>1 DEF InSeq
    <3>2. LET i == CHOOSE i \in DOMAIN Popped : Popped[i] = r
          IN  i \in DOMAIN Popped /\ Popped[i] = r
      BY <3>1
    <3>3. ReturnOffset[r] = CHOOSE i \in DOMAIN Popped : Popped[i] = r
      BY <1>1 DEF ReturnOffset, Index
    <3>4. QED
      BY <3>2, <3>3, Lengths
  <2>2. QED
    BY <2>1, PoppedFields
<1>2. CASE r \notin InSeq(Popped)
  <2>1. r \in InSeq(Iret)
    BY <1>2 DEF Registers
  <2>2. PICK i \in 1 .. 5 : 19 + i = ReturnOffset[r] /\ Iret[i] = r
    <3>1. \E i \in DOMAIN Iret : Iret[i] = r
      BY <2>1 DEF InSeq
    <3>2. LET i == CHOOSE i \in DOMAIN Iret : Iret[i] = r
          IN  i \in DOMAIN Iret /\ Iret[i] = r
      BY <3>1
    <3>3. Index(Iret)[r] = CHOOSE i \in DOMAIN Iret : Iret[i] = r
      BY <2>1 DEF Index
    <3>4. ReturnOffset[r] = Len(Popped) + 2 + Index(Iret)[r]
      BY <1>2 DEF ReturnOffset
    <3>5. PICK i \in 1 .. 5 : Index(Iret)[r] = i /\ Iret[i] = r
      BY <3>2, <3>3, Lengths
    <3>6. QED
      BY SMTT(20), <3>4, <3>5, Lengths
  <2>3. ReturnOffset[r] - 19 = i
    BY SMTT(20), <2>2
  <2>4. QED
    BY <2>2, <2>3, IretFields
<1>3. QED
  BY <1>1, <1>2

\* Every register is a field.
LEMMA RegistersAreFields ==
  ASSUME NEW r \in Registers
  PROVE  /\ r \in InSeq(Fields) /\ FieldIndex[r] = ReturnOffset[r]
         /\ ReturnOffset[r] \in 1 .. 24 /\ r # "intno" /\ r # "err"
<1>1. ReturnOffset[r] \in 1 .. 24 /\ ReturnOffset[r] # 18 /\ ReturnOffset[r] # 19
  BY SMTT(20), RegisterField
<1>2. r \in InSeq(Fields)
  BY <1>1, RegisterField, Lengths DEF InSeq
<1>3. FieldIndex[r] \in 1 .. 24 /\ Fields[FieldIndex[r]] = r
  <2>1. \E i \in DOMAIN Fields : Fields[i] = r
    BY <1>2 DEF InSeq
  <2>2. LET i == CHOOSE i \in DOMAIN Fields : Fields[i] = r
        IN  i \in DOMAIN Fields /\ Fields[i] = r
    BY <2>1
  <2>3. FieldIndex[r] = CHOOSE i \in DOMAIN Fields : Fields[i] = r
    BY <1>2 DEF FieldIndex, Index
  <2>4. QED
    BY <2>2, <2>3, Lengths
<1>4. FieldIndex[r] = ReturnOffset[r]
  BY SMTT(20), <1>1, <1>3, RegisterField, FieldsDistinct
<1>5. Fields[18] = "intno" /\ Fields[19] = "err"
  BY DEF Fields
<1>6. r # "intno" /\ r # "err"
  BY SMTT(20), <1>1, <1>5, RegisterField, FieldsDistinct
<1>7. QED
  BY <1>1, <1>2, <1>4, <1>6

\* exception_return pops the fields with the names of the registers.
LEMMA RestoredFields ==
  ASSUME NEW f
  PROVE  Restored(f) = [r \in Registers |-> f[r]]
  BY RegisterField DEF Restored

\* Where the parts of a stack of two parts are.
LEMMA TwoParts ==
  ASSUME NEW T, NEW a \in Seq(T), NEW b \in Seq(T)
  PROVE  /\ a \o b \in Seq(T) /\ Len(a \o b) = Len(a) + Len(b)
         /\ \A i \in 1 .. Len(a) : (a \o b)[i] = a[i]
         /\ \A i \in 1 .. Len(b) : (a \o b)[Len(a) + i] = b[i]
  BY SMTT(20)

\* The vectors that programs and the timer come in with.
Vectors == {INT_TIMER, INT_GPF, INT_PAGEFAULT, INT_SYS_YIELD, INT_SYS_FORK,
            INT_SYS_EXIT, INT_SYS_MEM_TOG}

\* With any of them the stub and the processor push seven words, and iretq's
\* are the last.
LEMMA StackTop ==
  ASSUME NEW v \in Vectors, NEW err, NEW regs, NEW T,
         T = {regs[r] : r \in Registers} \cup {Word("number", v), Zero, err}
  PROVE  \/ /\ StubFrame(v) = <<Word("number", v)>>
            /\ HardwareFrame(v, err, regs) = <<err>> \o [i \in 1 .. 5 |-> regs[Iret[i]]]
         \/ /\ StubFrame(v) = <<Word("number", v), Zero>>
            /\ HardwareFrame(v, err, regs) = <<>> \o [i \in 1 .. 5 |-> regs[Iret[i]]]
<1>0. v \in {32, 13, 14, 50, 52, 53, 56}
  BY DEF Vectors, INT_GPF, INT_PAGEFAULT, INT_TIMER, INT_SYS_YIELD, INT_SYS_FORK,
         INT_SYS_EXIT, INT_SYS_MEM_TOG
<1>1. CASE v \in {INT_GPF, INT_PAGEFAULT}
  <2>1. Gate(v).handler \in {"gpf", "pagefault"}
    <3>1. Gate(13) = [handler |-> "gpf", dpl |-> 0]
      BY SMTT(20) DEF Gate, INT_GPF, INT_PAGEFAULT, INT_TIMER, INT_SYS
    <3>2. Gate(14) = [handler |-> "pagefault", dpl |-> 0]
      BY SMTT(20) DEF Gate, INT_GPF, INT_PAGEFAULT, INT_TIMER, INT_SYS
    <3>3. QED
      BY SMTT(20), <1>1, <3>1, <3>2 DEF INT_GPF, INT_PAGEFAULT
  <2>2. StubFrame(v) = <<Word("number", v)>>
    BY <2>1 DEF StubFrame
  <2>3. QED
    BY <2>2, <1>1, Lengths DEF HardwareFrame
<1>2. CASE v \notin {INT_GPF, INT_PAGEFAULT}
  <2>1. v \in {32, 50, 52, 53, 56}
    BY <1>0, <1>2 DEF INT_GPF, INT_PAGEFAULT
  <2>2. Gate(v).handler \in {"timer", "sys"}
    BY SMTT(20), <2>1 DEF Gate, INT_GPF, INT_PAGEFAULT, INT_TIMER, INT_SYS
  <2>3. StubFrame(v) = <<Word("number", v), Zero>>
    BY <2>2 DEF StubFrame
  <2>4. v # INT_ALIGN
    BY SMTT(20), <2>1 DEF INT_ALIGN
  <2>5. QED
    BY <2>3, <2>4, <1>2, Lengths DEF HardwareFrame
<1>3. QED
  BY <1>1, <1>2

\* Where the first and the last of four parts are.
LEMMA FourParts ==
  ASSUME NEW T, NEW a \in Seq(T), NEW b \in Seq(T), NEW e \in Seq(T), NEW d \in Seq(T)
  PROVE  /\ Len(a \o b \o (e \o d)) = Len(a) + Len(b) + (Len(e) + Len(d))
         /\ \A i \in 1 .. Len(a) : (a \o b \o (e \o d))[i] = a[i]
         /\ \A i \in 1 .. Len(d) :
              (a \o b \o (e \o d))[Len(a) + Len(b) + (Len(e) + i)] = d[i]
<1>1. /\ e \o d \in Seq(T) /\ Len(e \o d) = Len(e) + Len(d)
      /\ \A i \in 1 .. Len(d) : (e \o d)[Len(e) + i] = d[i]
  BY SMTT(20), TwoParts
<1>2. /\ a \o b \in Seq(T) /\ Len(a \o b) = Len(a) + Len(b)
      /\ \A i \in 1 .. Len(a) : (a \o b)[i] = a[i]
  BY TwoParts
<1>3. PICK c \in Seq(T) : c = e \o d
  BY <1>1
<1>4. PICK ab \in Seq(T) : ab = a \o b
  BY <1>2
<1>5. /\ Len(ab \o c) = Len(ab) + Len(c)
      /\ \A i \in 1 .. Len(ab) : (ab \o c)[i] = ab[i]
      /\ \A i \in 1 .. Len(c) : (ab \o c)[Len(ab) + i] = c[i]
  BY SMTT(20), TwoParts
<1>6. PICK la \in Nat, lb \in Nat, le \in Nat, ld \in Nat :
        la = Len(a) /\ lb = Len(b) /\ le = Len(e) /\ ld = Len(d)
  BY SMTT(20)
<1>7. \A i \in 1 .. la : i \in 1 .. la + lb
  BY SMTT(20)
<1>8. \A i \in 1 .. ld : le + i \in 1 .. le + ld
  BY SMTT(20)
<1>9. Len(ab \o c) = la + lb + (le + ld)
  BY <1>1, <1>2, <1>3, <1>4, <1>5, <1>6
<1>10. \A i \in 1 .. la : (ab \o c)[i] = a[i]
  BY <1>2, <1>4, <1>5, <1>6, <1>7
<1>11. ASSUME NEW i \in 1 .. ld PROVE (ab \o c)[la + lb + (le + i)] = d[i]
  <2>1. Len(ab) = la + lb /\ Len(c) = le + ld
    BY <1>1, <1>2, <1>3, <1>4, <1>6
  <2>2. le + i \in 1 .. Len(c)
    BY <2>1, <1>8
  <2>3. (ab \o c)[Len(ab) + (le + i)] = c[le + i]
    BY <2>2, <1>5
  <2>4. c[le + i] = d[i]
    BY <1>1, <1>3, <1>6
  <2>5. QED
    BY <2>1, <2>3, <2>4
<1>12. QED
  BY <1>3, <1>4, <1>6, <1>9, <1>10, <1>11

\* The stack has a word for each field, and each register where
\* exception_return looks for it.
LEMMA FrameRegister ==
  ASSUME NEW v \in Vectors, NEW err, NEW regs, NEW r \in Registers
  PROVE  /\ Len(Frame(v, err, regs)) = 24
         /\ Frame(v, err, regs)[ReturnOffset[r]] = regs[r]
<1> DEFINE T == {regs[x] : x \in Registers} \cup {Word("number", v), Zero, err}
           a == [i \in 1 .. Len(Pushed) |-> regs[Pushed[Len(Pushed) + 1 - i]]]
           d == [i \in 1 .. 5 |-> regs[Iret[i]]]
<1>1. \A i \in 1 .. 17 : Pushed[18 - i] = Popped[i] /\ Popped[i] \in Registers
  BY PoppedFields, Lengths DEF Registers, InSeq
<1>2. \A i \in 1 .. 5 : Iret[i] \in Registers
  BY Lengths DEF Registers, InSeq
<1>3. a \in Seq(T) /\ Len(a) = 17 /\ \A i \in 1 .. 17 : a[i] = regs[Popped[i]]
  <2>1. a = [i \in 1 .. 17 |-> regs[Pushed[17 + 1 - i]]]
    BY Lengths
  <2>2. \A i \in 1 .. 17 : 17 + 1 - i = 18 - i
    BY SMTT(20)
  <2>3. \A i \in 1 .. 17 : a[i] = regs[Popped[i]]
    <3> SUFFICES ASSUME NEW i \in 1 .. 17 PROVE a[i] = regs[Popped[i]]
      OBVIOUS
    <3>1. a[i] = regs[Pushed[17 + 1 - i]]
      BY <2>1
    <3>2. 17 + 1 - i = 18 - i
      BY <2>2
    <3>3. Pushed[18 - i] = Popped[i]
      BY <1>1
    <3>4. QED
      BY <3>1, <3>2, <3>3
  <2>4. \A i \in 1 .. 17 : regs[Popped[i]] \in T
    BY <1>1
  <2>5. a = [i \in 1 .. 17 |-> a[i]]
    BY <2>1
  <2> HIDE DEF a, T
  <2>6. QED
    BY SMTT(20), <2>3, <2>4, <2>5
<1>4. d \in Seq(T) /\ Len(d) = 5 /\ \A i \in 1 .. 5 : d[i] = regs[Iret[i]]
  <2>1. \A i \in 1 .. 5 : regs[Iret[i]] \in T
    BY <1>2
  <2> HIDE DEF T
  <2>2. QED
    BY SMTT(20), <2>1
<1>5. Word("number", v) \in T /\ Zero \in T /\ err \in T
  OBVIOUS
<1>6. Frame(v, err, regs) = a \o StubFrame(v) \o HardwareFrame(v, err, regs)
  BY DEF Frame
<1>7. \/ /\ StubFrame(v) = <<Word("number", v)>>
         /\ HardwareFrame(v, err, regs) = <<err>> \o d
      \/ /\ StubFrame(v) = <<Word("number", v), Zero>>
         /\ HardwareFrame(v, err, regs) = <<>> \o d
  BY StackTop
<1> HIDE DEF T, a, d
<1>s. /\ <<Word("number", v)>> \in Seq(T) /\ Len(<<Word("number", v)>>) = 1
      /\ <<Word("number", v), Zero>> \in Seq(T) /\ Len(<<Word("number", v), Zero>>) = 2
      /\ <<err>> \in Seq(T) /\ Len(<<err>>) = 1 /\ <<>> \in Seq(T) /\ Len(<<>>) = 0
  BY SMTT(20), <1>5
<1>8. PICK b \in Seq(T), e \in Seq(T) :
        /\ Frame(v, err, regs) = a \o b \o (e \o d)
        /\ (Len(b) = 1 /\ Len(e) = 1) \/ (Len(b) = 2 /\ Len(e) = 0)
  <2>1. CASE /\ StubFrame(v) = <<Word("number", v)>>
             /\ HardwareFrame(v, err, regs) = <<err>> \o d
    <3>1. Frame(v, err, regs) = a \o <<Word("number", v)>> \o (<<err>> \o d)
      BY <2>1, <1>6
    <3>2. <<Word("number", v)>> \in Seq(T) /\ <<err>> \in Seq(T)
      BY <1>s
    <3> USE <3>2
    <3> WITNESS <<Word("number", v)>> \in Seq(T), <<err>> \in Seq(T)
    <3>3. QED
      BY <3>1, <1>s
  <2>2. CASE /\ StubFrame(v) = <<Word("number", v), Zero>>
             /\ HardwareFrame(v, err, regs) = <<>> \o d
    <3>1. Frame(v, err, regs) = a \o <<Word("number", v), Zero>> \o (<<>> \o d)
      BY <2>2, <1>6
    <3>2. <<Word("number", v), Zero>> \in Seq(T) /\ <<>> \in Seq(T)
      BY <1>s
    <3> USE <3>2
    <3> WITNESS <<Word("number", v), Zero>> \in Seq(T), <<>> \in Seq(T)
    <3>3. QED
      BY <3>1, <1>s
  <2>3. QED
    BY <1>7, <2>1, <2>2
<1>9. /\ Len(a \o b \o (e \o d)) = Len(a) + Len(b) + (Len(e) + Len(d))
      /\ \A i \in 1 .. Len(a) : (a \o b \o (e \o d))[i] = a[i]
      /\ \A i \in 1 .. Len(d) :
           (a \o b \o (e \o d))[Len(a) + Len(b) + (Len(e) + i)] = d[i]
  <2>1. a \in Seq(T) /\ d \in Seq(T)
    BY <1>3, <1>4
  <2>2. QED
    BY SMTT(20), <2>1, FourParts
<1> DEFINE f == Frame(v, err, regs)
<1>f. /\ Len(f) = 24
      /\ \A i \in 1 .. 17 : f[i] = a[i]
      /\ \A i \in 1 .. 5 : f[19 + i] = d[i]
  <2>1. PICK k \in {1, 2}, l \in {0, 1} : k = Len(b) /\ l = Len(e) /\ k + l = 2
    BY SMTT(20), <1>8
  <2>2. /\ Len(f) = 17 + k + (l + 5)
        /\ \A i \in 1 .. 17 : f[i] = a[i]
        /\ \A i \in 1 .. 5 : f[17 + k + (l + i)] = d[i]
    <3>1. Len(a) = 17 /\ Len(d) = 5
      BY <1>3, <1>4
    <3>2. f = a \o b \o (e \o d)
      BY <1>8
    <3> HIDE DEF f
    <3>3. QED
      BY <2>1, <3>1, <3>2, <1>9
  <2> HIDE DEF f
  <2>3. \A i \in 1 .. 5 : 17 + k + (l + i) = 19 + i
    BY SMTT(20), <2>1
  <2>4. 17 + k + (l + 5) = 24
    BY SMTT(20), <2>1
  <2>5. QED
    BY <2>2, <2>3, <2>4
<1> HIDE DEF f
<1>10. CASE ReturnOffset[r] \in 1 .. 17 /\ r = Popped[ReturnOffset[r]]
  BY SMTT(20), <1>10, <1>3, <1>f DEF f
<1>11. CASE ReturnOffset[r] - 19 \in 1 .. 5 /\ r = Iret[ReturnOffset[r] - 19]
  <2>1. PICK i \in 1 .. 5 : i = ReturnOffset[r] - 19
    BY <1>11
  <2>2. 19 + i = ReturnOffset[r]
    BY SMTT(20), <2>1, RegistersAreFields
  <2>3. f[19 + i] = regs[Iret[i]]
    BY <1>4, <1>f
  <2>4. QED
    BY <2>1, <2>2, <2>3, <1>11, <1>f DEF f
<1>12. QED
  BY <1>10, <1>11, RegisterField

\* What exception() stores of a program's registers is what exception_return
\* would give back to it.
LEMMA ExceptionKeeps ==
  ASSUME NEW v \in Vectors, IsContext(cpu)
  PROVE  /\ Restored(Entered(v)) = cpu
         /\ Entered(v) = [f \in InSeq(Fields) |-> Entered(v)[f]]
<1> DEFINE frame == Frame(v, Word("error", "user"), cpu)
           stored == Stored(frame)
<1>1. Entered(v) = [stored EXCEPT !["intno"] = Zero, !["err"] = Zero]
  BY DEF Entered
<1>2. stored = [f \in InSeq(Fields) |-> stored[f]]
  BY DEF Stored
<1>3. ASSUME NEW r \in Registers PROVE stored[r] = cpu[r]
  <2>1. /\ r \in InSeq(Fields) /\ FieldIndex[r] = ReturnOffset[r] /\ ReturnOffset[r] \in 1 .. 24
    BY RegistersAreFields
  <2>2. Len(frame) = 24 /\ frame[ReturnOffset[r]] = cpu[r]
    BY SMTT(20), FrameRegister
  <2> HIDE DEF frame
  <2>3. stored[r] = IF FieldIndex[r] <= Len(frame) THEN frame[FieldIndex[r]]
                    ELSE Word("unknown", r)
    BY <2>1 DEF Stored
  <2>4. QED
    BY SMTT(20), <2>1, <2>2, <2>3
<1> HIDE DEF stored
<1>4. Entered(v) = [f \in InSeq(Fields) |-> Entered(v)[f]]
  BY <1>1, <1>2
<1>5. ASSUME NEW r \in Registers PROVE Entered(v)[r] = cpu[r]
  <2>1. r \in InSeq(Fields) /\ r # "intno" /\ r # "err"
    BY RegistersAreFields
  <2>2. Entered(v)[r] = stored[r]
    BY <2>1, <1>1, <1>2
  <2>3. QED
    BY <2>2, <1>3
<1>6. Restored(Entered(v)) = [r \in Registers |-> Entered(v)[r]]
  BY RestoredFields
<1>7. QED
  BY <1>4, <1>5, <1>6 DEF IsContext

-----------------------------------------------------------------------------
(* The memory viewer *)

\* Slots of the process table, and the numbers one round further.
LEMMA SlotMod ==
  ASSUME NEW p \in PIDs
  PROVE  p % NPROC = p /\ (p + NPROC) % NPROC = p
<1> DEFINE n == NPROC
<1>1. n \in Nat /\ 2 <= n /\ p \in 0 .. n - 1
  BY MachineAssumption DEF PIDs
<1> HIDE DEF n
<1>2. ASSUME NEW m \in 0 .. 2 * n - 1
      PROVE  m = n * (m \div n) + (m % n) /\ m % n \in 0 .. n - 1 /\ m \div n \in Nat
  BY SMTT(20), <1>1
<1>3. ASSUME NEW q \in Nat, q >= 1 PROVE n * q >= n
  BY SMTT(20), <1>1, <1>3
<1>4. ASSUME NEW q \in Nat, q >= 2 PROVE n * q >= 2 * n
  BY SMTT(20), <1>1, <1>4
<1>5. p % n = p
  <2>1. p \in 0 .. 2 * n - 1
    BY SMTT(20), <1>1
  <2>2. PICK q \in Nat, r \in 0 .. n - 1 : q = p \div n /\ r = p % n /\ p = n * q + r
    BY <1>2, <2>1
  <2>3. ~(q >= 1)
    BY SMTT(20), <1>1, <1>3, <2>2
  <2>4. q = 0 /\ n * 0 = 0
    BY SMTT(20), <2>3, <1>1
  <2>5. QED
    BY SMTT(20), <2>2, <2>4, <1>1
<1>6. (p + n) % n = p
  <2>1. p + n \in 0 .. 2 * n - 1
    BY SMTT(20), <1>1
  <2>2. PICK q \in Nat, r \in 0 .. n - 1 :
          q = (p + n) \div n /\ r = (p + n) % n /\ p + n = n * q + r
    BY <1>2, <2>1
  <2>3. ~(q >= 2)
    BY SMTT(20), <1>1, <1>4, <2>2
  <2>4. q # 0
    <3>1. n * 0 = 0
      BY SMTT(20), <1>1
    <3>2. QED
      BY SMTT(20), <3>1, <2>2, <1>1
  <2>5. q = 1 /\ n * 1 = n
    BY SMTT(20), <2>3, <2>4, <1>1
  <2>6. QED
    BY SMTT(20), <2>2, <2>5, <1>1
<1>7. QED
  BY <1>5, <1>6 DEF n

\* A nonempty set of natural numbers has a least member.
LEMMA LeastNatural ==
  ASSUME NEW S \in SUBSET Nat, S # {}
  PROVE  \E t \in S : \A u \in S : t <= u
<1>1. PICK t \in S : \A u \in S : <<u, t>> \notin OpToRel(<, Nat)
  BY WFMin, NatLessThanWellFounded
<1>2. \A u \in S : ~(u < t)
  BY <1>1 DEF OpToRel
<1>3. QED
  BY SMTT(20), <1>2

\* The loop of memshow_virtual_animate() ends at a live process if there is one.
LEMMA FirstShownLive ==
  ASSUME NEW s \in 0 .. NPROC, NEW p \in Live
  PROVE  FirstShown(s) % NPROC \in Live
<1> DEFINE Ends(t) == t > 2 * NPROC \/ t % NPROC \notin Free
           S == {t \in s .. 2 * NPROC + 1 : Ends(t)}
<1>n. NPROC \in Nat /\ 2 <= NPROC /\ s \in 0 .. NPROC /\ p \in PIDs /\ p \notin Free
  BY MachineAssumption DEF Live
<1>1. PICK u \in s .. 2 * NPROC : u % NPROC = p
  <2>1. CASE s <= p
    <3>1. p \in s .. 2 * NPROC
      BY SMTT(20), <2>1, <1>n DEF PIDs
    <3>2. QED
      BY <3>1, <1>n, SlotMod
  <2>2. CASE ~(s <= p)
    <3>1. p + NPROC \in s .. 2 * NPROC
      BY SMTT(20), <2>2, <1>n DEF PIDs
    <3>2. QED
      BY <3>1, <1>n, SlotMod
  <2>3. QED
    BY <2>1, <2>2
<1>2. u \in S
  BY SMTT(20), <1>1, <1>n
<1>3. S \subseteq Nat
  BY SMTT(20), <1>n
<1>4. PICK t \in S : \A w \in S : t <= w
  BY <1>2, <1>3, LeastNatural
<1>5. \A w \in s .. t - 1 : w % NPROC \in Free
  <2> SUFFICES ASSUME NEW w \in s .. t - 1, w % NPROC \notin Free PROVE FALSE
    OBVIOUS
  <2>1. w \in s .. 2 * NPROC + 1 /\ ~(t <= w)
    BY SMTT(20), <1>4, <1>3, <1>n
  <2>2. w \in S
    BY <2>1
  <2>3. QED
    BY <2>1, <2>2, <1>4
<1>6. \E x \in s .. 2 * NPROC + 1 :
        /\ x > 2 * NPROC \/ x % NPROC \notin Free
        /\ \A w \in s .. x - 1 : w % NPROC \in Free
  BY <1>4, <1>5
<1>7. LET x == FirstShown(s)
      IN  /\ x \in s .. 2 * NPROC + 1
          /\ x > 2 * NPROC \/ x % NPROC \notin Free
          /\ \A w \in s .. x - 1 : w % NPROC \in Free
  BY <1>6 DEF FirstShown
<1>8. PICK x \in s .. 2 * NPROC + 1 :
        /\ x = FirstShown(s)
        /\ x > 2 * NPROC \/ x % NPROC \notin Free
        /\ \A w \in s .. x - 1 : w % NPROC \in Free
  BY <1>7
<1>9. x <= u
  <2> SUFFICES ASSUME x > u PROVE FALSE
    BY SMTT(20), <1>n
  <2>1. u \in s .. x - 1
    BY SMTT(20), <1>1, <1>n
  <2>2. QED
    BY <2>1, <1>1, <1>8, <1>n
<1>10. x % NPROC \notin Free
  BY SMTT(20), <1>8, <1>9, <1>1, <1>n
<1>11. x % NPROC \in PIDs
  BY SMTT(20), <1>n DEF PIDs
<1>12. QED
  BY <1>8, <1>10, <1>11 DEF Live

\* Every exception leaves the viewer with a slot of the table.
LEMMA ShownLive ==
  ASSUME TableSane, mode = "user"
  PROVE  Shown \in Live
<1>1. current \in Live /\ showing \in PIDs /\ NPROC \in Nat
  BY MachineAssumption DEF TableSane, Live, Free
<1>2. PICK s \in 0 .. NPROC : s = IF MovesOn THEN showing + 1 ELSE showing
  <2>1. showing \in 0 .. NPROC /\ showing + 1 \in 0 .. NPROC
    BY SMTT(20), <1>1 DEF PIDs
  <2>2. QED
    BY <2>1
<1>3. FirstShown(s) % NPROC \in Live
  BY <1>1, FirstShownLive
<1>4. QED
  BY <1>2, <1>3 DEF Shown

\* An exception finds a running process, and the viewer a slot to show.
LEMMA EnterStep ==
  ASSUME TableSane, NEW v, Enter(v)
  PROVE  mode = "user" /\ showing' \in PIDs
<1>1. Shown \in PIDs
  BY ShownLive DEF Live, Enter
<1>2. QED
  BY <1>1 DEF Enter, memshow_virtual_animate, viewer, TableSane

-----------------------------------------------------------------------------
(* What exceptions leave behind *)

\* The registers that the model names.
LEMMA RegisterNames ==
  /\ "rip" \in Registers /\ "rdi" \in Registers /\ "rsi" \in Registers
  /\ "rax" \in Registers
<1>1. /\ Popped[1] = "rax" /\ Popped[6] = "rsi" /\ Popped[7] = "rdi" /\ Iret[1] = "rip"
  BY DEF Popped, Iret
<1>2. QED
  BY SMTT(20), <1>1, Lengths DEF Registers, InSeq

\* A process without registers is nowhere in a program.
LEMMA NowhereAt ==
  ASSUME NEW pc PROVE NoRegisters["rip"] # Word("at", pc)
<1>1. NoRegisters["rip"] = Zero
  BY RegisterNames DEF NoRegisters
<1>2. QED
  BY SMTT(20), <1>1 DEF Zero, Word

\* run() restores what the descriptors hold.
LEMMA LeaveStep ==
  ASSUME TableSane', NEW saved, NEW seen, Leave(saved, seen),
         \A p \in Runnable' :
           /\ Restored(saved[p]) = seen[p] \/ (mode' = "panic" /\ p = current')
           /\ IsContext(seen[p])
  PROVE  /\ ContextsKept'
         /\ \A p \in PIDs : virtual'[p] = IF p \in Runnable' THEN seen[p] ELSE NoRegisters
<1>1. /\ \A p \in PIDs : virtual'[p] = IF p \in Runnable' THEN seen[p] ELSE NoRegisters
      /\ virtual' = [p \in PIDs |-> virtual'[p]]
  BY DEF Leave, Runnable
<1>2. /\ \A p \in Runnable' : ~(mode' = "user" /\ p = current') => p_registers'[p] = saved[p]
      /\ p_registers' = [p \in PIDs |-> p_registers'[p]]
  BY DEF Leave, Runnable
<1>3. \A p \in PIDs : IsContext(virtual'[p])
  <2>1. IsContext(NoRegisters)
    BY DEF IsContext, NoRegisters
  <2>2. QED
    BY <1>1, <2>1
<1>4. ASSUME mode' = "user" PROVE cpu' = virtual'[current']
  <2>1. current' \in Runnable' /\ current' \in PIDs
    BY <1>4 DEF TableSane, Runnable
  <2>2. cpu' = Restored(saved[current'])
    BY <1>4 DEF Leave
  <2>3. mode' # "panic"
    BY SMTT(20), <1>4
  <2>4. QED
    BY <1>1, <2>1, <2>2, <2>3
<1>5. \A p \in Runnable' :
        ~(mode' \in {"user", "panic"} /\ p = current') => Restored(p_registers'[p]) = virtual'[p]
  <2>1. \A p \in Runnable' : p \in PIDs
    BY DEF Runnable
  <2>2. QED
    BY <1>1, <1>2, <2>1
<1>6. \A p \in PIDs \ Runnable' : virtual'[p] = NoRegisters
  BY <1>1
<1>7. QED
  BY <1>1, <1>2, <1>3, <1>4, <1>5, <1>6 DEF ContextsKept

\* A step that leaves the cursor alone, and lets no process come to or from
\* the places where it matters, keeps it in order.
LEMMA CursorStep ==
  ASSUME MInv, ContextsKept', UNCHANGED cursorpos,
         \A p \in PIDs :
           \/ /\ virtual'[p]["rip"] = virtual[p]["rip"]
              /\ virtual'[p]["rdi"] = virtual[p]["rdi"]
           \/ /\ virtual[p]["rip"] \notin {Word("at", "test"), Word("at", "top")}
              /\ virtual'[p]["rip"] \notin {Word("at", "put"), Word("at", "store")}
  PROVE  CursorsSane' /\ CursorLeavesBottom'
<1>1. CursorsSane'
  BY DEF MInv, CursorsSane
<1>2. ASSUME CROW(cursorpos') >= LAST_ROW
      PROVE  \E p \in Live' : virtual'[p]["rip"] \in {Word("at", "test"), Word("at", "top")}
  <2>1. CROW(cursorpos) >= LAST_ROW
    BY <1>2
  <2>2. PICK p \in Live : virtual[p]["rip"] \in {Word("at", "test"), Word("at", "top")}
    BY <2>1 DEF MInv, CursorLeavesBottom
  <2>3. p \in PIDs /\ virtual'[p]["rip"] \in {Word("at", "test"), Word("at", "top")}
    BY <2>2 DEF Live
  <2>4. p \in Runnable'
    BY <2>3, NowhereAt DEF ContextsKept
  <2>5. p \in Live'
    BY <2>3, <2>4 DEF Runnable, Live, Free
  <2>6. QED
    BY <2>3, <2>5
<1>3. QED
  BY <1>1, <1>2 DEF CursorLeavesBottom

\* What the operations on the process table have in common that give no
\* process a new context.
KeepsTable ==
  /\ p_state' \in [PIDs -> {"P_FREE", "P_RUNNABLE", "P_BROKEN"}]
  /\ p_state'[0] = "P_FREE"
  /\ current' \in PIDs
  /\ mode' = "user" => p_state'[current'] = "P_RUNNABLE"
  /\ Runnable' \subseteq Runnable
  /\ \A p \in Runnable \ Runnable' : p = current /\ At("main")

\* Yield, exit, a fault and a panic are such operations.
LEMMA TableSteps ==
  ASSUME TableSane
  PROVE  /\ Yield => KeepsTable
         /\ (Exit \/ Fault) /\ At("main") => KeepsTable
         /\ Stop /\ mode' = "panic" => KeepsTable
         /\ UNCHANGED table => KeepsTable
<1>1. \A p \in PIDs : p \in Runnable <=> p_state[p] = "P_RUNNABLE"
  BY DEF Runnable
<1>2. \A p \in PIDs : p \in Runnable' <=> p_state'[p] = "P_RUNNABLE"
  BY DEF Runnable
<1>3. Runnable \subseteq PIDs /\ Runnable' \subseteq PIDs
  BY DEF Runnable
<1>4. Yield => KeepsTable
  BY <1>1, <1>2, <1>3 DEF Yield, Dispatch, KeepsTable, TableSane
<1>5. ASSUME Exit \/ Fault, At("main") PROVE KeepsTable
  <2>1. /\ mode = "user" /\ current \in PIDs /\ p_state[current] = "P_RUNNABLE"
        /\ p_state[0] = "P_FREE" /\ current # 0
    BY <1>5 DEF Exit, Fault, TableSane
  <2>2. PICK x \in {"P_FREE", "P_BROKEN"} : p_state' = [p_state EXCEPT ![current] = x]
    BY <1>5 DEF Exit, Fault
  <2>3. /\ p_state' \in [PIDs -> {"P_FREE", "P_RUNNABLE", "P_BROKEN"}]
        /\ p_state'[0] = "P_FREE"
        /\ \A p \in PIDs \ {current} : p_state'[p] = p_state[p]
        /\ p_state'[current] # "P_RUNNABLE"
    <3>1. 0 \in PIDs
      BY SMTT(20), MachineAssumption DEF PIDs
    <3>2. QED
      BY <2>1, <2>2, <3>1 DEF TableSane
  <2>4. Runnable' = Runnable \ {current}
    BY <2>1, <2>3, <1>1, <1>2, <1>3
  <2>5. Dispatch(Runnable \ {current})
    BY <1>5 DEF Exit, Fault
  <2>6. current' \in PIDs /\ (mode' = "user" => current' \in Runnable')
    BY <2>1, <2>4, <2>5, <1>3 DEF Dispatch
  <2>7. QED
    BY <2>3, <2>4, <2>6, <1>2, <1>5 DEF KeepsTable
<1>6. Stop /\ mode' = "panic" => KeepsTable
  BY <1>1, <1>2, <1>3 DEF Stop, KeepsTable, TableSane
<1>7. UNCHANGED table => KeepsTable
  BY <1>1, <1>2, <1>3 DEF table, KeepsTable, TableSane
<1>8. QED
  BY <1>4, <1>5, <1>6, <1>7

\* Exceptions that change no register of the program.
LEMMA NoResultStep ==
  ASSUME MInv, NEW v, v \in Vectors \/ (mode' = "panic" /\ current' = current),
         mode = "user", showing' \in PIDs, KeepsTable,
         NoResult(v), UNCHANGED cursorpos
  PROVE  MInv'
<1> DEFINE saved == [p_registers EXCEPT ![current] = Entered(v)]
<1>1. TableSane'
  BY DEF KeepsTable, TableSane
<1>2. current \in PIDs /\ p_state[current] = "P_RUNNABLE"
  BY DEF MInv, TableSane
<1>3. Runnable' \subseteq Runnable /\ Runnable \subseteq PIDs
  BY DEF KeepsTable, Runnable
<1>4. \A p \in Runnable :
        /\ Restored(saved[p]) = virtual[p] \/ (mode' = "panic" /\ p = current')
        /\ IsContext(virtual[p])
  <2> SUFFICES ASSUME NEW p \in Runnable
               PROVE  /\ Restored(saved[p]) = virtual[p] \/ (mode' = "panic" /\ p = current')
                      /\ IsContext(virtual[p])
    OBVIOUS
  <2>1. IsContext(virtual[p]) /\ IsContext(virtual[current]) /\ cpu = virtual[current]
    BY <1>2, <1>3 DEF MInv, ContextsKept
  <2>2. CASE p = current
    <3>1. saved[p] = Entered(v)
      BY <1>2, <2>2 DEF MInv, ContextsKept
    <3>2. Restored(Entered(v)) = cpu \/ (mode' = "panic" /\ current' = current)
      BY <2>1, ExceptionKeeps
    <3>3. QED
      BY <2>1, <2>2, <3>1, <3>2
  <2>3. CASE p # current
    <3>1. saved[p] = p_registers[p]
      BY <1>3, <2>3 DEF MInv, ContextsKept
    <3>2. QED
      BY <2>1, <2>3, <3>1 DEF MInv, ContextsKept
  <2>4. QED
    BY <2>2, <2>3
<1>5. Leave(saved, virtual)
  BY DEF NoResult
<1> HIDE DEF saved
<1>6. /\ ContextsKept'
      /\ \A p \in PIDs : virtual'[p] = IF p \in Runnable' THEN virtual[p] ELSE NoRegisters
  BY <1>1, <1>3, <1>4, <1>5, LeaveStep
<1>7. \A p \in PIDs :
        \/ virtual'[p] = virtual[p]
        \/ /\ virtual[p]["rip"] \notin {Word("at", "test"), Word("at", "top")}
           /\ virtual'[p]["rip"] \notin {Word("at", "put"), Word("at", "store")}
  <2> SUFFICES ASSUME NEW p \in PIDs, virtual'[p] # virtual[p]
               PROVE  /\ virtual[p]["rip"] \notin {Word("at", "test"), Word("at", "top")}
                      /\ virtual'[p]["rip"] \notin {Word("at", "put"), Word("at", "store")}
    OBVIOUS
  <2>1. p \notin Runnable' /\ virtual'[p] = NoRegisters
    BY <1>6
  <2>2. p \in Runnable
    BY <2>1 DEF MInv, ContextsKept
  <2>3. p = current /\ cpu["rip"] = Word("at", "main") /\ cpu = virtual[current]
    BY <2>1, <2>2 DEF KeepsTable, At, MInv, ContextsKept
  <2>4. Word("at", "main") \notin {Word("at", "test"), Word("at", "top")}
    BY DEF Word
  <2>5. QED
    BY <2>1, <2>3, <2>4, NowhereAt
<1>8. CursorsSane' /\ CursorLeavesBottom'
  BY <1>6, <1>7, CursorStep
<1>9. QED
  BY <1>1, <1>6, <1>8 DEF MInv

\* The result of a system call is in a register.
LEMMA ResultStep ==
  ASSUME NEW saved, saved = [f \in InSeq(Fields) |-> saved[f]],
         NEW regs, Restored(saved) = regs, NEW x
  PROVE  /\ Restored(WithResult(saved, x)) = WithResult(regs, x)
         /\ IsContext(WithResult(regs, x))
         /\ WithResult(regs, x)["rip"] = regs["rip"]
<1>1. regs = [r \in Registers |-> saved[r]]
  BY RestoredFields
<1>2. \A r \in Registers : r \in InSeq(Fields)
  BY RegistersAreFields
<1>3. Restored(WithResult(saved, x)) = [r \in Registers |-> WithResult(saved, x)[r]]
  BY RestoredFields
<1>4. \A r \in Registers : WithResult(saved, x)[r] = WithResult(regs, x)[r]
  BY <1>1, <1>2 DEF WithResult
<1>5. WithResult(regs, x) = [r \in Registers |-> WithResult(regs, x)[r]]
  BY <1>1 DEF WithResult
<1>6. WithResult(regs, x)["rip"] = regs["rip"]
  BY <1>1, RegisterNames DEF WithResult
<1>7. QED
  BY <1>3, <1>4, <1>5, <1>6 DEF IsContext

\* fork() gives parent and child the same registers but for its result.
LEMMA SysForkStep ==
  ASSUME MInv, NEW child \in PIDs, SysFork(child)
  PROVE  MInv'
<1> DEFINE saved == Entered(INT_SYS_FORK)
           stored == [p_registers EXCEPT ![child] = WithResult(saved, 0),
                                         ![current] = WithResult(saved, child)]
           seen == [virtual EXCEPT ![child] = WithResult(virtual[current], 0),
                                   ![current] = WithResult(@, child)]
<1>1. mode = "user" /\ showing' \in PIDs /\ cpu["rip"] = Word("at", "main")
  BY EnterStep DEF SysFork, AtMain, At, MInv
<1>2. /\ current \in PIDs /\ p_state[current] = "P_RUNNABLE"
      /\ child # 0 /\ child # current /\ p_state[child] = "P_FREE"
      /\ p_state' = [p_state EXCEPT ![child] = "P_RUNNABLE"]
      /\ current' = current /\ mode' = "user"
  BY <1>1 DEF MInv, TableSane, SysFork, Fork, Free
<1>3. TableSane'
  <2>1. 0 \in PIDs
    BY SMTT(20), MachineAssumption DEF PIDs
  <2>2. QED
    BY <1>1, <1>2, <2>1 DEF MInv, TableSane
<1>4. /\ virtual = [p \in PIDs |-> virtual[p]] /\ p_registers = [p \in PIDs |-> p_registers[p]]
      /\ cpu = virtual[current] /\ IsContext(cpu) /\ virtual[child] = NoRegisters
  BY <1>1, <1>2 DEF MInv, ContextsKept, Runnable
<1>5. /\ Restored(saved) = cpu /\ saved = [f \in InSeq(Fields) |-> saved[f]]
  BY <1>4, ExceptionKeeps DEF Vectors
<1> HIDE DEF saved
<1>6. \A x : /\ Restored(WithResult(saved, x)) = WithResult(cpu, x)
             /\ IsContext(WithResult(cpu, x))
             /\ WithResult(cpu, x)["rip"] = cpu["rip"]
  BY <1>5, ResultStep
<1>7. /\ stored[child] = WithResult(saved, 0) /\ stored[current] = WithResult(saved, child)
      /\ seen[child] = WithResult(cpu, 0) /\ seen[current] = WithResult(cpu, child)
      /\ \A p \in PIDs \ {child, current} :
           stored[p] = p_registers[p] /\ seen[p] = virtual[p]
  BY <1>2, <1>4
<1>8. Leave(stored, seen)
  BY DEF SysFork, saved
<1> HIDE DEF stored, seen
<1>9. \A p \in Runnable' : p \in PIDs /\ (p \notin {child, current} => p \in Runnable)
  BY <1>2 DEF MInv, TableSane, Runnable
<1>10. \A p \in Runnable' : Restored(stored[p]) = seen[p] /\ IsContext(seen[p])
  <2> SUFFICES ASSUME NEW p \in Runnable'
               PROVE  Restored(stored[p]) = seen[p] /\ IsContext(seen[p])
    OBVIOUS
  <2>1. CASE p \in {child, current}
    BY <2>1, <1>6, <1>7
  <2>2. CASE p \notin {child, current}
    <3>1. p \in Runnable /\ p \in PIDs
      BY <2>2, <1>9
    <3>2. Restored(p_registers[p]) = virtual[p] /\ IsContext(virtual[p])
      BY <3>1, <2>2 DEF MInv, ContextsKept
    <3>3. QED
      BY <2>2, <3>1, <3>2, <1>7
  <2>3. QED
    BY <2>1, <2>2
<1>11. /\ ContextsKept'
       /\ \A p \in PIDs : virtual'[p] = IF p \in Runnable' THEN seen[p] ELSE NoRegisters
  BY <1>3, <1>8, <1>10, LeaveStep
<1>12. Word("at", "main") \notin {Word("at", "test"), Word("at", "top"),
                                  Word("at", "put"), Word("at", "store")}
  BY DEF Word
<1>13. ASSUME NEW p \in PIDs
       PROVE  \/ virtual'[p] = virtual[p]
              \/ /\ virtual[p]["rip"] \notin {Word("at", "test"), Word("at", "top")}
                 /\ virtual'[p]["rip"] \notin {Word("at", "put"), Word("at", "store")}
  <2>1. CASE p \in {child, current}
    <3>1. p \in Runnable'
      BY <2>1, <1>2 DEF MInv, TableSane, Runnable
    <3>2. virtual'[p]["rip"] = Word("at", "main")
      BY SMTT(20), <2>1, <3>1, <1>1, <1>6, <1>7, <1>11
    <3>3. virtual[p]["rip"] \notin {Word("at", "test"), Word("at", "top")}
      BY <2>1, <1>1, <1>4, <1>12, NowhereAt
    <3>4. QED
      BY <3>2, <3>3, <1>12
  <2>2. CASE p \notin {child, current}
    <3>1. p \in Runnable' <=> p \in Runnable
      BY <2>2, <1>2 DEF MInv, TableSane, Runnable
    <3>2. p \notin Runnable => virtual[p] = NoRegisters
      BY DEF MInv, ContextsKept
    <3>3. QED
      BY <2>2, <3>1, <3>2, <1>7, <1>11
  <2>3. QED
    BY <2>1, <2>2
<1>14. CursorsSane' /\ CursorLeavesBottom'
  BY <1>11, <1>13, CursorStep DEF SysFork
<1>15. QED
  BY <1>3, <1>11, <1>14 DEF MInv

\* process_setup() prepares the registers the program will start with.
LEMMA LoadProcessStep ==
  ASSUME MInv, NEW child \in PIDs, LoadProcess(child)
  PROVE  MInv'
<1> DEFINE regs == [r \in Registers |-> process_init[r]]
<1>1. /\ child # 0 /\ p_state[child] = "P_FREE" /\ mode = "boot" /\ UNCHANGED <<current, mode>>
      /\ p_state' = [p_state EXCEPT ![child] = "P_RUNNABLE"]
  BY DEF LoadProcess, Load, Free
<1>2. TableSane'
  <2>1. 0 \in PIDs
    BY SMTT(20), MachineAssumption DEF PIDs
  <2>2. showing' = showing
    BY DEF LoadProcess, viewer
  <2>3. QED
    BY <1>1, <2>1, <2>2 DEF MInv, TableSane
<1>3. /\ virtual' = [virtual EXCEPT ![child] = regs]
      /\ p_registers' = [p_registers EXCEPT ![child] = process_init]
      /\ UNCHANGED cursorpos
  BY DEF LoadProcess
<1>4. IsContext(regs) /\ Restored(process_init) = regs
  BY RestoredFields DEF IsContext
<1>5. regs["rip"] = Word("at", "entry")
  <2>1. "rip" \in InSeq(Fields)
    BY RegisterNames, RegistersAreFields
  <2>2. process_init["rip"] = Word("at", "entry")
    BY <2>1 DEF process_init
  <2>3. QED
    BY <2>2, RegisterNames
<1> HIDE DEF regs
<1>6. /\ virtual = [p \in PIDs |-> virtual[p]] /\ p_registers = [p \in PIDs |-> p_registers[p]]
  BY DEF MInv, ContextsKept
<1>7. /\ virtual' = [p \in PIDs |-> virtual'[p]] /\ p_registers' = [p \in PIDs |-> p_registers'[p]]
      /\ virtual'[child] = regs /\ p_registers'[child] = process_init
      /\ \A p \in PIDs \ {child} : virtual'[p] = virtual[p] /\ p_registers'[p] = p_registers[p]
  BY <1>3, <1>6
<1>8. child \in Runnable' /\ \A p \in PIDs \ {child} : p \in Runnable' <=> p \in Runnable
  BY <1>1 DEF MInv, TableSane, Runnable
<1>9. ContextsKept'
  <2>1. \A p \in PIDs : IsContext(virtual'[p])
    BY <1>4, <1>7 DEF MInv, ContextsKept
  <2>2. \A p \in PIDs \ Runnable' : virtual'[p] = NoRegisters
    BY <1>7, <1>8 DEF MInv, ContextsKept
  <2>3. \A p \in Runnable' : Restored(p_registers'[p]) = virtual'[p]
    <3> SUFFICES ASSUME NEW p \in Runnable' PROVE Restored(p_registers'[p]) = virtual'[p]
      OBVIOUS
    <3>1. p \in PIDs
      BY DEF Runnable
    <3>2. CASE p = child
      BY <3>2, <1>4, <1>7
    <3>3. CASE p # child
      BY <3>1, <3>3, <1>1, <1>7, <1>8 DEF MInv, ContextsKept
    <3>4. QED
      BY <3>2, <3>3
  <2>4. QED
    BY <1>1, <1>7, <2>1, <2>2, <2>3 DEF ContextsKept
<1>10. ASSUME NEW p \in PIDs
       PROVE  \/ virtual'[p] = virtual[p]
              \/ /\ virtual[p]["rip"] \notin {Word("at", "test"), Word("at", "top")}
                 /\ virtual'[p]["rip"] \notin {Word("at", "put"), Word("at", "store")}
  <2>1. virtual[child] = NoRegisters
    BY <1>1 DEF MInv, ContextsKept, Runnable
  <2>2. Word("at", "entry") \notin {Word("at", "put"), Word("at", "store")}
    BY DEF Word
  <2>3. QED
    BY <1>5, <1>7, <2>1, <2>2, NowhereAt
<1>11. CursorsSane' /\ CursorLeavesBottom'
  BY <1>3, <1>9, <1>10, CursorStep
<1>12. QED
  BY <1>2, <1>9, <1>11 DEF MInv

\* run() starts the first process.
LEMMA StartFirstStep ==
  ASSUME MInv, StartFirst
  PROVE  MInv'
<1>1. /\ mode = "boot" /\ 1 \in Runnable /\ current' = 1 /\ mode' = "user"
      /\ p_state' = p_state /\ UNCHANGED cursorpos /\ showing' = showing
  BY DEF StartFirst, Start, viewer
<1>2. Runnable' = Runnable /\ Runnable \subseteq PIDs
  BY <1>1 DEF Runnable
<1>3. TableSane'
  BY <1>1, <1>2 DEF MInv, TableSane, Runnable
<1>4. Leave(p_registers, virtual)
  BY DEF StartFirst
<1>5. \A p \in Runnable' : Restored(p_registers[p]) = virtual[p] /\ IsContext(virtual[p])
  BY <1>1, <1>2 DEF MInv, ContextsKept
<1>6. /\ ContextsKept'
      /\ \A p \in PIDs : virtual'[p] = IF p \in Runnable' THEN virtual[p] ELSE NoRegisters
  BY <1>3, <1>4, <1>5, LeaveStep
<1>7. \A p \in PIDs : virtual'[p] = virtual[p]
  BY <1>2, <1>6 DEF MInv, ContextsKept
<1>8. CursorsSane' /\ CursorLeavesBottom'
  BY <1>1, <1>6, <1>7, CursorStep
<1>9. QED
  BY <1>3, <1>6, <1>8 DEF MInv

\* The first cell is not in the bottom rows.
LEMMA CursorAtTop == ~(CROW(0) >= LAST_ROW)
<1>1. 0 \div CONSOLE_COLUMNS = 0
  BY SMTT(20), ConsoleAssumption
<1>2. QED
  BY SMTT(20), <1>1, ConsoleAssumption DEF CROW

\* kernel() starts with an empty process table and the cursor at the top.
LEMMA ClearedStep ==
  ASSUME MInv, Restart, Cleared, showing' \in PIDs
  PROVE  MInv'
<1>1. 0 \in PIDs /\ 0 .. END = 0 .. END /\ END \in Nat
  BY SMTT(20), MachineAssumption, ConsoleAssumption DEF PIDs, END
<1>2. TableSane'
  BY <1>1 DEF MInv, TableSane, Restart
<1>3. Runnable' = {}
  BY DEF Restart, Runnable
<1>4. \A p \in PIDs : virtual'[p] = NoRegisters
  BY DEF Cleared
<1>5. ContextsKept'
  <2>1. IsContext(NoRegisters)
    BY DEF IsContext, NoRegisters
  <2>2. QED
    BY <1>3, <1>4, <2>1 DEF ContextsKept, Restart, Cleared
<1>6. cursorpos' = 0 /\ 0 \in 0 .. END
  BY SMTT(20), <1>1 DEF Cleared
<1>7. CursorsSane'
  BY <1>4, <1>6, NowhereAt DEF CursorsSane
<1>8. CursorLeavesBottom'
  BY <1>6, CursorAtTop DEF CursorLeavesBottom
<1>9. QED
  BY <1>2, <1>5, <1>7, <1>8 DEF MInv

-----------------------------------------------------------------------------
(* Programs *)

\* console_putc() stays on the screen and comes at most to its end.
LEMMA PutcOnScreen ==
  ASSUME NEW cursor \in 0 .. END, NEW c
  PROVE  After(cursor, c) \in 0 .. END /\ Written(cursor, c) \subseteq Cells
<1> DEFINE from == Wrapped(cursor, c)
<1>1. /\ CONSOLE_ROWS \in Nat /\ CONSOLE_ROWS >= 1 /\ CONSOLE_COLUMNS \in Nat
      /\ CONSOLE_COLUMNS >= 1 /\ END = CONSOLE_ROWS * CONSOLE_COLUMNS /\ END \in Nat
  BY SMTT(20), ConsoleAssumption DEF END
<1>2. END >= 1
  BY SMTT(20), <1>1
<1>3. PICK f \in 0 .. END - 1 : f = from
  BY SMTT(20), <1>1, <1>2 DEF Wrapped
<1>4. PICK n \in Nat, rows \in Nat : n = CONSOLE_COLUMNS /\ n >= 1 /\ rows = CONSOLE_ROWS
  BY <1>1
<1>5. PICK q \in Nat, r \in 0 .. n - 1 : f = n * q + r /\ r = f % n
  <2>1. f \in Nat
    BY SMTT(20), <1>1
  <2>2. f = n * (f \div n) + (f % n) /\ f % n \in 0 .. n - 1 /\ f \div n \in Nat
    BY SMTT(20), <2>1, <1>4
  <2>3. QED
    BY <2>2
<1>6. q < rows
  <2> SUFFICES ASSUME q >= rows PROVE FALSE
    BY SMTT(20), <1>4, <1>5
  <2>1. n * q >= n * rows
    BY SMTT(20), <1>4, <1>5
  <2>2. n * rows = END
    BY SMTT(20), <1>1, <1>4
  <2>3. QED
    BY SMTT(20), <2>1, <2>2, <1>3, <1>5, <1>4
<1>7. n * (q + 1) <= END
  <2>1. n * (q + 1) <= n * rows
    BY SMTT(20), <1>4, <1>5, <1>6
  <2>2. n * rows = END
    BY SMTT(20), <1>1, <1>4
  <2>3. QED
    BY <2>1, <2>2
<1>8. f + (n - r) = n * (q + 1)
  <2>1. n * (q + 1) = n * q + n
    BY SMTT(20), <1>4
  <2>2. PICK m \in Nat : m = n * q
    BY SMTT(20), <1>4
  <2>3. f = m + r /\ n * (q + 1) = m + n
    BY <2>1, <2>2, <1>5
  <2>4. m + r + (n - r) = m + n
    BY SMTT(20), <1>4
  <2>5. QED
    BY <2>3, <2>4
<1>9. After(cursor, c) = IF c = "nl" THEN f + (n - r) ELSE f + 1
  BY <1>3, <1>4, <1>5 DEF After
<1>10. After(cursor, c) \in 0 .. END /\ After(cursor, c) > f
  <2>1. f + (n - r) \in 0 .. END /\ f + (n - r) > f
    BY SMTT(20), <1>1, <1>3, <1>4, <1>5, <1>7, <1>8
  <2>2. f + 1 \in 0 .. END /\ f + 1 > f
    BY SMTT(20), <1>1, <1>3
  <2>3. QED
    BY <1>9, <2>1, <2>2
<1>11. PICK a \in 0 .. END : a = After(cursor, c)
  BY <1>10
<1>12. Written(cursor, c) = f .. a - 1
  BY <1>3, <1>11 DEF Written
<1>13. f .. a - 1 \subseteq 0 .. END - 1
  BY SMTT(20), <1>1, <1>3, <1>11
<1>14. QED
  BY <1>10, <1>12, <1>13 DEF Cells

\* An instruction changes what its program takes to be the processor's
\* registers, and no other's.
LEMMA ComputesStep ==
  ASSUME MInv, NEW regs, IsContext(regs), Computes(regs)
  PROVE  /\ TableSane' /\ ContextsKept'
         /\ current \in PIDs /\ current \in Live' /\ Live' = Live
         /\ virtual'[current] = regs /\ cpu = virtual[current] /\ IsContext(cpu)
         /\ \A p \in PIDs \ {current} : virtual'[p] = virtual[p]
<1>1. /\ mode = "user" /\ mode' = mode /\ current' = current /\ p_state' = p_state
      /\ showing' = showing /\ p_registers' = p_registers /\ cpu' = regs
      /\ virtual' = [virtual EXCEPT ![current] = regs]
  BY DEF Computes, table, viewer
<1>2. TableSane' /\ current \in PIDs /\ p_state[current] = "P_RUNNABLE"
  BY <1>1 DEF MInv, TableSane
<1>3. Runnable' = Runnable /\ Live' = Live /\ current \in Runnable /\ current \in Live
  BY <1>1, <1>2 DEF Runnable, Live, Free
<1>4. /\ virtual' = [p \in PIDs |-> virtual'[p]]
      /\ virtual'[current] = regs
      /\ \A p \in PIDs \ {current} : virtual'[p] = virtual[p]
  BY <1>1, <1>2 DEF MInv, ContextsKept
<1>5. ContextsKept'
  <2>1. \A p \in PIDs : IsContext(virtual'[p])
    BY <1>4 DEF MInv, ContextsKept
  <2>2. \A p \in PIDs \ Runnable' : virtual'[p] = NoRegisters
    BY <1>3, <1>4 DEF MInv, ContextsKept
  <2>3. \A p \in Runnable' :
          ~(mode' = "user" /\ p = current') => Restored(p_registers'[p]) = virtual'[p]
    <3>1. Runnable \subseteq PIDs
      BY DEF Runnable
    <3>2. QED
      BY <3>1, <1>1, <1>3, <1>4 DEF MInv, ContextsKept
  <2>4. p_registers' = [p \in PIDs |-> p_registers'[p]]
    BY <1>1 DEF MInv, ContextsKept
  <2>5. QED
    BY <1>1, <1>4, <2>1, <2>2, <2>3, <2>4 DEF ContextsKept
<1>6. cpu = virtual[current] /\ IsContext(cpu)
  BY <1>1, <1>2 DEF MInv, ContextsKept
<1>7. QED
  BY <1>2, <1>3, <1>4, <1>5, <1>6

\* The places in a program are different.
LEMMA PlacesDiffer ==
  ASSUME NEW a, NEW b, a # b
  PROVE  Word("at", a) # Word("at", b)
  BY DEF Word

\* The registers after a jump, and after app_printf() returns.
LEMMA JumpRegisters ==
  ASSUME IsContext(cpu), NEW pc
  PROVE  /\ IsContext(Jump(pc)) /\ Jump(pc)["rip"] = Word("at", pc)
         /\ \A r \in Registers \ {"rip"} : Jump(pc)[r] = cpu[r]
         /\ IsContext(Return) /\ Return["rip"] = Word("at", "main")
<1>1. cpu = [r \in Registers |-> cpu[r]]
  BY DEF IsContext
<1>2. IsContext(Jump(pc)) /\ Jump(pc)["rip"] = Word("at", pc)
  BY <1>1, RegisterNames DEF IsContext, Jump
<1>3. \A r \in Registers \ {"rip"} : Jump(pc)[r] = cpu[r]
  BY <1>1, RegisterNames DEF Jump
<1>4. IsContext(Return) /\ Return["rip"] = Word("at", "main")
  BY <1>1, RegisterNames DEF IsContext, Jump, Return
<1>5. QED
  BY <1>2, <1>3, <1>4

\* An instruction that leaves the cursor alone, at a place where it does not
\* matter, keeps it in order.
LEMMA PlainStep ==
  ASSUME MInv, NEW regs, IsContext(regs), Computes(regs), UNCHANGED cursorpos,
         cpu["rip"] \notin {Word("at", "test"), Word("at", "top")},
         regs["rip"] \in {Word("at", "put"), Word("at", "store")} => regs["rdi"][2] \in 0 .. END
  PROVE  MInv'
<1>1. /\ TableSane' /\ ContextsKept' /\ current \in PIDs /\ Live' = Live
      /\ virtual'[current] = regs /\ cpu = virtual[current]
      /\ \A p \in PIDs \ {current} : virtual'[p] = virtual[p]
  BY ComputesStep
<1>2. CursorsSane'
  BY <1>1 DEF MInv, CursorsSane
<1>3. CursorLeavesBottom'
  <2> SUFFICES ASSUME CROW(cursorpos') >= LAST_ROW
               PROVE  \E p \in Live' : virtual'[p]["rip"] \in {Word("at", "test"), Word("at", "top")}
    BY DEF CursorLeavesBottom
  <2>1. PICK p \in Live : virtual[p]["rip"] \in {Word("at", "test"), Word("at", "top")}
    BY DEF MInv, CursorLeavesBottom
  <2>2. p # current /\ p \in PIDs
    BY <2>1, <1>1 DEF Live
  <2>3. QED
    BY <2>1, <2>2, <1>1
<1>4. QED
  BY <1>1, <1>2, <1>3 DEF MInv

\* Each instruction of a program.
LEMMA ProgramStep ==
  ASSUME MInv, Program
  PROVE  MInv'
<1>1. /\ mode = "user" /\ current \in PIDs /\ IsContext(cpu) /\ cpu = virtual[current]
  <2>1. mode = "user"
    BY DEF Program, Work, PrintStarts, PrintPuts, PrintStores, PrintTests, PrintResets, Computes
  <2>2. QED
    BY <2>1 DEF MInv, TableSane, ContextsKept
<1>2. END \in Nat /\ END >= 1
  BY SMTT(20), ConsoleAssumption DEF END
<1>3. cursorpos \in 0 .. END
  BY DEF MInv, CursorsSane
<1>4. CASE Work
  <2> DEFINE regs == [r \in Registers |->
                        IF r = "rip" THEN Word("at", "main")
                        ELSE IF r \in {"cs", "rflags", "ss"} THEN cpu[r] ELSE Word(r, "own")]
  <2>1. IsContext(regs) /\ regs["rip"] = Word("at", "main")
    BY RegisterNames DEF IsContext
  <2>2. Computes(regs) /\ UNCHANGED cursorpos /\ cpu["rip"] = Word("at", "entry")
    BY <1>4 DEF Work, At
  <2> HIDE DEF regs
  <2>3. QED
    BY <2>1, <2>2, PlainStep, PlacesDiffer
<1>5. CASE \E text \in Texts : PrintStarts(text)
  <2>1. PICK text \in Texts : PrintStarts(text)
    BY <1>5
  <2> DEFINE regs == [Jump("put") EXCEPT !["rdi"] = Word("cell", StartAt(cursorpos)),
                                         !["rsi"] = Word("text", text)]
  <2>2. IsContext(Jump("put")) /\ Jump("put")["rip"] = Word("at", "put")
    BY <1>1, JumpRegisters
  <2>3. IsContext(regs) /\ regs["rip"] = Word("at", "put")
        /\ regs["rdi"] = Word("cell", StartAt(cursorpos))
    BY <2>2, RegisterNames DEF IsContext
  <2>4. StartAt(cursorpos) \in 0 .. END
    BY SMTT(20), <1>2, <1>3 DEF StartAt
  <2>5. regs["rdi"][2] \in 0 .. END
    BY SMTT(20), <2>3, <2>4 DEF Word
  <2>6. Computes(regs) /\ UNCHANGED cursorpos /\ cpu["rip"] = Word("at", "main")
    BY <2>1 DEF PrintStarts, At
  <2> HIDE DEF regs
  <2>7. QED
    BY <2>3, <2>5, <2>6, PlainStep, PlacesDiffer
<1>6. CASE PrintPuts
  <2> DEFINE text == cpu["rsi"][2]
             pc == IF Len(text) > 1 THEN "put" ELSE "store"
             regs == [Jump(pc) EXCEPT !["rdi"] = Word("cell", After(@[2], Head(text))),
                                      !["rsi"] = Word("text", Tail(text))]
  <2>1. Computes(regs) /\ UNCHANGED cursorpos /\ cpu["rip"] = Word("at", "put")
    BY <1>6 DEF PrintPuts, At
  <2>2. cpu["rdi"][2] \in 0 .. END
    BY <1>1, <2>1 DEF MInv, CursorsSane
  <2> HIDE DEF pc, text
  <2>3. IsContext(Jump(pc)) /\ Jump(pc)["rdi"] = cpu["rdi"]
    BY <1>1, JumpRegisters, RegisterNames
  <2>4. IsContext(regs) /\ regs["rdi"] = Word("cell", After(cpu["rdi"][2], Head(text)))
    BY <2>3, RegisterNames DEF IsContext
  <2>5. After(cpu["rdi"][2], Head(text)) \in 0 .. END
    BY <2>2, PutcOnScreen
  <2> HIDE DEF regs
  <2>6. regs["rdi"][2] \in 0 .. END
    <3>1. PICK x \in 0 .. END : x = After(cpu["rdi"][2], Head(text))
      BY <2>5
    <3>2. regs["rdi"] = Word("cell", x)
      BY <2>4, <3>1
    <3>3. QED
      BY SMTT(20), <3>2 DEF Word
  <2>7. QED
    BY <2>1, <2>4, <2>6, PlainStep, PlacesDiffer
<1>7. CASE PrintStores
  <2> DEFINE regs == [Jump("test") EXCEPT !["rdi"] = Zero]
  <2>1. IsContext(Jump("test")) /\ Jump("test")["rip"] = Word("at", "test")
    BY <1>1, JumpRegisters
  <2>2. IsContext(regs) /\ regs["rip"] = Word("at", "test")
    BY <2>1, RegisterNames DEF IsContext
  <2>3. Computes(regs) /\ cursorpos' = cpu["rdi"][2] /\ cpu["rip"] = Word("at", "store")
    BY <1>7 DEF PrintStores, At
  <2>4. cpu["rdi"][2] \in 0 .. END
    BY <1>1, <2>3 DEF MInv, CursorsSane
  <2> HIDE DEF regs
  <2>5. /\ TableSane' /\ ContextsKept' /\ current \in Live'
        /\ virtual'[current] = regs
        /\ \A p \in PIDs \ {current} : virtual'[p] = virtual[p]
    BY <2>2, <2>3, ComputesStep
  <2>6. CursorsSane'
    BY <2>2, <2>3, <2>4, <2>5, PlacesDiffer DEF MInv, CursorsSane
  <2>7. CursorLeavesBottom'
    BY <2>2, <2>5 DEF CursorLeavesBottom
  <2>8. QED
    BY <2>5, <2>6, <2>7 DEF MInv
<1>8. CASE PrintTests
  <2>1. cpu["rip"] = Word("at", "test") /\ UNCHANGED cursorpos
    BY <1>8 DEF PrintTests, At
  <2>2. CASE CROW(cursorpos) >= LAST_ROW
    <3>1. IsContext(Jump("top")) /\ Jump("top")["rip"] = Word("at", "top")
      BY <1>1, JumpRegisters
    <3>2. Computes(Jump("top"))
      BY <1>8, <2>2 DEF PrintTests
    <3>3. PICK regs : regs = Jump("top")
      OBVIOUS
    <3>4. /\ TableSane' /\ ContextsKept' /\ current \in Live'
          /\ virtual'[current] = regs
          /\ \A p \in PIDs \ {current} : virtual'[p] = virtual[p]
      BY <3>1, <3>2, <3>3, ComputesStep
    <3>5. CursorsSane'
      BY SMTT(20), <2>1, <3>1, <3>3, <3>4, PlacesDiffer DEF MInv, CursorsSane
    <3>6. CursorLeavesBottom'
      BY <3>1, <3>3, <3>4 DEF CursorLeavesBottom
    <3>7. QED
      BY <3>4, <3>5, <3>6 DEF MInv
  <2>3. CASE ~(CROW(cursorpos) >= LAST_ROW)
    <3>1. IsContext(Return) /\ Return["rip"] = Word("at", "main")
      BY <1>1, JumpRegisters
    <3>2. Computes(Return)
      BY <1>8, <2>3 DEF PrintTests
    <3>3. PICK regs : regs = Return
      OBVIOUS
    <3>4. /\ TableSane' /\ ContextsKept' /\ virtual'[current] = regs
          /\ \A p \in PIDs \ {current} : virtual'[p] = virtual[p]
      BY <3>1, <3>2, <3>3, ComputesStep
    <3>5. CursorsSane'
      BY SMTT(20), <2>1, <3>1, <3>3, <3>4, PlacesDiffer DEF MInv, CursorsSane
    <3>6. CursorLeavesBottom'
      BY <2>1, <2>3 DEF CursorLeavesBottom
    <3>7. QED
      BY <3>4, <3>5, <3>6 DEF MInv
  <2>4. QED
    BY <2>2, <2>3
<1>9. CASE PrintResets
  <2>1. IsContext(Return) /\ Return["rip"] = Word("at", "main")
    BY <1>1, JumpRegisters
  <2>2. Computes(Return) /\ cursorpos' = 0
    BY <1>9 DEF PrintResets
  <2>3. PICK regs : regs = Return
    OBVIOUS
  <2>4. /\ TableSane' /\ ContextsKept' /\ virtual'[current] = regs
        /\ \A p \in PIDs \ {current} : virtual'[p] = virtual[p]
    BY <2>1, <2>2, <2>3, ComputesStep
  <2>5. CursorsSane'
    BY SMTT(20), <2>1, <2>2, <2>3, <2>4, <1>2, PlacesDiffer DEF MInv, CursorsSane
  <2>6. CursorLeavesBottom'
    BY <2>2, CursorAtTop DEF CursorLeavesBottom
  <2>7. QED
    BY <2>4, <2>5, <2>6 DEF MInv
<1>10. QED
  BY <1>4, <1>5, <1>6, <1>7, <1>8, <1>9 DEF Program

-----------------------------------------------------------------------------
(* Every step *)

\* Every step of a process, of the timer and of the kernel keeps the invariant.
LEMMA MInvNext ==
  ASSUME MInv, [MachineNext]_mvars
  PROVE  MInv'
<1>0. TableSane
  BY DEF MInv
<1>v. Vectors = {32, 13, 14, 50, 52, 53, 56}
  BY DEF Vectors, INT_GPF, INT_PAGEFAULT, INT_TIMER, INT_SYS_YIELD, INT_SYS_FORK,
         INT_SYS_EXIT, INT_SYS_MEM_TOG
<1>1. ASSUME NEW p \in PIDs, LoadProcess(p) \/ SysFork(p) PROVE MInv'
  BY <1>1, LoadProcessStep, SysForkStep
<1>2. CASE StartFirst
  BY <1>2, StartFirstStep
<1>3. ASSUME NEW irq \in {0, 1}, Interrupt(irq) PROVE MInv'
  <2>1. irq = 0 /\ INT_HARDWARE + irq = 32
    BY SMTT(20), <1>3 DEF Interrupt, Unmasked, interrupts_enabled, INT_TIMER, INT_HARDWARE
  <2>2. Enter(32) /\ Yield /\ NoResult(32) /\ UNCHANGED cursorpos
    BY <1>3, <2>1 DEF Interrupt
  <2>3. QED
    BY <2>2, <1>0, <1>v, EnterStep, TableSteps, NoResultStep
<1>4. CASE SysYield
  BY <1>4, <1>0, EnterStep, TableSteps, NoResultStep DEF SysYield, Vectors
<1>5. CASE SysMemTog
  BY <1>5, <1>0, EnterStep, TableSteps, NoResultStep DEF SysMemTog, Vectors
<1>6. CASE SysExit
  BY <1>6, <1>0, EnterStep, TableSteps, NoResultStep DEF SysExit, AtMain, Vectors
<1>7. CASE PageFault
  BY <1>7, <1>0, EnterStep, TableSteps, NoResultStep DEF PageFault, AtMain, Vectors
<1>8. ASSUME NEW v, Panics(v) PROVE MInv'
  BY <1>8, <1>0, EnterStep, TableSteps, NoResultStep DEF Panics, AtMain, Stop
<1>13. ASSUME NEW v, Refused(v) PROVE MInv'
  <2>1. CASE TripleFault(v)
    <3>1. Restart /\ Cleared /\ showing' = 1
      BY <1>13, <2>1 DEF Refused
    <3>2. 1 \in PIDs
      BY SMTT(20), MachineAssumption DEF PIDs
    <3>3. QED
      BY <3>1, <3>2, ClearedStep
  <2>2. QED
    BY <1>8, <1>13, <2>1 DEF Refused
<1>9. CASE SoftReboot
  <2>1. showing' \in PIDs
    BY <1>9, <1>0, EnterStep DEF SoftReboot, viewer, TableSane
  <2>2. QED
    BY <1>9, <2>1, ClearedStep DEF SoftReboot
<1>10. CASE Program
  BY <1>10, ProgramStep
<1>11. CASE UNCHANGED mvars
  BY <1>11 DEF mvars, table, context, viewer, MInv, TableSane, ContextsKept, CursorsSane,
               CursorLeavesBottom, Runnable, Live, Free
<1>12. QED
  BY <1>1, <1>2, <1>3, <1>4, <1>5, <1>6, <1>7, <1>8, <1>9, <1>10, <1>11, <1>13
  DEF MachineNext, BadInt

\* The invariant holds when the machine starts.
LEMMA MInvInit ==
  ASSUME MachineInit
  PROVE  MInv
<1>1. 0 \in PIDs /\ 1 \in PIDs /\ END \in Nat /\ 0 \in 0 .. END
  BY SMTT(20), MachineAssumption, ConsoleAssumption DEF PIDs, END
<1>2. TableSane
  BY <1>1 DEF MachineInit, Init, TableSane
<1>3. \A p \in PIDs : virtual[p] = NoRegisters
  BY DEF MachineInit
<1>4. ContextsKept
  <2>1. IsContext(NoRegisters)
    BY DEF IsContext, NoRegisters
  <2>2. Runnable = {}
    BY DEF MachineInit, Init, Runnable
  <2>3. QED
    BY <1>3, <2>1, <2>2 DEF ContextsKept, MachineInit, Init
<1>5. cursorpos = 0
  BY DEF MachineInit
<1>6. CursorsSane
  BY <1>1, <1>3, <1>5, NowhereAt DEF CursorsSane
<1>7. CursorLeavesBottom
  BY <1>5, CursorAtTop DEF CursorLeavesBottom
<1>8. QED
  BY <1>2, <1>4, <1>6, <1>7 DEF MInv

-----------------------------------------------------------------------------
(* What holds for every table size, screen and clock *)

\* The inductive invariant: the descriptors and the processor hold what each
\* process takes to be its registers, and positions stay on the screen.
THEOREM MachineInvariant == MachineSpec => []MInv
  BY MInvInit, MInvNext, PTL DEF MachineSpec

\* exception() and exception_return keep every program's registers.
THEOREM RegistersAreKept == MachineSpec => []RegistersKept
<1>1. MInv => RegistersKept
  BY DEF MInv, ContextsKept, RegistersKept
<1>2. QED
  BY <1>1, MachineInvariant, PTL

\* memshow_virtual_animate() never ends at a free slot.
THEOREM ViewerFinds == MachineSpec => []ViewerFindsLive
<1>1. MInv => ViewerFindsLive
  BY ShownLive DEF MInv, ViewerFindsLive
<1>2. QED
  BY <1>1, MachineInvariant, PTL

\* console_putc() writes only cells of the screen, whatever processes share
\* the cursor.
THEOREM ConsoleStaysInBounds == MachineSpec => []ConsoleInBounds
<1>1. ASSUME MInv PROVE ConsoleInBounds
  <2> SUFFICES ASSUME NEW p \in Live, virtual[p]["rip"] = Word("at", "put")
               PROVE  Written(virtual[p]["rdi"][2], Head(virtual[p]["rsi"][2])) \subseteq Cells
    BY DEF ConsoleInBounds
  <2>1. virtual[p]["rdi"][2] \in 0 .. END
    BY <1>1 DEF MInv, CursorsSane, Live
  <2>2. QED
    BY <2>1, PutcOnScreen
<1>2. QED
  BY <1>1, MachineInvariant, PTL

\* A cursor in the bottom rows is always about to be tested and reset.
THEOREM CursorLeaves == MachineSpec => []CursorLeavesBottom
<1>1. MInv => CursorLeavesBottom
  BY DEF MInv
<1>2. QED
  BY <1>1, MachineInvariant, PTL
=============================================================================
