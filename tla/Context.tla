------------------------------ MODULE Context ------------------------------
(***************************************************************************)
(* How a program's registers get into its process descriptor and back:     *)
(* the interrupt descriptor table and the interrupt mask of k-hardware.c,  *)
(* the stubs and push and pop sequences of k-exception.S, and the layout   *)
(* of struct x86_64_registers that exception() copies.  Everything goes by *)
(* position on the stack; nothing but these lists ties a pushed value to a *)
(* field and a field to a popped register.                                 *)
(***************************************************************************)
EXTENDS Integers, Sequences

INT_DIVIDE      == 0
INT_INVALIDOP   == 6
INT_INVALIDTSS  == 10
INT_SEGMENT     == 11
INT_STACK       == 12
INT_GPF         == 13
INT_PAGEFAULT   == 14
INT_FPU         == 16
INT_ALIGN       == 17
INT_HARDWARE    == 32
INT_TIMER       == 32
INT_SYS         == 48
INT_SYS_YIELD   == 50
INT_SYS_FORK    == 52
INT_SYS_EXIT    == 53
INT_SYS_MEM_TOG == 56

-----------------------------------------------------------------------------
(* What a register or a word of the stack holds; `of` is what it means to the
   program that runs *)

Word(of, x) == <<of, x>>
Zero        == Word("number", 0)

-----------------------------------------------------------------------------
(* The processor's tables *)

\* segments_init(): the handler and the privilege of each of the 256 vectors
Gate(v) ==
  CASE v = INT_TIMER                -> [handler |-> "timer", dpl |-> 0]
    [] v = INT_GPF                  -> [handler |-> "gpf", dpl |-> 0]
    [] v = INT_PAGEFAULT            -> [handler |-> "pagefault", dpl |-> 0]
    [] v \in INT_SYS .. INT_SYS + 15 -> [handler |-> "sys", dpl |-> 3]
    [] v < 16 /\ v \notin {INT_GPF, INT_PAGEFAULT} -> [handler |-> "none", dpl |-> 0]
    [] OTHER                        -> [handler |-> "default", dpl |-> 0]

\* the interrupt lines that interrupt_init() and timer_init() leave unmasked
interrupts_enabled == {INT_TIMER - INT_HARDWARE}

\* What the processor delivers for `int v` of a program: a gate that programs
\* may not use, an empty one included, raises a general protection fault.
Delivered(v) == IF Gate(v).dpl < 3 THEN INT_GPF ELSE v

\* What it delivers for an exception v of its own, which asks for no privilege:
\* an empty gate raises a general protection fault.
Raised(v) == IF Gate(v).handler = "none" THEN INT_GPF ELSE v

\* Such a fault is a double fault if the exception is one of these, and since
\* the gate for double faults is empty too, a triple fault resets the machine.
TripleFault(v) ==
  v \in {INT_DIVIDE, INT_INVALIDTSS, INT_SEGMENT, INT_STACK} /\ Gate(v).handler = "none"

-----------------------------------------------------------------------------
(* The exception frame; a stack is a sequence, its top first *)

\* struct x86_64_registers
Fields ==
  <<"rax", "rcx", "rdx", "rbx", "rbp", "rsi", "rdi", "r8", "r9", "r10", "r11",
    "r12", "r13", "r14", "r15", "fs", "gs",
    "intno", "err", "rip", "cs", "rflags", "rsp", "ss">>

\* generic_exception_handler, in the order of its pushes
Pushed ==
  <<"gs", "fs", "r15", "r14", "r13", "r12", "r11", "r10", "r9", "r8", "rdi",
    "rsi", "rbp", "rbx", "rdx", "rcx", "rax">>

\* exception_return, in the order of its pops
Popped ==
  <<"rax", "rcx", "rdx", "rbx", "rbp", "rsi", "rdi", "r8", "r9", "r10", "r11",
    "r12", "r13", "r14", "r15", "fs", "gs">>

Iret == <<"rip", "cs", "rflags", "rsp", "ss">>

InSeq(s)    == {s[i] : i \in DOMAIN s}
Index(s)    == [x \in InSeq(s) |-> CHOOSE i \in DOMAIN s : s[i] = x]
FieldIndex  == Index(Fields)
Registers   == InSeq(Popped) \cup InSeq(Iret)

\* where exception_return finds the value of each register: the pops, then
\* "addq $16", then iretq
ReturnOffset ==
  [r \in Registers |-> IF r \in InSeq(Popped) THEN Index(Popped)[r]
                       ELSE Len(Popped) + 2 + Index(Iret)[r]]

\* the processor's own pushes
HardwareFrame(v, err, regs) ==
  (IF v \in {INT_GPF, INT_PAGEFAULT, INT_ALIGN} THEN <<err>> ELSE <<>>)
    \o [i \in 1 .. Len(Iret) |-> regs[Iret[i]]]

\* Mutant: the timer's stub pushes no error code.
StubFrame_TimerNoError(v) ==
  CASE Gate(v).handler \in {"gpf", "pagefault", "timer"} -> <<Word("number", v)>>
    [] Gate(v).handler = "sys"                           -> <<Word("number", v), Zero>>
    [] Gate(v).handler = "default"                       -> <<Zero>>

\* the pushes of the stub of vector v
StubFrame(v) ==
  CASE Gate(v).handler \in {"gpf", "pagefault"} -> <<Word("number", v)>>
    [] Gate(v).handler \in {"timer", "sys"}     -> <<Word("number", v), Zero>>
    [] Gate(v).handler = "default"              -> <<Zero>>

\* the stack exception(reg) is called with; ts_rsp[0] makes it start empty
Frame(v, err, regs) ==
  [i \in 1 .. Len(Pushed) |-> regs[Pushed[Len(Pushed) + 1 - i]]]
    \o StubFrame(v) \o HardwareFrame(v, err, regs)

\* "current->p_registers = *reg": a structure that reaches past the top of the
\* stack takes what is there
Stored(frame) ==
  [f \in InSeq(Fields) |->
     IF FieldIndex[f] <= Len(frame) THEN frame[FieldIndex[f]] ELSE Word("unknown", f)]

\* exception_return(&p->p_registers)
Restored(p_registers) == [r \in Registers |-> p_registers[Fields[ReturnOffset[r]]]]

\* process_init() and the entry point program_load() and process_setup() set
process_init ==
  [f \in InSeq(Fields) |->
     CASE f \in {"cs", "fs", "gs", "ss"} -> Word("segment", IF f = "cs" THEN "code" ELSE "data")
       [] f = "rflags"                   -> Word("flags", "IF")
       [] f = "rip"                      -> Word("at", "entry")
       [] f = "rsp"                      -> Word("stack", "top")
       [] OTHER                          -> Zero]
=============================================================================
