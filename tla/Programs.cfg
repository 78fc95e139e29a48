SPECIFICATION ProgramsSpec
CONSTANTS
  NPAGES = 15
  ReservedPages = {0, 3}
  KernelPages = {1, 2}
  REF_HALF = 128
  NPROC = 4
  NBOOT = 3
  PROC_START = 6
  MEMSIZE_VIRTUAL = 10
  VA_LIMIT = 10
  NTABLES = 1
  CONSOLE = 3
  KernelText = {1}
  KernelTables = {2}
  BootTables = {4}
  TextPages = {6}
  DataPages = {7}
  HEAP = 8
  Vals = {0}
  UserCalls = {"alloc_data", "alloc_text", "alloc_low", "alloc_high", "alloc_beyond", "alloc_unaligned", "alloc_kernel", "map_straddle", "exit_owner", "late_result"}
INVARIANTS
  AssertsOnlyWhenFull
  OrdinaryCalls
  ProgramsNeverFault
  PInv
PROPERTIES
  AllocatorsFinish
