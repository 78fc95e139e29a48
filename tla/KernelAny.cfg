SPECIFICATION Spec
CONSTANTS
  NPAGES = 13
  ReservedPages = {0, 3}
  KernelPages = {1, 2}
  REF_HALF = 128
  NPROC = 4
  NBOOT = 1
  PROC_START = 6
  MEMSIZE_VIRTUAL = 9
  VA_LIMIT = 10
  NTABLES = 2
  CONSOLE = 3
  KernelText = {1}
  KernelTables = {2}
  BootTables = {4}
  TextPages = {6}
  DataPages = {}
  Vals = {0}
  UserCalls = {"alloc_data", "alloc_low", "alloc_high", "alloc_beyond", "alloc_unaligned", "exit_owner"}
INVARIANTS
  TypeOK
  PagesIsolated
  UsedNotFree
  KernelProtected
  IInv
