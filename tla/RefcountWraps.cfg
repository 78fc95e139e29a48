SPECIFICATION Spec
CONSTANTS
  NPAGES = 10
  ReservedPages = {0, 3}
  KernelPages = {1, 2}
  REF_HALF = 128
  NPROC = 3
  NBOOT = 1
  PROC_START = 6
  MEMSIZE_VIRTUAL = 8
  VA_LIMIT = 8
  NTABLES = 1
  CONSOLE = 3
  KernelText = {1}
  KernelTables = {2}
  BootTables = {4}
  TextPages = {6}
  DataPages = {}
  Vals = {0}
  UserCalls = {"alloc_text"}
INVARIANT
  UsedNotFree
