SPECIFICATION Spec
CONSTANTS
  SECTORSIZE = 2
  PAGESIZE = 4
  MEMSIZE = 72
  ELFHDR = 32
  NENT = 12
  NPAGES = 18
  VLIMIT = 26
  Owners = {0, 1}
  NotFree = {0, 1, 2, 3, 4, 5, 6, 7, 9}
  KernelCode = {5, 6}
  PROC_START = 10
  STACK = 15
  CONSOLE = 9
  NLOAD = 1
  KernelImages <- MCKernelImages
  KernelTables <- MCKernelTables
  Programs <- MCPrograms
INVARIANTS
  LookupIsHardware
  KernelLoaded
  ProgramsLoaded
  BootInv
  LInv
  ImagesInv
PROPERTIES
  ImplementsAddressSpace
  BootFinishes
