SPECIFICATION ShellSpec
CONSTANTS
  start_block = 4
  max_num_blocks = 9
  N_DIRECT = 1
  ADDR_PER_BLOCK = 2
  Files = {0, 1}
  Calls = {"truncate_direct", "unlink"}
  MaxLen = 3
  MaxSize = 6
  BlkSizes = {1, 3}
INVARIANTS ShellTypeOK NoAbort MappedAllocated GetReturnsFile PutReportsLoss GetAbortsAtEdge
PROPERTIES ImplementsStore CommandEnds CommandsRunOut
