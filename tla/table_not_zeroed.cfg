SPECIFICATION Spec
CONSTANTS
  start_block = 4
  max_num_blocks = 20
  N_DIRECT = 1
  ADDR_PER_BLOCK = 2
  Files = {0, 1}
  Calls = {"unlink"}
  MaxLen = 5
  MaxSize = 14
INVARIANT NoAbort
