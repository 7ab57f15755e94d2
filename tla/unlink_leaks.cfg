SPECIFICATION Spec
CONSTANTS
  start_block = 4
  max_num_blocks = 12
  N_DIRECT = 1
  ADDR_PER_BLOCK = 2
  Files = {0}
  Calls = {"unlink"}
  MaxLen = 3
  MaxSize = 6
INVARIANT UnlinkFreesAll
