SPECIFICATION Spec
CONSTANTS
  start_block = 4
  max_num_blocks = 14
  N_DIRECT = 2
  ADDR_PER_BLOCK = 2
  Files = {0, 1}
  Calls = {}
  MaxLen = 5
  MaxSize = 16
INVARIANTS TypeOK NoSharing ReadsBack
PROPERTIES NoLeak ImplementsStore WriteReturns StepsRunOut
