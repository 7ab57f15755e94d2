SPECIFICATION CrashSpec
CONSTANTS
  start_block = 4
  max_num_blocks = 12
  N_DIRECT = 1
  ADDR_PER_BLOCK = 2
  Files = {0}
  Calls = {"overwrite"}
  MaxLen = 3
  MaxSize = 7
INVARIANTS CrashTypeOK CrashKeepsBlocks LosesOneBlock WriteThrough
