SPECIFICATION Spec
CONSTANTS
  start_block = 4
  max_num_blocks = 8
  Threads = {t1, t2}
INVARIANT GivenOnce
