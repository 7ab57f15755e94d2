SPECIFICATION SerialSpec
CONSTANTS
  start_block = 4
  max_num_blocks = 7
  Threads = {t1, t2, t3}
INVARIANTS TypeOK GivenOnce MapExact
PROPERTIES AllocatesAtOnce FailsWhenFull
