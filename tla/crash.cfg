SPECIFICATION CrashSpec
CONSTANTS
  start_block = 4
  max_num_blocks = 7
  NumInodes = 4
  InodeScan = 4
  MaxEntries = 2
  PathNames <- OneLength
  PathDirs <- OneDir
  NodeModes = {"reg"}
  CrashCalls = {"mknod", "mkdir", "unlink", "rename", "write"}
INVARIANTS CrashTypeOK ImageSound ReadImgSilent WriteThrough
PROPERTY CrashAtomic
