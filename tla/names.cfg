SPECIFICATION ImageSpec
CONSTANTS
  start_block = 4
  max_num_blocks = 6
  NumInodes = 5
  InodeScan = 5
  MaxEntries = 3
  PathNames <- OneLength
  PathDirs <- TwoLevels
  file_A <- Name1
  dir1 <- Name2
  file_0 <- Name1
  NodeModes = {"reg"}
INVARIANTS TypeOK DirBlocksOwned RefsLive RefsUnique NoOrphans StaleAfterValid AllReachable
           ListingResolves ReadImgClean
PROPERTIES NamedEntryOnly ImplementsTree
