SPECIFICATION Spec
CONSTANTS
  start_block = 4
  max_num_blocks = 5
  NumInodes = 4
  InodeScan = 4
  MaxEntries = 2
  PathNames <- TwoLengths
  PathDirs <- TopLevel
  NodeModes = {"reg"}
PROPERTY RenameGivesName
