SPECIFICATION Spec
CONSTANTS
  BLOCK_SIZE = 48
  Names <- MCNames
  strlen <- MCstrlen
  Blocks = {1, 2, 3, 4, 5}
  Inodes = {1, 2, 3, 4, 5}
  LAST_RESERVED_BLOCK = 1
  LAST_RESERVED_INODE = 2
  RootInode = 2
  INDIRECT1_INDEX = 2
  BLOCK_NUMS_PER_BLOCK = 1
  Images <- MCTight
  Paths <- MCPaths
  HostFiles <- MCHostFiles
  Spelled <- MCSpelled
  HostDirSizes = {1}
  MaxCommands = 1
CHECK_DEADLOCK FALSE
PROPERTY InsertKeepsNames
