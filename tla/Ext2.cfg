SPECIFICATION Spec
CONSTANTS
  BLOCK_SIZE = 40
  Names <- MCNames
  strlen <- MCstrlen
  Blocks = {1, 2, 3, 4, 5}
  Inodes = {1, 2, 3, 4, 5}
  LAST_RESERVED_BLOCK = 1
  LAST_RESERVED_INODE = 2
  RootInode = 2
  INDIRECT1_INDEX = 2
  BLOCK_NUMS_PER_BLOCK = 1
  Images <- MCImages
  Paths <- MCPaths
  HostFiles <- MCHostFiles
  Spelled <- MCSpelled
  HostDirSizes = {0, 4}
  MaxCommands = 3
CHECK_DEADLOCK FALSE
INVARIANTS TypeOK CountsAgree OneOwner InodesAgree ContentUnread Tiling LsOnce LiveNames LinksCoverNames
INVARIANTS DoneAsAsked CopyInPlace
PROPERTIES DataIntact NoOtherLeak NoOtherOrphan NamesSpec 
