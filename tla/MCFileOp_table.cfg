SPECIFICATION Spec
CONSTANTS
  Paths <- MCPaths
  Dirs <- MCDirs
  Hidden <- MCHidden
  Broken <- MCBroken
  Locked <- MCLocked
  Parent <- MCParent
  Rank <- MCRank
  Match <- MCMatch
  Atoi <- MCAtoi
  Lines <- SortLines
  Files <- MCFiles
  MAX_FILE_COUNT = 9
  MAX_TREE_DEPTH = 9
  STAT_BUFFER_SIZE = 4
  MaxOpen = 3
  Changing <- MCChanging
  MaxChanges = 0
INVARIANTS
  TableGrows
