SPECIFICATION Spec
CONSTANTS
  block_size = 4
  sector_size = 2
  Ref = 2
  Direct = 2
  W = 64
  CacheSize = 3
  Null = Null
  Root = 2
  UserLo = 32
  UserHi = 60
  Lo = 32
  Hi = 62
  Page = 2
  HeaderSize = 2
  Entry = 2
  Top = 64
  Long = 256
  Scale = 100
  NullString = NullString
  maxlen = 100
  BlockIds = {0, 1, 2, 3}
  Dirs <- MCDirs
  Paths <- MCPaths
  PathNames <- MCPathNames
  NodeReads <- MCNodeReads
  DirFinds <- MCDirFinds
  SuperBlocks <- MCSuperBlocks
  ElfFiles <- MCElfFiles
  ArgLengths <- MCArgLengths
  IntDirectives <- MCIntDirectives
  FpDirectives <- MCFpDirectives
  StrDirectives <- MCStrDirectives
  WholeFormats <- MCWholeFormats
  MoreFormats <- MCMoreFormats
INVARIANT SlashesAlike
CHECK_DEADLOCK FALSE
