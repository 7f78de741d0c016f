CONSTANTS
  a = a
  b = b
  c = c
  Generators <- MCGenerators
  Worlds <- MCWorlds
  Trees <- MCTrees
  Listing <- MCListing
  Directory = Directory
  Bad = Bad
  Missing = Missing
  NoArtifact = NoArtifact
  NoImage = NoImage
  NoObject = NoObject
  Null = Null
  Nothing = Nothing
  PageSize = 2
  MaxChanges = 2
  MaxFaults = 2
  Files <- MCFiles
  Modes <- MCModes
SPECIFICATION MCSpec
INVARIANTS TypeOK NoTempLeft OutputIsWhole
PROPERTIES HonoursContract
CHECK_DEADLOCK FALSE
