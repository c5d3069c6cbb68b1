SPECIFICATION FairSpec
CONSTANTS
  CliSets <- OnCommandLine
  EnvSets <- InEnvironment
  FileSets <- InFile
  MaxStarts = 3
INVARIANTS
  TypeOK
  ServesValidConfig
  EndpointOfRegion
  StopUnmounts
  MountsOnFreeGround
PROPERTY
  StopEnds
