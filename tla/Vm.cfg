SPECIFICATION FairBootSpec
CONSTANTS
  MaxTestPages = 3
  LfsrBits = 2
  CodePages <- MCCodePages
  DataPages <- MCDataPages
  Values <- MCValues
  ExitCodes <- MCExitCodes
  Message = 2
INVARIANTS
  TypeOK
  FramesConserved
  OnlyWildAccessesPanic
  DirtyPagesAreMarked
PROPERTIES
  FlatMemory
  CodeArrives
  AccessCompletes
  BootReachesInit
