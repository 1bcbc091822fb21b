SPECIFICATION Spec
CONSTANTS
  Alignment = 2
  NumTaints = 2
  MemSize <- MCMemSize
  Bits <- MCBits
  LeadTicks = 5
  TrailTicks = 1
  Jobs <- MCJobs
  Shells <- MCShells
  Defaults <- MCDefaults
INVARIANTS
  TypeOK
  NothingLostInBlocks
  SectionsFillTheirBuffers
  MemoriesHoldTheirImages
  TaintsReachMemories
  SuccessMeansSimulated
PROPERTY EveryRunEnds
CHECK_DEADLOCK FALSE
