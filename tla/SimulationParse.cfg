SPECIFICATION Spec
CONSTANTS
  Alignment = 2
  NumTaints = 2
  MemSize <- MCMemSize
  Bits <- MCBits
  LeadTicks = 5
  TrailTicks = 1
  Jobs <- MCJobs
  Shells <- MCShells
  Defaults <- MCDefaults
INVARIANT ParsedTaintsAreTheFiles
CHECK_DEADLOCK FALSE
