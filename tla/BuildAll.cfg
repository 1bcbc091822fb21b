CHECK_DEADLOCK FALSE
SPECIFICATION FairSpec
CONSTANTS
  Designs <- MCDesigns
  Methods <- MCMethods
  Traces <- MCTraces
  Jobs = 2
  MaxRuns = 2
  PreInstrumentations <- MCPreInstrumentations
  Instrumentations <- MCInstrumentations
  Syntheses <- MCSyntheses
  Statistics <- MCStatistics
  Cleanings <- MCCleanings
INVARIANTS
  TypeOK
  MakesDisjoint
  SuccessMeansBuilt
PROPERTIES
  EveryRunEnds
