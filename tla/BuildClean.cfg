CHECK_DEADLOCK FALSE
SPECIFICATION Spec
CONSTANTS
  Designs <- MCDesigns
  Methods <- MCMethods
  Traces <- MCTraces
  Jobs = 2
  MaxRuns = 2
  PreInstrumentations <- MCPreInstrumentations
  Instrumentations <- MCInstrumentations
  Syntheses <- MCSyntheses
  Statistics <- MCStatistics
  Cleanings <- MCCleanings
PROPERTIES
  DeclinedCleansNothing
