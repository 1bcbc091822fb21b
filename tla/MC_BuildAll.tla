---------------------------- MODULE MC_BuildAll ----------------------------
(* BuildAll on two designs, one of them with glift.  With one worker, the five
   syntheses of both designs go to the pool in chunks of two. *)
EXTENDS BuildAll

Plan == INSTANCE BuildPlan WITH
  DesignNames <- <<"ibex", "cva6">>,
  GliftDesigns <- {"ibex"},
  Methods <- <<"cellift">>

MCDesigns == {"ibex", "cva6"}
MCMethods == {"cellift", "glift"}
MCTraces == {"notrace", "trace_fst"}

\* As functions, which TLC evaluates once.
PreOf == [excl \in SUBSET MCDesigns |-> Plan!PreInstrumentationTasks(excl)]
InstrumentationsOf == [excl \in SUBSET MCDesigns |-> Plan!InstrumentationPairs(excl)]
StatisticsOf == [excl \in SUBSET MCDesigns |-> Plan!StatisticsPairs(excl)]
SynthesesOf == [excl \in SUBSET MCDesigns, trs \in SUBSET MCTraces |->
                  Plan!ExtendedPairs(excl, trs)]
MCPreInstrumentations(excl) == PreOf[excl]
MCInstrumentations(excl) == InstrumentationsOf[excl]
MCSyntheses(excl, trs) == SynthesesOf[excl, trs]
MCStatistics(excl) == StatisticsOf[excl]
MCCleanings == Plan!CleaningTasks
=============================================================================
