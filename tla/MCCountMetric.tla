--------------------------- MODULE MCCountMetric ---------------------------
(***************************************************************************)
(* Two small instances of CountMetric in one run: a metric with its own    *)
(* constants, whose log events come in the order of their times, and L,    *)
(* with dimensions at their limit, an alert, an upload threshold and a     *)
(* restored activation, whose log events may be handled after a later dump *)
(* or split.  A behaviour is one of the part chosen at the start.          *)
(***************************************************************************)
EXTENDS CountMetric

VARIABLES part, lMetric, lCondition, lIsActive, lGuardrailHit, lCorrupted, lFresh, lNow, lLogTime,
          lHist, lCondReported, lCondTotal

NoThreshold == [cmp |-> "none", value |-> 0]
AtLeastTwo  == [cmp |-> "kGteInt", value |-> 2]

L == INSTANCE CountMetric WITH
       Keys <- {"k1", "k2"}, BucketSize <- 2, TimeBase <- 1, StartTime <- 1, DimensionHardLimit <- 1,
       InitialCondition <- "kTrue", HasActivation <- TRUE, PersistedActivation <- TRUE,
       HasAnomalyTracker <- TRUE, SplitForAppUpgrade <- TRUE, UploadThreshold <- AtLeastTwo,
       Reasons <- {}, Lateness <- 1, MaxTime <- 4, MaxEvents <- 2,
       metric <- lMetric, mCondition <- lCondition, mIsActive <- lIsActive,
       mDimensionGuardrailHit <- lGuardrailHit, corrupted <- lCorrupted, fresh <- lFresh,
       now <- lNow, logTime <- lLogTime, hist <- lHist, condReported <- lCondReported,
       condTotal <- lCondTotal

lVars == <<lMetric, lCondition, lIsActive, lGuardrailHit, lCorrupted, lFresh, lNow, lLogTime,
           lHist, lCondReported, lCondTotal>>

SuiteInit == part \in {"order", "late"} /\ Init /\ L!Init
OrderStep == part = "order" /\ Next /\ UNCHANGED <<part, lVars>>
LateStep == part = "late" /\ L!Next /\ UNCHANGED <<part, vars>>
SuiteSpec == SuiteInit /\ [][OrderStep \/ LateStep]_<<part, vars, lVars>>

-----------------------------------------------------------------------------

\* With log events that are handled after a later dump or split, every counted
\* event is still in one place and with the anomaly trackers once, no bucket has
\* more keys than the hard limit, and the size estimate does not drift from the
\* buckets (flushCurrentBucketLocked, hitGuardRailLocked).
LateDataConserved ==
  L!CountsConserved /\ L!TrackersConserved /\ L!DimensionsBounded /\ L!SizeZeroIffEmpty
=============================================================================
