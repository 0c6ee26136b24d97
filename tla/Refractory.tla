----------------------------- MODULE Refractory -----------------------------
(***************************************************************************)
(* The refractory period of an alert (anomaly/AnomalyTracker.cpp), shared  *)
(* by AnomalyTracker and its subclass DurationAnomalyTracker.  ends is     *)
(* mRefractoryPeriodEndsSec, with 0 for a dimension key that has no entry. *)
(* Timestamps are in ticks (nanoseconds in the code), ends in seconds.     *)
(***************************************************************************)
EXTENDS Integers

CONSTANTS
  TicksPerSec,             \* NS_PER_SEC
  refractory_period_secs   \* mAlert.refractory_period_secs()

ASSUME RefractoryAssumption ==
  TicksPerSec \in Nat \ {0} /\ refractory_period_secs \in Nat

RoundUpSec(timestampNs) == ((timestampNs + TicksPerSec) - 1) \div TicksPerSec
FloorSec(timestampNs) == timestampNs \div TicksPerSec

isInRefractoryPeriod(ends, timestampNs, key) == timestampNs < ends[key] * TicksPerSec

\* Mutant of RefractoryEnd: the declaration is rounded down to its second.
RefractoryEndRoundedDown(timestampNs) == FloorSec(timestampNs) + refractory_period_secs

\* The end that declareAnomaly stores when it informs the subscribers.
RefractoryEnd(timestampNs) == RoundUpSec(timestampNs) + refractory_period_secs
=============================================================================
