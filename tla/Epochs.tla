------------------------------- MODULE Epochs -------------------------------
(***************************************************************************)
(* The clocks of x/epochs: an epoch of a fixed duration ends in the first  *)
(* block after it, at most one end in each block, so that a chain that was *)
(* down catches up one epoch a block.                                      *)
(***************************************************************************)
EXTENDS Integers

EpochInfo == [startTime : Nat, duration : Nat \ {0}, countingStarted : BOOLEAN,
              currentEpoch : Nat, currentEpochStartTime : Nat]

\* AddEpochInfo at genesis
NewEpochInfo(startTime, duration) ==
  [startTime |-> startTime, duration |-> duration, countingStarted |-> FALSE,
   currentEpoch |-> 0, currentEpochStartTime |-> 0]

\* Mutant: an epoch that was missed altogether is no longer seen to end
EpochEndsOnTime(e, t) ==
  /\ e.countingStarted
  /\ t > e.currentEpochStartTime + e.duration
  /\ t <= e.currentEpochStartTime + 2 * e.duration

\* An epoch ends strictly after its last instant.
EpochEnds(e, t) == e.countingStarted /\ t > e.currentEpochStartTime + e.duration

CountingStarts(e, t) == ~e.countingStarted /\ t >= e.startTime

NextEpoch(e, t) ==
  [e EXCEPT !.currentEpoch = @ + 1, !.currentEpochStartTime = @ + e.duration]

\* The iteration of BeginBlocker for one identifier, without the hooks
Advance(e, t) ==
  IF CountingStarts(e, t)
  THEN [e EXCEPT !.countingStarted = TRUE, !.currentEpoch = 1, !.currentEpochStartTime = e.startTime]
  ELSE IF EpochEnds(e, t) THEN NextEpoch(e, t)
  ELSE e

=============================================================================
