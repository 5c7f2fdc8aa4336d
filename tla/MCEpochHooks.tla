---------------------------- MODULE MCEpochHooks ----------------------------
(* EpochHooks with three locks of two owners and small amounts             *)
EXTENDS EpochHooks, TLC

SmallLocks == <<[owner |-> "alice", amount |-> 1, duration |-> 1],
                [owner |-> "alice", amount |-> 2, duration |-> 2],
                [owner |-> "bob", amount |-> 2, duration |-> 2]>>

\* day, then week
DayAndWeek == <<[startTime |-> 0, duration |-> 1], [startTime |-> 1, duration |-> 2]>>

gaugeMsg(perpetual, noLock, duration, coins, startTime, numEpochs) ==
  [perpetual |-> perpetual, noLock |-> noLock, duration |-> duration, coins |-> coins,
   startTime |-> startTime, numEpochs |-> numEpochs]

\* A gauge of a pool without coins, one of two epochs for the longer locks, one of a
\* concentrated pool with less than a coin for each epoch
SmallGaugeMsgs ==
  {gaugeMsg(TRUE, FALSE, 1, 0, 0, 1), gaugeMsg(FALSE, FALSE, 2, 5, 1, 2), gaugeMsg(FALSE, TRUE, 0, 1, 0, 2)}

SmallProposals == {0 :> 1 @@ 1 :> 2, 1 :> 1, 1 :> 0, 2 :> 1}

\* In thousandths
SmallDevelopers == <<[address |-> "dev", weight |-> 500], [address |-> "", weight |-> 500]>>

=============================================================================
