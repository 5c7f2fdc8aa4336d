------------------------- MODULE MCCrosschainSwaps -------------------------
(* CrosschainSwaps with a few calls                                        *)
EXTENDS CrosschainSwaps

call(coin, channel, min, recovery) ==
  [coin |-> coin, amount |-> 1, channel |-> channel, receiverOk |-> TRUE, memoOk |-> TRUE,
   min |-> min, recovery |-> recovery]

\* The last two fail, the last one only after its token was unwrapped.
SmallCalls ==
  {call(Near, "channel-0", 0, "alice"), call(Near, "channel-1", 2, "bob"),
   call(Near, "channel-0", 0, NoAddr), call(Far, "channel-0", 0, "alice"),
   [call(Near, "channel-1", 0, "bob") EXCEPT !.memoOk = FALSE],
   [call(Far, "channel-1", 0, "bob") EXCEPT !.receiverOk = FALSE]}

=============================================================================
