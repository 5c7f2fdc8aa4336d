------------------------------- MODULE MCTwap -------------------------------
(* Twap with prices that are powers of two, or fail, or exceed the maximum *)
EXTENDS Twap

SmallLog == <<-1, 0, 0, 1>>

\* One unit of a price is one half, so that 2 stands for a price of 1.
SmallQuotes == {<<1, 4>>, <<4, 1>>, <<5, NoPrice>>, <<NoPrice, NoPrice>>}

OnePool == [p \in Pairs |-> p]
=============================================================================
