-------------------------- MODULE MCTransferStack --------------------------
EXTENDS TransferStack

Daily == [name |-> "daily", duration |-> 1, send |-> 50, recv |-> 50]
Weekly == [name |-> "weekly", duration |-> 2, send |-> 75, recv |-> 120]

\* Supply of every denom in the first block
InitialAmount == 4
MCInitialSupply == [d \in Denoms |-> InitialAmount]

\* A quota on the path of every channel and one on "any"
MCInitialQuotas == [p \in Paths |-> IF p.channel = "any" THEN <<Weekly>> ELSE <<Daily>>]
MCQuotaLists == {<<Daily>>, <<Weekly>>}

MCOrigin == [d \in Vouchers |-> "channel-0"]
=============================================================================
