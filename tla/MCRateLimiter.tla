--------------------------- MODULE MCRateLimiter ---------------------------
EXTENDS RateLimiter

Daily == [name |-> "daily", duration |-> 1, send |-> 50, recv |-> 25]
Weekly == [name |-> "weekly", duration |-> 2, send |-> 25, recv |-> 120]

MCQuotaLists == {<<Daily>>, <<Daily, Weekly>>}
=============================================================================
