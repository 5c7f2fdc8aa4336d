--------------------------- MODULE MCPacketDenom ---------------------------
EXTENDS PacketDenom

MCPeer == [c \in LocalChannels |-> IF c = "channel-0" THEN "channel-1" ELSE "channel-0"]
MCIds == {"channel-0", "channel-1", "channel-2", "channel-17"}

\* The one id of the run whose text begins another
MCTextPrefix == {<<id, id>> : id \in MCIds} \cup {<<"channel-1", "channel-17">>}

MCText == {"transfer", "uosmo", "uatom", "gamm", "pool", "1"} \cup MCIds
MCNatives == {<<"uosmo">>, <<"gamm", "pool", "1">>}
MCForeign == {<<"uatom">>}
=============================================================================
