--------------------------- MODULE MCAggregator ----------------------------
EXTENDS Aggregator

Level(p, z) == [price |-> p, size |-> z]

\* A book that is stale or empty, thin, deep, cheap, dear, or smaller than
\* one increment of the second venue.
SmallBooks ==
    {<<>>, <<Level(44, 10)>>, <<Level(30, 14)>>, <<Level(55, 25)>>,
     <<Level(42, 7), Level(45, 12)>>, <<Level(47, 5), Level(52, 20)>>,
     <<Level(30, 2), Level(48, 16)>>}

StakeAndCommission == <<[kind |-> "stake", bps |-> 3], [kind |-> "commission", bps |-> 2]>>

OneAndThree == <<1, 3>>

AllAndMost == <<100, 85>>
=============================================================================
