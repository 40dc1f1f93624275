--------------------------- MODULE MCPaperTrader ---------------------------
EXTENDS PaperTrader, TLC

Level(p, z) == [price |-> p, size |-> z]

\* Levels for <<outcome, venue>>, in the order 1-1, 1-2, 2-1, 2-2.
Market(b11, b12, b21, b22) ==
    (<<1, 1>> :> b11) @@ (<<1, 2>> :> b12) @@ (<<2, 1>> :> b21) @@ (<<2, 2>> :> b22)

\* One leg per outcome at one venue and at two, an outcome split over two
\* venues and over two levels, both legs in the longer queue, and orders of
\* which less than an increment can be filled there.
SmallMarkets ==
    {Market(<<Level(30, 16)>>, <<>>, <<Level(44, 10)>>, <<>>),
     Market(<<Level(44, 12)>>, <<>>, <<>>, <<Level(44, 12)>>),
     Market(<<Level(42, 8)>>, <<Level(43, 8)>>, <<Level(45, 20)>>, <<>>),
     Market(<<Level(40, 6), Level(42, 8)>>, <<>>, <<Level(44, 20)>>, <<>>),
     Market(<<>>, <<Level(40, 14)>>, <<>>, <<Level(40, 14)>>),
     Market(<<>>, <<Level(36, 4)>>, <<>>, <<Level(40, 4)>>)}

StakeAndCommission == <<[kind |-> "stake", bps |-> 3], [kind |-> "commission", bps |-> 2]>>

OneAndThree == <<1, 3>>

MostOfIt == <<85, 85>>

RestAndHalf == <<15, 50>>

TwoAndFive == <<2, 5>>

SmallBalances == <<25, 20>>

DisabledOrNear ==
    {[enabled |-> FALSE, max_chase_bps |-> 0, ttl |-> 0],
     [enabled |-> TRUE, max_chase_bps |-> 10, ttl |-> 4]}

LowAndHigh == {38, 46}
=============================================================================
