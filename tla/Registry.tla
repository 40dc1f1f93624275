------------------------------ MODULE Registry -------------------------------
(***************************************************************************)
(* The canonical registry: events, their markets, the markets' outcomes,   *)
(* and the venues' names of the outcomes (arbkit-match registry.rs,        *)
(* lookup.rs, catalog.rs).  Identifiers count from 0 in order of creation. *)
(***************************************************************************)
EXTENDS Tickers, Functions, TLC

KALSHI == "kalshi"
POLYMARKET == "polymarket"

EmptyRegistry == [events |-> <<>>, markets |-> <<>>, outcomes |-> <<>>, venueMap |-> <<>>]

None == -1      \* no such identifier

GetMarket(reg, market) == reg.markets[market + 1]
GetOutcome(reg, outcome) == reg.outcomes[outcome + 1]

FindEvent(reg, p) ==
    SelectInSeq(reg.events, LAMBDA e : /\ e.sport = p.sport /\ e.date = p.date
                                       /\ e.home = p.home /\ e.away = p.away) - 1

\* Mutant: a market is found by its type alone.
FindMarketAnyLine(reg, event, kind) ==
    SelectInSeq(reg.markets, LAMBDA m : m.event = event /\ m.kind.type = kind.type) - 1

FindMarket(reg, event, kind) ==
    SelectInSeq(reg.markets, LAMBDA m : m.event = event /\ m.kind = kind) - 1

CreateEvent(reg, p) ==
    [reg EXCEPT !.events = Append(@, [sport |-> p.sport, home |-> p.home, away |-> p.away,
                                      date |-> p.date])]

SideNames(kind) ==
    CASE kind.type = "moneyline" -> <<"home", "away">>
      [] kind.type = "spread" -> <<"homeCover", "awayCover">>
      [] kind.type = "total" -> <<"over", "under">>

\* A market and its two outcomes, the home or over side first.
CreateMarket(reg, event, kind) ==
    LET market == Len(reg.markets)
        first == Len(reg.outcomes)
        Outcome(side) == [market |-> market, side |-> side]
    IN  [reg EXCEPT
           !.outcomes = @ \o <<Outcome(SideNames(kind)[1]), Outcome(SideNames(kind)[2])>>,
           !.markets = Append(@, [event |-> event, kind |-> kind,
                                  outcomes |-> <<first, first + 1>>])]

Map(reg, venue, symbol, outcome) ==
    [reg EXCEPT !.venueMap = (<<venue, symbol>> :> outcome) @@ @]

WithEvent(reg, p) == IF FindEvent(reg, p) = None THEN CreateEvent(reg, p) ELSE reg

MarketIn(reg, event, kind) ==
    IF FindMarket(reg, event, kind) = None THEN CreateMarket(reg, event, kind) ELSE reg

WithMarket(reg, p) == MarketIn(reg, FindEvent(reg, p), p.kind)

\* Whether a parsed ticker backs the first outcome of its market, or the second.
BacksFirst(p) == IF p.kind.type = "total" THEN p.over ELSE p.target = p.home

\* The outcome backed in its market; the market stays even if it is refused.
MapTicker(reg, t, p, market) ==
    LET outcome == market.outcomes[IF BacksFirst(p) THEN 1 ELSE 2]
    IN  IF p.kind.type = "moneyline" /\ p.target \notin {p.home, p.away}
        THEN [reg |-> reg, outcome |-> None]
        ELSE [reg |-> Map(reg, KALSHI, t.symbol, outcome), outcome |-> outcome]

MarketOf(reg, p) == GetMarket(reg, FindMarket(reg, FindEvent(reg, p), p.kind))

MapInMarket(reg, t, p) == MapTicker(reg, t, p, MarketOf(reg, p))

RegisterKalshiTicker(reg, t, p) == MapInMarket(WithMarket(WithEvent(reg, p), p), t, p)

\* The first token is the home club's, the second the away club's.
RegisterPolymarketTokens(reg, market, yes, no) ==
    LET outcomes == GetMarket(reg, market).outcomes
    IN  Map(Map(reg, POLYMARKET, yes, outcomes[1]), POLYMARKET, no, outcomes[2])

\* The hot lookup table: every outcome's market, kind, side and opposite.
HotLookupTable(reg) ==
    [o \in 0 .. Len(reg.outcomes) - 1 |->
        LET market == GetMarket(reg, GetOutcome(reg, o).market) IN
        [market |-> GetOutcome(reg, o).market, kind |-> market.kind,
         side |-> GetOutcome(reg, o).side,
         opposite |-> IF market.outcomes[1] = o THEN market.outcomes[2] ELSE market.outcomes[1]]]

\* A pair is active once its instruments are of its market, at two venues, on
\* validated sides.
RegisterBinaryPair(active, market, kind, first, second) ==
    IF /\ first.market = market /\ second.market = market
       /\ first.venue # second.venue
       /\ ValidateBinaryPair(kind, first.side, kind, second.side)
    THEN (market :> [first |-> first, second |-> second]) @@ active
    ELSE active
=============================================================================
