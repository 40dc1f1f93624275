------------------------------- MODULE Catalog -------------------------------
(***************************************************************************)
(* One catalog generation: which Polymarket listing is read as which game, *)
(* the Kalshi tickers registered and grouped by game, the pairs that       *)
(* become active, and what the runner makes of them (arbkit-feed           *)
(* live/discovery.rs, arbkit-match catalog.rs, arbkit-exec prod_trader.rs, *)
(* arbkit-engine slab.rs).                                                 *)
(*                                                                         *)
(* A listing is a record: tradable; title, the names a question splits     *)
(* into, or <<>> for none; outcomes, their labels; tokens, numbered from 1 *)
(* in text order, 0 the empty text; start, the game's start stamp.         *)
(***************************************************************************)
EXTENDS Registry

CONSTANT UnreadableTokens       \* the token texts that are no 256-bit decimal

NoStats == [pages |-> 0, raw |-> 0, parsed |-> 0, malformed |-> 0, notTradable |-> 0,
            ambiguous |-> 0, unmatched |-> 0]
Count(stats, counter) == [stats EXCEPT ![counter] = @ + 1]

\* A step for every element in turn.
Through(step(_, _), base, seq) ==
    LET upTo[n \in 0 .. Len(seq)] == IF n = 0 THEN base ELSE step(upTo[n - 1], seq[n])
    IN  upTo[Len(seq)]

-----------------------------------------------------------------------------
(* Reading a listing *)

ClubsNamed(names) == {LookupTeamUnique(names[i]) : i \in DOMAIN names}

\* "found", or the counter of the skip.
Verdict(listing) ==
    LET titled == ClubsNamed(listing.title)
        labeled == ClubsNamed(listing.outcomes)
    IN  IF Len(listing.outcomes) # 2 \/ Len(listing.tokens) # 2 \/ 0 \in Range(listing.tokens)
        THEN "malformed"
        ELSE IF Len(listing.title) # 2 THEN "ambiguous"
        ELSE IF NoClub \in titled \cup labeled \/ Cardinality({c.sport : c \in titled}) # 1
                  \/ Cardinality(titled) # 2
        THEN "malformed"
        ELSE IF labeled # titled THEN "ambiguous"
        ELSE IF EasternGameDate(listing.start) = NoDate THEN "malformed" ELSE "found"

\* The tokens with the clubs of their own labels; the title orders nothing.
Proposition(listing) ==
    [tokens |-> listing.tokens, date |-> EasternGameDate(listing.start),
     first |-> LookupTeamUnique(listing.outcomes[1]),
     second |-> LookupTeamUnique(listing.outcomes[2])]

-----------------------------------------------------------------------------
(* Registering the Kalshi side: legs are the moneyline tickers in order.   *)

ExplicitOutcome(p) ==
    /\ p.kind # NoKind
    /\ p.kind.type # "total" => p.target # NoClub

Leg(t, p, reg, outcome) ==
    [home |-> p.home.code, away |-> p.away.code, date |-> p.date, sport |-> p.sport,
     market |-> GetOutcome(reg, outcome).market, onHome |-> p.target = p.home,
     ticker |-> t.symbol, outcome |-> outcome]

Skipped(side) == [side EXCEPT !.stats = Count(@, "malformed")]

\* The registry after a ticker, with its outcome or without.
TakeTicker(side, t, p, registered) ==
    IF registered.outcome = None THEN [Skipped(side) EXCEPT !.reg = registered.reg]
    ELSE [reg |-> registered.reg, stats |-> Count(side.stats, "parsed"),
          legs |-> IF p.kind # Moneyline THEN side.legs
                   ELSE Append(side.legs, Leg(t, p, registered.reg, registered.outcome))]

TakeParsed(side, t, p) ==
    IF p.error THEN Skipped(side)
    ELSE IF ~ExplicitOutcome(p) THEN Skipped(side)
    ELSE TakeTicker(side, t, p, RegisterKalshiTicker(side.reg, t, p))

RegisterTicker(side, t) == TakeParsed(side, t, ParseTicker(t))

RegisterKalshiSide(tickers, stats) ==
    Through(RegisterTicker, [reg |-> EmptyRegistry, stats |-> stats, legs |-> <<>>],
            SetToSortSeq(tickers, LAMBDA s, t : s.symbol < t.symbol))

-----------------------------------------------------------------------------
(* Pairing *)

Event(leg) == [home |-> leg.home, away |-> leg.away, date |-> leg.date, sport |-> leg.sport]

\* The events with a proposition's codes, its date and, not compared, its sport.
Candidates(legs, prop) ==
    {e \in {Event(legs[i]) : i \in DOMAIN legs} :
        {e.home, e.away} = {prop.first.code, prop.second.code} /\ e.date = prop.date}

LegOf(legs, market, onHome) ==
    legs[SelectInSeq(legs, LAMBDA l : l.market = market /\ l.onHome = onHome)]

\* The markets of an event with a ticker on either club.
WholeMoneylines(legs, event) ==
    {m \in {legs[i].market : i \in DOMAIN legs} :
        \A onHome \in BOOLEAN :
            \E i \in DOMAIN legs : /\ Event(legs[i]) = event
                                   /\ legs[i].market = m /\ legs[i].onHome = onHome}

\* Mutant: the listing's order says who is at home.
HomeAwayTokensAsListed(event, prop) == prop.tokens

\* The Kalshi fixture says who is at home.
HomeAwayTokens(event, prop) ==
    IF event.home = prop.first.code THEN prop.tokens ELSE <<prop.tokens[2], prop.tokens[1]>>

Instrument(venue, market, outcome, side, symbol) ==
    [venue |-> venue, market |-> market, outcome |-> outcome, side |-> side, symbol |-> symbol]

\* The pair of a market: Kalshi's home ticker and Polymarket's away token.
Pair(legs, market, awayToken) ==
    LET home == LegOf(legs, market, TRUE)
        away == LegOf(legs, market, FALSE)
    IN  <<Instrument(KALSHI, market, home.outcome, "home", home.ticker),
          Instrument(POLYMARKET, market, away.outcome, "away", awayToken)>>

Activate(build, market, pair) ==
    [build EXCEPT !.stats = Count(@, "parsed"),
                  !.active = RegisterBinaryPair(@, market, Moneyline, pair[1], pair[2])]

\* A market is taken by the first proposition, even if that one then fails.
Bind(build, legs, market, tokens) ==
    LET taken == [build EXCEPT
                    !.paired = @ \cup {market},
                    !.reg = RegisterPolymarketTokens(@, market, tokens[1], tokens[2])]
    IN  IF market \in build.paired THEN [build EXCEPT !.stats = Count(@, "malformed")]
        ELSE IF tokens[2] \in UnreadableTokens THEN [taken EXCEPT !.stats = Count(@, "malformed")]
        ELSE Activate(taken, market, Pair(legs, market, tokens[2]))

\* With one game, and tickers on both its clubs.
BindToOnly(build, legs, prop, events) ==
    LET event == CHOOSE e \in events : TRUE IN
    IF Cardinality(events) # 1 THEN [build EXCEPT !.stats = Count(@, "unmatched")]
    ELSE IF WholeMoneylines(legs, event) = {} THEN [build EXCEPT !.stats = Count(@, "unmatched")]
    ELSE Bind(build, legs, Min(WholeMoneylines(legs, event)), HomeAwayTokens(event, prop))

PairProposition(build, legs, prop) == BindToOnly(build, legs, prop, Candidates(legs, prop))

PairAll(kalshi, props) ==
    Through(LAMBDA build, prop : PairProposition(build, kalshi.legs, prop),
            [reg |-> kalshi.reg, stats |-> kalshi.stats, active |-> <<>>, paired |-> {}],
            SetToSortSeq(props, LAMBDA a, b : \/ a.tokens[1] < b.tokens[1]
                                              \/ /\ a.tokens[1] = b.tokens[1]
                                                 /\ a.tokens[2] < b.tokens[2]))

Generation(number, build) ==
    [generation |-> number, registry |-> build.reg, map |-> build.active, stats |-> build.stats]

\* The next generation, from the tickers and the propositions found.
BuildCatalogGeneration(number, tickers, props, stats) ==
    Generation(number, PairAll(RegisterKalshiSide(tickers, stats), props))

EmptyGeneration == [generation |-> 0, registry |-> EmptyRegistry, map |-> <<>>, stats |-> NoStats]

-----------------------------------------------------------------------------
(* What the runner makes of a generation *)

MAX_OUTCOMES == 4

\* The books the feeds write: the ticker's two sides, and the token's.
Fed(active) ==
    UNION {LET k == active[m].first
               p == active[m].second
           IN  {[market |-> m, outcome |-> k.outcome, venue |-> k.venue],
                [market |-> m, outcome |-> p.outcome, venue |-> k.venue],
                [market |-> m, outcome |-> p.outcome, venue |-> p.venue]} : m \in DOMAIN active}

\* A book of the slab; an outcome it has no room for has none.
HasBook(book) == book.outcome < MAX_OUTCOMES

\* Detection looks at the outcomes a market's configuration counts, from 0.
Evaluated(reg, book) == book.outcome < Len(GetMarket(reg, book.market).outcomes)
=============================================================================
