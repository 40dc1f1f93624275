------------------------------ MODULE Discovery ------------------------------
(***************************************************************************)
(* Discovery at the start of the production runner: the pages of either    *)
(* venue are fetched while its listings change, the catalog is built and   *)
(* installed, and the runner runs or refuses (arbkit-feed                  *)
(* live/discovery.rs, arbkit-exec prod_trader.rs).                         *)
(*                                                                         *)
(* A ticker and a listing also carry what they are about, which the code   *)
(* does not see: of, the game [sport, home, away, date, hour, springEve],  *)
(* by the Eastern clock, where springEve says that the clock goes forward  *)
(* that night; backs, the side a ticker, or each token of a listing, pays  *)
(* on; and whether it is plain: a moneyline with the codes, or the full    *)
(* names, of the clubs.                                                    *)
(***************************************************************************)
EXTENDS Catalog

CONSTANTS Venues,               \* what the venues may have listed at first
          KalshiPageLimit, PolymarketPageLimit, MaxPages,
          MaxShifts             \* bound on listings closed or opened while pages are read

ASSUME DiscoveryAssumption ==
    /\ KalshiPageLimit \in Nat \ {0} /\ PolymarketPageLimit \in Nat \ {0}
    /\ MaxPages \in Nat /\ MaxShifts \in Nat

VARIABLES
    venues,         \* what is on offer: [tickers, events, late, games]
    listed,         \* the events Polymarket lists now
    phase,          \* what the refresh is at
    position,       \* Kalshi's cursor, or Polymarket's offset
    pagesLeft,
    found,          \* [tickers, props], without repeats
    stats,
    catalog,        \* the generation installed
    runner,         \* "starting", "running" or "refused"
    shifts,         \* events closed and opened while Polymarket's pages are read
    missed          \* whether a page was unreadable or lay beyond the last one fetched

vars == <<venues, listed, phase, position, pagesLeft, found, stats, catalog, runner, shifts,
          missed>>

\* max_pages of zero still fetches one page.
PagesToFetch == Max({MaxPages, 1})

\* Every state is well-formed, and max_pages bounds the pages of either venue.
TypeOK ==
    /\ venues \in Venues
    /\ phase \in {"kalshi", "polymarket", "build", "done"}
    /\ position \in Nat
    /\ pagesLeft \in 1..PagesToFetch
    /\ DOMAIN stats = DOMAIN NoStats
    /\ \A counter \in DOMAIN stats : stats[counter] \in Nat
    /\ stats.pages <= 2 * PagesToFetch
    /\ catalog.generation \in 0..1
    /\ runner \in {"starting", "running", "refused"}
    /\ shifts.closed + shifts.opened \in 0..MaxShifts
    /\ missed \in BOOLEAN

Init ==
    /\ venues \in Venues /\ listed = venues.events
    /\ phase = "kalshi" /\ position = 0 /\ pagesLeft = PagesToFetch
    /\ found = [tickers |-> {}, props |-> {}] /\ stats = NoStats
    /\ catalog = EmptyGeneration /\ runner = "starting"
    /\ shifts = [closed |-> 0, opened |-> 0] /\ missed = FALSE

-----------------------------------------------------------------------------
(* Reading a page: read is [stats, found]. *)

Reading == [stats |-> [stats EXCEPT !.pages = @ + 1], found |-> found]

OpenStatus(record) == record.status \in {"open", "active", "absent"}

ReadRecord(read, record) ==
    LET seen == [read EXCEPT !.stats = Count(@, "raw")]
    IN  IF ~OpenStatus(record) THEN [seen EXCEPT !.stats = Count(@, "notTradable")]
        ELSE IF ~record.named THEN [seen EXCEPT !.stats = Count(@, "malformed")]
        ELSE IF record.ticker \in read.found.tickers THEN seen
        ELSE [seen EXCEPT !.found.tickers = @ \cup {record.ticker}]

ReadListing(read, listing) ==
    LET seen == [read EXCEPT !.stats = Count(@, "raw")]
        prop == Proposition(listing)
    IN  IF ~listing.tradable THEN [seen EXCEPT !.stats = Count(@, "notTradable")]
        ELSE IF Verdict(listing) # "found"
        THEN [seen EXCEPT !.stats = Count(@, Verdict(listing))]
        ELSE IF \E p \in read.found.props : p.tokens = prop.tokens
        THEN seen
        ELSE [seen EXCEPT !.found.props = @ \cup {prop}]

ReadEvent(read, event) ==
    IF event.closed
    THEN [read EXCEPT !.stats = Count(@, "notTradable")]
    ELSE Through(ReadListing, read, event.listings)

Read(read) == stats' = read.stats /\ found' = read.found

\* A body that is no JSON, or lacks the list, is one malformed record.
Unreadable == [Reading EXCEPT !.stats = Count(@, "malformed")]

-----------------------------------------------------------------------------
(* Fetching *)

SpendPage == pagesLeft' = pagesLeft - 1

\* The pages of a venue are read: on to the next venue, or to the build.
EndVenue ==
    /\ phase' = (IF phase = "kalshi" THEN "polymarket" ELSE "build")
    /\ position' = 0 /\ pagesLeft' = PagesToFetch

\* Mutant: the next page begins one further.
NextPageFarther(next) == position' = next + 1 /\ SpendPage /\ UNCHANGED phase

NextPage(next) == position' = next /\ SpendPage /\ UNCHANGED phase

Onward(last, next) == IF last \/ pagesLeft = 1 THEN EndVenue ELSE NextPage(next)

\* The page limit ends a venue before the end of its list.
CutOff(end, list) == pagesLeft = 1 /\ end < Len(list)

\* The records after the cursor; the venue may give a cursor after the last.
KalshiPage ==
    LET end == Min({position + KalshiPageLimit, Len(venues.tickers)}) IN
    /\ phase = "kalshi"
    /\ \E read \in {Through(ReadRecord, Reading, SubSeq(venues.tickers, position + 1, end))} : Read(read)
    /\ \E last \in BOOLEAN : (end < Len(venues.tickers) => ~last) /\ Onward(last, end)
    /\ missed' = (missed \/ CutOff(end, venues.tickers))
    /\ UNCHANGED <<venues, listed, catalog, runner, shifts>>

\* Without its list a page may still carry the next cursor; a garbled one ends the venue.
KalshiUnreadable ==
    LET end == Min({position + KalshiPageLimit, Len(venues.tickers)}) IN
    /\ phase = "kalshi"
    /\ Read(Unreadable)
    /\ \E last \in BOOLEAN : Onward(last, end)
    /\ missed' = TRUE
    /\ UNCHANGED <<venues, listed, catalog, runner, shifts>>

\* A page of events by offset; a short page is the last.
PolymarketPage ==
    LET end == Min({position + PolymarketPageLimit, Len(listed)})
        page == SubSeq(listed, position + 1, end)
    IN  /\ phase = "polymarket"
        /\ \E read \in {Through(ReadEvent, Reading, page)} : Read(read)
        /\ Onward(Len(page) < PolymarketPageLimit, position + PolymarketPageLimit)
        /\ missed' = (missed \/ CutOff(end, listed))
        /\ UNCHANGED <<venues, listed, catalog, runner, shifts>>

PolymarketUnreadable ==
    /\ phase = "polymarket"
    /\ Read(Unreadable)
    /\ EndVenue
    /\ missed' = TRUE
    /\ UNCHANGED <<venues, listed, catalog, runner, shifts>>

\* No answer, or an error status: the runner exits.
FetchFails ==
    /\ phase \in {"kalshi", "polymarket"}
    /\ phase' = "done" /\ runner' = "refused"
    /\ UNCHANGED <<venues, listed, position, pagesLeft, found, stats, catalog, shifts,
                   missed>>

\* The next generation is installed as a whole.
Install ==
    /\ phase = "build"
    /\ phase' = "done"
    /\ catalog' = BuildCatalogGeneration(catalog.generation + 1, found.tickers, found.props, stats)
    /\ UNCHANGED <<venues, listed, position, pagesLeft, found, stats, runner, shifts,
                   missed>>

\* Without a pair there is nothing to run.
Start ==
    /\ phase = "done" /\ runner = "starting"
    /\ runner' = (IF catalog.map = <<>> THEN "refused" ELSE "running")
    /\ UNCHANGED <<venues, listed, phase, position, pagesLeft, found, stats, catalog, shifts,
                   missed>>

\* The first event of the list is settled and leaves it.
EventCloses ==
    /\ shifts.closed + shifts.opened < MaxShifts /\ listed # <<>> /\ phase = "polymarket"
    /\ listed' = Tail(listed)
    /\ shifts' = [shifts EXCEPT !.closed = @ + 1]
    /\ UNCHANGED <<venues, phase, position, pagesLeft, found, stats, catalog, runner,
                   missed>>

\* An event is listed before the others.
EventOpens ==
    /\ shifts.closed + shifts.opened < MaxShifts /\ venues.late.listings # <<>>
    /\ phase = "polymarket"
    /\ listed' = <<venues.late>> \o listed
    /\ shifts' = [shifts EXCEPT !.opened = @ + 1]
    /\ UNCHANGED <<venues, phase, position, pagesLeft, found, stats, catalog, runner,
                   missed>>

Next ==
    \/ KalshiPage \/ KalshiUnreadable \/ PolymarketPage \/ PolymarketUnreadable
    \/ FetchFails \/ Install \/ Start
    \/ EventCloses \/ EventOpens

Spec == Init /\ [][Next]_vars

-----------------------------------------------------------------------------
(* What tickers and tokens are about *)

Listings == UNION {Range(e.listings) : e \in Range(venues.events) \cup {venues.late}}

\* What a symbol of a venue pays on.
Bets(venue, symbol) ==
    IF venue = KALSHI
    THEN {[of |-> r.ticker.of, on |-> r.ticker.hint, backs |-> r.ticker.backs,
           line |-> LineOf(r.ticker.outcome)] :
          r \in {r \in Range(venues.tickers) : r.ticker.symbol = symbol}}
    ELSE UNION {{[of |-> l.of, on |-> "game", backs |-> l.backs[i], line |-> 0] :
                 i \in {i \in DOMAIN l.tokens : l.tokens[i] = symbol}} : l \in Listings}

\* A spread is read as points given to the club.
Pays(bet, home, away) ==
    LET own == IF bet.backs = "home" THEN home ELSE away
        other == IF bet.backs = "home" THEN away ELSE home
    IN  CASE bet.on = "game" -> own > other
          [] bet.on = "spread" -> own + bet.line > other
          [] bet.on = "total" /\ bet.backs = "over" -> home + away > bet.line
          [] bet.on = "total" /\ bet.backs = "under" -> home + away < bet.line

Scores == {0, 300, 500, 900}

\* No other game of that day has the same two codes.
Alone(game) ==
    \A g \in venues.games : \/ g = game \/ g.date # game.date
                             \/ {g.home, g.away} # {game.home, game.away}

OneGame(a, b) == a.of = b.of /\ {a.backs, b.backs} = {"home", "away"}

\* The bets a pair may turn out to be.
Hedges(pair) ==
    Bets(pair.first.venue, pair.first.symbol) \X Bets(pair.second.venue, pair.second.symbol)

Installed == catalog.generation = 1

\* Every page of either list was read.
Complete == Installed /\ ~missed

-----------------------------------------------------------------------------
(* Properties *)

\* Of a game that no other shares its codes and its day with, the two
\* instruments of an active pair are the two sides: whatever wins, one pays
\* (lookup_team_unique, HomeAwayTokens, register_binary_pair).
PairsHedge ==
    \A m \in DOMAIN catalog.map : \A bets \in Hedges(catalog.map[m]) :
        Alone(bets[1].of) => OneGame(bets[1], bets[2])

HasLeg(game, side) ==
    \E r \in Range(venues.tickers) :
        /\ OpenStatus(r) /\ r.named
        /\ r.ticker.plain /\ r.ticker.of = game /\ r.ticker.backs = side

OpenListings(game) ==
    {l \in UNION {Range(e.listings) : e \in {e \in Range(venues.events) : ~e.closed}} :
        l.tradable /\ l.of = game}

\* The games offered in full, with both tickers and a listing, that are in no pair.
Unpaired ==
    {game \in venues.games :
        /\ Alone(game) /\ HasLeg(game, "home") /\ HasLeg(game, "away")
        /\ \E l \in OpenListings(game) : l.plain
        /\ \A l \in OpenListings(game) : Range(l.tokens) \cap UnreadableTokens = {}
        /\ \A m \in DOMAIN catalog.map : \A bets \in Hedges(catalog.map[m]) : bets[1].of # game}

\* Starts that the code dates a day late: the last hour before the day on which
\* the clock goes forward, because is_us_dst takes all of that day as summer.
Misdated(game) == game.springEve /\ game.hour = 23

\* A refresh that read every page pairs every game offered in full, except those
\* that start in the last hour before the clock goes forward.  Events that close
\* while the pages are read move the others under the offset, each one event past
\* it: no more games are lost than events closed, and none by events that open
\* (eastern_game_date, code_pair_key, discover_polymarket_propositions).
OpenGamesPair ==
    Complete => Cardinality({game \in Unpaired : ~Misdated(game)}) <= shifts.closed

\* The date a listing is paired by is the "calendar date in US Eastern time" of
\* its start (discovery.rs:945): a refresh of lists that nobody changes pairs
\* every game offered in full, whenever it starts.  It fails: a start at 23:30 on
\* the eve of the switch to daylight saving gets the date of the next day.
StartsAreDatedEastern == Complete /\ shifts.closed = 0 => Unpaired = {}

\* Every ticker and token registered pays exactly when the outcome it is
\* mapped to wins, and never together with the opposite outcome
\* (register_kalshi_ticker, register_polymarket_tokens, build_hot_lookup_table).
OutcomesPayAlike ==
    \A key \in DOMAIN catalog.registry.venueMap : \A bet \in Bets(key[1], key[2]) :
        LET table == HotLookupTable(catalog.registry)
            record == table[catalog.registry.venueMap[key]]
            opposite == table[record.opposite]
        IN  Alone(bet.of) =>
                \A home, away \in Scores :
                    /\ Wins(record.kind, record.side, home, away) <=> Pays(bet, home, away)
                    /\ Wins(opposite.kind, opposite.side, home, away) => ~Pays(bet, home, away)

\* A proposition pairs only with the game it is of, "only when exactly one
\* open Kalshi moneyline event shares its clubs and date" (discovery.rs:22).
\* The code compares codes and days, not sports and times: with a double
\* header, or two sports' clubs of one code, it fails.
PairsAreOneGame ==
    \A m \in DOMAIN catalog.map : \A bets \in Hedges(catalog.map[m]) : OneGame(bets[1], bets[2])

\* The books a running pair's feeds write are books its market's detection
\* looks at: an outcome identifier is "within the market" (event.rs:52).
PairsReachTheEngine ==
    runner = "running" =>
        \A book \in Fed(catalog.map) : HasBook(book) /\ Evaluated(catalog.registry, book)
=============================================================================
