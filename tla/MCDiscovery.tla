----------------------------- MODULE MCDiscovery -----------------------------
(***************************************************************************)
(* Model-checking instances of Discovery.  The venues list a few games     *)
(* with the listings that are hard to read, or one game of any day of two  *)
(* years.                                                                  *)
(***************************************************************************)
EXTENDS Discovery

\* The calendar and the daylight saving of 2026 and 2027, counted out.
MonthLengths == <<31, 28, 31, 30, 31, 30, 31, 31, 30, 31, 30, 31>>
Days(year) ==
    FlattenSeq([m \in 1..12 |-> [d \in 1 .. MonthLengths[m] |-> <<year, m, d>>]])
Calendar == Days(2026) \o Days(2027) \o << <<2028, 1, 1>> >>
Daylight(i) == i \in 67..304 \/ i \in 365 + 73 .. 365 + 310     \* 8 March, 14 March
EvesOfSpring == {66, 365 + 72}

Stamp(date, hour, minute) ==
    [year |-> date[1], month |-> date[2], day |-> date[3], hour |-> hour, minute |-> minute,
     sign |-> "+", offset |-> 0]
NoStart == Stamp(<<0, 0, 0>>, 0, 0)

\* The start in UTC of a game at an Eastern hour of a day.
Utc(i, hour) ==
    LET utc == hour + (IF Daylight(i) THEN 4 ELSE 5)
    IN  Stamp(Calendar[i + utc \div 24], utc % 24, 30)

DayOf(date) == SelectInSeq(Calendar, LAMBDA d : d = date)

Game(sport, day, hour) ==
    [sport |-> sport, home |-> "det", away |-> "bos", date |-> Calendar[day], hour |-> hour,
     springEve |-> day \in EvesOfSpring]

EventTime(g) == [Stamp(g.date, g.hour, 30) EXCEPT !.year = @ - 2000]

Outcome(form, team, points, over) ==
    [form |-> form, team |-> team, points |-> points, over |-> over]

Ticker(symbol, g, hint, outcome, backs) ==
    [symbol |-> symbol, sport |-> g.sport, hint |-> hint, stamp |-> EventTime(g),
     splits |-> {<<g.away, g.home>>, <<"bosd", "et">>}, outcome |-> outcome,
     of |-> g, backs |-> backs, plain |-> hint = "game"]

Record(status, ticker) == [status |-> status, named |-> TRUE, ticker |-> ticker]

Legs(symbol, g) ==
    << Record("active", Ticker(symbol, g, "game", Outcome("team", "bos", 0, FALSE), "away")),
       Record("open", Ticker(symbol + 1, g, "game", Outcome("team", "det", 0, FALSE), "home")) >>

FullNames == [mlb |-> <<"bostonredsox", "detroittigers">>,
              nba |-> <<"bostonceltics", "detroitpistons">>]

Listing(g, token) ==
    [tradable |-> TRUE, title |-> FullNames[g.sport], outcomes |-> FullNames[g.sport],
     tokens |-> <<token, token + 1>>, start |-> Utc(DayOf(g.date), g.hour),
     of |-> g, backs |-> <<"away", "home">>, plain |-> TRUE]

EventOf(listings) == [closed |-> FALSE, listings |-> listings]

\* Boston at Detroit on 10 April 2026, late on the day after, again on the
\* first day, and between the basketball clubs of the same codes.
Opener == Game("mlb", 100, 13)
Rematch == Game("mlb", 101, 22)
SecondGame == Game("mlb", 100, 19)
Basketball == Game("nba", 100, 20)

\* Of a league the matcher does not know, with the same codes.
Unknown == Game("other", 100, 20)

\* What Kalshi may list.
KalshiItems ==
    << Legs(1, Opener),
       Legs(3, Rematch),
       Legs(5, SecondGame),
       Legs(7, Basketball),
       << Record("settled", Legs(1, Opener)[1].ticker), Legs(1, Opener)[2], Legs(1, Opener)[2] >>,
       << Record("open", Ticker(20, Opener, "spread", Outcome("line", "det", 45, FALSE), "home")),
          Record("open", Ticker(21, Opener, "spread", Outcome("line", "bos", 15, FALSE), "away")) >>,
       << Record("open", Ticker(22, Opener, "spread", Outcome("line", "bos", -45, FALSE), "away")),
          Record("absent", Ticker(23, Opener, "total", Outcome("overUnder", "", 85, TRUE), "over")) >>,
       << [Legs(1, Opener)[1] EXCEPT !.named = FALSE],
          Record("open", [Ticker(24, Opener, "game", Outcome("none", "", 0, FALSE), "home")
                             EXCEPT !.plain = FALSE]) >>,
       Legs(25, Unknown) >>

Mirror(listing) ==
    [listing EXCEPT !.title = Reverse(@), !.outcomes = Reverse(@), !.backs = Reverse(@)]

\* What Polymarket may list.
PolymarketItems ==
    << EventOf(<<Listing(Opener, 2)>>),
       EventOf(<<Mirror(Listing(Opener, 4)),
                 [Listing(Opener, 6) EXCEPT !.outcomes = <<"yes", "no">>, !.plain = FALSE]>>),
       EventOf(<<Listing(Rematch, 8)>>),
       EventOf(<<Listing(Basketball, 10)>>),
       EventOf(<<[Listing(Opener, 12) EXCEPT !.title = <<"boston", "detroittigers">>, !.plain = FALSE],
                 [Listing(Opener, 14) EXCEPT !.title = <<"bostonredsox">>, !.plain = FALSE]>>),
       [EventOf(<<Listing(Opener, 16)>>) EXCEPT !.closed = TRUE],
       EventOf(<<[Mirror(Listing(Opener, 18)) EXCEPT !.title = Reverse(@)]>>),
       EventOf(<<Listing(Opener, 100)>>),
       EventOf(<<[Listing(Opener, 20) EXCEPT !.start = NoStart, !.plain = FALSE],
                 [Listing(Opener, 22) EXCEPT !.tradable = FALSE]>>) >>

\* Up to n of the items, in order.
Selections(items, n) ==
    {SetToSortSeq(chosen, <) : chosen \in UNION {kSubset(k, DOMAIN items) : k \in 0..n}}
Chosen(items, selection) == [i \in DOMAIN selection |-> items[selection[i]]]

Offered(tickers, events, late) ==
    [tickers |-> tickers, events |-> events, late |-> late,
     games |-> {r.ticker.of : r \in Range(tickers)}
                  \cup {l.of : l \in UNION {Range(e.listings) : e \in Range(events) \cup {late}}}]

Mixed ==
    {Offered(FlattenSeq(Chosen(KalshiItems, k)), Chosen(PolymarketItems, p),
             EventOf(<<Listing(Rematch, 8)>>)) :
        <<k, p>> \in (Selections(KalshiItems, 2) \X Selections(PolymarketItems, 1))
                        \cup (Selections(KalshiItems, 1) \X Selections(PolymarketItems, 2))}

\* One game, in the afternoon or in the last hour of any day of two years.
Dated ==
    {LET g == Game("mlb", day, hour) IN
     Offered(Legs(1, g), <<EventOf(<<Listing(g, 2)>>)>>, EventOf(<<>>)) :
        day \in 1..730, hour \in {13, 23}}

\* Two games of a series, which both pair.
TwoGames ==
    {Offered(Legs(1, Opener) \o Legs(3, Rematch),
             <<EventOf(<<Listing(Opener, 2)>>), EventOf(<<Listing(Rematch, 8)>>)>>, EventOf(<<>>))}

SomeVenues == Mixed \cup Dated \cup TwoGames
=============================================================================
