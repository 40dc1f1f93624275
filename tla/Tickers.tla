------------------------------- MODULE Tickers -------------------------------
(***************************************************************************)
(* What the parser makes of a Kalshi ticker (arbkit-match kalshi.rs).      *)
(*                                                                         *)
(* A ticker is a record of its parts: symbol numbers the tickers in the    *)
(* order of their text; sport and hint are what the series says; stamp is  *)
(* the time at the head of the event part; splits are the ways to cut the  *)
(* codes at its end in two, away club first; outcome is the last part.     *)
(***************************************************************************)
EXTENDS Teams, Alignment, EasternDate

NoKind == [type |-> "none", line |-> 0]
NoTicker == [error |-> TRUE]            \* a MatchError

LegalEventTime(stamp) ==
    /\ stamp.year >= 20 /\ stamp.month \in 1..12 /\ stamp.day \in 1..31
    /\ stamp.hour \in 0..23 /\ stamp.minute \in 0..59

\* The calendar day of the stamp; its time of day is dropped.
DateCode(stamp) == <<2000 + stamp.year, stamp.month, stamp.day>>

\* The cuts that leave two different clubs.
TeamPairs(t) ==
    {s \in t.splits : LET away == LookupTeam(s[1], t.sport)
                          home == LookupTeam(s[2], t.sport)
                      IN  NoClub \notin {away, home} /\ away # home}

ResolveTeamPair(t) ==
    LET s == CHOOSE s \in TeamPairs(t) : TRUE
    IN  [away |-> LookupTeam(s[1], t.sport), home |-> LookupTeam(s[2], t.sport)]

\* The last digit is tenths of a point.
LineOf(outcome) == outcome.points * 10

\* A spread is turned to the home club's view.
SpreadKind(t, pair, target) ==
    IF target = pair.home THEN Spread(LineOf(t.outcome)) ELSE Spread(Mirrored(LineOf(t.outcome)))

OutcomeReadable(t, pair) ==
    LET target == LookupTeam(t.outcome.team, t.sport) IN
    \/ t.outcome.form = "none" \/ t.hint = "unknown"
    \/ t.hint = "game" /\ target # NoClub
    \/ t.hint = "spread" /\ t.outcome.form = "line" /\ target \in {pair.home, pair.away}
    \/ t.hint = "total" /\ t.outcome.form = "overUnder"

Parsed(t, pair) ==
    LET target == IF t.outcome.form = "none" THEN NoClub ELSE LookupTeam(t.outcome.team, t.sport)
        unstated == t.outcome.form = "none" IN
    [error |-> FALSE, sport |-> t.sport, date |-> DateCode(t.stamp),
     home |-> pair.home, away |-> pair.away, target |-> target, over |-> t.outcome.over,
     kind |-> CASE t.hint = "game" -> Moneyline
                [] t.hint = "spread" /\ ~unstated -> SpreadKind(t, pair, target)
                [] t.hint = "total" /\ ~unstated -> Total(LineOf(t.outcome))
                [] OTHER -> NoKind]

ReadIn(t, pair) == IF OutcomeReadable(t, pair) THEN Parsed(t, pair) ELSE NoTicker

\* One cut, and only one, must name two clubs.
ParseTicker(t) ==
    IF LegalEventTime(t.stamp) /\ Cardinality(TeamPairs(t)) = 1
    THEN ReadIn(t, ResolveTeamPair(t)) ELSE NoTicker
=============================================================================
