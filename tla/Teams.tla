-------------------------------- MODULE Teams --------------------------------
(***************************************************************************)
(* The clubs the matcher knows and the names it knows them by              *)
(* (arbkit-match team.rs).  A name is the normalized text: lower case,     *)
(* letters and digits only; a code is its own normalized text.             *)
(***************************************************************************)
EXTENDS Integers, Sequences, FiniteSets, FiniteSetsExt, SequencesExt

NBACodes ==
    {"atl", "bos", "bkn", "cha", "chi", "cle", "dal", "den", "det", "gsw", "hou", "ind",
     "lac", "lal", "mem", "mia", "mil", "min", "nop", "nyk", "okc", "orl", "phi", "phx",
     "por", "sac", "sas", "tor", "uta", "was"}

NFLCodes ==
    {"kc", "sf", "bal", "buf", "dal", "gb", "ne", "phi"}

MLBCodes ==
    {"az", "atl", "ath", "bal", "bos", "chc", "cws", "cin", "cle", "col", "det", "hou",
     "kc", "laa", "lad", "mia", "mil", "min", "nym", "nyy", "phi", "pit", "sd", "sea",
     "sf", "stl", "tb", "tex", "tor", "wsh"}

NHLCodes ==
    {"bos", "tor", "edm"}

NBANames ==
    << <<"atl", {"atl", "atlanta", "hawks", "atlantahawks"}>>,
       <<"bos", {"bos", "boston", "celtics", "bostonceltics", "bosceltics"}>>,
       <<"bkn", {"bkn", "brooklyn", "nets", "brooklynnets", "bknnets"}>>,
       <<"cha", {"cha", "charlotte", "hornets", "charlottehornets"}>>,
       <<"chi", {"chi", "chicago", "bulls", "chicagobulls"}>>,
       <<"cle", {"cle", "cleveland", "cavaliers", "cavs", "clevelandcavaliers"}>>,
       <<"dal", {"dal", "dallas", "mavericks", "mavs", "dallasmavericks"}>>,
       <<"den", {"den", "denver", "nuggets", "denvernuggets"}>>,
       <<"det", {"det", "detroit", "pistons", "detroitpistons"}>>,
       <<"gsw", {"gsw", "gs", "goldenstate", "warriors", "goldenstatewarriors", "gswarriors"}>>,
       <<"hou", {"hou", "houston", "rockets", "houstonrockets"}>>,
       <<"ind", {"ind", "indiana", "pacers", "indianapacers"}>>,
       <<"lac", {"lac", "clippers", "laclippers", "losangelesclippers"}>>,
       <<"lal", {"lal", "lakers", "lalakers", "losangeleslakers"}>>,
       <<"mem", {"mem", "memphis", "grizzlies", "memphisgrizzlies"}>>,
       <<"mia", {"mia", "miami", "heat", "miamiheat"}>>,
       <<"mil", {"mil", "milwaukee", "bucks", "milwaukeebucks"}>>,
       <<"min", {"min", "minnesota", "timberwolves", "wolves", "minnesotatimberwolves"}>>,
       <<"nop", {"nop", "no", "neworleans", "pelicans", "neworleanspelicans"}>>,
       <<"nyk", {"nyk", "ny", "knicks", "newyorkknicks", "nyknicks"}>>,
       <<"okc", {"okc", "oklahomacity", "thunder", "oklahomacitythunder", "okcthunder"}>>,
       <<"orl", {"orl", "orlando", "magic", "orlandomagic"}>>,
       <<"phi", {"phi", "philadelphia", "76ers", "sixers", "philadelphia76ers"}>>,
       <<"phx", {"phx", "phoenix", "suns", "phoenixsuns"}>>,
       <<"por", {"por", "portland", "trailblazers", "blazers", "portlandtrailblazers"}>>,
       <<"sac", {"sac", "sacramento", "kings", "sacramentokings"}>>,
       <<"sas", {"sas", "sa", "sanantonio", "spurs", "sanantoniospurs"}>>,
       <<"tor", {"tor", "toronto", "raptors", "torontoraptors"}>>,
       <<"uta", {"uta", "utah", "jazz", "utahjazz"}>>,
       <<"was", {"was", "washington", "wizards", "washingtonwizards"}>> >>

NFLNames ==
    << <<"kc", {"kc", "kansascity", "chiefs", "kansascitychiefs"}>>,
       <<"sf", {"sf", "sanfrancisco", "49ers", "niners", "sanfrancisco49ers"}>>,
       <<"bal", {"bal", "baltimore", "ravens", "baltimoreravens"}>>,
       <<"buf", {"buf", "buffalo", "bills", "buffalobills"}>>,
       <<"dal", {"cowboys", "dallascowboys"}>>,
       <<"gb", {"gb", "greenbay", "packers", "greenbaypackers"}>>,
       <<"ne", {"ne", "newengland", "patriots", "pats", "newenglandpatriots"}>>,
       <<"phi", {"eagles", "philadelphiaeagles"}>> >>

MLBNames ==
    << <<"az", {"az", "arizonadiamondbacks", "diamondbacks", "dbacks"}>>,
       <<"atl", {"atl", "atlantabraves", "braves"}>>,
       <<"ath", {"ath", "athletics"}>>,
       <<"bal", {"bal", "baltimoreorioles", "orioles"}>>,
       <<"bos", {"bos", "boston", "redsox", "bostonredsox"}>>,
       <<"chc", {"chc", "chicagocubs", "cubs"}>>,
       <<"cws", {"cws", "chicagowhitesox", "whitesox"}>>,
       <<"cin", {"cin", "cincinnatireds", "reds"}>>,
       <<"cle", {"cle", "clevelandguardians", "guardians"}>>,
       <<"col", {"col", "coloradorockies", "rockies"}>>,
       <<"det", {"det", "detroittigers", "tigers"}>>,
       <<"hou", {"hou", "houstonastros", "astros"}>>,
       <<"kc", {"kc", "kansascityroyals", "royals"}>>,
       <<"laa", {"laa", "losangelesangels", "angels"}>>,
       <<"lad", {"lad", "losangelesdodgers", "dodgers", "ladodgers"}>>,
       <<"mia", {"mia", "miamimarlins", "marlins"}>>,
       <<"mil", {"mil", "milwaukeebrewers", "brewers"}>>,
       <<"min", {"min", "minnesotatwins", "twins"}>>,
       <<"nym", {"nym", "newyorkmets", "mets"}>>,
       <<"nyy", {"nyy", "yankees", "newyorkyankees"}>>,
       <<"phi", {"phi", "philadelphiaphillies", "phillies"}>>,
       <<"pit", {"pit", "pittsburghpirates", "pirates"}>>,
       <<"sd", {"sd", "sandiegopadres", "padres"}>>,
       <<"sea", {"sea", "seattlemariners", "mariners"}>>,
       <<"sf", {"sf", "sanfranciscogiants", "giants"}>>,
       <<"stl", {"stl", "stlouiscardinals", "cardinals"}>>,
       <<"tb", {"tb", "tampabayrays", "rays"}>>,
       <<"tex", {"tex", "texasrangers", "rangers"}>>,
       <<"tor", {"tor", "torontobluejays", "bluejays"}>>,
       <<"wsh", {"wsh", "washingtonnationals", "nationals"}>> >>

NHLNames ==
    << <<"bos", {"bos", "boston", "bruins", "bostonbruins"}>>,
       <<"tor", {"mapleleafs", "leafs", "torontomapleleafs"}>>,
       <<"edm", {"edm", "edmonton", "oilers", "edmontonoilers"}>> >>

-----------------------------------------------------------------------------
Club(sport, code) == [sport |-> sport, code |-> code]

Clubs == {Club("nba", c) : c \in NBACodes} \cup {Club("nfl", c) : c \in NFLCodes}
            \cup {Club("mlb", c) : c \in MLBCodes} \cup {Club("nhl", c) : c \in NHLCodes}

NoClub == [sport |-> "none", code |-> "none"]   \* the error of a lookup

\* A row of the alias table: a club and its names.
Rows(sport, names) ==
    [i \in DOMAIN names |-> [club |-> Club(sport, names[i][1]), names |-> names[i][2]]]

\* The alias table, in its order.
ALIASES == Rows("nba", NBANames) \o Rows("nfl", NFLNames) \o Rows("mlb", MLBNames)
              \o Rows("nhl", NHLNames)

\* Every club has names, and names are of clubs.
ASSUME RosterAssumption ==
    /\ {ALIASES[i].club : i \in DOMAIN ALIASES} = Clubs
    /\ Cardinality(Clubs) = Len(ALIASES)

Named(name) == {i \in DOMAIN ALIASES : name \in ALIASES[i].names}
Coded(name) == {i \in DOMAIN ALIASES : name = ALIASES[i].club.code}

\* The first row of the sport asked for, or else the first row.
Preferred(rows, sport) ==
    LET hinted == {i \in rows : ALIASES[i].club.sport = sport}
    IN  IF rows = {} THEN NoClub
        ELSE ALIASES[Min(IF hinted # {} THEN hinted ELSE rows)].club

\* Names come before codes, in whatever sport.
LookupTeam(name, sport) ==
    IF Named(name) # {} THEN Preferred(Named(name), sport) ELSE Preferred(Coded(name), sport)

Only(rows) == IF Cardinality(rows) = 1 THEN ALIASES[Min(rows)].club ELSE NoClub

\* A name of several clubs is nobody's.
LookupTeamUnique(name) == IF Named(name) # {} THEN Only(Named(name)) ELSE Only(Coded(name))
=============================================================================
