-------------------------------- MODULE Fame --------------------------------
(***************************************************************************)
(* CheckGivePopularity: two SELECTs from CharacterFame, then a decision    *)
(* with the clock looked at again, then an INSERT.  There is no            *)
(* transaction, and time goes on between any two of them.                  *)
(***************************************************************************)
EXTENDS Integers, Sequences, SequencesExt, FiniteSetsExt

CONSTANTS
    Givers, Receivers,  \* characters
    Callers,            \* connections of the game servers
    Month,              \* the 30 days until a receiver may be famed again
    MaxDay,             \* bound on the days
    MaxFames            \* bound on the calls

ASSUME FameAssumption == Month \in Nat \ {0} /\ MaxDay \in Nat /\ MaxFames \in Nat

VARIABLES
    fames,     \* giver -> its rows of CharacterFame: to whom, and on which day
    day,       \* DATEDIFF counts midnights
    at,        \* caller -> the statement it is about to execute
    asked,     \* caller -> parameters and what the SELECTs yielded
    together,  \* history: givers of which two calls overlapped
    fameCalls  \* number of calls

fameVars == <<fames, day, at, asked, together, fameCalls>>

Never == -1
NoOne == "no one"
NotAsked == [from |-> NoOne, to |-> NoOne, last |-> Never, lastTo |-> Never]

FameInit ==
    /\ fames = [g \in Givers |-> <<>>]
    /\ day = 0
    /\ at = [c \in Callers |-> "idle"]
    /\ asked = [c \in Callers |-> NotAsked]
    /\ together = {}
    /\ fameCalls = 0

Midnight ==
    /\ day < MaxDay
    /\ day' = day + 1
    /\ UNCHANGED <<fames, at, asked, together, fameCalls>>

Step(c, statement) == at' = [at EXCEPT ![c] = statement]

CheckGivePopularity(c, g, r) ==
    /\ at[c] = "idle"
    /\ fameCalls < MaxFames
    /\ fameCalls' = fameCalls + 1
    /\ asked' = [asked EXCEPT ![c] = [NotAsked EXCEPT !.from = g, !.to = r]]
    /\ together' = IF \E d \in Callers : asked[d].from = g THEN together \cup {g} ELSE together
    /\ Step(c, "select")
    /\ UNCHANGED <<fames, day>>

\* MAX(Lastfame) of these rows, Never if there is none.
Latest(rows) == Max({Never} \cup {row.day : row \in rows})

SelectFames(c) ==
    /\ at[c] = "select"
    /\ asked' = [asked EXCEPT ![c].last = Latest(ToSet(fames[asked[c].from]))]
    /\ Step(c, "select receiver")
    /\ UNCHANGED <<fames, day, together, fameCalls>>

SelectFamesOfReceiver(c) ==
    /\ at[c] = "select receiver"
    /\ asked' = [asked EXCEPT ![c].lastTo =
                    Latest({row \in ToSet(fames[asked[c].from]) : row.to = asked[c].to})]
    /\ Step(c, "decide")
    /\ UNCHANGED <<fames, day, together, fameCalls>>

\* Mutant of TooEarly: the receiver is not looked at on another day.
TooEarlyToday(q) == q.last # Never /\ ~(day > q.last)

\* RETURN 4, or RETURN 3; both comparisons are taken to look at the clock at once.
TooEarly(q) ==
    /\ q.last # Never
    /\ \/ q.lastTo # Never /\ day - q.lastTo < Month
       \/ ~(day > q.last)

Leave(c) ==
    /\ Step(c, "idle")
    /\ asked' = [asked EXCEPT ![c] = NotAsked]

Decide(c) ==
    /\ at[c] = "decide"
    /\ \/ TooEarly(asked[c]) /\ Leave(c)
       \/ ~TooEarly(asked[c]) /\ Step(c, "insert") /\ UNCHANGED asked
    /\ UNCHANGED <<fames, day, together, fameCalls>>

InsertFame(c) ==
    /\ at[c] = "insert"
    /\ fames' = [fames EXCEPT ![asked[c].from] = Append(@, [to |-> asked[c].to, day |-> day])]
    /\ Leave(c)
    /\ UNCHANGED <<day, together, fameCalls>>

\* A game server dies or its connection breaks.
BreakOff(c) ==
    /\ at[c] # "idle"
    /\ Leave(c)
    /\ UNCHANGED <<fames, day, together, fameCalls>>

FameNext ==
    \/ Midnight
    \/ \E c \in Callers :
           \/ \E g \in Givers, r \in Receivers : g # r /\ CheckGivePopularity(c, g, r)
           \/ SelectFames(c) \/ SelectFamesOfReceiver(c) \/ Decide(c) \/ InsertFame(c)
           \/ BreakOff(c)

FameSpec == FameInit /\ [][FameNext]_fameVars

-----------------------------------------------------------------------------
(* Properties *)

\* Whoever's calls do not overlap gives one fame a day, and one a month to the same
\* receiver, however midnights fall between the statements.
FameLimits ==
    \A g \in Givers \ together :
        \A i, j \in DOMAIN fames[g] : i < j =>
            /\ fames[g][i].day < fames[g][j].day
            /\ fames[g][i].to = fames[g][j].to => fames[g][j].day - fames[g][i].day >= Month
=============================================================================
