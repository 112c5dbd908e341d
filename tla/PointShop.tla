------------------------------ MODULE PointShop -----------------------------
(***************************************************************************)
(* The purchases of the cash shop that the database settles by itself:     *)
(* BuyCashItemByMaplePoint, and the procedures that enlarge the inventory  *)
(* of a character or the trunk of an account.                              *)
(*                                                                         *)
(* None of them opens a transaction: every statement of a call is a step   *)
(* of its own here, the calls of several shop connections interleave       *)
(* between statements, and a call that dies leaves what it did.  One of    *)
(* them writes back a balance it read earlier; the others subtract.        *)
(* IncreaseTrunkCount and IncreaseTrunkCountByMaplePoint have the same     *)
(* body: both enlarge first, then look, and charge MaplePoints.            *)
(*                                                                         *)
(* A price is the commodity's: the return of the procedures on a negative  *)
(* @Price is never taken, and BuyCashItemByMaplePoint has none.            *)
(*                                                                         *)
(* Every character has its row of ItemSlot_Size and every account its row  *)
(* of Trunk: CreateNewCharacter inserts them.                              *)
(***************************************************************************)
EXTENDS Integers

\* The 48 the procedures compare slots with.
Limit == 48

CONSTANTS
    Accounts,       \* rows of Account, each with one character in the shop
    Calls,          \* the calls of these procedures
    Prices,         \* @Price
    Indexes,        \* @ItemSlotTableIdx
    Delta,          \* @Delta
    ColumnMax,      \* the largest value of a column of ItemSlot_Size, 255 for tinyint
    InitialPoints,  \* maplePoint of an account
    InitialSlots,   \* the columns of ItemSlot_Size
    InitialTrunk    \* Trunk.Slots

ASSUME PricesAssumption == Prices \subseteq Nat
ASSUME DeltaAssumption == Delta \in Nat
ASSUME ColumnMaxAssumption == ColumnMax \in Nat /\ Limit + Delta <= ColumnMax
ASSUME InitialAssumption ==
    InitialPoints \in Nat /\ InitialSlots \in 0 .. ColumnMax /\ InitialTrunk \in Nat

VARIABLES
    maplePoint,  \* Account.maplePoint
    nexonCash,   \* Account.NexonCash, from zero: the shop has checked it, or not
    slotSize,    \* the columns 1 to 4 of the ItemSlot_Size row of the account's character
    trunk,       \* Trunk.Slots
    request,     \* the parameters of each call; fixed
    pc,          \* the statement the call is before
    seen,        \* the local the call read into
    charged,     \* history: calls that executed their UPDATE of Account
    grown,       \* history: calls that executed their UPDATE of the slots
    paid,        \* history: account -> MaplePoints charged
    raced        \* history: <<account, what>> of which a read got stale before its use

history == <<charged, grown, paid, raced>>
vars == <<maplePoint, nexonCash, slotSize, trunk, request, pc, seen, charged, grown, paid, raced>>

-----------------------------------------------------------------------------
(* Types *)

\* The columns IncreaseItemSlotCount enlarges; it charges for any other index as well.
Growing == 1 .. 4

\* item: BuyCashItemByMaplePoint.  slots_cash: IncreaseItemSlotCount.  slots_points:
\* IncreaseItemSlotCountByMaplePoint.  trunk: IncreaseTrunkCount, with either name.
Kinds == {"item", "slots_cash", "slots_points", "trunk"}

Request == [kind : Kinds, account : Accounts, price : Prices, index : Indexes]

PCs == {"new", "check", "update", "charge", "insert", "done", "refused", "dead"}

TypeOK ==
    /\ maplePoint \in [Accounts -> Int]
    /\ nexonCash \in [Accounts -> Int]
    /\ slotSize \in [Accounts -> [Growing -> 0 .. ColumnMax]]
    /\ trunk \in [Accounts -> Nat]
    /\ request \in [Calls -> Request]
    /\ pc \in [Calls -> PCs]
    /\ seen \in [Calls -> Int]
    /\ charged \subseteq Calls
    /\ grown \subseteq Calls
    /\ paid \in [Accounts -> Nat]
    /\ raced \subseteq Accounts \X {"points", "slots"}

-----------------------------------------------------------------------------
(* Helpers *)

Account(c) == request[c].account

Is(c, kinds) == request[c].kind \in kinds

Slots == {"slots_cash", "slots_points"}

\* Calls on the same account, other than c, whose read a write of c makes stale.
HoldingPoints(c) ==
    {x \in Calls \ {c} : Account(x) = Account(c) /\ Is(x, {"item"}) /\ pc[x] = "charge"}

HoldingSlots(c) ==
    {x \in Calls \ {c} : /\ Account(x) = Account(c)
                        /\ Is(x, Slots)
                        /\ request[x].index = request[c].index
                        /\ pc[x] = "update"}

Goto(c, where) == pc' = [pc EXCEPT ![c] = where]

MarkRace(c, what, holders) ==
    raced' = IF holders # {} THEN raced \cup {<<Account(c), what>>} ELSE raced

-----------------------------------------------------------------------------
(* Actions *)

Init ==
    /\ maplePoint = [a \in Accounts |-> InitialPoints]
    /\ nexonCash = [a \in Accounts |-> 0]
    /\ slotSize = [a \in Accounts |-> [i \in Growing |-> InitialSlots]]
    /\ trunk = [a \in Accounts |-> InitialTrunk]
    /\ request \in [Calls -> Request]
    /\ pc = [c \in Calls |-> "new"]
    /\ seen = [c \in Calls |-> 0]
    /\ charged = {}
    /\ grown = {}
    /\ paid = [a \in Accounts |-> 0]
    /\ raced = {}

\* BuyCashItemByMaplePoint: the SELECT and the test of the balance, which must EXCEED
\* the price.
ReadPoints(c) ==
    LET points == maplePoint[Account(c)]
    IN  /\ pc[c] = "new"
        /\ Is(c, {"item"})
        /\ seen' = [seen EXCEPT ![c] = points]
        /\ Goto(c, IF points > 0 /\ points > request[c].price THEN "charge" ELSE "refused")
        /\ UNCHANGED <<maplePoint, nexonCash, slotSize, trunk, request, history>>

\* Mutant of WritePoints: the UPDATE subtracts from the balance of now.
WritePointsRelative(c) ==
    LET a == Account(c)
    IN  /\ pc[c] = "charge"
        /\ Is(c, {"item"})
        /\ maplePoint' = [maplePoint EXCEPT ![a] = @ - request[c].price]
        /\ charged' = charged \cup {c}
        /\ paid' = [paid EXCEPT ![a] = @ + request[c].price]
        /\ MarkRace(c, "points", HoldingPoints(c))
        /\ Goto(c, "insert")
        /\ UNCHANGED <<nexonCash, slotSize, trunk, request, seen, grown>>

\* BuyCashItemByMaplePoint: the UPDATE writes the balance it read less the price.
WritePoints(c) ==
    LET a == Account(c)
    IN  /\ pc[c] = "charge"
        /\ Is(c, {"item"})
        /\ maplePoint' = [maplePoint EXCEPT ![a] = seen[c] - request[c].price]
        /\ charged' = charged \cup {c}
        /\ paid' = [paid EXCEPT ![a] = @ + request[c].price]
        /\ MarkRace(c, "points", HoldingPoints(c))
        /\ Goto(c, "insert")
        /\ UNCHANGED <<nexonCash, slotSize, trunk, request, seen, grown>>

\* The INSERTs into CashItemBought and ItemLocker, the same as in BuyCashItem.
InsertItem(c) ==
    /\ pc[c] = "insert"
    /\ Goto(c, "done")
    /\ UNCHANGED <<maplePoint, nexonCash, slotSize, trunk, request, seen, history>>

\* Mutant of ReadSlots: the limit itself still passes the test.
ReadSlotsUpToLimit(c) ==
    LET i == request[c].index
    IN  /\ pc[c] = "new"
        /\ Is(c, Slots)
        /\ IF i \in Growing
           THEN /\ seen' = [seen EXCEPT ![c] = slotSize[Account(c)][i]]
                /\ Goto(c, IF slotSize[Account(c)][i] > Limit THEN "refused" ELSE "update")
           ELSE /\ Goto(c, "charge")
                /\ UNCHANGED seen
        /\ UNCHANGED <<maplePoint, nexonCash, slotSize, trunk, request, history>>

\* IncreaseItemSlotCount and its sister: the SELECT of the column and the test of the
\* limit.  An index that is no column skips to the charge.
ReadSlots(c) ==
    LET i == request[c].index
    IN  /\ pc[c] = "new"
        /\ Is(c, Slots)
        /\ IF i \in Growing
           THEN /\ seen' = [seen EXCEPT ![c] = slotSize[Account(c)][i]]
                /\ Goto(c, IF slotSize[Account(c)][i] >= Limit THEN "refused" ELSE "update")
           ELSE /\ Goto(c, "charge")
                /\ UNCHANGED seen
        /\ UNCHANGED <<maplePoint, nexonCash, slotSize, trunk, request, history>>

\* Mutant of GrowSlots: the column is wider than a tinyint.
GrowSlotsWide(c) ==
    /\ pc[c] = "update"
    /\ Is(c, Slots)
    /\ slotSize' = [slotSize EXCEPT ![Account(c)][request[c].index] = @ + Delta]
    /\ grown' = grown \cup {c}
    /\ MarkRace(c, "slots", HoldingSlots(c))
    /\ Goto(c, "charge")
    /\ UNCHANGED <<maplePoint, nexonCash, trunk, request, seen, charged, paid>>

\* IncreaseItemSlotCount and its sister: the UPDATE of the column.  Overflow ends the
\* statement and not the procedure.
GrowSlots(c) ==
    LET size == slotSize[Account(c)][request[c].index] + Delta
    IN  /\ pc[c] = "update"
        /\ Is(c, Slots)
        /\ IF size <= ColumnMax
           THEN /\ slotSize' = [slotSize EXCEPT ![Account(c)][request[c].index] = size]
                /\ grown' = grown \cup {c}
           ELSE UNCHANGED <<slotSize, grown>>
        /\ MarkRace(c, "slots", HoldingSlots(c))
        /\ Goto(c, "charge")
        /\ UNCHANGED <<maplePoint, nexonCash, trunk, request, seen, charged, paid>>

\* IncreaseItemSlotCount: the UPDATE of NexonCash.
ChargeCash(c) ==
    /\ pc[c] = "charge"
    /\ Is(c, {"slots_cash"})
    /\ nexonCash' = [nexonCash EXCEPT ![Account(c)] = @ - request[c].price]
    /\ charged' = charged \cup {c}
    /\ Goto(c, "done")
    /\ UNCHANGED <<maplePoint, slotSize, trunk, request, seen, grown, paid, raced>>

\* Mutant of ChargePoints: @Delta in the place of @Price.
ChargePointsByDelta(c) ==
    LET a == Account(c)
    IN  /\ pc[c] = "charge"
        /\ Is(c, {"slots_points", "trunk"})
        /\ maplePoint' = [maplePoint EXCEPT ![a] = @ - Delta]
        /\ charged' = charged \cup {c}
        /\ paid' = [paid EXCEPT ![a] = @ + request[c].price]
        /\ MarkRace(c, "points", HoldingPoints(c))
        /\ Goto(c, "done")
        /\ UNCHANGED <<nexonCash, slotSize, trunk, request, seen, grown>>

\* The UPDATE of maplePoint of all the others, relative to the balance of now.
ChargePoints(c) ==
    LET a == Account(c)
    IN  /\ pc[c] = "charge"
        /\ Is(c, {"slots_points", "trunk"})
        /\ maplePoint' = [maplePoint EXCEPT ![a] = @ - request[c].price]
        /\ charged' = charged \cup {c}
        /\ paid' = [paid EXCEPT ![a] = @ + request[c].price]
        /\ MarkRace(c, "points", HoldingPoints(c))
        /\ Goto(c, "done")
        /\ UNCHANGED <<nexonCash, slotSize, trunk, request, seen, grown>>

\* IncreaseTrunkCount: the UPDATE of Trunk, which comes first.
GrowTrunk(c) ==
    /\ pc[c] = "new"
    /\ Is(c, {"trunk"})
    /\ trunk' = [trunk EXCEPT ![Account(c)] = @ + Delta]
    /\ grown' = grown \cup {c}
    /\ Goto(c, "check")
    /\ UNCHANGED <<maplePoint, nexonCash, slotSize, request, seen, charged, paid, raced>>

\* Mutant of CheckTrunk: the limit itself counts as past it.
CheckTrunkAtLimit(c) ==
    /\ pc[c] = "check"
    /\ seen' = [seen EXCEPT ![c] = trunk[Account(c)]]
    /\ Goto(c, IF trunk[Account(c)] >= Limit THEN "done" ELSE "charge")
    /\ UNCHANGED <<maplePoint, nexonCash, slotSize, trunk, request, history>>

\* IncreaseTrunkCount: the SELECT; past the limit it returns 0, uncharged.
CheckTrunk(c) ==
    /\ pc[c] = "check"
    /\ seen' = [seen EXCEPT ![c] = trunk[Account(c)]]
    /\ Goto(c, IF trunk[Account(c)] > Limit THEN "done" ELSE "charge")
    /\ UNCHANGED <<maplePoint, nexonCash, slotSize, trunk, request, history>>

\* The connection of the call dies between two statements.
CallDies(c) ==
    /\ pc[c] \in {"check", "update", "charge", "insert"}
    /\ Goto(c, "dead")
    /\ UNCHANGED <<maplePoint, nexonCash, slotSize, trunk, request, seen, history>>

Next == \E c \in Calls :
    \/ ReadPoints(c) \/ WritePoints(c) \/ InsertItem(c)
    \/ ReadSlots(c) \/ GrowSlots(c) \/ ChargeCash(c) \/ ChargePoints(c)
    \/ GrowTrunk(c) \/ CheckTrunk(c)
    \/ CallDies(c)

Spec == Init /\ [][Next]_vars

-----------------------------------------------------------------------------
(* Properties *)

\* A stale write of BuyCashItemByMaplePoint can lose a charge, never invent one: an
\* account is charged at most what its calls cost, and exactly that unless a call had
\* read the balance before another one changed it.
PointsAccountedFor ==
    \A a \in Accounts :
        /\ maplePoint[a] + paid[a] >= InitialPoints
        /\ <<a, "points">> \notin raced => maplePoint[a] + paid[a] = InitialPoints

\* Only slots and trunk, which look at no balance, take it below zero: item purchases
\* do not, not even when they race, because each writes what remains of what it read.
DebtComesFromCapacity ==
    \A a \in Accounts :
        maplePoint[a] < 0 =>
            \E c \in charged : Account(c) = a /\ Is(c, {"slots_points", "trunk"})

\* An inventory overshoots the limit by less than one purchase, unless two of them
\* passed the test together.
InventoryOvershootBounded ==
    \A a \in Accounts :
        <<a, "slots">> \notin raced =>
            \A i \in Growing :
                slotSize[a][i] = InitialSlots \/ slotSize[a][i] < Limit + Delta

\* The slots: racing enlargements end at the width of the column (TypeOK), the others before
\* one purchase past the limit.
SlotsBounded == TypeOK /\ InventoryOvershootBounded

\* A call that ran to its end charged for what it enlarged, with the one exception of a
\* trunk that is past the limit, which is enlarged for nothing; and it enlarged what it
\* charged for, unless the index is no column or racing calls filled the column up.
GrowthIsPaidFor ==
    \A c \in Calls :
        pc[c] = "done" =>
            /\ Is(c, Slots) =>
                 /\ c \in charged
                 /\ c \notin grown =>
                      \/ request[c].index \notin Growing
                      \/ <<Account(c), "slots">> \in raced
            /\ Is(c, {"trunk"}) =>
                 /\ c \in grown
                 /\ c \notin charged => trunk[Account(c)] > Limit

\* The limits the guide on slots gives for this server.  The code goes past them.
DocumentedLimits ==
    \A a \in Accounts :
        /\ trunk[a] <= Limit
        /\ \A i \in Growing : slotSize[a][i] <= Limit
=============================================================================
