--------------------------- MODULE PointShopProofs --------------------------
(***************************************************************************)
(* Theorems about PointShop, for any number of calls, any prices and any   *)
(* increment.                                                              *)
(*                                                                         *)
(* The balance at the moment a call reads it, plus what has been charged   *)
(* by then, covers InitialPoints, and charges only grow: so a stale write  *)
(* is never too low (ReadCovers).  A write that makes another call's read  *)
(* stale marks the account, so in an unmarked account every pending read   *)
(* is the truth of now (FreshReads).                                       *)
(***************************************************************************)
EXTENDS PointShop, TLAPS

LEMMA ConstantFacts ==
    /\ Prices \subseteq Int
    /\ \A p \in Prices : p >= 0
    /\ Delta \in Nat /\ ColumnMax \in Nat /\ Limit + Delta <= ColumnMax
    /\ InitialPoints \in Nat /\ InitialSlots \in 0 .. ColumnMax /\ InitialTrunk \in Nat
  BY PricesAssumption, DeltaAssumption, ColumnMaxAssumption, InitialAssumption

LEMMA RequestTypes ==
    ASSUME TypeOK, NEW c \in Calls
    PROVE  /\ Account(c) \in Accounts
           /\ request[c].price \in Int /\ request[c].price >= 0 /\ request[c].price \in Nat
           /\ request[c].index \in Indexes
           /\ request[c].kind \in Kinds
<1>1. request[c] \in Request
  BY DEF TypeOK
<1>2. /\ request[c].account \in Accounts /\ request[c].price \in Prices
      /\ request[c].index \in Indexes /\ request[c].kind \in Kinds
  BY <1>1 DEF Request
<1>3. request[c].price \in Nat
  BY <1>2, PricesAssumption
<1>4. QED
  BY <1>2, <1>3 DEF Account

-----------------------------------------------------------------------------
(* Types *)

\* A column is updated only for an index that has one.
UpdatesColumn == \A c \in Calls : pc[c] = "update" => request[c].index \in Growing

\* Only the trunk's procedures look after they wrote.
ChecksTrunk == \A c \in Calls : pc[c] = "check" => Is(c, {"trunk"})

\* Only item purchases insert.
InsertsItem == \A c \in Calls : pc[c] = "insert" => Is(c, {"item"})

TypeInv == TypeOK /\ UpdatesColumn /\ ChecksTrunk /\ InsertsItem

LEMMA TypeInit == Init => TypeInv
  BY ConstantFacts DEF Init, TypeInv, TypeOK, UpdatesColumn, ChecksTrunk, InsertsItem, PCs

LEMMA TypeNext == TypeInv /\ [Next]_vars => TypeInv'
<1> SUFFICES ASSUME TypeInv, [Next]_vars PROVE TypeInv'
  OBVIOUS
<1> USE DEF TypeInv, TypeOK, UpdatesColumn, ChecksTrunk, InsertsItem, Is, PCs, Goto, history
<1>1. ASSUME NEW c \in Calls, ReadPoints(c) PROVE TypeInv'
  BY <1>1, RequestTypes DEF ReadPoints
<1>2. ASSUME NEW c \in Calls, WritePoints(c) PROVE TypeInv'
  BY <1>2, RequestTypes DEF WritePoints, MarkRace
<1>3. ASSUME NEW c \in Calls, InsertItem(c) PROVE TypeInv'
  BY <1>3 DEF InsertItem
<1>4. ASSUME NEW c \in Calls, ReadSlots(c) PROVE TypeInv'
  <2> DEFINE i == request[c].index
  <2>1. i \in Growing => slotSize[Account(c)][i] \in Int
    BY RequestTypes, ConstantFacts
  <2>2. CASE i \in Growing
    BY <1>4, <2>1, <2>2 DEF ReadSlots
  <2>3. CASE i \notin Growing
    BY <1>4, <2>3 DEF ReadSlots
  <2>4. QED
    BY <2>2, <2>3
<1>5. ASSUME NEW c \in Calls, GrowSlots(c) PROVE TypeInv'
  <2> DEFINE i == request[c].index
             size == slotSize[Account(c)][i] + Delta
  <2>1. Account(c) \in Accounts /\ i \in Growing
    BY <1>5, RequestTypes DEF GrowSlots
  <2>2. size \in Nat
    BY <2>1, ConstantFacts
  <2>3. slotSize' \in [Accounts -> [Growing -> 0 .. ColumnMax]]
    <3>1. CASE size <= ColumnMax
      <4>1. size \in 0 .. ColumnMax
        BY <2>2, <3>1, ConstantFacts
      <4>2. slotSize' = [slotSize EXCEPT ![Account(c)][i] = size]
        BY <1>5, <3>1 DEF GrowSlots
      <4>3. QED
        BY <2>1, <4>1, <4>2
    <3>2. CASE ~ (size <= ColumnMax)
      BY <1>5, <3>2 DEF GrowSlots
    <3>3. QED
      BY <3>1, <3>2
  <2>4. raced' \subseteq Accounts \X {"points", "slots"}
    BY <1>5, <2>1 DEF GrowSlots, MarkRace
  <2>5. grown' \subseteq Calls
    BY <1>5 DEF GrowSlots
  <2>6. QED
    BY <1>5, <2>3, <2>4, <2>5 DEF GrowSlots
<1>6. ASSUME NEW c \in Calls, ChargeCash(c) PROVE TypeInv'
  BY <1>6, RequestTypes DEF ChargeCash
<1>7. ASSUME NEW c \in Calls, ChargePoints(c) PROVE TypeInv'
  BY <1>7, RequestTypes DEF ChargePoints, MarkRace
<1>8. ASSUME NEW c \in Calls, GrowTrunk(c) PROVE TypeInv'
  BY <1>8, RequestTypes, ConstantFacts DEF GrowTrunk
<1>9. ASSUME NEW c \in Calls, CheckTrunk(c) PROVE TypeInv'
  BY <1>9, RequestTypes DEF CheckTrunk
<1>10. ASSUME NEW c \in Calls, CallDies(c) PROVE TypeInv'
  BY <1>10 DEF CallDies
<1>11. CASE UNCHANGED vars
  BY <1>11 DEF vars
<1>12. QED
  BY <1>1, <1>2, <1>3, <1>4, <1>5, <1>6, <1>7, <1>8, <1>9, <1>10, <1>11 DEF Next

\* PointShop is type-correct.
THEOREM TypeCorrect == Spec => []TypeOK
<1>1. Spec => []TypeInv
  BY TypeInit, TypeNext, PTL DEF Spec
<1>2. TypeInv => TypeOK
  BY DEF TypeInv
<1>3. QED
  BY <1>1, <1>2, PTL

-----------------------------------------------------------------------------
(* MaplePoints *)

\* A pending item purchase whose write is still to come.
PendingItem(c) == Is(c, {"item"}) /\ pc[c] = "charge"

\* No balance and no pending read has lost what was never charged.
PaidCovers == \A a \in Accounts : maplePoint[a] + paid[a] >= InitialPoints

ReadCovers ==
    \A c \in Calls : PendingItem(c) =>
        /\ seen[c] + paid[Account(c)] >= InitialPoints
        /\ seen[c] > request[c].price

\* In an account no write has raced, the books balance and pending reads are current.
FreshReads ==
    \A a \in Accounts : <<a, "points">> \notin raced =>
        /\ maplePoint[a] + paid[a] = InitialPoints
        /\ \A c \in Calls : PendingItem(c) /\ Account(c) = a => seen[c] = maplePoint[a]

PointsInv == PaidCovers /\ ReadCovers /\ FreshReads /\ DebtComesFromCapacity

LEMMA PointsInit == Init => PointsInv
  BY ConstantFacts
     DEF Init, PointsInv, PaidCovers, ReadCovers, FreshReads, DebtComesFromCapacity,
         PendingItem

\* A step that neither touches the balance nor makes a call a pending item purchase.
LEMMA PointsUntouched ==
    ASSUME TypeOK, PointsInv, UNCHANGED <<maplePoint, paid, request>>,
           charged \subseteq charged',
           \A a \in Accounts : <<a, "points">> \notin raced' => <<a, "points">> \notin raced,
           \A c \in Calls : PendingItem(c)' => PendingItem(c) /\ seen'[c] = seen[c]
    PROVE  PointsInv'
<1>1. PaidCovers'
  BY DEF PointsInv, PaidCovers
<1>2. ReadCovers'
  BY DEF PointsInv, ReadCovers, Account
<1>3. FreshReads'
  BY DEF PointsInv, FreshReads, Account
<1>4. DebtComesFromCapacity'
  BY DEF PointsInv, DebtComesFromCapacity, Account, Is
<1>5. QED
  BY <1>1, <1>2, <1>3, <1>4 DEF PointsInv

\* A charge of c that writes balance, above what a relative one would leave only when
\* the account gets marked.
LEMMA PointsCharged ==
    ASSUME TypeOK, PointsInv, NEW c \in Calls, NEW balance \in Int,
           pc[c] = "charge", ~ PendingItem(c)',
           maplePoint' = [maplePoint EXCEPT ![Account(c)] = balance],
           paid' = [paid EXCEPT ![Account(c)] = @ + request[c].price],
           balance + paid[Account(c)] + request[c].price >= InitialPoints,
           <<Account(c), "points">> \notin raced =>
               balance = maplePoint[Account(c)] - request[c].price,
           balance < 0 => Is(c, {"slots_points", "trunk"}),
           charged' = charged \cup {c},
           UNCHANGED <<request, seen>>,
           \A x \in Calls \ {c} : pc'[x] = pc[x],
           MarkRace(c, "points", HoldingPoints(c))
    PROVE  PointsInv'
<1> DEFINE a == Account(c)
           price == request[c].price
<1>1. a \in Accounts /\ price \in Int /\ price >= 0
  BY RequestTypes
<1>2. /\ maplePoint'[a] = balance /\ paid'[a] = paid[a] + price
      /\ paid[a] \in Int /\ maplePoint[a] \in Int
      /\ InitialPoints \in Int
  BY <1>1, ConstantFacts DEF TypeOK
<1>3. \A b \in Accounts \ {a} : maplePoint'[b] = maplePoint[b] /\ paid'[b] = paid[b]
  BY DEF TypeOK
<1>4. \A x \in Calls : PendingItem(x)' =>
          x # c /\ PendingItem(x) /\ Account(x)' = Account(x) /\ seen'[x] = seen[x]
  BY DEF PendingItem, Is, Account
<1>5. raced \subseteq raced'
  BY DEF MarkRace
<1>6. PaidCovers'
  BY <1>1, <1>2, <1>3 DEF PointsInv, PaidCovers
<1>7. ReadCovers'
  <2> SUFFICES ASSUME NEW x \in Calls, PendingItem(x)'
               PROVE  /\ seen'[x] + paid'[Account(x)] >= InitialPoints
                      /\ seen'[x] > request[x].price
    BY DEF ReadCovers, Account
  <2>1. /\ seen[x] + paid[Account(x)] >= InitialPoints
        /\ seen[x] > request[x].price
    BY <1>4 DEF PointsInv, ReadCovers
  <2>2. Account(x) \in Accounts /\ seen[x] \in Int
    BY RequestTypes DEF TypeOK
  <2>3. CASE Account(x) = a
    BY <1>1, <1>2, <1>4, <2>1, <2>2, <2>3
  <2>4. CASE Account(x) # a
    BY <1>3, <1>4, <2>1, <2>2, <2>4
  <2>5. QED
    BY <2>3, <2>4
<1>8. FreshReads'
  <2> SUFFICES ASSUME NEW b \in Accounts, <<b, "points">> \notin raced'
               PROVE  /\ maplePoint'[b] + paid'[b] = InitialPoints
                      /\ \A x \in Calls : PendingItem(x)' /\ Account(x) = b =>
                             seen'[x] = maplePoint'[b]
    BY DEF FreshReads, Account
  <2>1. /\ maplePoint[b] + paid[b] = InitialPoints
        /\ \A x \in Calls : PendingItem(x) /\ Account(x) = b => seen[x] = maplePoint[b]
    BY <1>5 DEF PointsInv, FreshReads
  <2>2. CASE b = a
    <3>1. HoldingPoints(c) = {}
      BY <2>2 DEF MarkRace
    <3>2. \A x \in Calls \ {c} : ~ (PendingItem(x) /\ Account(x) = a)
      BY <3>1 DEF HoldingPoints, PendingItem
    <3>3. balance = maplePoint[a] - price
      BY <2>2, <1>5
    <3>4. maplePoint'[b] + paid'[b] = InitialPoints
      BY <1>1, <1>2, <2>1, <2>2, <3>3
    <3>5. QED
      BY <1>4, <2>2, <3>2, <3>4
  <2>3. CASE b # a
    BY <1>3, <1>4, <2>1, <2>3
  <2>4. QED
    BY <2>2, <2>3
<1>9. DebtComesFromCapacity'
  <2> SUFFICES ASSUME NEW b \in Accounts, maplePoint'[b] < 0
               PROVE  \E x \in charged' : Account(x) = b /\ Is(x, {"slots_points", "trunk"})
    BY DEF DebtComesFromCapacity, Account, Is
  <2>1. CASE b = a
    BY <1>2, <2>1
  <2>2. CASE b # a
    BY <1>3, <2>2 DEF PointsInv, DebtComesFromCapacity
  <2>3. QED
    BY <2>1, <2>2
<1>10. QED
  BY <1>6, <1>7, <1>8, <1>9 DEF PointsInv

LEMMA PointsNext == TypeInv /\ TypeInv' /\ PointsInv /\ [Next]_vars => PointsInv'
<1> SUFFICES ASSUME TypeInv, TypeInv', PointsInv, [Next]_vars PROVE PointsInv'
  OBVIOUS
<1>0. TypeOK
  BY DEF TypeInv
<1>1. ASSUME NEW c \in Calls, ReadPoints(c) PROVE PointsInv'
  <2> DEFINE a == Account(c)
  <2>1. /\ UNCHANGED <<maplePoint, paid, request, charged, raced>>
        /\ seen' = [seen EXCEPT ![c] = maplePoint[a]]
        /\ pc' = [pc EXCEPT ![c] = IF maplePoint[a] > 0 /\ maplePoint[a] > request[c].price
                                   THEN "charge" ELSE "refused"]
    BY <1>1 DEF ReadPoints, Goto, history
  <2>2. a \in Accounts /\ a = Account(c)'
    BY <1>0, <2>1, RequestTypes DEF Account
  <2>3. \A x \in Calls \ {c} : (PendingItem(x)' <=> PendingItem(x)) /\ seen'[x] = seen[x]
    BY <1>0, <2>1 DEF TypeOK, PendingItem, Is
  <2>4. seen'[c] = maplePoint[a] /\ (PendingItem(c)' => maplePoint[a] > request[c].price)
    BY <1>0, <2>1 DEF TypeOK, PendingItem
  <2>5. PaidCovers' /\ DebtComesFromCapacity'
    BY <2>1 DEF PointsInv, PaidCovers, DebtComesFromCapacity, Account, Is
  <2>6. ReadCovers'
    BY <2>1, <2>2, <2>3, <2>4 DEF PointsInv, PaidCovers, ReadCovers, Account
  <2>7. FreshReads'
    BY <2>1, <2>2, <2>3, <2>4 DEF PointsInv, FreshReads, Account
  <2>8. QED
    BY <2>5, <2>6, <2>7 DEF PointsInv
<1>2. ASSUME NEW c \in Calls, WritePoints(c) PROVE PointsInv'
  <2> DEFINE a == Account(c)
             balance == seen[c] - request[c].price
  <2>1. PendingItem(c) /\ ~ PendingItem(c)'
    BY <1>0, <1>2 DEF WritePoints, PendingItem, Goto, TypeOK
  <2>2. /\ a \in Accounts /\ seen[c] \in Int /\ request[c].price \in Int
        /\ paid[a] \in Int /\ InitialPoints \in Int
    BY <1>0, RequestTypes, ConstantFacts DEF TypeOK
  <2>3. seen[c] + paid[a] >= InitialPoints /\ seen[c] > request[c].price
    BY <2>1 DEF PointsInv, ReadCovers
  <2>4. balance \in Int /\ ~ (balance < 0)
        /\ balance + paid[a] + request[c].price >= InitialPoints
    BY <2>2, <2>3
  <2>5. <<a, "points">> \notin raced => balance = maplePoint[a] - request[c].price
    BY <2>1, <2>2 DEF PointsInv, FreshReads
  <2>6. \A x \in Calls \ {c} : pc'[x] = pc[x]
    BY <1>0, <1>2 DEF WritePoints, Goto, TypeOK
  <2>7. /\ pc[c] = "charge"
        /\ maplePoint' = [maplePoint EXCEPT ![a] = balance]
        /\ paid' = [paid EXCEPT ![a] = @ + request[c].price]
        /\ charged' = charged \cup {c}
        /\ UNCHANGED <<request, seen>>
        /\ MarkRace(c, "points", HoldingPoints(c))
    BY <1>2 DEF WritePoints
  <2> HIDE DEF balance, a
  <2>8. QED
    BY <1>0, <2>1, <2>4, <2>5, <2>6, <2>7, PointsCharged DEF a
<1>3. ASSUME NEW c \in Calls, InsertItem(c) PROVE PointsInv'
  <2>1. \A x \in Calls : PendingItem(x)' => PendingItem(x) /\ seen'[x] = seen[x]
    BY <1>0, <1>3 DEF InsertItem, Goto, PendingItem, Is, TypeOK
  <2>2. QED
    BY <1>0, <1>3, <2>1, PointsUntouched DEF InsertItem, history
<1>4. ASSUME NEW c \in Calls, ReadSlots(c) PROVE PointsInv'
  <2>1. \A x \in Calls : PendingItem(x)' => PendingItem(x) /\ seen'[x] = seen[x]
    BY <1>0, <1>4 DEF ReadSlots, Goto, PendingItem, Is, Slots, TypeOK
  <2>2. QED
    BY <1>0, <1>4, <2>1, PointsUntouched DEF ReadSlots, history
<1>5. ASSUME NEW c \in Calls, GrowSlots(c) PROVE PointsInv'
  <2>1. \A x \in Calls : PendingItem(x)' => PendingItem(x) /\ seen'[x] = seen[x]
    BY <1>0, <1>5 DEF GrowSlots, Goto, PendingItem, Is, Slots, TypeOK
  <2>2. \A a \in Accounts : <<a, "points">> \notin raced' => <<a, "points">> \notin raced
    BY <1>5 DEF GrowSlots, MarkRace
  <2>3. QED
    BY <1>0, <1>5, <2>1, <2>2, PointsUntouched DEF GrowSlots
<1>6. ASSUME NEW c \in Calls, ChargeCash(c) PROVE PointsInv'
  <2>1. \A x \in Calls : PendingItem(x)' => PendingItem(x) /\ seen'[x] = seen[x]
    BY <1>0, <1>6 DEF ChargeCash, Goto, PendingItem, Is, TypeOK
  <2>2. QED
    BY <1>0, <1>6, <2>1, PointsUntouched DEF ChargeCash
<1>7. ASSUME NEW c \in Calls, ChargePoints(c) PROVE PointsInv'
  <2> DEFINE a == Account(c)
             balance == maplePoint[a] - request[c].price
  <2>1. ~ PendingItem(c)' /\ Is(c, {"slots_points", "trunk"})
    BY <1>0, <1>7 DEF ChargePoints, PendingItem, Goto, TypeOK
  <2>2. /\ a \in Accounts /\ maplePoint[a] \in Int /\ request[c].price \in Int
        /\ paid[a] \in Int /\ InitialPoints \in Int
    BY <1>0, RequestTypes, ConstantFacts DEF TypeOK
  <2>3. maplePoint[a] + paid[a] >= InitialPoints
    BY <2>2 DEF PointsInv, PaidCovers
  <2>4. balance \in Int /\ balance + paid[a] + request[c].price >= InitialPoints
    BY <2>2, <2>3
  <2>5. \A x \in Calls \ {c} : pc'[x] = pc[x]
    BY <1>0, <1>7 DEF ChargePoints, Goto, TypeOK
  <2>6. /\ pc[c] = "charge"
        /\ maplePoint' = [maplePoint EXCEPT ![a] = balance]
        /\ paid' = [paid EXCEPT ![a] = @ + request[c].price]
        /\ charged' = charged \cup {c}
        /\ UNCHANGED <<request, seen>>
        /\ MarkRace(c, "points", HoldingPoints(c))
    BY <1>0, <1>7 DEF ChargePoints, TypeOK
  <2>7. <<a, "points">> \notin raced => balance = maplePoint[a] - request[c].price
    OBVIOUS
  <2> HIDE DEF balance, a
  <2>8. QED
    BY <1>0, <2>1, <2>4, <2>5, <2>6, <2>7, PointsCharged DEF a
<1>8. ASSUME NEW c \in Calls, GrowTrunk(c) PROVE PointsInv'
  <2>1. \A x \in Calls : PendingItem(x)' => PendingItem(x) /\ seen'[x] = seen[x]
    BY <1>0, <1>8 DEF GrowTrunk, Goto, PendingItem, Is, TypeOK
  <2>2. QED
    BY <1>0, <1>8, <2>1, PointsUntouched DEF GrowTrunk
<1>9. ASSUME NEW c \in Calls, CheckTrunk(c) PROVE PointsInv'
  <2>1. Is(c, {"trunk"})
    BY <1>9 DEF CheckTrunk, TypeInv, ChecksTrunk
  <2>2. \A x \in Calls : PendingItem(x)' => PendingItem(x) /\ seen'[x] = seen[x]
    BY <1>0, <1>9, <2>1 DEF CheckTrunk, Goto, PendingItem, Is, TypeOK
  <2>3. QED
    BY <1>0, <1>9, <2>2, PointsUntouched DEF CheckTrunk, history
<1>10. ASSUME NEW c \in Calls, CallDies(c) PROVE PointsInv'
  <2>1. \A x \in Calls : PendingItem(x)' => PendingItem(x) /\ seen'[x] = seen[x]
    BY <1>0, <1>10 DEF CallDies, Goto, PendingItem, Is, TypeOK
  <2>2. QED
    BY <1>0, <1>10, <2>1, PointsUntouched DEF CallDies, history
<1>11. CASE UNCHANGED vars
  BY <1>0, <1>11, PointsUntouched DEF vars, PendingItem, Is
<1>12. QED
  BY <1>1, <1>2, <1>3, <1>4, <1>5, <1>6, <1>7, <1>8, <1>9, <1>10, <1>11 DEF Next

LEMMA PointsAlways == Spec => []PointsInv
<1>1. Spec => []TypeInv
  BY TypeInit, TypeNext, PTL DEF Spec
<1>2. QED
  BY <1>1, PointsInit, PointsNext, PTL DEF Spec

\* The charges of an account add up unless a write raced another, and then they can only
\* fall short: BuyCashItemByMaplePoint loses charges, it invents none.
THEOREM ChargesAddUp == Spec => []PointsAccountedFor
<1>1. PointsInv => PointsAccountedFor
  BY DEF PointsInv, PaidCovers, FreshReads, PointsAccountedFor
<1>2. QED
  BY <1>1, PointsAlways, PTL

\* Only the purchases of slots and trunk, which look at no balance, leave a debt.
THEOREM ItemsLeaveNoDebt == Spec => []DebtComesFromCapacity
<1>1. PointsInv => DebtComesFromCapacity
  BY DEF PointsInv
<1>2. QED
  BY <1>1, PointsAlways, PTL

-----------------------------------------------------------------------------
(* Slots and trunk *)

\* A column that some purchase enlarged was below the limit before the last one.
BoundedColumn(size) == size = InitialSlots \/ size < Limit + Delta

PendingGrowth(c) == Is(c, Slots) /\ pc[c] = "update"

\* In an account no enlargement has raced, a pending one still finds what it tested.
FreshSlots ==
    \A c \in Calls :
        PendingGrowth(c) /\ <<Account(c), "slots">> \notin raced =>
            slotSize[Account(c)][request[c].index] < Limit

SlotsPaidFor ==
    \A c \in Calls : Is(c, Slots) =>
        /\ pc[c] = "done" => c \in charged
        /\ pc[c] \in {"charge", "done"} /\ c \notin grown =>
              request[c].index \notin Growing \/ <<Account(c), "slots">> \in raced

TrunkPaidFor ==
    \A c \in Calls : Is(c, {"trunk"}) =>
        /\ pc[c] \in {"check", "charge", "done"} => c \in grown
        /\ pc[c] = "done" /\ c \notin charged => trunk[Account(c)] > Limit

GrowthInv == InventoryOvershootBounded /\ FreshSlots /\ SlotsPaidFor /\ TrunkPaidFor

LEMMA GrowthInit == Init => GrowthInv
  BY DEF Init, GrowthInv, InventoryOvershootBounded, FreshSlots, SlotsPaidFor, TrunkPaidFor,
         PendingGrowth

\* A step of c that changes neither the slots nor who races, and leaves the trunk of its
\* account where it was or above.
LEMMA GrowthUntouched ==
    ASSUME TypeOK, GrowthInv, NEW c \in Calls,
           UNCHANGED <<slotSize, request>>,
           \A a \in Accounts : <<a, "slots">> \in raced' <=> <<a, "slots">> \in raced,
           \A a \in Accounts : trunk[a] > Limit => trunk'[a] > Limit,
           charged \subseteq charged', grown \subseteq grown',
           \A x \in Calls \ {c} : pc'[x] = pc[x],
           PendingGrowth(c)' => slotSize[Account(c)][request[c].index] < Limit,
           Is(c, Slots) =>
              /\ pc'[c] = "done" => c \in charged'
              /\ pc'[c] \in {"charge", "done"} =>
                    pc[c] = "charge" \/ request[c].index \notin Growing,
           Is(c, {"trunk"}) =>
              /\ pc'[c] \in {"check", "charge", "done"} => c \in grown'
              /\ pc'[c] = "done" /\ c \notin charged' => trunk'[Account(c)] > Limit
    PROVE  GrowthInv'
<1>0. \A x \in Calls : Account(x) \in Accounts /\ Account(x)' = Account(x)
  BY RequestTypes DEF Account
<1>1. InventoryOvershootBounded'
  BY DEF GrowthInv, InventoryOvershootBounded
<1>2. FreshSlots'
  BY <1>0 DEF GrowthInv, FreshSlots, PendingGrowth, Is
<1>3. SlotsPaidFor'
  BY <1>0 DEF GrowthInv, SlotsPaidFor, Is
<1>4. TrunkPaidFor'
  BY <1>0 DEF GrowthInv, TrunkPaidFor, Is
<1>5. QED
  BY <1>1, <1>2, <1>3, <1>4 DEF GrowthInv

LEMMA GrowthByUpdate ==
    ASSUME TypeInv, GrowthInv, NEW c \in Calls, GrowSlots(c)
    PROVE  GrowthInv'
<1> DEFINE a == Account(c)
           i == request[c].index
           size == slotSize[a][i] + Delta
<1>0. TypeOK
  BY DEF TypeInv
<1>1. /\ a \in Accounts /\ i \in Growing /\ slotSize[a][i] \in Int
      /\ Delta \in Int /\ Delta >= 0 /\ ColumnMax \in Int /\ Limit + Delta <= ColumnMax
  BY <1>0, RequestTypes, ConstantFacts DEF GrowSlots, TypeInv, TypeOK, UpdatesColumn
<1>2. Is(c, Slots) /\ pc[c] = "update" /\ PendingGrowth(c)
  BY DEF GrowSlots, PendingGrowth
<1>3. /\ UNCHANGED <<trunk, request, charged>> /\ grown \subseteq grown' /\ raced \subseteq raced'
      /\ pc'[c] = "charge" /\ \A x \in Calls \ {c} : pc'[x] = pc[x]
  BY <1>0 DEF GrowSlots, Goto, MarkRace, TypeOK
<1>4. <<a, "slots">> \notin raced => slotSize[a][i] < Limit
  BY <1>2 DEF GrowthInv, FreshSlots
<1>5. CASE <<a, "slots">> \notin raced'
  <2>1. <<a, "slots">> \notin raced /\ size < Limit + Delta /\ size <= ColumnMax
    <3>1. <<a, "slots">> \notin raced
      BY <1>3, <1>5
    <3>2. slotSize[a][i] < Limit
      BY <1>4, <3>1
    <3>3. size < Limit + Delta /\ size <= ColumnMax
      BY <1>1, <3>2 DEF Limit
    <3>4. QED
      BY <3>1, <3>3
  <2>2. slotSize' = [slotSize EXCEPT ![a][i] = size] /\ c \in grown'
    BY <2>1 DEF GrowSlots
  <2>3. HoldingSlots(c) = {}
    BY <1>5 DEF GrowSlots, MarkRace
  <2>4. \A x \in Calls \ {c} : PendingGrowth(x) /\ Account(x) = a => request[x].index # i
    BY <2>3 DEF HoldingSlots, PendingGrowth
  <2>5. \A b \in Accounts, j \in Growing :
            slotSize'[b][j] = IF b = a /\ j = i THEN size ELSE slotSize[b][j]
    BY <1>0, <1>1, <2>2 DEF TypeOK
  <2>6. InventoryOvershootBounded'
    BY <1>3, <2>1, <2>5 DEF GrowthInv, InventoryOvershootBounded
  <2>7. FreshSlots'
    <3> SUFFICES ASSUME NEW x \in Calls, PendingGrowth(x)', <<Account(x), "slots">> \notin raced'
                 PROVE  slotSize'[Account(x)][request[x].index] < Limit
      BY <1>3 DEF FreshSlots, Account
    <3>1. x # c /\ PendingGrowth(x) /\ request[x].index \in Growing /\ Account(x) \in Accounts
      BY <1>0, <1>3, RequestTypes DEF PendingGrowth, Is, TypeInv, UpdatesColumn
    <3>2. ~ (Account(x) = a /\ request[x].index = i)
      BY <3>1, <2>4
    <3>3. <<Account(x), "slots">> \notin raced
      BY <1>3
    <3>4. slotSize[Account(x)][request[x].index] < Limit
      BY <3>1, <3>3 DEF GrowthInv, FreshSlots
    <3>5. QED
      BY <3>1, <3>2, <3>4, <2>5
  <2>8. SlotsPaidFor'
    BY <1>1, <1>3, <2>2 DEF GrowthInv, SlotsPaidFor, Is, Account
  <2>9. TrunkPaidFor'
    BY <1>2, <1>3 DEF GrowthInv, TrunkPaidFor, Is, Slots, Account
  <2>10. QED
    BY <2>6, <2>7, <2>8, <2>9 DEF GrowthInv
<1>6. CASE <<a, "slots">> \in raced'
  <2>1. \A b \in Accounts \ {a} : slotSize'[b] = slotSize[b]
    BY <1>0, <1>1 DEF GrowSlots, TypeOK
  <2>2. InventoryOvershootBounded'
    BY <1>3, <1>6, <2>1 DEF GrowthInv, InventoryOvershootBounded
  <2>3. FreshSlots'
    <3> SUFFICES ASSUME NEW x \in Calls, PendingGrowth(x)', <<Account(x), "slots">> \notin raced'
                 PROVE  slotSize'[Account(x)][request[x].index] < Limit
      BY <1>3 DEF FreshSlots, Account
    <3>1. x # c /\ PendingGrowth(x) /\ Account(x) \in Accounts \ {a}
      BY <1>0, <1>3, <1>6, RequestTypes DEF PendingGrowth, Is
    <3>2. QED
      BY <1>3, <3>1, <2>1 DEF GrowthInv, FreshSlots
  <2>4. SlotsPaidFor'
    BY <1>1, <1>3, <1>6 DEF GrowthInv, SlotsPaidFor, Is, Account
  <2>5. TrunkPaidFor'
    BY <1>2, <1>3 DEF GrowthInv, TrunkPaidFor, Is, Slots, Account
  <2>6. QED
    BY <2>2, <2>3, <2>4, <2>5 DEF GrowthInv
<1>7. QED
  BY <1>5, <1>6

LEMMA GrowthNext == TypeInv /\ GrowthInv /\ [Next]_vars => GrowthInv'
<1> SUFFICES ASSUME TypeInv, GrowthInv, [Next]_vars PROVE GrowthInv'
  OBVIOUS
<1>0. TypeOK
  BY DEF TypeInv
<1> USE DEF Is, Slots, PendingGrowth, Goto, history
<1>1. ASSUME NEW c \in Calls, ReadPoints(c) PROVE GrowthInv'
  BY <1>0, <1>1, GrowthUntouched DEF ReadPoints, TypeOK
<1>2. ASSUME NEW c \in Calls, WritePoints(c) PROVE GrowthInv'
  BY <1>0, <1>2, GrowthUntouched DEF WritePoints, MarkRace, TypeOK
<1>3. ASSUME NEW c \in Calls, InsertItem(c) PROVE GrowthInv'
  <2>1. Is(c, {"item"})
    BY <1>3 DEF InsertItem, TypeInv, InsertsItem
  <2>2. QED
    BY <1>0, <1>3, <2>1, GrowthUntouched DEF InsertItem, TypeOK
<1>4. ASSUME NEW c \in Calls, ReadSlots(c) PROVE GrowthInv'
  <2> DEFINE size == slotSize[Account(c)][request[c].index]
  <2>1. \A x \in Calls \ {c} : pc'[x] = pc[x]
    BY <1>0, <1>4 DEF ReadSlots, TypeOK
  <2>2. CASE request[c].index \in Growing
    <3>1. size \in Int
      BY <1>0, <2>2, RequestTypes DEF TypeOK
    <3>2. pc'[c] = IF size >= Limit THEN "refused" ELSE "update"
      BY <1>0, <1>4, <2>2 DEF ReadSlots, TypeOK
    <3>3. pc'[c] = "update" => size < Limit
      BY <3>1, <3>2 DEF Limit
    <3>4. pc'[c] \notin {"check", "charge", "done"}
      BY <3>2
    <3>5. QED
      BY <1>0, <1>4, <2>1, <3>3, <3>4, GrowthUntouched DEF ReadSlots
  <2>3. CASE request[c].index \notin Growing
    <3>1. pc'[c] = "charge"
      BY <1>0, <1>4, <2>3 DEF ReadSlots, TypeOK
    <3>2. QED
      BY <1>0, <1>4, <2>1, <2>3, <3>1, GrowthUntouched DEF ReadSlots
  <2>4. QED
    BY <2>2, <2>3
<1>5. ASSUME NEW c \in Calls, GrowSlots(c) PROVE GrowthInv'
  BY <1>5, GrowthByUpdate
<1>6. ASSUME NEW c \in Calls, ChargeCash(c) PROVE GrowthInv'
  BY <1>0, <1>6, GrowthUntouched DEF ChargeCash, TypeOK
<1>7. ASSUME NEW c \in Calls, ChargePoints(c) PROVE GrowthInv'
  <2>1. Is(c, {"trunk"}) => c \in grown
    BY <1>7 DEF ChargePoints, GrowthInv, TrunkPaidFor
  <2>2. pc'[c] = "done" /\ \A x \in Calls \ {c} : pc'[x] = pc[x]
    BY <1>0, <1>7 DEF ChargePoints, TypeOK
  <2>3. /\ UNCHANGED <<slotSize, trunk, request, grown>>
        /\ charged' = charged \cup {c} /\ pc[c] = "charge"
        /\ \A a \in Accounts : <<a, "slots">> \in raced' <=> <<a, "slots">> \in raced
    BY <1>7 DEF ChargePoints, MarkRace
  <2>4. QED
    BY <1>0, <2>1, <2>2, <2>3, GrowthUntouched
<1>8. ASSUME NEW c \in Calls, GrowTrunk(c) PROVE GrowthInv'
  <2>1. \A a \in Accounts : trunk[a] > Limit => trunk'[a] > Limit
    BY <1>0, <1>8, RequestTypes, ConstantFacts DEF GrowTrunk, TypeOK, Limit
  <2>2. pc'[c] = "check" /\ \A x \in Calls \ {c} : pc'[x] = pc[x]
    BY <1>0, <1>8 DEF GrowTrunk, TypeOK
  <2>3. /\ UNCHANGED <<slotSize, request, charged, raced>>
        /\ grown' = grown \cup {c} /\ Is(c, {"trunk"})
    BY <1>8 DEF GrowTrunk
  <2>4. QED
    BY <1>0, <2>1, <2>2, <2>3, GrowthUntouched
<1>9. ASSUME NEW c \in Calls, CheckTrunk(c) PROVE GrowthInv'
  <2>1. Is(c, {"trunk"}) /\ c \in grown
    BY <1>9 DEF CheckTrunk, TypeInv, ChecksTrunk, GrowthInv, TrunkPaidFor
  <2>2. /\ pc'[c] = (IF trunk[Account(c)] > Limit THEN "done" ELSE "charge")
        /\ \A x \in Calls \ {c} : pc'[x] = pc[x]
    BY <1>0, <1>9 DEF CheckTrunk, TypeOK
  <2>3. QED
    BY <1>0, <1>9, <2>1, <2>2, GrowthUntouched DEF CheckTrunk
<1>10. ASSUME NEW c \in Calls, CallDies(c) PROVE GrowthInv'
  BY <1>0, <1>10, GrowthUntouched DEF CallDies, TypeOK
<1>11. CASE UNCHANGED vars
  BY <1>11
     DEF vars, GrowthInv, InventoryOvershootBounded, FreshSlots, SlotsPaidFor, TrunkPaidFor,
         Account
<1>12. QED
  BY <1>1, <1>2, <1>3, <1>4, <1>5, <1>6, <1>7, <1>8, <1>9, <1>10, <1>11 DEF Next

LEMMA GrowthAlways == Spec => []GrowthInv
<1>1. Spec => []TypeInv
  BY TypeInit, TypeNext, PTL DEF Spec
<1>2. QED
  BY <1>1, GrowthInit, GrowthNext, PTL DEF Spec

\* Without racing enlargements an inventory ends less than one purchase past the limit.
THEOREM OvershootIsBounded == Spec => []InventoryOvershootBounded
<1>1. GrowthInv => InventoryOvershootBounded
  BY DEF GrowthInv
<1>2. QED
  BY <1>1, GrowthAlways, PTL

\* What a finished call enlarged it charged for, but for a trunk that is past the limit.
THEOREM GrowthIsCharged == Spec => []GrowthIsPaidFor
<1>1. GrowthInv => GrowthIsPaidFor
  BY DEF GrowthInv, SlotsPaidFor, TrunkPaidFor, GrowthIsPaidFor
<1>2. QED
  BY <1>1, GrowthAlways, PTL

\* The slots never exceed the width of their column, and without racing enlargements not the
\* limit by a whole purchase.
THEOREM SlotsStayBounded == Spec => []SlotsBounded
BY TypeCorrect, OvershootIsBounded, PTL DEF SlotsBounded
=============================================================================
