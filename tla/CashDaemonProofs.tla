-------------------------- MODULE CashDaemonProofs --------------------------
(***************************************************************************)
(* Theorems about CashDaemon, for any shops, accounts, orders and prices.  *)
(*                                                                         *)
(* The argument follows an order through the exchange.  PaidInv ties where *)
(* the order stands (pc) to whether it is charged and to the rows it has   *)
(* in the two tables; DebtInv ties the balances that buys have read to the *)
(* balance of now.  Both are inductive relative to TypeOK.                 *)
(***************************************************************************)
EXTENDS CashDaemon, TLAPS

\* The actions that change nothing but where orders stand and who is up.
Housekeeping ==
    \/ \E o \in Orders : \/ Request(o) \/ LoseRequest(o) \/ CloseReader(o) \/ Decline(o)
                         \/ CommandThrows(o) \/ SendAnswer(o) \/ SendThrows(o)
                         \/ BuyCashItemFails(o) \/ Acknowledge(o)
    \/ \E s \in Shops : ShopDies(s)
    \/ DaemonFails
    \/ RestartServer

\* How a step of Housekeeping moves one order; besides that, it may lose it.
Moved(from, to) ==
    \/ from = "new" /\ to = "requested"
    \/ from = "reading" /\ to = "read"
    \/ from = "read" /\ to \in {"refused", "closed"}
    \/ from = "debited" /\ to = "approved"
    \/ from = "refused" /\ to = "closed"
    \/ from \in {"approved", "bought"} /\ to = "failed"
    \/ from = "delivered" /\ to = "handled"
    \/ from = "failed" /\ to = "written_off"

OrdersMove == \A o \in Orders : pc'[o] \in {pc[o], "lost"} \/ Moved(pc[o], pc'[o])

DataStays == UNCHANGED <<nexonCash, bought, itemLocker, order, seen, sn, charged, overlapped>>

-----------------------------------------------------------------------------
(* Types *)

LEMMA OrderTypes ==
    ASSUME TypeOK, NEW o \in Orders
    PROVE  order[o].account \in Accounts /\ order[o].price \in Int
<1>1. order[o] \in Order
  BY DEF TypeOK
<1>2. Prices \cup {0} \subseteq Int
  BY PricesAssumption
<1>3. QED
  BY <1>1, <1>2 DEF Order

\* Every step of Housekeeping leaves the data alone, keeps the types of the rest, and
\* moves or loses orders.
LEMMA HousekeepingMoves ==
    ASSUME TypeOK, Housekeeping
    PROVE  /\ DataStays
           /\ OrdersMove
           /\ pc' \in [Orders -> PCs]
           /\ daemonUp' \in BOOLEAN
           /\ shopUp' \in [Shops -> BOOLEAN]
<1> USE DEF TypeOK, PCs, tables, history, DataStays, OrdersMove, Moved, Goto
<1> DEFINE Goal == /\ DataStays
                   /\ OrdersMove
                   /\ pc' \in [Orders -> PCs]
                   /\ daemonUp' \in BOOLEAN
                   /\ shopUp' \in [Shops -> BOOLEAN]
<1>1. ASSUME NEW o \in Orders, Request(o) PROVE Goal
  BY <1>1 DEF Request
<1>2. ASSUME NEW o \in Orders, LoseRequest(o) PROVE Goal
  BY <1>2 DEF LoseRequest
<1>3. ASSUME NEW o \in Orders, CloseReader(o) PROVE Goal
  BY <1>3 DEF CloseReader
<1>4. ASSUME NEW o \in Orders, Decline(o) PROVE Goal
  BY <1>4 DEF Decline
<1>5. ASSUME NEW o \in Orders, CommandThrows(o) PROVE Goal
  BY <1>5 DEF CommandThrows, DaemonDies
<1>6. ASSUME NEW o \in Orders, SendAnswer(o) PROVE Goal
  BY <1>6 DEF SendAnswer, Answering
<1>7. ASSUME NEW o \in Orders, SendThrows(o) PROVE Goal
  BY <1>7 DEF SendThrows, DaemonDies
<1>8. ASSUME NEW o \in Orders, BuyCashItemFails(o) PROVE Goal
  BY <1>8 DEF BuyCashItemFails
<1>9. ASSUME NEW o \in Orders, Acknowledge(o) PROVE Goal
  BY <1>9 DEF Acknowledge
<1>10. ASSUME NEW s \in Shops, ShopDies(s) PROVE Goal
  BY <1>10 DEF ShopDies
<1>11. CASE RestartServer
  BY <1>11 DEF RestartServer
<1>12. CASE DaemonFails
  BY <1>12 DEF DaemonFails, DaemonDies
<1>13. QED
  BY <1>1, <1>2, <1>3, <1>4, <1>5, <1>6, <1>7, <1>8, <1>9, <1>10, <1>11, <1>12 DEF Housekeeping

\* A step is one of Housekeeping or one of the five that write a balance or a table.
LEMMA StepCases ==
    ASSUME [Next]_vars
    PROVE  \/ Housekeeping
           \/ \E o \in Orders : \/ OpenReader(o) \/ Debit(o) \/ ChargeSlots(o)
                                \/ InsertCashItemBought(o) \/ InsertItemLocker(o)
           \/ UNCHANGED vars
  BY DEF Next, Serve, BuyCashItem, Housekeeping

\* InsertItemLocker uses the SN of a row that exists.
SNAssigned == \A o \in Orders : pc[o] = "bought" => sn[o] # 0

TypeInv == TypeOK /\ SNAssigned

LEMMA TypeInit == Init => TypeInv
<1> SUFFICES ASSUME Init PROVE TypeInv
  OBVIOUS
<1>1. nexonCash \in [Accounts -> Int]
  BY InitialCashAssumption DEF Init
<1>2. /\ bought \in Seq([account : Accounts, charge : Orders])
      /\ itemLocker \subseteq [sn : 1 .. Len(bought), account : Accounts]
      /\ sn \in [Orders -> 0 .. Len(bought)]
  <2>1. bought = <<>> /\ Len(<<>>) = 0
    BY DEF Init
  <2>2. <<>> \in Seq([account : Accounts, charge : Orders])
    OBVIOUS
  <2>3. sn \in [Orders -> 0 .. 0]
    BY DEF Init
  <2>4. QED
    BY <2>1, <2>2, <2>3 DEF Init
<1>3. order \in [Orders -> Order]
  BY DEF Init
<1>4. pc \in [Orders -> PCs] /\ SNAssigned
  BY DEF Init, PCs, SNAssigned
<1>5. QED
  BY <1>1, <1>2, <1>3, <1>4 DEF Init, TypeInv, TypeOK

LEMMA TypeNext == TypeInv /\ [Next]_vars => TypeInv'
<1> SUFFICES ASSUME TypeInv, [Next]_vars PROVE TypeInv'
  OBVIOUS
<1> USE DEF TypeInv, TypeOK, SNAssigned, tables, history, Goto
<1> DEFINE a(o) == order[o].account
<1>1. \A o \in Orders : a(o) \in Accounts /\ order[o].price \in Int
  BY OrderTypes
<1>2. CASE Housekeeping
  BY <1>2, HousekeepingMoves DEF DataStays, OrdersMove, Moved
<1>3. ASSUME NEW o \in Orders, OpenReader(o) PROVE TypeInv'
  BY <1>3, <1>1 DEF OpenReader, PCs
<1>4. ASSUME NEW o \in Orders, Debit(o) PROVE TypeInv'
  <2>1. nexonCash' \in [Accounts -> Int]
    BY <1>4, <1>1 DEF Debit
  <2>2. QED
    BY <1>4, <2>1 DEF Debit, PCs
<1>5. ASSUME NEW o \in Orders, ChargeSlots(o) PROVE TypeInv'
  <2>1. nexonCash' \in [Accounts -> Int]
    BY <1>5, <1>1 DEF ChargeSlots
  <2>2. QED
    BY <1>5, <2>1 DEF ChargeSlots, PCs
<1>6. ASSUME NEW o \in Orders, InsertCashItemBought(o) PROVE TypeInv'
  <2> DEFINE row == [account |-> a(o), charge |-> o]
  <2>1. row \in [account : Accounts, charge : Orders]
    BY <1>1
  <2>2. /\ bought' \in Seq([account : Accounts, charge : Orders])
        /\ Len(bought') = Len(bought) + 1
    BY <1>6, <2>1 DEF InsertCashItemBought
  <2>3. itemLocker' \subseteq [sn : 1 .. Len(bought'), account : Accounts]
    BY <1>6, <2>2 DEF InsertCashItemBought
  <2>4. sn' \in [Orders -> 0 .. Len(bought')] /\ SNAssigned'
    BY <1>6, <2>2 DEF InsertCashItemBought
  <2>5. QED
    BY <1>6, <2>2, <2>3, <2>4 DEF InsertCashItemBought, PCs
<1>7. ASSUME NEW o \in Orders, InsertItemLocker(o) PROVE TypeInv'
  <2>1. sn[o] \in 1 .. Len(bought)
    BY <1>7 DEF InsertItemLocker
  <2>2. [sn |-> sn[o], account |-> a(o)] \in [sn : 1 .. Len(bought), account : Accounts]
    BY <2>1, <1>1
  <2>3. QED
    BY <1>7, <2>2 DEF InsertItemLocker, PCs
<1>8. CASE UNCHANGED vars
  BY <1>8 DEF vars
<1>9. QED
  BY <1>2, <1>3, <1>4, <1>5, <1>6, <1>7, <1>8, StepCases

\* CashDaemon is type-correct: in particular every row of ItemLocker has the SN of a row
\* that was inserted into CashItemBought.
THEOREM TypeCorrect == Spec => []TypeOK
<1>1. Spec => []TypeInv
  BY TypeInit, TypeNext, PTL DEF Spec
<1>2. TypeInv => TypeOK
  BY DEF TypeInv
<1>3. QED
  BY <1>1, <1>2, PTL

-----------------------------------------------------------------------------
(* Charges and rows *)

\* Where an order stands tells whether it is charged and has an SN.
ChargeAtPlace ==
    \A o \in Orders :
        /\ pc[o] \in {"new", "requested", "reading", "read"} => o \notin charged
        /\ pc[o] \in {"debited", "approved", "bought", "delivered", "failed", "handled",
                      "written_off"} => o \in charged
        /\ pc[o] \in {"new", "requested", "reading", "read", "debited", "approved"} =>
             sn[o] = 0
        /\ pc[o] \in {"delivered", "handled"} => sn[o] # 0

\* sn and the rows of CashItemBought are inverse to each other.
RowsOfOrders ==
    /\ \A o \in Orders : sn[o] # 0 => bought[sn[o]].charge = o
    /\ \A i \in 1 .. Len(bought) :
        /\ bought[i].charge \in charged
        /\ bought[i].account = order[bought[i].charge].account
        /\ sn[bought[i].charge] = i

LockerAccounts == \A r \in itemLocker : r.account = bought[r.sn].account

\* Where an order stands tells whether it has a row of ItemLocker.
LockerAtPlace ==
    \A o \in Orders :
        /\ pc[o] \in {"delivered", "handled"} => \E r \in itemLocker : r.sn = sn[o]
        /\ pc[o] \in {"bought", "failed", "written_off"} =>
             \A r \in itemLocker : r.sn # sn[o]

PaidInv == ChargeAtPlace /\ RowsOfOrders /\ LockerAccounts /\ LockerAtPlace

LEMMA PaidInit == Init => PaidInv
  BY DEF Init, PaidInv, ChargeAtPlace, RowsOfOrders, LockerAccounts, LockerAtPlace

LEMMA PaidNext == TypeInv /\ PaidInv /\ [Next]_vars => PaidInv'
<1> SUFFICES ASSUME TypeInv, PaidInv, [Next]_vars PROVE PaidInv'
  OBVIOUS
<1> USE DEF TypeInv, TypeOK, PaidInv, tables, history, Goto
<1>1. CASE Housekeeping
  <2> USE <1>1, HousekeepingMoves DEF DataStays, OrdersMove, Moved
  <2>1. ChargeAtPlace'
    BY DEF ChargeAtPlace, SNAssigned
  <2>2. RowsOfOrders'
    BY DEF RowsOfOrders
  <2>3. LockerAccounts'
    BY DEF LockerAccounts
  <2>4. ASSUME NEW o \in Orders, pc'[o] \in {"delivered", "handled"}
        PROVE  \E r \in itemLocker' : r.sn = sn'[o]
    BY <2>4 DEF LockerAtPlace
  <2>5. ASSUME NEW o \in Orders, pc'[o] \in {"bought", "failed", "written_off"},
               NEW r \in itemLocker'
        PROVE  r.sn # sn'[o]
    <3>1. r \in itemLocker /\ r.sn \in 1 .. Len(bought) /\ sn' = sn
      OBVIOUS
    <3>2. CASE pc[o] \in {"bought", "failed", "written_off"}
      BY <3>1, <3>2 DEF LockerAtPlace
    <3>3. CASE pc[o] = "approved"
      BY <3>1, <3>3 DEF ChargeAtPlace
    <3>4. QED
      BY <2>5, <3>2, <3>3
  <2>6. QED
    BY <2>1, <2>2, <2>3, <2>4, <2>5 DEF LockerAtPlace
<1>2. ASSUME NEW o \in Orders, OpenReader(o) PROVE PaidInv'
  BY <1>2 DEF OpenReader, Receiving, ChargeAtPlace, RowsOfOrders, LockerAccounts, LockerAtPlace
<1>3. ASSUME NEW o \in Orders, Debit(o) PROVE PaidInv'
  <2>1. /\ pc[o] = "read"
        /\ pc' = [pc EXCEPT ![o] = "debited"]
        /\ charged' = charged \cup {o}
        /\ UNCHANGED <<bought, itemLocker, order, sn>>
    BY <1>3 DEF Debit, Debiting
  <2>2. ChargeAtPlace'
    BY <2>1 DEF ChargeAtPlace
  <2>3. RowsOfOrders' /\ LockerAccounts'
    BY <2>1 DEF RowsOfOrders, LockerAccounts
  <2>4. LockerAtPlace'
    BY <2>1 DEF LockerAtPlace
  <2>5. QED
    BY <2>2, <2>3, <2>4
<1>4. ASSUME NEW o \in Orders, ChargeSlots(o) PROVE PaidInv'
  BY <1>4 DEF ChargeSlots, ChargeAtPlace, RowsOfOrders, LockerAccounts, LockerAtPlace
<1>5. ASSUME NEW o \in Orders, InsertCashItemBought(o) PROVE PaidInv'
  <2> DEFINE row == [account |-> order[o].account, charge |-> o]
  <2>1. row \in [account : Accounts, charge : Orders]
    BY DEF Order
  <2>2. /\ Len(bought') = Len(bought) + 1
        /\ \A i \in 1 .. Len(bought) : bought'[i] = bought[i]
        /\ bought'[Len(bought) + 1] = row
    BY <1>5, <2>1 DEF InsertCashItemBought
  <2>3. /\ sn' = [sn EXCEPT ![o] = Len(bought) + 1]
        /\ pc' = [pc EXCEPT ![o] = "bought"]
        /\ pc[o] = "approved" /\ sn[o] = 0 /\ o \in charged
        /\ UNCHANGED <<itemLocker, order, charged>>
    BY <1>5, <2>2 DEF InsertCashItemBought, ChargeAtPlace
  <2>4. ChargeAtPlace'
    BY <2>3 DEF ChargeAtPlace
  <2>5. ASSUME NEW i \in 1 .. Len(bought) PROVE bought[i].charge \in Orders \ {o}
    BY <2>3, <2>5 DEF RowsOfOrders
  <2>6. RowsOfOrders'
    <3>1. ASSUME NEW x \in Orders, sn'[x] # 0 PROVE bought'[sn'[x]].charge = x
      <4>1. CASE x = o
        <5>1. bought'[sn'[o]] = row
          BY <2>2, <2>3
        <5>2. QED
          BY <4>1, <5>1
      <4>2. CASE x # o
        <5>1. sn'[x] = sn[x] /\ sn[x] \in 1 .. Len(bought)
          BY <3>1, <4>2, <2>3
        <5>2. bought'[sn[x]] = bought[sn[x]]
          BY <5>1, <2>2
        <5>3. QED
          BY <5>1, <5>2 DEF RowsOfOrders
      <4>3. QED
        BY <4>1, <4>2
    <3>2. ASSUME NEW i \in 1 .. Len(bought')
          PROVE  /\ bought'[i].charge \in charged'
                 /\ bought'[i].account = order'[bought'[i].charge].account
                 /\ sn'[bought'[i].charge] = i
      <4>1. CASE i \in 1 .. Len(bought)
        BY <4>1, <2>2, <2>3, <2>5 DEF RowsOfOrders
      <4>2. CASE i = Len(bought) + 1
        BY <4>2, <2>2, <2>3
      <4>3. QED
        BY <4>1, <4>2, <2>2
    <3>3. QED
      BY <3>1, <3>2 DEF RowsOfOrders
  <2>7. LockerAccounts'
    BY <2>2, <2>3 DEF LockerAccounts
  <2>8. \A r \in itemLocker : r.sn \in 1 .. Len(bought)
    OBVIOUS
  <2>9. LockerAtPlace'
    BY <2>3, <2>8 DEF LockerAtPlace
  <2>10. QED
    BY <2>4, <2>6, <2>7, <2>9
<1>6. ASSUME NEW o \in Orders, InsertItemLocker(o) PROVE PaidInv'
  <2> DEFINE row == [sn |-> sn[o], account |-> order[o].account]
  <2>1. /\ pc[o] = "bought" /\ sn[o] \in 1 .. Len(bought)
        /\ pc' = [pc EXCEPT ![o] = "delivered"]
        /\ itemLocker' = itemLocker \cup {row}
        /\ UNCHANGED <<bought, order, sn, charged>>
    BY <1>6 DEF InsertItemLocker, SNAssigned
  <2>2. ChargeAtPlace' /\ RowsOfOrders'
    BY <2>1 DEF ChargeAtPlace, RowsOfOrders
  <2>3. row.account = bought[row.sn].account
    <3>1. bought[sn[o]].charge = o /\ bought[sn[o]].account = order[o].account
      BY <2>1 DEF RowsOfOrders
    <3>2. QED
      BY <3>1
  <2>4. LockerAccounts'
    BY <2>1, <2>3 DEF LockerAccounts
  <2>5. LockerAtPlace'
    <3>1. row \in itemLocker' /\ row.sn = sn[o]
      BY <2>1
    <3>2. ASSUME NEW x \in Orders, pc'[x] \in {"delivered", "handled"}
          PROVE  \E r \in itemLocker' : r.sn = sn'[x]
      <4>1. CASE x = o
        BY <4>1, <3>1, <2>1
      <4>2. CASE x # o
        BY <4>2, <3>2, <2>1 DEF LockerAtPlace
      <4>3. QED
        BY <4>1, <4>2
    <3>3. ASSUME NEW x \in Orders, pc'[x] \in {"bought", "failed", "written_off"},
                 NEW r \in itemLocker'
          PROVE  r.sn # sn'[x]
      <4>1. x # o /\ pc[x] = pc'[x] /\ sn'[x] = sn[x]
        BY <3>3, <2>1
      <4>2. CASE r \in itemLocker
        BY <4>1, <4>2, <3>3 DEF LockerAtPlace
      <4>3. CASE r = row
        <5>1. bought[sn[o]].charge = o
          BY <2>1 DEF RowsOfOrders
        <5>2. sn[x] # 0 => bought[sn[x]].charge = x
          BY DEF RowsOfOrders
        <5>3. sn[x] # sn[o]
          BY <5>1, <5>2, <4>1, <2>1
        <5>4. QED
          BY <5>3, <4>1, <4>3, <3>1
      <4>4. QED
        BY <4>2, <4>3, <2>1
    <3>4. QED
      BY <3>2, <3>3 DEF LockerAtPlace
  <2>6. QED
    BY <2>2, <2>4, <2>5
<1>7. CASE UNCHANGED vars
  BY <1>7 DEF vars, ChargeAtPlace, RowsOfOrders, LockerAccounts, LockerAtPlace
<1>8. QED
  BY <1>1, <1>2, <1>3, <1>4, <1>5, <1>6, <1>7, StepCases

LEMMA PaidAlways == Spec => [](TypeInv /\ PaidInv)
<1>1. Init => TypeInv /\ PaidInv
  BY TypeInit, PaidInit
<1>2. TypeInv /\ PaidInv /\ [Next]_vars => (TypeInv /\ PaidInv)'
  BY TypeNext, PaidNext
<1>3. QED
  BY <1>1, <1>2, PTL DEF Spec

\* What lands in ItemLocker is what was paid for, by the account that paid, once.
THEOREM LockerIsPaidFor == Spec => []LockerMatchesPurchase
<1>1. ASSUME TypeInv, PaidInv PROVE LockerMatchesPurchase
  <2>1. DOMAIN bought = 1 .. Len(bought)
    BY <1>1 DEF TypeInv, TypeOK
  <2>2. ASSUME NEW i \in DOMAIN bought
        PROVE  /\ bought[i].charge \in charged
               /\ bought[i].account = order[bought[i].charge].account
               /\ sn[bought[i].charge] = i
    BY <1>1, <2>1 DEF PaidInv, RowsOfOrders
  <2>3. ASSUME NEW i \in DOMAIN bought, NEW j \in DOMAIN bought,
               bought[i].charge = bought[j].charge
        PROVE  i = j
    BY <2>2, <2>3
  <2>4. ASSUME NEW r \in itemLocker
        PROVE  /\ r.account = bought[r.sn].account
               /\ sn[bought[r.sn].charge] = r.sn
               /\ pc[bought[r.sn].charge] \notin {"bought", "failed"}
    <3>1. r.sn \in DOMAIN bought /\ charged \subseteq Orders
      BY <1>1, <2>1 DEF TypeInv, TypeOK
    <3>2. sn[bought[r.sn].charge] = r.sn /\ bought[r.sn].charge \in Orders
      BY <2>2, <3>1
    <3>3. QED
      BY <1>1, <3>1, <3>2 DEF PaidInv, LockerAccounts, LockerAtPlace
  <2>5. QED
    BY <2>2, <2>3, <2>4 DEF LockerMatchesPurchase
<1>2. QED
  BY <1>1, PaidAlways, PTL

\* An order acknowledged as handled is in the locker; one written off is charged and not.
THEOREM AcknowledgementsAreTrue == Spec => []AcknowledgedTruly
<1>1. ASSUME TypeInv, PaidInv PROVE AcknowledgedTruly
  <2> USE <1>1 DEF PaidInv
  <2>1. ASSUME NEW o \in Orders, pc[o] = "handled"
        PROVE  o \in charged \cap DeliveredOrders
    <3>1. o \in charged /\ sn[o] # 0
      BY <2>1 DEF ChargeAtPlace
    <3>2. PICK r \in itemLocker : r.sn = sn[o]
      BY <2>1 DEF LockerAtPlace
    <3>3. bought[r.sn].charge = o
      BY <3>1, <3>2 DEF RowsOfOrders
    <3>4. QED
      BY <3>1, <3>3 DEF DeliveredOrders
  <2>2. ASSUME NEW o \in Orders, pc[o] = "written_off"
        PROVE  o \in charged \ DeliveredOrders
    <3>1. o \in charged
      BY <2>2 DEF ChargeAtPlace
    <3>2. ASSUME NEW r \in itemLocker PROVE bought[r.sn].charge # o
      <4>1. r.sn \in 1 .. Len(bought)
        BY DEF TypeInv, TypeOK
      <4>2. sn[bought[r.sn].charge] = r.sn /\ r.sn # sn[o]
        BY <4>1, <2>2 DEF RowsOfOrders, LockerAtPlace
      <4>3. QED
        BY <4>2
    <3>3. QED
      BY <3>1, <3>2 DEF DeliveredOrders
  <2>3. QED
    BY <2>1, <2>2 DEF AcknowledgedTruly
<1>2. QED
  BY <1>1, PaidAlways, PTL

-----------------------------------------------------------------------------
(* The ledger *)

LEMMA LedgerInit == Init => Ledger!Init
<1> SUFFICES ASSUME Init PROVE Ledger!Init
  OBVIOUS
<1>1. ASSUME NEW o \in Orders PROVE order[o].price \in Nat /\ order[o].account \in Accounts
  <2>1. order[o] \in Order
    BY DEF Init
  <2>2. Prices \cup {0} \subseteq Nat
    BY PricesAssumption
  <2>3. QED
    BY <2>1, <2>2 DEF Order
<1>2. nexonCash \in [Accounts -> Nat]
  BY InitialCashAssumption DEF Init
<1>3. DeliveredOrders = {} /\ charged = {}
  BY DEF Init, DeliveredOrders
<1>4. QED
  BY <1>1, <1>2, <1>3 DEF Ledger!Init

\* Debit and ChargeSlots are Pay.
LEMMA ChargeIsPay ==
    ASSUME TypeInv, PaidInv, NEW o \in Orders, Debit(o) \/ ChargeSlots(o)
    PROVE  Ledger!Pay(o)
<1>1. o \notin charged
  BY DEF PaidInv, ChargeAtPlace, Debit, Debiting, ChargeSlots
<1>2. /\ charged' = charged \cup {o}
      /\ nexonCash' = [nexonCash EXCEPT ![order[o].account] = @ - order[o].price]
      /\ UNCHANGED <<order, bought, itemLocker>>
  BY DEF Debit, ChargeSlots, tables
<1>3. DeliveredOrders' = DeliveredOrders
  BY <1>2 DEF DeliveredOrders
<1>4. QED
  BY <1>1, <1>2, <1>3 DEF Ledger!Pay

\* InsertItemLocker is Deliver: the order is charged, and not in the locker yet.
LEMMA InsertIsDeliver ==
    ASSUME TypeInv, PaidInv, NEW o \in Orders, InsertItemLocker(o)
    PROVE  Ledger!Deliver(o)
<1> USE DEF TypeInv, TypeOK, PaidInv
<1>1. /\ pc[o] = "bought" /\ sn[o] # 0
      /\ itemLocker' = itemLocker \cup {[sn |-> sn[o], account |-> order[o].account]}
      /\ UNCHANGED <<nexonCash, order, bought, charged>>
  BY DEF InsertItemLocker, SNAssigned, history
<1>2. o \in charged /\ bought[sn[o]].charge = o
  BY <1>1 DEF ChargeAtPlace, RowsOfOrders
<1>3. o \notin DeliveredOrders
  <2>1. ASSUME NEW r \in itemLocker PROVE bought[r.sn].charge # o
    <3>1. r.sn \in 1 .. Len(bought)
      OBVIOUS
    <3>2. sn[bought[r.sn].charge] = r.sn /\ r.sn # sn[o]
      BY <3>1, <1>1 DEF RowsOfOrders, LockerAtPlace
    <3>3. QED
      BY <3>2
  <2>2. QED
    BY <2>1 DEF DeliveredOrders
<1>4. DeliveredOrders' = DeliveredOrders \cup {o}
  <2> DEFINE row == [sn |-> sn[o], account |-> order[o].account]
  <2>1. DeliveredOrders' = {bought[r.sn].charge : r \in itemLocker \cup {row}}
    BY <1>1 DEF DeliveredOrders
  <2>2. bought[row.sn].charge = o
    BY <1>2
  <2> HIDE DEF row
  <2>3. QED
    BY <2>1, <2>2, Zenon DEF DeliveredOrders
<1>5. QED
  BY <1>1, <1>2, <1>3, <1>4 DEF Ledger!Deliver

LEMMA LedgerNext ==
    TypeInv /\ PaidInv /\ [Next]_vars => [Ledger!Next]_(Ledger!ledger)
<1> SUFFICES ASSUME TypeInv, PaidInv, [Next]_vars
             PROVE  Ledger!Next \/ UNCHANGED <<nexonCash, order, charged, DeliveredOrders>>
  BY DEF Ledger!ledger
<1>1. CASE Housekeeping
  <2>1. DataStays
    BY <1>1, HousekeepingMoves DEF TypeInv
  <2>2. QED
    BY <2>1 DEF DataStays, DeliveredOrders
<1>2. ASSUME NEW o \in Orders, OpenReader(o)
      PROVE  UNCHANGED <<nexonCash, order, charged, DeliveredOrders>>
  BY <1>2 DEF OpenReader, tables, DeliveredOrders
<1>3. ASSUME NEW o \in Orders, Debit(o) \/ ChargeSlots(o) PROVE Ledger!Next
  BY <1>3, ChargeIsPay DEF Ledger!Next
<1>4. ASSUME NEW o \in Orders, InsertCashItemBought(o)
      PROVE  UNCHANGED <<nexonCash, order, charged, DeliveredOrders>>
  <2> DEFINE row == [account |-> order[o].account, charge |-> o]
  <2>1. row \in [account : Accounts, charge : Orders]
    BY OrderTypes DEF TypeInv
  <2>2. \A i \in 1 .. Len(bought) : bought'[i] = bought[i]
    BY <1>4, <2>1 DEF InsertCashItemBought, TypeInv, TypeOK
  <2>3. \A r \in itemLocker : r.sn \in 1 .. Len(bought)
    BY DEF TypeInv, TypeOK
  <2>4. QED
    BY <1>4, <2>2, <2>3 DEF InsertCashItemBought, DeliveredOrders, history
<1>5. ASSUME NEW o \in Orders, InsertItemLocker(o) PROVE Ledger!Next
  BY <1>5, InsertIsDeliver DEF Ledger!Next
<1>6. CASE UNCHANGED vars
  BY <1>6 DEF vars, DeliveredOrders
<1>7. QED
  BY <1>1, <1>2, <1>3, <1>4, <1>5, <1>6, StepCases

\* The exchange, with all its interleavings and deaths, implements the ledger: no order
\* is paid twice or at another price, and nothing is delivered unpaid or twice.
THEOREM ImplementsLedger == Spec => LedgerSpec
<1>1. Init => Ledger!Init
  BY LedgerInit
<1>2. TypeInv /\ PaidInv /\ [Next]_vars => [Ledger!Next]_(Ledger!ledger)
  BY LedgerNext
<1>3. QED
  BY <1>1, <1>2, PaidAlways, PTL DEF Spec, LedgerSpec, Ledger!Spec

-----------------------------------------------------------------------------
(* Debt *)

SlotsCharged(a) == \E o \in charged : order[o].kind = "slots" /\ order[o].account = a

\* While no two buys of an account overlap and no slots were charged, its balance is
\* not negative, and its one open buy, if there is one, has read the balance of now.
DebtInv ==
    \A a \in Accounts :
        a \notin overlapped /\ ~SlotsCharged(a) =>
            /\ nexonCash[a] >= 0
            /\ \A o \in Open(a) : seen[o] = nexonCash[a]
            /\ \A o, x \in Open(a) : o = x

LEMMA DebtInit == Init => DebtInv
  BY InitialCashAssumption DEF Init, DebtInv, Open

LEMMA DebtNext == TypeInv /\ DebtInv /\ [Next]_vars => DebtInv'
<1> SUFFICES ASSUME TypeInv, DebtInv, [Next]_vars,
                    NEW a \in Accounts, a \notin overlapped', ~SlotsCharged(a)'
             PROVE  /\ nexonCash'[a] >= 0
                    /\ \A o \in Open(a)' : seen'[o] = nexonCash'[a]
                    /\ \A o, x \in Open(a)' : o = x
  BY DEF DebtInv
<1> DEFINE Good == /\ nexonCash'[a] >= 0
                   /\ \A o \in Open(a)' : seen'[o] = nexonCash'[a]
                   /\ \A o, x \in Open(a)' : o = x
<1> USE DEF TypeInv
<1>1. ASSUME overlapped \subseteq overlapped', charged \subseteq charged', order' = order
      PROVE  /\ nexonCash[a] >= 0
             /\ \A o \in Open(a) : seen[o] = nexonCash[a]
             /\ \A o, x \in Open(a) : o = x
  BY <1>1 DEF DebtInv, SlotsCharged
<1>2. ASSUME UNCHANGED <<nexonCash, order, seen, charged, overlapped>>,
             Open(a)' \subseteq Open(a)
      PROVE  Good
  BY <1>1, <1>2
<1>3. CASE Housekeeping
  <2>1. DataStays /\ OrdersMove
    BY <1>3, HousekeepingMoves
  <2>2. Open(a)' \subseteq Open(a)
    BY <2>1 DEF DataStays, OrdersMove, Moved, Open
  <2>3. QED
    BY <1>2, <2>1, <2>2 DEF DataStays
<1>4. ASSUME NEW o \in Orders, OpenReader(o) PROVE Good
  <2>1. /\ pc[o] = "requested"
        /\ pc' = [pc EXCEPT ![o] = "reading"]
        /\ seen' = [seen EXCEPT ![o] = nexonCash[order[o].account]]
        /\ UNCHANGED <<nexonCash, order, charged>>
        /\ overlapped \subseteq overlapped'
    BY <1>4 DEF OpenReader, Receiving, Goto
  <2>2. o \notin Open(a)
    BY <2>1 DEF Open
  <2>3. CASE order[o].kind = "buy" /\ order[o].account = a
    <3>1. Open(a) = {}
      BY <1>4, <2>3 DEF OpenReader
    <3>2. Open(a)' = {o}
      BY <2>1, <2>3, <3>1 DEF Open, TypeOK
    <3>3. seen'[o] = nexonCash'[a]
      BY <2>1, <2>3 DEF TypeOK
    <3>4. QED
      BY <1>1, <2>1, <3>2, <3>3
  <2>4. CASE ~(order[o].kind = "buy" /\ order[o].account = a)
    <3>1. Open(a)' = Open(a)
      BY <2>1, <2>4 DEF Open, TypeOK
    <3>2. \A x \in Open(a) : seen'[x] = seen[x]
      BY <2>1, <2>2 DEF Open, TypeOK
    <3>3. QED
      BY <1>1, <2>1, <3>1, <3>2
  <2>5. QED
    BY <2>3, <2>4
<1>5. ASSUME NEW o \in Orders, Debit(o) PROVE Good
  <2>1. /\ Debiting(o)
        /\ pc' = [pc EXCEPT ![o] = "debited"]
        /\ nexonCash' = [nexonCash EXCEPT ![order[o].account] = @ - order[o].price]
        /\ charged' = charged \cup {o}
        /\ UNCHANGED <<order, seen, overlapped>>
    BY <1>5 DEF Debit, Goto
  <2>2. Open(a)' = Open(a) \ {o}
    BY <2>1 DEF Open, TypeOK
  <2>3. CASE order[o].account = a
    <3>1. o \in Open(a) /\ seen[o] >= order[o].price
      BY <2>1, <2>3 DEF Debiting, Open
    <3>2. seen[o] = nexonCash[a] /\ Open(a)' = {}
      BY <1>1, <2>1, <2>2, <3>1
    <3>3. nexonCash'[a] = nexonCash[a] - order[o].price
      BY <2>1, <2>3 DEF TypeOK
    <3>4. nexonCash[a] \in Int /\ order[o].price \in Int
      BY OrderTypes DEF TypeOK
    <3>5. QED
      BY <3>1, <3>2, <3>3, <3>4
  <2>4. CASE order[o].account # a
    <3>1. nexonCash'[a] = nexonCash[a]
      BY <2>1, <2>4 DEF TypeOK
    <3>2. QED
      BY <1>1, <2>1, <2>2, <3>1
  <2>5. QED
    BY <2>3, <2>4
<1>6. ASSUME NEW o \in Orders, ChargeSlots(o) PROVE Good
  <2>1. /\ pc[o] = "new" /\ order[o].kind = "slots"
        /\ pc' = [pc EXCEPT ![o] = "closed"]
        /\ nexonCash' = [nexonCash EXCEPT ![order[o].account] = @ - order[o].price]
        /\ charged' = charged \cup {o}
        /\ UNCHANGED <<order, seen, overlapped>>
    BY <1>6 DEF ChargeSlots, Goto
  <2>2. order[o].account # a
    BY <2>1 DEF SlotsCharged
  <2>3. nexonCash'[a] = nexonCash[a]
    BY <2>1, <2>2 DEF TypeOK
  <2>4. Open(a)' = Open(a)
    BY <2>1 DEF Open, TypeOK
  <2>5. QED
    BY <1>1, <2>1, <2>3, <2>4
<1>7. ASSUME NEW o \in Orders, InsertCashItemBought(o) \/ InsertItemLocker(o) PROVE Good
  <2>1. /\ UNCHANGED <<nexonCash, order, seen, charged, overlapped>>
        /\ pc[o] \in {"approved", "bought"}
        /\ \/ pc' = [pc EXCEPT ![o] = "bought"]
           \/ pc' = [pc EXCEPT ![o] = "delivered"]
    BY <1>7 DEF InsertCashItemBought, InsertItemLocker, history, Goto
  <2>2. Open(a)' \subseteq Open(a)
    BY <2>1 DEF Open, TypeOK
  <2>3. QED
    BY <1>2, <2>1, <2>2
<1>8. CASE UNCHANGED vars
  BY <1>8, <1>2 DEF vars, Open
<1>9. QED
  BY <1>3, <1>4, <1>5, <1>6, <1>7, <1>8, StepCases

\* However many sessions the daemon serves, an account goes into debt only after two of
\* its buys overlapped between check and debit, or after it was charged for slots.
THEOREM DebtNeedsOverlap == Spec => []OverdraftNeedsOverlap
<1>1. Init => TypeInv /\ DebtInv
  BY TypeInit, DebtInit
<1>2. TypeInv /\ DebtInv /\ [Next]_vars => (TypeInv /\ DebtInv)'
  BY TypeNext, DebtNext
<1>3. TypeInv /\ DebtInv => OverdraftNeedsOverlap
  <2>1. ASSUME TypeInv, DebtInv, NEW a \in Accounts, nexonCash[a] < 0
        PROVE  a \in overlapped \/ SlotsCharged(a)
    <3>1. nexonCash[a] \in Int /\ ~(nexonCash[a] >= 0)
      BY <2>1 DEF TypeInv, TypeOK
    <3>2. QED
      BY <2>1, <3>1 DEF DebtInv
  <2>2. QED
    BY <2>1 DEF SlotsCharged, OverdraftNeedsOverlap
<1>4. QED
  BY <1>1, <1>2, <1>3, PTL DEF Spec

\* CashItemBought and ItemLocker keep their types and belong together, whatever BuyCashItem
\* leaves out.
THEOREM TablesStaySound == Spec => []TablesSound
BY TypeCorrect, LockerIsPaidFor, PTL DEF TablesSound
=============================================================================
