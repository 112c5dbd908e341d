----------------------------- MODULE CashDaemon -----------------------------
(***************************************************************************)
(* Buying with NexonCash: the shop servers, the cash daemon they are       *)
(* connected to (WvsCashDeamon), and GameWorld.BuyCashItem.                *)
(*                                                                         *)
(* A shop sends the daemon a BillPack.  The daemon answers a query (0x0A)  *)
(* with the balance, and a buy (0x14) with a purchase number, after it     *)
(* read the balance and, in a second statement, debited the price.  The    *)
(* shop then calls BuyCashItem, which inserts the item in two tables       *)
(* without a transaction, and reports the outcome (0x1E or 0x28), which    *)
(* the daemon acknowledges and otherwise ignores.                          *)
(*                                                                         *)
(* A session serves one BillPack at a time; the sessions of different      *)
(* shops run on different threads over ONE SqlConnection.  A command that  *)
(* starts while another session's reader is open on it raises an exception *)
(* nobody catches, and so does the receive that follows a failed send: in  *)
(* both cases the daemon dies.  Two commands of which neither holds a      *)
(* reader are undefined for an SqlConnection: one of them may fail, with   *)
(* the same end.                                                           *)
(*                                                                         *)
(* WvsShop is a binary outside the repository: that it sends one request   *)
(* per order, in one piece, and calls BuyCashItem once per answer is an    *)
(* assumption.  IncreaseItemSlotCount is here for its effect on NexonCash. *)
(***************************************************************************)
EXTENDS Integers, Sequences, FiniteSets

CONSTANTS
    Shops,        \* shop servers, one session with the daemon each
    Accounts,     \* rows of Account
    Orders,       \* the BillPacks that start an exchange
    Prices,       \* ItemUnitPrice * ItemCnt of the buys, @Price of the slots
    InitialCash   \* NexonCash of an account at the start

ASSUME PricesAssumption == Prices \subseteq Nat \ {0}
ASSUME InitialCashAssumption == InitialCash \in Nat

VARIABLES
    nexonCash,    \* Account.NexonCash
    bought,       \* table CashItemBought; a row's index is its identity SN
    itemLocker,   \* table ItemLocker, the rows these purchases insert
    order,        \* what each order asks for; fixed
    pc,           \* where the order stands
    seen,         \* daemon: the balance read for the order
    sn,           \* BuyCashItem: the SN of the order's item
    charged,      \* history: orders whose price was debited
    overlapped,   \* history: accounts of which two buys were between read and debit
    daemonUp,
    shopUp

tables == <<bought, itemLocker>>
history == <<charged, overlapped>>
vars == <<nexonCash, bought, itemLocker, order, pc, seen, sn, charged, overlapped,
          daemonUp, shopUp>>

-----------------------------------------------------------------------------
(* Types *)

Kinds == {"buy", "query", "slots"}

\* In the daemon: requested, reading, read, debited, refused.  Back at the shop:
\* approved, bought, delivered, failed.  Over: closed, handled, written_off, lost.
PCs == {"new", "requested", "reading", "read", "debited", "refused", "approved", "bought",
        "delivered", "failed", "closed", "handled", "written_off", "lost"}

Order == [kind : Kinds, shop : Shops, account : Accounts, price : Prices \cup {0}]

TypeOK ==
    /\ nexonCash \in [Accounts -> Int]
    /\ bought \in Seq([account : Accounts, charge : Orders])
    /\ itemLocker \subseteq [sn : 1 .. Len(bought), account : Accounts]
    /\ order \in [Orders -> Order]
    /\ pc \in [Orders -> PCs]
    /\ seen \in [Orders -> Int]
    /\ sn \in [Orders -> 0 .. Len(bought)]
    /\ charged \subseteq Orders
    /\ overlapped \subseteq Accounts
    /\ daemonUp \in BOOLEAN
    /\ shopUp \in [Shops -> BOOLEAN]

-----------------------------------------------------------------------------
(* Helpers *)

InDaemon == {"reading", "read", "debited", "refused"}

Over == {"closed", "handled", "written_off", "lost"}

SessionIdle(s) == \A o \in Orders : order[o].shop = s => pc[o] \notin InDaemon

\* Mutant of Debiting: the balance is not compared with the price.
DebitingUnchecked(o) == pc[o] = "read" /\ order[o].kind = "buy"

\* The balance read for the buy covers its price, and the UPDATE comes next.
Debiting(o) == pc[o] = "read" /\ order[o].kind = "buy" /\ seen[o] >= order[o].price

\* The buys of an account that are between their SELECT and their UPDATE.
Open(a) ==
    {o \in Orders : /\ order[o].kind = "buy"
                    /\ order[o].account = a
                    /\ pc[o] \in {"reading", "read"}}

\* The shared SqlConnection has the reader of another session open.
ConnectionBusy(o) == \E x \in Orders \ {o} : pc[x] = "reading"

\* Another session may have a command under way on it.
MayCollide(o) == ConnectionBusy(o) \/ \E x \in Orders \ {o} : Debiting(x)

\* The session of o can take the order up.
Receiving(o) == daemonUp /\ pc[o] = "requested" /\ SessionIdle(order[o].shop)

Goto(o, where) == pc' = [pc EXCEPT ![o] = where]

\* An unhandled exception ends the process: what it was serving gets no answer.
DaemonDies ==
    /\ daemonUp' = FALSE
    /\ pc' = [o \in Orders |-> IF pc[o] \in InDaemon THEN "lost" ELSE pc[o]]

-----------------------------------------------------------------------------
(* Actions *)

Init ==
    /\ nexonCash = [a \in Accounts |-> InitialCash]
    /\ bought = <<>>
    /\ itemLocker = {}
    /\ order \in [Orders -> {r \in Order : r.kind = "query" <=> r.price = 0}]
    /\ pc = [o \in Orders |-> "new"]
    /\ seen = [o \in Orders |-> 0]
    /\ sn = [o \in Orders |-> 0]
    /\ charged = {}
    /\ overlapped = {}
    /\ daemonUp = TRUE
    /\ shopUp = [s \in Shops |-> TRUE]

\* The shop sends 0x0A or 0x14.
Request(o) ==
    /\ pc[o] = "new"
    /\ order[o].kind # "slots"
    /\ shopUp[order[o].shop]
    /\ Goto(o, "requested")
    /\ UNCHANGED <<nexonCash, tables, order, seen, sn, history, daemonUp, shopUp>>

\* A request of a shop that died is served if the daemon gets it before the reset.
LoseRequest(o) ==
    /\ pc[o] = "requested"
    /\ ~shopUp[order[o].shop]
    /\ Goto(o, "lost")
    /\ UNCHANGED <<nexonCash, tables, order, seen, sn, history, daemonUp, shopUp>>

\* getCashFromAccount: ExecuteReader.
OpenReader(o) ==
    LET a == order[o].account
    IN  /\ Receiving(o)
        /\ ~ConnectionBusy(o)
        /\ Goto(o, "reading")
        /\ seen' = [seen EXCEPT ![o] = nexonCash[a]]
        /\ overlapped' = IF order[o].kind = "buy" /\ Open(a) # {} THEN overlapped \cup {a}
                                                                 ELSE overlapped
        /\ UNCHANGED <<nexonCash, tables, order, sn, charged, daemonUp, shopUp>>

\* getCashFromAccount: the end of its using block.
CloseReader(o) ==
    /\ pc[o] = "reading"
    /\ Goto(o, "read")
    /\ UNCHANGED <<nexonCash, tables, order, seen, sn, history, daemonUp, shopUp>>

\* buyCashItem: the balance it read does not cover the price.
Decline(o) ==
    /\ pc[o] = "read"
    /\ order[o].kind = "buy"
    /\ seen[o] < order[o].price
    /\ Goto(o, "refused")
    /\ UNCHANGED <<nexonCash, tables, order, seen, sn, history, daemonUp, shopUp>>

\* Mutant of Debit: the balance is set to the one that was read less the price.
DebitAbsolute(o) ==
    /\ Debiting(o)
    /\ ~ConnectionBusy(o)
    /\ nexonCash' = [nexonCash EXCEPT ![order[o].account] = seen[o] - order[o].price]
    /\ charged' = charged \cup {o}
    /\ Goto(o, "debited")
    /\ UNCHANGED <<tables, order, seen, sn, overlapped, daemonUp, shopUp>>

\* buyCashItem: the UPDATE, relative to the balance of now.
Debit(o) ==
    /\ Debiting(o)
    /\ ~ConnectionBusy(o)
    /\ nexonCash' = [nexonCash EXCEPT ![order[o].account] = @ - order[o].price]
    /\ charged' = charged \cup {o}
    /\ Goto(o, "debited")
    /\ UNCHANGED <<tables, order, seen, sn, overlapped, daemonUp, shopUp>>

\* The command of OpenReader or Debit throws, in a callback nobody guards.
CommandThrows(o) ==
    /\ Receiving(o) \/ Debiting(o)
    /\ MayCollide(o)
    /\ DaemonDies
    /\ UNCHANGED <<nexonCash, tables, order, seen, sn, history, shopUp>>

\* The daemon has the response to o and sends it.
Answering(o) ==
    \/ pc[o] \in {"debited", "refused"}
    \/ pc[o] = "read" /\ order[o].kind = "query"

\* Mutant of SendAnswer: a buy that is declined returns without a response.
SendAnswerUnlessRefused(o) ==
    /\ Answering(o) /\ pc[o] # "refused"
    /\ Goto(o, IF ~shopUp[order[o].shop] THEN "lost"
               ELSE IF pc[o] = "debited" THEN "approved" ELSE "closed")
    /\ UNCHANGED <<nexonCash, tables, order, seen, sn, history, daemonUp, shopUp>>

\* SendBillPack.  BuyCashItem refuses the purchase number -1 of a declined order, and a
\* query needs nothing more.  A send to a shop that died may go unnoticed.
SendAnswer(o) ==
    /\ Answering(o)
    /\ Goto(o, IF ~shopUp[order[o].shop] THEN "lost"
               ELSE IF pc[o] = "debited" THEN "approved" ELSE "closed")
    /\ UNCHANGED <<nexonCash, tables, order, seen, sn, history, daemonUp, shopUp>>

\* Or it fails: OnDisconnect clears _socket, which the next BeginReceive dereferences.
SendThrows(o) ==
    /\ Answering(o)
    /\ ~shopUp[order[o].shop]
    /\ DaemonDies
    /\ UNCHANGED <<nexonCash, tables, order, seen, sn, history, shopUp>>

\* The daemon also goes down when its connection to the database is lost in the middle of a
\* command, or a session ends in an exception (BillSession says when).
DaemonFails ==
    /\ daemonUp
    /\ DaemonDies
    /\ UNCHANGED <<nexonCash, tables, order, seen, sn, history, shopUp>>

\* The UPDATE of NexonCash in IncreaseItemSlotCount, which a shop calls by itself and
\* which looks at no balance.
ChargeSlots(o) ==
    /\ pc[o] = "new"
    /\ order[o].kind = "slots"
    /\ shopUp[order[o].shop]
    /\ nexonCash' = [nexonCash EXCEPT ![order[o].account] = @ - order[o].price]
    /\ charged' = charged \cup {o}
    /\ Goto(o, "closed")
    /\ UNCHANGED <<tables, order, seen, sn, overlapped, daemonUp, shopUp>>

\* Mutant of InsertCashItemBought: the SN is taken for the next identity value.
InsertCashItemBoughtNextSN(o) ==
    /\ pc[o] = "approved"
    /\ bought' = Append(bought, [account |-> order[o].account, charge |-> o])
    /\ sn' = [sn EXCEPT ![o] = Len(bought') + 1]
    /\ Goto(o, "bought")
    /\ UNCHANGED <<nexonCash, itemLocker, order, seen, history, daemonUp, shopUp>>

\* BuyCashItem: the INSERT into CashItemBought, and SCOPE_IDENTITY().
InsertCashItemBought(o) ==
    /\ pc[o] = "approved"
    /\ bought' = Append(bought, [account |-> order[o].account, charge |-> o])
    /\ sn' = [sn EXCEPT ![o] = Len(bought')]
    /\ Goto(o, "bought")
    /\ UNCHANGED <<nexonCash, itemLocker, order, seen, history, daemonUp, shopUp>>

\* Mutant of InsertItemLocker: IDENT_CURRENT in place of SCOPE_IDENTITY.
InsertItemLockerIdentCurrent(o) ==
    /\ pc[o] = "bought"
    /\ itemLocker' = itemLocker \cup {[sn |-> Len(bought), account |-> order[o].account]}
    /\ Goto(o, "delivered")
    /\ UNCHANGED <<nexonCash, bought, order, seen, sn, history, daemonUp, shopUp>>

\* BuyCashItem: the INSERT into ItemLocker.
InsertItemLocker(o) ==
    /\ pc[o] = "bought"
    /\ itemLocker' = itemLocker \cup {[sn |-> sn[o], account |-> order[o].account]}
    /\ Goto(o, "delivered")
    /\ UNCHANGED <<nexonCash, bought, order, seen, sn, history, daemonUp, shopUp>>

\* Mutant of BuyCashItemFails: the procedure can still fail after its last INSERT.
BuyCashItemFailsLate(o) ==
    /\ pc[o] \in {"approved", "bought", "delivered"}
    /\ Goto(o, "failed")
    /\ UNCHANGED <<nexonCash, tables, order, seen, sn, history, daemonUp, shopUp>>

\* A statement of BuyCashItem fails: nothing it did before is undone.
BuyCashItemFails(o) ==
    /\ pc[o] \in {"approved", "bought"}
    /\ Goto(o, "failed")
    /\ UNCHANGED <<nexonCash, tables, order, seen, sn, history, daemonUp, shopUp>>

\* 0x1E and 0x28: the daemon answers both with RetCode 0 and touches no balance.
Acknowledge(o) ==
    /\ daemonUp
    /\ pc[o] \in {"delivered", "failed"}
    /\ SessionIdle(order[o].shop)
    /\ Goto(o, IF pc[o] = "delivered" THEN "handled" ELSE "written_off")
    /\ UNCHANGED <<nexonCash, tables, order, seen, sn, history, daemonUp, shopUp>>

\* A shop server dies with the orders it holds.  What the daemon has of it goes on.
ShopDies(s) ==
    /\ shopUp[s]
    /\ shopUp' = [shopUp EXCEPT ![s] = FALSE]
    /\ pc' = [o \in Orders |->
                IF order[o].shop = s /\ pc[o] \in {"approved", "bought", "delivered", "failed"}
                THEN "lost" ELSE pc[o]]
    /\ UNCHANGED <<nexonCash, tables, order, seen, sn, history, daemonUp>>

\* start-server.sh starts the daemon and the shops once, together: after a failure the
\* whole container is restarted.
RestartServer ==
    /\ ~daemonUp \/ \E s \in Shops : ~shopUp[s]
    /\ daemonUp' = TRUE
    /\ shopUp' = [s \in Shops |-> TRUE]
    /\ pc' = [o \in Orders |-> IF pc[o] \in Over \cup {"new"} THEN pc[o] ELSE "lost"]
    /\ UNCHANGED <<nexonCash, tables, order, seen, sn, history>>

Serve(o) ==
    \/ OpenReader(o)
    \/ CloseReader(o)
    \/ Decline(o)
    \/ Debit(o)
    \/ CommandThrows(o)
    \/ SendAnswer(o)
    \/ SendThrows(o)
    \/ Acknowledge(o)

BuyCashItem(o) == InsertCashItemBought(o) \/ InsertItemLocker(o) \/ BuyCashItemFails(o)

Next ==
    \/ \E o \in Orders :
        Request(o) \/ LoseRequest(o) \/ Serve(o) \/ BuyCashItem(o) \/ ChargeSlots(o)
    \/ \E s \in Shops : ShopDies(s)
    \/ DaemonFails
    \/ RestartServer

Spec == Init /\ [][Next]_vars

\* The daemon's threads are scheduled fairly; shops and their failures are not.
FairSpec == Spec /\ \A o \in Orders : WF_vars(Serve(o))

-----------------------------------------------------------------------------
(* Properties *)

\* buyCashItem checks a balance it read in an earlier statement.  Unless two buys of the
\* account were between check and debit at the same time, or slots were charged, which
\* are never checked, the account does not go into debt.
OverdraftNeedsOverlap ==
    \A a \in Accounts :
        nexonCash[a] < 0 =>
            \/ a \in overlapped
            \/ \E o \in charged : order[o].kind = "slots" /\ order[o].account = a

\* The two INSERTs of BuyCashItem are tied by SCOPE_IDENTITY() only.  Whatever calls
\* interleave, fail or die between them: a row of CashItemBought belongs to a charged
\* order of its account, no order has two rows, and a row of ItemLocker carries the SN
\* and the account of the row it was inserted with, of an order past that INSERT.
LockerMatchesPurchase ==
    /\ \A i \in DOMAIN bought :
        /\ bought[i].charge \in charged
        /\ bought[i].account = order[bought[i].charge].account
        /\ \A j \in DOMAIN bought : bought[i].charge = bought[j].charge => i = j
    /\ \A r \in itemLocker :
        /\ r.account = bought[r.sn].account
        /\ sn[bought[r.sn].charge] = r.sn
        /\ pc[bought[r.sn].charge] \notin {"bought", "failed"}

\* The two tables: identities are the rows' numbers (TypeOK), and the rows belong together.
TablesSound == TypeOK /\ LockerMatchesPurchase

DeliveredOrders == {bought[r.sn].charge : r \in itemLocker}

\* 0x1E means that the item arrived: an order acknowledged as handled was charged and is
\* in the locker, and one reported as failed is charged and is not.
AcknowledgedTruly ==
    \A o \in Orders :
        /\ pc[o] = "handled" => o \in charged \cap DeliveredOrders
        /\ pc[o] = "written_off" => o \in charged \ DeliveredOrders

Ledger == INSTANCE CashLedger WITH
    price <- [o \in Orders |-> order[o].price],
    buyer <- [o \in Orders |-> order[o].account],
    balance <- nexonCash,
    paid <- charged,
    delivered <- DeliveredOrders

\* The daemon, the shops and the procedures, with their interleavings and deaths, keep
\* what CashLedger promises: one payment of exactly the price per order, no delivery
\* without it, no delivery twice.
LedgerSpec == Ledger!Spec

\* A session never wedges the others: an order that reached the daemon gets its answer,
\* is lost with its shop, or the daemon has died.
RequestsSettle ==
    \A o \in Orders :
        pc[o] \in InDaemon \cup {"requested"} ~>
            ~daemonUp \/ pc[o] \notin InDaemon \cup {"requested"}
=============================================================================
