----------------------------- MODULE CashLedger -----------------------------
(***************************************************************************)
(* What the cash shop promises about NexonCash, whatever the daemon, the   *)
(* shop servers and the database do in between: an account pays for an     *)
(* order once, pays exactly its price, and gets the item only after it     *)
(* paid.  A payment whose item is never delivered stays paid: there is no  *)
(* refund, because the code has none.                                      *)
(***************************************************************************)
EXTENDS Integers

CONSTANTS Accounts, Orders

VARIABLES
    price,      \* order -> its price
    buyer,      \* order -> the account it is for
    balance,    \* account -> NexonCash
    paid,       \* orders the account was charged for
    delivered   \* orders whose item is in the account's locker

ledger == <<price, buyer, balance, paid, delivered>>

Init ==
    /\ price \in [Orders -> Nat]
    /\ buyer \in [Orders -> Accounts]
    /\ balance \in [Accounts -> Nat]
    /\ paid = {}
    /\ delivered = {}

Pay(o) ==
    /\ o \notin paid
    /\ paid' = paid \cup {o}
    /\ balance' = [balance EXCEPT ![buyer[o]] = @ - price[o]]
    /\ UNCHANGED <<price, buyer, delivered>>

Deliver(o) ==
    /\ o \in paid \ delivered
    /\ delivered' = delivered \cup {o}
    /\ UNCHANGED <<price, buyer, balance, paid>>

Next == \E o \in Orders : Pay(o) \/ Deliver(o)

Spec == Init /\ [][Next]_ledger
=============================================================================
