----------------------------- MODULE ItemLocker -----------------------------
(***************************************************************************)
(* The items an account bought: ItemLocker and CashItemBundle of GameWorld *)
(* under the procedures that move, use, renew and expire them, a statement *)
(* at a time.                                                              *)
(*                                                                         *)
(* The two moves run in SERIALIZABLE transactions, and both return without *)
(* ending theirs when their UPDATE finds no row.  The connection then goes *)
(* on inside that transaction: later ones nest in it, and it keeps every   *)
(* lock until it is dropped, when all of its work is undone.               *)
(*                                                                         *)
(* Locks are SQL Server's (external): an UPDATE or DELETE locks the key it *)
(* looks for, to the end of the transaction.  CashItemBundle has no index, *)
(* so reading it in such a transaction shares the whole table, and writing *)
(* it excludes everybody else.  All items belong to one account.           *)
(***************************************************************************)
EXTENDS Integers, FiniteSets

CONSTANTS
    Connections,  \* of the servers to the database
    SNs,          \* the items
    Kind,         \* item -> "equip", "pet", or "bundle" for all others
    Number,       \* item -> how often it can be used
    Old,          \* the items whose date has passed; only their date matters to anybody
    Characters,
    MaxCalls      \* bound on the procedures called

ASSUME SNsAssumption == SNs # {}
ASSUME KindAssumption == Kind \in [SNs -> {"equip", "pet", "bundle"}]
ASSUME NumberAssumption == Number \in [SNs -> Nat \ {0}]
ASSUME OldAssumption == Old \subseteq SNs
ASSUME CharactersAssumption == Characters \subseteq Nat \ {0}
ASSUME MaxCallsAssumption == MaxCalls \in Nat

VARIABLES
    row,        \* item -> its row, and the number of its rows in CashItemBundle
    depth,      \* connection -> @@TRANCOUNT
    lock,       \* connection -> item -> the lock its transaction holds on it
    image,      \* connection -> item -> the row before its transaction wrote it
    table,      \* connection -> its lock on CashItemBundle
    pc,         \* connection -> the statement it is about to execute
    call,       \* connection -> parameters of the procedure
    leaks,      \* history: connections on which a move returned out of its transaction
    unsettled,  \* history: connection -> procedures that returned 0 inside the transaction it has open
    overtaken,  \* history: connections whose ExpireCashItem had looked when the pet got another date
    stranded,   \* history: items whose use was cut off, or which were moved during it
    calls       \* number of procedures called

tables == <<row, lock, image, table>>
history == <<leaks, unsettled, overtaken, stranded>>
vars == <<tables, depth, pc, call, history, calls>>

-----------------------------------------------------------------------------
(* Types *)

Row == [here : BOOLEAN, char : Characters \cup {0}, number : Int, expired : BOOLEAN,
        bundles : Nat]

Statements == {"idle", "move in", "move out", "select", "insert", "delete", "commit", "extend",
               "decrement", "read", "purge", "look", "reset", "remove", "sweep"}

\* op: the procedure.  sn: @SN.  pet: @PetSN of SetPetLife.
Call == [op : {"none", "LtoS", "StoL", "use", "change", "expire", "renew"}, sn : SNs,
         char : Characters \cup {0}, pet : SNs]

TypeOK ==
    /\ row \in [SNs -> Row]
    /\ depth \in [Connections -> Nat]
    /\ lock \in [Connections -> [SNs -> {"none", "update", "exclusive"}]]
    /\ image \in [Connections -> [SNs -> Row]]
    /\ table \in [Connections -> {"none", "shared", "exclusive"}]
    /\ pc \in [Connections -> Statements]
    /\ call \in [Connections -> Call]
    /\ leaks \subseteq Connections
    /\ unsettled \in [Connections -> Nat]
    /\ overtaken \subseteq Connections
    /\ stranded \subseteq SNs
    /\ calls \in Nat

NoRow == [here |-> FALSE, char |-> 0, number |-> 0, expired |-> FALSE, bundles |-> 0]
NoCall == LET s == CHOOSE s \in SNs : TRUE IN [op |-> "none", sn |-> s, char |-> 0, pet |-> s]

Unlocked == [s \in SNs |-> "none"]
Unwritten == [s \in SNs |-> NoRow]

Init ==
    /\ row = [s \in SNs |-> [here |-> TRUE, char |-> 0, number |-> Number[s],
                             expired |-> (s \in Old), bundles |-> 0]]
    /\ depth = [c \in Connections |-> 0]
    /\ lock = [c \in Connections |-> Unlocked]
    /\ image = [c \in Connections |-> Unwritten]
    /\ table = [c \in Connections |-> "none"]
    /\ pc = [c \in Connections |-> "idle"]
    /\ call = [c \in Connections |-> NoCall]
    /\ leaks = {}
    /\ unsettled = [c \in Connections |-> 0]
    /\ overtaken = {}
    /\ stranded = {}
    /\ calls = 0

-----------------------------------------------------------------------------
(* Locks *)

Target(c) == IF pc[c] = "extend" THEN call[c].pet ELSE call[c].sn

\* The connections that the next statement of c has to wait for.
Blockers(c) ==
    {d \in Connections \ {c} :
        \/ /\ pc[c] \in {"move in", "move out", "extend", "decrement", "purge", "reset", "remove"}
           /\ lock[d][Target(c)] # "none"
        \/ pc[c] \in {"read", "look"} /\ lock[d][Target(c)] = "exclusive"
        \/ pc[c] = "select" /\ table[d] = "exclusive"
        \/ pc[c] \in {"insert", "delete", "sweep"} /\ table[d] # "none"}

At(c, statement) == pc[c] = statement /\ Blockers(c) = {}

Goto(c, statement) == pc' = [pc EXCEPT ![c] = statement]

\* A statement of c writes the row of s.  Inside a transaction it keeps the lock, and what an
\* undo restores.
Write(c, s, new) ==
    /\ row' = [row EXCEPT ![s] = new]
    /\ IF depth'[c] > 0
       THEN /\ lock' = [lock EXCEPT ![c][s] = "exclusive"]
            /\ image' = IF lock[c][s] = "exclusive" THEN image
                        ELSE [image EXCEPT ![c][s] = row[s]]
       ELSE UNCHANGED <<lock, image>>

\* A statement of c finds no row to write, and inside a transaction locks the key.
Miss(c, s) ==
    /\ lock' = IF depth'[c] > 0 /\ lock[c][s] = "none"
               THEN [lock EXCEPT ![c][s] = "update"] ELSE lock
    /\ UNCHANGED <<row, image>>

\* The procedure ends.
End(c) ==
    /\ Goto(c, "idle")
    /\ call' = [call EXCEPT ![c] = NoCall]

\* It returns 0.
Return(c) ==
    /\ End(c)
    /\ unsettled' = IF depth'[c] > 0 THEN [unsettled EXCEPT ![c] = @ + 1] ELSE unsettled

\* A procedure is called.
Invoke(c, op, s, char, pet, first) ==
    /\ pc[c] = "idle"
    /\ calls < MaxCalls
    /\ calls' = calls + 1
    /\ call' = [call EXCEPT ![c] = [op |-> op, sn |-> s, char |-> char, pet |-> pet]]
    /\ Goto(c, first)
    /\ UNCHANGED <<tables, depth, history>>

-----------------------------------------------------------------------------
(* MoveCashItemLtoS and MoveCashItemStoL *)

Begin(c) == depth' = [depth EXCEPT ![c] = @ + 1]

\* The items that a procedure decrements at this moment.
InUse(s) == \E c \in Connections : pc[c] \in {"read", "purge"} /\ call[c].sn = s

\* The UPDATE, or return(1) without a ROLLBACK.
Move(c, found, owner, following) ==
    LET s == call[c].sn
    IN  /\ Begin(c)
        /\ IF found
           THEN /\ Write(c, s, [row[s] EXCEPT !.char = owner])
                /\ stranded' = IF InUse(s) THEN stranded \cup {s} ELSE stranded
                /\ Goto(c, following)
                /\ UNCHANGED <<call, leaks>>
           ELSE /\ Miss(c, s)
                /\ leaks' = leaks \cup {c}
                /\ End(c)
                /\ UNCHANGED stranded
        /\ UNCHANGED <<table, unsettled, overtaken, calls>>

MoveCashItemLtoS(c) ==
    /\ At(c, "move in")
    /\ Move(c, row[call[c].sn].here, call[c].char, "select")

MoveCashItemStoL(c) ==
    /\ At(c, "move out")
    /\ Move(c, row[call[c].sn].here /\ row[call[c].sn].char = call[c].char, 0, "delete")

Take(c, mode) ==
    table' = IF depth[c] > 0 /\ table[c] # "exclusive" THEN [table EXCEPT ![c] = mode] ELSE table

\* Mutant of NeedsBundle: the bundles that exist are not counted.
NeedsBundleAnew(s) == Kind[s] = "bundle"

NeedsBundle(s) == row[s].bundles = 0 /\ Kind[s] = "bundle"

SelectBundle(c) ==
    /\ At(c, "select")
    /\ Take(c, "shared")
    /\ Goto(c, IF NeedsBundle(call[c].sn) THEN "insert" ELSE "commit")
    /\ UNCHANGED <<row, lock, image, depth, call, history, calls>>

SetBundles(c, n) ==
    /\ UNCHANGED depth
    /\ Take(c, "exclusive")
    /\ Write(c, call[c].sn, [row[call[c].sn] EXCEPT !.bundles = n])
    /\ UNCHANGED <<leaks, overtaken, stranded, calls>>

InsertBundle(c) ==
    /\ At(c, "insert")
    /\ SetBundles(c, row[call[c].sn].bundles + 1)
    /\ Goto(c, "commit")
    /\ UNCHANGED <<call, unsettled>>

\* Mutant of DeleteBundle: the procedure returns before its COMMIT.
DeleteBundleReturns(c) ==
    /\ At(c, "delete")
    /\ SetBundles(c, 0)
    /\ Return(c)

DeleteBundle(c) ==
    /\ At(c, "delete")
    /\ SetBundles(c, 0)
    /\ Goto(c, "commit")
    /\ UNCHANGED <<call, unsettled>>

\* What the end of the outermost transaction of c lets go.
Release(c) ==
    /\ lock' = [lock EXCEPT ![c] = Unlocked]
    /\ image' = [image EXCEPT ![c] = Unwritten]
    /\ table' = [table EXCEPT ![c] = "none"]

\* Mutant of Commit: a move into the locker returns without it.
CommitMovesIn(c) ==
    /\ At(c, "commit")
    /\ IF call[c].op = "LtoS" /\ depth[c] = 1 THEN Release(c) ELSE UNCHANGED <<lock, image, table>>
    /\ depth' = IF call[c].op = "LtoS" THEN [depth EXCEPT ![c] = @ - 1] ELSE depth
    /\ Return(c)
    /\ UNCHANGED <<row, leaks, overtaken, stranded, calls>>

\* Only the outermost COMMIT does anything.
Commit(c) ==
    /\ At(c, "commit")
    /\ IF depth[c] = 1 THEN Release(c) ELSE UNCHANGED <<lock, image, table>>
    /\ depth' = [depth EXCEPT ![c] = @ - 1]
    /\ Return(c)
    /\ UNCHANGED <<row, leaks, overtaken, stranded, calls>>

-----------------------------------------------------------------------------
(* UseCashItem, and StatChange and SkillChange, which begin like it *)

UseFrame == UNCHANGED <<table, depth, leaks, overtaken, stranded, calls>>

\* UseCashItem wants a number of at least 1; the others want the item in the inventory.
Usable(c, s) ==
    row[s].here /\ (IF call[c].op = "change" THEN row[s].char = call[c].char
                                            ELSE row[s].number >= 1)

Decrement(c) ==
    LET s == call[c].sn
    IN  /\ At(c, "decrement")
        /\ UNCHANGED depth
        /\ IF Usable(c, s) THEN Write(c, s, [row[s] EXCEPT !.number = @ - 1]) ELSE Miss(c, s)
        /\ Goto(c, "read")
        /\ UNCHANGED <<call, unsettled>>
        /\ UseFrame

\* Mutant of UsedUp: an item is used up below zero.
UsedUpBelow(s) == row[s].here /\ row[s].number < 0

\* What the procedure reads; without a row the number stays as it was, and nothing is deleted.
UsedUp(s) == row[s].here /\ row[s].number <= 0

Read(c) ==
    /\ At(c, "read")
    /\ UNCHANGED depth
    /\ \/ UsedUp(call[c].sn) /\ Goto(c, "purge") /\ UNCHANGED <<call, unsettled>>
       \/ ~UsedUp(call[c].sn) /\ Return(c)
    /\ UNCHANGED <<row, lock, image>>
    /\ UseFrame

\* UseCashItem asks for the number 0 again, the others for the character.
Purged(c, s) ==
    row[s].here /\ (IF call[c].op = "change" THEN row[s].char = call[c].char
                                            ELSE row[s].number = 0)

Purge(c) ==
    LET s == call[c].sn
    IN  /\ At(c, "purge")
        /\ UNCHANGED depth
        /\ IF Purged(c, s) THEN Write(c, s, [row[s] EXCEPT !.here = FALSE]) ELSE Miss(c, s)
        /\ Return(c)
        /\ UseFrame

-----------------------------------------------------------------------------
(* SetPetLife and ExpireCashItem *)

\* The lookups that a new date of a pet overtakes.
Overtake(c, s) ==
    overtaken' = (overtaken \cup {d \in Connections : pc[d] = "reset" /\ call[d].sn = s}) \ {c}

\* The pet is renewed, whatever item pays for it; then the item is used.
SetPetLife(c) ==
    LET s == call[c].pet
    IN  /\ At(c, "extend")
        /\ UNCHANGED depth
        /\ IF row[s].here THEN Write(c, s, [row[s] EXCEPT !.expired = FALSE]) ELSE Miss(c, s)
        /\ Overtake(c, s)
        /\ Goto(c, "decrement")
        /\ UNCHANGED <<table, call, leaks, unsettled, stranded, calls>>

\* Mutant of Expired: the date is left out of the lookup.
ExpiredAnyway(s) == row[s].here

Expired(s) == row[s].here /\ row[s].expired

Look(c) ==
    LET s == call[c].sn
    IN  /\ At(c, "look")
        /\ UNCHANGED depth
        /\ IF Expired(s)
           THEN /\ Goto(c, IF Kind[s] = "pet" THEN "reset" ELSE "remove")
                /\ UNCHANGED <<call, unsettled>>
           ELSE Return(c)
        /\ UNCHANGED <<tables, leaks, overtaken, stranded, calls>>

\* The date is not asked for again, and becomes one of 2079.
Reset(c) ==
    LET s == call[c].sn
    IN  /\ At(c, "reset")
        /\ UNCHANGED depth
        /\ IF row[s].here THEN Write(c, s, [row[s] EXCEPT !.char = 0, !.expired = FALSE])
                          ELSE Miss(c, s)
        /\ Overtake(c, s)
        /\ stranded' = IF InUse(s) THEN stranded \cup {s} ELSE stranded
        /\ Return(c)
        /\ UNCHANGED <<table, leaks, calls>>

Remove(c) ==
    LET s == call[c].sn
    IN  /\ At(c, "remove")
        /\ UNCHANGED depth
        /\ IF row[s].here /\ row[s].expired THEN Write(c, s, [row[s] EXCEPT !.here = FALSE])
                                            ELSE Miss(c, s)
        /\ Goto(c, "sweep")
        /\ UNCHANGED <<call, unsettled>>
        /\ UseFrame

Sweep(c) ==
    /\ At(c, "sweep")
    /\ SetBundles(c, 0)
    /\ Return(c)

-----------------------------------------------------------------------------
(* The end of a connection, and of a deadlock (external) *)

\* What c has not committed is undone, and its procedure ends.
Undo(c) ==
    /\ row' = [s \in SNs |-> IF lock[c][s] = "exclusive" THEN image[c][s] ELSE row[s]]
    /\ Release(c)
    /\ depth' = [depth EXCEPT ![c] = 0]
    /\ leaks' = leaks \ {c}
    /\ unsettled' = [unsettled EXCEPT ![c] = 0]
    /\ stranded' = IF pc[c] \in {"read", "purge"} THEN stranded \cup {call[c].sn} ELSE stranded
    /\ overtaken' = overtaken \ {c}
    /\ End(c)
    /\ UNCHANGED calls

\* A server dies or its connection breaks.
Disconnect(c) ==
    /\ pc[c] # "idle" \/ depth[c] > 0
    /\ Undo(c)

\* Connections that wait for each other in a circle from c to c.
Deadlocked(c) ==
    \E n \in 1 .. Cardinality(Connections) : \E f \in [0 .. n -> Connections] :
        /\ f[0] = c /\ f[n] = c
        /\ \A i \in 0 .. n - 1 : f[i + 1] \in Blockers(f[i])

\* SQL Server breaks the circle at one of its members.
Victim(c) ==
    /\ Deadlocked(c)
    /\ Undo(c)

-----------------------------------------------------------------------------

Request(c) ==
    \/ \E s \in SNs, char \in Characters : \/ Invoke(c, "LtoS", s, char, s, "move in")
                                           \/ Invoke(c, "StoL", s, char, s, "move out")
    \/ \E s \in SNs : Kind[s] # "equip" /\ Invoke(c, "use", s, 0, s, "decrement")
    \/ \E s \in SNs, char \in Characters :
           Kind[s] = "bundle" /\ Invoke(c, "change", s, char, s, "decrement")
    \/ \E s \in SNs : Invoke(c, "expire", s, 0, s, "look")
    \/ \E s, pet \in SNs : /\ Kind[s] = "bundle" /\ Kind[pet] = "pet"
                           /\ Invoke(c, "renew", s, 0, pet, "extend")

Execute(c) ==
    \/ MoveCashItemLtoS(c)
    \/ MoveCashItemStoL(c)
    \/ SelectBundle(c)
    \/ InsertBundle(c)
    \/ DeleteBundle(c)
    \/ Commit(c)
    \/ Decrement(c)
    \/ Read(c)
    \/ Purge(c)
    \/ SetPetLife(c)
    \/ Look(c)
    \/ Reset(c)
    \/ Remove(c)
    \/ Sweep(c)

Next ==
    \E c \in Connections : Request(c) \/ Execute(c) \/ Disconnect(c) \/ Victim(c)

\* The database executes what waits for nobody, and breaks deadlocks.
Fairness == \A c \in Connections : WF_vars(Execute(c)) /\ WF_vars(Victim(c))

Spec == Init /\ [][Next]_vars /\ Fairness

-----------------------------------------------------------------------------
(* Properties *)

\* An item has at most one bundle, and none if it is a pet or equipment.
BundlesBounded ==
    \A s \in SNs : row[s].bundles <= (IF Kind[s] = "bundle" THEN 1 ELSE 0)

\* The bundle of an item comes and goes with the moves: an item in an inventory has one, an
\* item in the locker has none, but while the move is under way.
BundlesFollowMoves ==
    \A s \in SNs :
        row[s].here /\ Kind[s] = "bundle" =>
            \/ (row[s].bundles = 1) <=> (row[s].char # 0)
            \/ \E c \in Connections :
                   pc[c] \in {"select", "insert", "delete"} /\ call[c].sn = s

\* An item without any use left is gone as soon as nobody is using it, unless the use was cut
\* off or a move hid the item from the procedure that was to delete it.
UsedUpItemsGo ==
    \A s \in SNs \ stranded : row[s].here /\ row[s].number <= 0 => InUse(s)

\* What the procedures leave in ItemLocker and CashItemBundle fits together, whatever was
\* undone in between.
ItemsConsistent == BundlesBounded /\ BundlesFollowMoves /\ UsedUpItemsGo

\* Nothing a procedure answered with 0 can still be undone, unless a move returned 1 on the
\* same connection before.
AnsweredWorkLasts == \A c \in Connections : unsettled[c] > 0 => c \in leaks

\* ExpireCashItem takes nothing whose date has not passed, except a pet that got
\* another date, by SetPetLife or another ExpireCashItem, after it had looked.
ExpiryTakesOnlyExpired ==
    [][\A c \in Connections :
          LET s == call[c].sn
          IN  /\ pc[c] \in {"reset", "remove"} /\ pc'[c] # pc[c] /\ depth' = depth
              /\ row'[s] # row[s]
              => row[s].expired \/ (Kind[s] = "pet" /\ c \in overtaken)]_vars

\* Every procedure returns, although moves deadlock on CashItemBundle, unless a connection
\* sits in a transaction that a move did not end.
CallsReturn == \A c \in Connections : pc[c] # "idle" ~> (pc[c] = "idle" \/ leaks # {})
=============================================================================
