--------------------------- MODULE CharacterLife ---------------------------
(***************************************************************************)
(* CreateNewCharacter and DeleteCharacter of GameWorld with what the game  *)
(* server saves in between, a statement at a time.  None of them opens a   *)
(* transaction, and none of them looks at an error: a statement that fails *)
(* is passed over, a connection that breaks leaves what was done.          *)
(*                                                                         *)
(* Of the tables with a row per character those matter that a creation     *)
(* fills; "belongings" stands for the others that a deletion empties.      *)
(* Only FuncKeyMapped, Trunk and the belongings may hold a row twice.      *)
(***************************************************************************)
EXTENDS Integers

CONSTANTS
    Connections,  \* of the servers to the database
    Accounts,
    Names,
    Nobody,
    MaxCalls      \* bound on the procedures called

Ids == 1 .. MaxCalls
Null == 0

Equipment == {"shoes", "bottom", "top", "weapon"}
Created == Equipment \cup {"sizes", "keys"}
Parts == Created \cup {"belongings"}

ASSUME NobodyAssumption == Nobody \notin Accounts \cup Names
ASSUME MaxCallsAssumption == MaxCalls \in Nat

VARIABLES
    owner,    \* CharacterID -> AccountID of its row in Character, Nobody if there is none
    name,     \* CharacterID -> CharacterName
    rows,     \* CharacterID -> part -> number of its rows
    trunk,    \* AccountID -> number of its rows in Trunk
    nextId,   \* the identity of the next row
    pc,       \* connection -> the statement it is about to execute
    call,     \* connection -> parameters of the procedure, and @NewCharacterID
    mishaps,  \* history: CharacterID -> what has happened to it that no procedure expects
    rivals,   \* history: accounts of which two creations looked for the trunk together
    calls     \* number of procedures called

tables == <<owner, name, rows, trunk, nextId>>
vars == <<tables, pc, call, mishaps, rivals, calls>>

Statements == {"idle", "character"} \cup Equipment
              \cup {"sizes", "new sizes", "keys", "new keys", "trunk", "new trunk"}
              \cup {"unlist", "unequip", "unequip again", "strip", "unmap", "unsize"}

Call == [op : {"none", "create", "delete", "sizes", "keys"}, account : Accounts \cup {Nobody},
         id : Ids \cup {Null}, name : Names \cup {Nobody}]
NoCall == [op |-> "none", account |-> Nobody, id |-> Null, name |-> Nobody]

\* cut: a call broke off.  refused: its name was taken.  overlap: two calls about it ran
\* together.  foreign: another account deleted it.  late: it was saved after its deletion.
Mishaps == {"cut", "refused", "overlap", "foreign", "late"}

TypeOK ==
    /\ owner \in [Ids -> Accounts \cup {Nobody}]
    /\ name \in [Ids -> Names \cup {Nobody}]
    /\ rows \in [Ids -> [Parts -> Nat]]
    /\ trunk \in [Accounts -> Nat]
    /\ nextId \in Nat \ {0}
    /\ pc \in [Connections -> Statements]
    /\ call \in [Connections -> Call]
    /\ mishaps \in [Ids -> SUBSET Mishaps]
    /\ rivals \subseteq Accounts
    /\ calls \in Nat

Init ==
    /\ owner = [i \in Ids |-> Nobody]
    /\ name = [i \in Ids |-> Nobody]
    /\ rows = [i \in Ids |-> [p \in Parts |-> 0]]
    /\ trunk = [a \in Accounts |-> 0]
    /\ nextId = 1
    /\ pc = [c \in Connections |-> "idle"]
    /\ call = [c \in Connections |-> NoCall]
    /\ mishaps = [i \in Ids |-> {}]
    /\ rivals = {}
    /\ calls = 0

Goto(c, statement) == pc' = [pc EXCEPT ![c] = statement]

End(c) ==
    /\ Goto(c, "idle")
    /\ call' = [call EXCEPT ![c] = NoCall]

Note(i, what) == mishaps' = [mishaps EXCEPT ![i] = @ \cup what]

-----------------------------------------------------------------------------
(* Servers *)

Invoke(c, new, first) ==
    /\ pc[c] = "idle"
    /\ calls < MaxCalls
    /\ calls' = calls + 1
    /\ call' = [call EXCEPT ![c] = new]
    /\ Goto(c, first)
    /\ UNCHANGED <<tables, rivals>>

\* A call about a character that has been created, or is being created.
InvokeAbout(c, op, a, i, first) ==
    /\ i < nextId
    /\ Invoke(c, [op |-> op, account |-> a, id |-> i, name |-> Nobody], first)
    /\ Note(i, (IF \E d \in Connections : call[d].id = i THEN {"overlap"} ELSE {})
               \cup (IF op # "delete" /\ owner[i] = Nobody THEN {"late"} ELSE {}))

Request(c) ==
    \/ \E a \in Accounts, n \in Names :
           /\ Invoke(c, [op |-> "create", account |-> a, id |-> Null, name |-> n], "character")
           /\ UNCHANGED mishaps
    \/ \E a \in Accounts, i \in Ids : InvokeAbout(c, "delete", a, i, "unlist")
    \/ \E i \in Ids, op \in {"sizes", "keys"} : InvokeAbout(c, op, Nobody, i, op)

\* The game server stores what a character has come by (external).
Play(i) ==
    /\ owner[i] # Nobody
    /\ rows[i]["belongings"] = 0
    /\ rows' = [rows EXCEPT ![i]["belongings"] = 1]
    /\ UNCHANGED <<owner, name, trunk, nextId, pc, call, mishaps, rivals, calls>>

-----------------------------------------------------------------------------
(* CreateNewCharacter, InventorySize_Set, SetFuncKeyMapped *)

\* CHARACTER_UNIQUE_NAME fails the statement only; @NewCharacterID is NULL then, or
\* the identity that was used up (external).  A call uses up one, so Ids has always another.
InsertCharacter(c) ==
    LET n == call[c].name
    IN  /\ pc[c] = "character" /\ nextId \in Ids
        /\ nextId' = nextId + 1
        /\ IF \E i \in Ids : name[i] = n
           THEN /\ \E i \in {Null, nextId} : call' = [call EXCEPT ![c].id = i]
                /\ Note(nextId, {"refused"})
                /\ UNCHANGED <<owner, name>>
           ELSE /\ owner' = [owner EXCEPT ![nextId] = call[c].account]
                /\ name' = [name EXCEPT ![nextId] = n]
                /\ call' = [call EXCEPT ![c].id = nextId]
                /\ UNCHANGED mishaps
        /\ Goto(c, "shoes")
        /\ UNCHANGED <<rows, trunk, rivals, calls>>

\* No table takes a row without CharacterID.
Add(i, part, n) == rows' = IF i = Null THEN rows ELSE [rows EXCEPT ![i][part] = n]
Has(i, part) == i # Null /\ rows[i][part] > 0

Following(statement) ==
    CASE statement = "shoes" -> "bottom"
      [] statement = "bottom" -> "top"
      [] statement = "top" -> "weapon"
      [] statement = "weapon" -> "sizes"

InsertEquipment(c) ==
    /\ pc[c] \in Equipment
    /\ Add(call[c].id, pc[c], 1)
    /\ Goto(c, Following(pc[c]))
    /\ UNCHANGED <<owner, name, trunk, nextId, call, mishaps, rivals, calls>>

\* What comes behind InventorySize_Set and SetFuncKeyMapped, which a creation calls or contains.
Proceed(c, statement) ==
    IF call[c].op = "create" THEN Goto(c, statement) /\ UNCHANGED call ELSE End(c)

\* Mutant of UpdateSizes: every character is expected to have its row.
UpdateSizesOnly(c) ==
    /\ pc[c] = "sizes"
    /\ Proceed(c, "keys")
    /\ UNCHANGED <<tables, mishaps, rivals, calls>>

UpdateSizes(c) ==
    /\ pc[c] = "sizes"
    /\ \/ Has(call[c].id, "sizes") /\ Proceed(c, "keys")
       \/ ~Has(call[c].id, "sizes") /\ Goto(c, "new sizes") /\ UNCHANGED call
    /\ UNCHANGED <<tables, mishaps, rivals, calls>>

\* ItemSlot_Size has a key: a second row is refused.
InsertSizes(c) ==
    /\ pc[c] = "new sizes"
    /\ Add(call[c].id, "sizes", 1)
    /\ Proceed(c, "keys")
    /\ UNCHANGED <<owner, name, trunk, nextId, mishaps, rivals, calls>>

LookForKeys(c) ==
    /\ pc[c] = "keys"
    /\ \/ Has(call[c].id, "keys") /\ Proceed(c, "trunk")
       \/ ~Has(call[c].id, "keys") /\ Goto(c, "new keys") /\ UNCHANGED call
    /\ UNCHANGED <<tables, mishaps, rivals, calls>>

InsertKeys(c) ==
    /\ pc[c] = "new keys"
    /\ Add(call[c].id, "keys", IF call[c].id = Null THEN 0 ELSE rows[call[c].id]["keys"] + 1)
    /\ Proceed(c, "trunk")
    /\ UNCHANGED <<owner, name, trunk, nextId, mishaps, rivals, calls>>

\* Mutant of NeedsTrunk: off by one.
NeedsTrunkAgain(a) == trunk[a] <= 1

NeedsTrunk(a) == trunk[a] < 1

LookForTrunk(c) ==
    LET a == call[c].account
    IN  /\ pc[c] = "trunk"
        /\ \/ NeedsTrunk(a) /\ Goto(c, "new trunk") /\ UNCHANGED call
           \/ ~NeedsTrunk(a) /\ End(c)
        /\ rivals' = IF \E d \in Connections : pc[d] = "new trunk" /\ call[d].account = a
                     THEN rivals \cup {a} ELSE rivals
        /\ UNCHANGED <<tables, mishaps, calls>>

\* Trunk has no key.
InsertTrunk(c) ==
    /\ pc[c] = "new trunk"
    /\ trunk' = [trunk EXCEPT ![call[c].account] = @ + 1]
    /\ End(c)
    /\ UNCHANGED <<owner, name, rows, nextId, mishaps, rivals, calls>>

-----------------------------------------------------------------------------
(* DeleteCharacter *)

\* @@ROWCOUNT is never below 0: the procedure goes on whatever it has found.
Unlist(c) ==
    LET i == call[c].id
    IN  /\ pc[c] = "unlist"
        /\ IF owner[i] = call[c].account
           THEN /\ owner' = [owner EXCEPT ![i] = Nobody]
                /\ name' = [name EXCEPT ![i] = Nobody]
                /\ UNCHANGED mishaps
           ELSE /\ Note(i, IF owner[i] # Nobody THEN {"foreign"} ELSE {})
                /\ UNCHANGED <<owner, name>>
        /\ Goto(c, "unequip")
        /\ UNCHANGED <<rows, trunk, nextId, call, rivals, calls>>

Clear(i, parts) == rows' = [rows EXCEPT ![i] = [p \in Parts |-> IF p \in parts THEN 0 ELSE @[p]]]

\* Every ItemSlot table is emptied twice.
Unequip(c) ==
    /\ pc[c] \in {"unequip", "unequip again"}
    /\ Clear(call[c].id, Equipment)
    /\ Goto(c, IF pc[c] = "unequip" THEN "unequip again" ELSE "strip")
    /\ UNCHANGED <<owner, name, trunk, nextId, call, mishaps, rivals, calls>>

\* Mutant of Strip: the tables that the game server fills are forgotten.
StripNothing(c) ==
    /\ pc[c] = "strip"
    /\ Goto(c, "unmap")
    /\ UNCHANGED <<owner, name, rows, trunk, nextId, call, mishaps, rivals, calls>>

Strip(c) ==
    /\ pc[c] = "strip"
    /\ Clear(call[c].id, {"belongings"})
    /\ Goto(c, "unmap")
    /\ UNCHANGED <<owner, name, trunk, nextId, call, mishaps, rivals, calls>>

\* Mutant of Unmap: FuncKeyMapped is forgotten.
UnmapNothing(c) ==
    /\ pc[c] = "unmap"
    /\ Goto(c, "unsize")
    /\ UNCHANGED <<owner, name, rows, trunk, nextId, call, mishaps, rivals, calls>>

Unmap(c) ==
    /\ pc[c] = "unmap"
    /\ Clear(call[c].id, {"keys"})
    /\ Goto(c, "unsize")
    /\ UNCHANGED <<owner, name, trunk, nextId, call, mishaps, rivals, calls>>

Unsize(c) ==
    /\ pc[c] = "unsize"
    /\ Clear(call[c].id, {"sizes"})
    /\ End(c)
    /\ UNCHANGED <<owner, name, trunk, nextId, mishaps, rivals, calls>>

-----------------------------------------------------------------------------

\* A server dies or its connection breaks.
Break(c) ==
    /\ pc[c] # "idle"
    /\ IF call[c].id = Null THEN UNCHANGED mishaps ELSE Note(call[c].id, {"cut"})
    /\ End(c)
    /\ UNCHANGED <<tables, rivals, calls>>

Execute(c) ==
    \/ InsertCharacter(c)
    \/ InsertEquipment(c)
    \/ UpdateSizes(c)
    \/ InsertSizes(c)
    \/ LookForKeys(c)
    \/ InsertKeys(c)
    \/ LookForTrunk(c)
    \/ InsertTrunk(c)
    \/ Unlist(c)
    \/ Unequip(c)
    \/ Strip(c)
    \/ Unmap(c)
    \/ Unsize(c)

Next ==
    \/ \E c \in Connections : Request(c) \/ Execute(c) \/ Break(c)
    \/ \E i \in Ids : Play(i)

Spec == Init /\ [][Next]_vars

-----------------------------------------------------------------------------
(* Properties *)

Underway(i) == \E c \in Connections : call[c].id = i

\* A character that nobody is working on has every row that a creation makes, each once, and
\* its account has a trunk, unless a call about it broke off, met another one, or was a deletion
\* by an account it does not belong to.
CreatedWhole ==
    \A i \in Ids :
        owner[i] # Nobody /\ ~Underway(i) /\ mishaps[i] \cap {"cut", "overlap", "foreign"} = {}
            => (\A p \in Created : rows[i][p] = 1) /\ trunk[owner[i]] > 0

\* An account has one trunk, unless two creations looked for it together: no key forbids a
\* second row, and every procedure about the trunk would charge and enlarge both.
OneTrunk == \A a \in Accounts : trunk[a] > 1 => a \in rivals

\* Nothing is left of a character that nobody works on and that is not listed, unless its name
\* was refused, a call broke off or met another one, or it was saved after its deletion.
NothingLeftBehind ==
    \A i \in Ids :
        owner[i] = Nobody /\ ~Underway(i) /\ mishaps[i] = {} => \A p \in Parts : rows[i][p] = 0

\* A character has all of its rows or none.
WholeOrNothing == CreatedWhole /\ NothingLeftBehind

\* A deletion that gets to its end and meets no other call leaves nothing, whatever earlier
\* calls that broke off had left, and although the character is not listed any longer.  Only
\* a character that stays listed may go on collecting belongings.
DeletionCleans ==
    [][\A c \in Connections :
          LET i == call[c].id
          IN  pc[c] = "unsize" /\ pc'[c] = "idle" /\ rows'[i]["sizes"] = 0
              /\ "overlap" \notin mishaps[i]
              => \A p \in IF owner[i] = Nobody THEN Parts ELSE Created : rows'[i][p] = 0]_vars
=============================================================================
