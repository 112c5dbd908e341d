-------------------------- MODULE GameWorldProofs ---------------------------
(***************************************************************************)
(* Safety of the procedures of GameWorld for any connections, accounts,    *)
(* names, guilds and givers, and any number of calls.  A character whose   *)
(* calls never overlap has at most one call under way, and how far that has*)
(* come tells which of its rows are there.  The count of an entry of the   *)
(* board is explained by its comments and the call that is changing them.  A*)
(* limit of fame is kept by the rows a call has seen until it inserts.     *)
(***************************************************************************)
EXTENDS CharacterLife, GuildBoard, Fame,
        FiniteSetTheorems, SequenceTheorems, WellFoundedInduction, TLAPS

-----------------------------------------------------------------------------
(* CharacterLife: which call stands before which statement *)

Creating == {"character"} \cup Equipment
            \cup {"sizes", "new sizes", "keys", "new keys", "trunk", "new trunk"}
Deleting == {"unlist", "unequip", "unequip again", "strip", "unmap", "unsize"}

\* Which procedure stands before which statement, and with which parameters.
CallOK(c) ==
    /\ pc[c] = "idle" <=> call[c].op = "none"
    /\ call[c].op = "none" => call[c].id = Null
    /\ call[c].op = "create" => /\ pc[c] \in Creating
                                /\ call[c].account \in Accounts
                                /\ call[c].name \in Names
                                /\ pc[c] = "character" => call[c].id = Null
    /\ call[c].op = "delete" => /\ pc[c] \in Deleting
                                /\ call[c].account \in Accounts
                                /\ call[c].id \in Ids
    /\ call[c].op = "sizes" => pc[c] \in {"sizes", "new sizes"} /\ call[c].id \in Ids
    /\ call[c].op = "keys" => pc[c] \in {"keys", "new keys"} /\ call[c].id \in Ids
    /\ call[c].id < nextId

CallInv == \A c \in Connections : CallOK(c)

\* Nothing is known of an identity before its time.
FreshInv ==
    \A i \in Ids : i >= nextId =>
        owner[i] = Nobody /\ mishaps[i] = {} /\ \A p \in Parts : rows[i][p] = 0

Base == TypeOK /\ CallInv /\ FreshInv

\* One account, one trunk, and one creation that is about to insert it.
ToTrunk(c, a) == pc[c] = "new trunk" /\ call[c].account = a

TrunkInv ==
    /\ \A a \in Accounts : a \in rivals \/ trunk[a] = 0 \/ trunk[a] = 1
    /\ \A a \in Accounts : a \in rivals \/ trunk[a] = 0 \/ \A c \in Connections : ~ToTrunk(c, a)
    /\ \A a \in Accounts : \/ a \in rivals
                          \/ \A c, d \in Connections : ToTrunk(c, a) /\ ToTrunk(d, a) => c = d

\* The rows of a new character that are there before a statement of its creation.
Before(statement) ==
    CASE statement = "shoes" -> {}
      [] statement = "bottom" -> {"shoes"}
      [] statement = "top" -> {"shoes", "bottom"}
      [] statement = "weapon" -> {"shoes", "bottom", "top"}
      [] statement \in {"sizes", "new sizes"} -> Equipment
      [] statement \in {"keys", "new keys"} -> Equipment \cup {"sizes"}
      [] statement \in {"trunk", "new trunk"} -> Created

Progress(i, statement) ==
    /\ statement \in Creating \ {"character"}
    /\ \A p \in Created : rows[i][p] = IF p \in Before(statement) THEN 1 ELSE 0

\* The rows of a deleted character that are gone before a statement of its deletion.
Gone(statement) ==
    CASE statement \in {"unlist", "unequip"} -> {}
      [] statement \in {"unequip again", "strip"} -> Equipment
      [] statement = "unmap" -> Equipment \cup {"belongings"}
      [] statement = "unsize" -> Equipment \cup {"belongings", "keys"}

Cleared(i, statement) ==
    \A p \in Gone(statement) : rows[i][p] = 0 \/ (p = "belongings" /\ owner[i] # Nobody)

Whole(i) == (\A p \in Created : rows[i][p] = 1) /\ trunk[owner[i]] > 0
Empty(i) == \A p \in Parts : rows[i][p] = 0

\* A character on which c alone works.
With(i, c) ==
    /\ call[c].op = "delete" => Cleared(i, pc[c])
    /\ owner[i] = Nobody /\ mishaps[i] = {} =>
           call[c].op = "delete" /\ (pc[c] = "unlist" => Empty(i))
    /\ owner[i] # Nobody /\ mishaps[i] \cap {"cut", "foreign"} = {} =>
           \/ call[c].op = "create" /\ call[c].account = owner[i] /\ Progress(i, pc[c])
           \/ call[c].op # "create" /\ pc[c] \in {"unlist", "sizes", "keys"} /\ Whole(i)

\* A character on which nobody works.
Without(i) ==
    /\ owner[i] = Nobody /\ mishaps[i] = {} => Empty(i)
    /\ owner[i] # Nobody /\ mishaps[i] \cap {"cut", "foreign"} = {} => Whole(i)

Story(i) ==
    "overlap" \notin mishaps[i] =>
        /\ \A c, d \in Connections : call[c].id = i /\ call[d].id = i => c = d
        /\ \A c \in Connections : call[c].id = i => With(i, c)
        /\ ~Underway(i) => Without(i)

StoryInv == \A i \in Ids : Story(i)

\* A step of c that leaves the other calls, and the characters they are about, alone.
Others(c) == \A d \in Connections \ {c} : pc'[d] = pc[d] /\ call'[d] = call[d]

Elsewhere(i) ==
    \A j \in Ids \ {i} : rows'[j] = rows[j] /\ owner'[j] = owner[j] /\ mishaps'[j] = mishaps[j]

Local(c) ==
    /\ Others(c)
    /\ Elsewhere(call[c].id)
    /\ call'[c] = call[c] \/ call'[c] = NoCall
    /\ nextId' = nextId
    /\ \A a \in Accounts : trunk'[a] >= trunk[a]
    /\ \A i \in Ids : mishaps[i] \subseteq mishaps'[i]

-----------------------------------------------------------------------------
(* Types *)

LEMMA CallTypes ==
    ASSUME Base, NEW c \in Connections
    PROVE  /\ call[c] \in Call /\ call[c].id \in Ids \cup {Null}
           /\ pc[c] \in Statements
           /\ call[c].id # Null => call[c].id \in Ids /\ call[c].id < nextId
           /\ NoCall \in Call
BY DEF Base, TypeOK, Call, CallInv, CallOK, NoCall

LEMMA GotoEffect ==
    ASSUME TypeOK, NEW c \in Connections, NEW statement \in Statements, Goto(c, statement)
    PROVE  /\ pc' \in [Connections -> Statements]
           /\ pc'[c] = statement
           /\ \A d \in Connections \ {c} : pc'[d] = pc[d]
BY DEF TypeOK, Goto

LEMMA EndEffect ==
    ASSUME TypeOK, NEW c \in Connections, End(c)
    PROVE  /\ pc' \in [Connections -> Statements]
           /\ call' \in [Connections -> Call]
           /\ pc'[c] = "idle" /\ call'[c] = NoCall
           /\ \A d \in Connections \ {c} : pc'[d] = pc[d] /\ call'[d] = call[d]
<1>1. NoCall \in Call /\ "idle" \in Statements
  BY DEF NoCall, Call, Statements
<1> QED
  BY <1>1 DEF TypeOK, End, Goto

LEMMA NoteEffect ==
    ASSUME TypeOK, NEW i \in Ids, NEW what \in SUBSET Mishaps, Note(i, what)
    PROVE  /\ mishaps' \in [Ids -> SUBSET Mishaps]
           /\ mishaps'[i] = mishaps[i] \cup what
           /\ \A j \in Ids \ {i} : mishaps'[j] = mishaps[j]
BY DEF TypeOK, Note

LEMMA AddEffect ==
    ASSUME TypeOK, NEW i \in Ids \cup {Null}, NEW part \in Parts, NEW n \in Nat, Add(i, part, n)
    PROVE  /\ rows' \in [Ids -> [Parts -> Nat]]
           /\ \A j \in Ids \ {i} : rows'[j] = rows[j]
           /\ i \in Ids => \A p \in Parts : rows'[i][p] = IF p = part THEN n ELSE rows[i][p]
<1>1. CASE i = Null
  BY <1>1 DEF Add, TypeOK, Ids, Null
<1>2. CASE i # Null
  <2>1. i \in Ids /\ rows[i] \in [Parts -> Nat]
    BY <1>2 DEF TypeOK
  <2>2. [rows[i] EXCEPT ![part] = n] \in [Parts -> Nat]
    BY <2>1
  <2>3. rows' = [rows EXCEPT ![i] = [rows[i] EXCEPT ![part] = n]]
    BY <1>2 DEF Add
  <2> QED
    BY <2>1, <2>2, <2>3 DEF TypeOK
<1> QED
  BY <1>1, <1>2

LEMMA ClearEffect ==
    ASSUME TypeOK, NEW i \in Ids, NEW parts, Clear(i, parts)
    PROVE  /\ rows' \in [Ids -> [Parts -> Nat]]
           /\ \A p \in Parts : rows'[i][p] = IF p \in parts THEN 0 ELSE rows[i][p]
           /\ \A j \in Ids \ {i} : rows'[j] = rows[j]
<1>1. rows[i] \in [Parts -> Nat]
  BY DEF TypeOK
<1>2. [p \in Parts |-> IF p \in parts THEN 0 ELSE rows[i][p]] \in [Parts -> Nat]
  BY <1>1
<1>3. rows' = [rows EXCEPT ![i] = [p \in Parts |-> IF p \in parts THEN 0 ELSE rows[i][p]]]
  BY DEF Clear
<1> QED
  BY <1>2, <1>3 DEF TypeOK

-----------------------------------------------------------------------------
(* Statements that change at most the rows of the character they are about *)

\* Where c stands, by the statement.
LEMMA CreatesAt ==
    ASSUME Base, NEW c \in Connections, pc[c] \in Equipment \cup {"trunk", "new trunk", "character"}
    PROVE  /\ call[c].op = "create" /\ call[c].account \in Accounts /\ call[c].name \in Names
           /\ pc[c] = "character" => call[c].id = Null
BY CallTypes DEF Base, CallInv, CallOK, Equipment, Deleting, Call

LEMMA DeletesAt ==
    ASSUME Base, NEW c \in Connections, pc[c] \in Deleting
    PROVE  call[c].op = "delete" /\ call[c].account \in Accounts /\ call[c].id \in Ids
BY CallTypes DEF Base, CallInv, CallOK, Equipment, Creating, Deleting, Call

LEMMA SavesAt ==
    ASSUME Base, NEW c \in Connections, pc[c] \in {"sizes", "new sizes", "keys", "new keys"}
    PROVE  /\ call[c].op \in {"create", "sizes", "keys"}
           /\ call[c].op = "sizes" => pc[c] \in {"sizes", "new sizes"}
           /\ call[c].op = "keys" => pc[c] \in {"keys", "new keys"}
           /\ call[c].op = "create" => call[c].account \in Accounts /\ call[c].name \in Names
           /\ call[c].op # "create" => call[c].id \in Ids
BY CallTypes DEF Base, CallInv, CallOK, Equipment, Creating, Deleting, Call

LEMMA EndOK ==
    ASSUME Base, NEW c \in Connections, End(c), nextId' = nextId
    PROVE  CallOK(c)' /\ Others(c) /\ call'[c] = NoCall
<1>1. /\ pc'[c] = "idle" /\ call'[c] = NoCall
      /\ \A d \in Connections \ {c} : pc'[d] = pc[d] /\ call'[d] = call[d]
  BY EndEffect DEF Base
<1>2. nextId' \in Nat /\ nextId' > 0
  BY DEF Base, TypeOK
<1>3. NoCall.op = "none" /\ NoCall.id = 0
  BY DEF NoCall, Null
<1> QED
  BY <1>1, <1>2, <1>3 DEF CallOK, Others, Null

\* The frame of a statement that writes to one of the tables with a row per character.
LEMMA RowsLocal ==
    ASSUME Base, NEW c \in Connections,
           rows' \in [Ids -> [Parts -> Nat]],
           \A j \in Ids \ {call[c].id} : rows'[j] = rows[j],
           UNCHANGED <<owner, name, trunk, nextId, mishaps, rivals, calls>>,
           pc' \in [Connections -> Statements], call' \in [Connections -> Call],
           Others(c), call'[c] = call[c] \/ call'[c] = NoCall
    PROVE  TypeOK' /\ Local(c)
<1>1. TypeOK'
  BY DEF TypeOK, Base
<1>2. Elsewhere(call[c].id)
  BY DEF Elsewhere
<1>3. \A a \in Accounts : trunk'[a] >= trunk[a]
  BY DEF TypeOK, Base
<1> QED
  BY <1>1, <1>2, <1>3 DEF Local

LEMMA InsertEquipmentLocal ==
    ASSUME Base, NEW c \in Connections, InsertEquipment(c)
    PROVE  TypeOK' /\ CallOK(c)' /\ Local(c)
<1>1. /\ call[c].op = "create" /\ pc[c] \in Equipment /\ Add(call[c].id, pc[c], 1)
      /\ call[c].account \in Accounts /\ call[c].name \in Names
      /\ call[c].id \in Ids \cup {Null}
  BY CreatesAt, CallTypes DEF InsertEquipment
<1>2. /\ Following(pc[c]) \in Creating \ {"character"} /\ Following(pc[c]) \in Statements
      /\ pc[c] \in Parts
  BY <1>1 DEF Following, Creating, Statements, Equipment, Parts, Created
<1>3. /\ pc' \in [Connections -> Statements] /\ pc'[c] = Following(pc[c])
      /\ \A d \in Connections \ {c} : pc'[d] = pc[d]
  BY <1>2, GotoEffect DEF InsertEquipment, Base
<1>4. /\ rows' \in [Ids -> [Parts -> Nat]]
      /\ \A j \in Ids \ {call[c].id} : rows'[j] = rows[j]
  BY <1>1, <1>2, AddEffect DEF Base
<1>5. UNCHANGED <<owner, name, trunk, nextId, call, mishaps, rivals, calls>>
  BY DEF InsertEquipment
<1>7. CallOK(c)'
  BY <1>1, <1>2, <1>3, <1>5 DEF Base, CallInv, CallOK, Creating, Equipment
<1>8. Others(c) /\ call' \in [Connections -> Call]
  BY <1>3, <1>5 DEF Others, Base, TypeOK
<1> QED
  BY <1>3, <1>4, <1>5, <1>7, <1>8, RowsLocal

LEMMA ProceedEffect ==
    ASSUME Base, NEW c \in Connections, NEW statement \in Creating \ {"character"},
           pc[c] \in {"sizes", "new sizes", "keys", "new keys"}, nextId' = nextId,
           Proceed(c, statement)
    PROVE  /\ pc' \in [Connections -> Statements] /\ call' \in [Connections -> Call]
           /\ CallOK(c)' /\ Others(c)
           /\ call'[c] = call[c] \/ call'[c] = NoCall
           /\ call[c].op = "create" => call'[c] = call[c] /\ pc'[c] = statement
           /\ call[c].op # "create" => call'[c] = NoCall /\ pc'[c] = "idle"
<1>0. statement \in Statements /\ statement # "idle"
  BY DEF Creating, Statements, Equipment
<1>1. CASE call[c].op = "create"
  <2>1. Goto(c, statement) /\ call' = call
    BY <1>1 DEF Proceed
  <2>2. CallOK(c)'
    BY <1>0, <1>1, <2>1, GotoEffect DEF Base, CallInv, CallOK
  <2> QED
    BY <1>0, <1>1, <2>1, <2>2, GotoEffect DEF Base, TypeOK, Others
<1>2. CASE call[c].op # "create"
  <2>1. End(c)
    BY <1>2 DEF Proceed
  <2>2. CallOK(c)'
    BY <2>1, EndOK DEF tables
  <2> QED
    BY <1>2, <2>1, <2>2, EndEffect DEF Base, Others
<1> QED
  BY <1>1, <1>2

\* The UPDATE that finds no row: the call goes on to the INSERT.
LEMMA MissEffect ==
    ASSUME Base, NEW c \in Connections, NEW statement, nextId' = nextId,
           \/ pc[c] = "sizes" /\ statement = "new sizes"
           \/ pc[c] = "keys" /\ statement = "new keys",
           Goto(c, statement), UNCHANGED call
    PROVE  /\ pc' \in [Connections -> Statements] /\ call' \in [Connections -> Call]
           /\ CallOK(c)' /\ Others(c)
           /\ call'[c] = call[c] /\ pc'[c] = statement
<1>1. statement \in Statements /\ statement # "idle" /\ statement \in Creating \ {"character"}
  BY DEF Creating, Statements, Equipment
<1>2. /\ pc' \in [Connections -> Statements] /\ pc'[c] = statement
      /\ \A d \in Connections \ {c} : pc'[d] = pc[d]
  BY <1>1, GotoEffect DEF Base
<1>3. CallOK(c)'
  BY <1>1, <1>2, SavesAt DEF Base, CallInv, CallOK
<1> QED
  BY <1>2, <1>3 DEF Base, TypeOK, Others

LEMMA UpdateSizesLocal ==
    ASSUME Base, NEW c \in Connections, UpdateSizes(c)
    PROVE  TypeOK' /\ CallOK(c)' /\ Local(c)
<1>1. pc[c] = "sizes" /\ UNCHANGED <<tables, mishaps, rivals, calls>> /\ nextId' = nextId
  BY DEF UpdateSizes, tables
<1>2. "keys" \in Creating \ {"character"}
  BY DEF Creating
<1>3. /\ pc' \in [Connections -> Statements] /\ call' \in [Connections -> Call]
      /\ CallOK(c)' /\ Others(c) /\ (call'[c] = call[c] \/ call'[c] = NoCall)
  BY <1>1, <1>2, ProceedEffect, MissEffect DEF UpdateSizes
<1> QED
  BY <1>1, <1>3 DEF TypeOK, Base, Local, Elsewhere, tables

LEMMA LookForKeysLocal ==
    ASSUME Base, NEW c \in Connections, LookForKeys(c)
    PROVE  TypeOK' /\ CallOK(c)' /\ Local(c)
<1>1. pc[c] = "keys" /\ UNCHANGED <<tables, mishaps, rivals, calls>> /\ nextId' = nextId
  BY DEF LookForKeys, tables
<1>2. "trunk" \in Creating \ {"character"}
  BY DEF Creating
<1>3. /\ pc' \in [Connections -> Statements] /\ call' \in [Connections -> Call]
      /\ CallOK(c)' /\ Others(c) /\ (call'[c] = call[c] \/ call'[c] = NoCall)
  BY <1>1, <1>2, ProceedEffect, MissEffect DEF LookForKeys
<1> QED
  BY <1>1, <1>3 DEF TypeOK, Base, Local, Elsewhere, tables

LEMMA InsertSizesLocal ==
    ASSUME Base, NEW c \in Connections, InsertSizes(c)
    PROVE  TypeOK' /\ CallOK(c)' /\ Local(c)
<1>1. /\ pc[c] = "new sizes" /\ Add(call[c].id, "sizes", 1) /\ call[c].id \in Ids \cup {Null}
      /\ UNCHANGED <<owner, name, trunk, nextId, mishaps, rivals, calls>>
  BY CallTypes DEF InsertSizes
<1>2. "keys" \in Creating \ {"character"} /\ "sizes" \in Parts
  BY DEF Creating, Parts, Created
<1>3. /\ pc' \in [Connections -> Statements] /\ call' \in [Connections -> Call]
      /\ CallOK(c)' /\ Others(c) /\ (call'[c] = call[c] \/ call'[c] = NoCall)
  BY <1>1, <1>2, ProceedEffect DEF InsertSizes
<1>4. /\ rows' \in [Ids -> [Parts -> Nat]]
      /\ \A j \in Ids \ {call[c].id} : rows'[j] = rows[j]
  BY <1>1, <1>2, AddEffect DEF Base
<1> QED
  BY <1>1, <1>3, <1>4, RowsLocal DEF Base, TypeOK

LEMMA InsertKeysLocal ==
    ASSUME Base, NEW c \in Connections, InsertKeys(c)
    PROVE  TypeOK' /\ CallOK(c)' /\ Local(c)
<1> DEFINE i == call[c].id
           n == IF i = Null THEN 0 ELSE rows[i]["keys"] + 1
<1>1. /\ pc[c] = "new keys" /\ Add(i, "keys", n) /\ i \in Ids \cup {Null}
      /\ UNCHANGED <<owner, name, trunk, nextId, mishaps, rivals, calls>>
  BY CallTypes DEF InsertKeys
<1>2. "trunk" \in Creating \ {"character"} /\ "keys" \in Parts
  BY DEF Creating, Parts, Created
<1>3. /\ pc' \in [Connections -> Statements] /\ call' \in [Connections -> Call]
      /\ CallOK(c)' /\ Others(c) /\ (call'[c] = call[c] \/ call'[c] = NoCall)
  BY <1>1, <1>2, ProceedEffect DEF InsertKeys
<1>4. n \in Nat
  <2>1. CASE i = Null
    BY <2>1
  <2>2. CASE i # Null
    <3>1. i \in Ids
      BY <1>1, <2>2
    <3>2. rows[i] \in [Parts -> Nat]
      BY <3>1 DEF Base, TypeOK
    <3>3. rows[i]["keys"] \in Nat
      BY <1>2, <3>2
    <3> QED
      BY <2>2, <3>3
  <2> QED
    BY <2>1, <2>2
<1>5. /\ rows' \in [Ids -> [Parts -> Nat]]
      /\ \A j \in Ids \ {i} : rows'[j] = rows[j]
  BY <1>1, <1>2, <1>4, AddEffect DEF Base
<1> QED
  BY <1>1, <1>3, <1>5, RowsLocal

LEMMA LookForTrunkLocal ==
    ASSUME Base, NEW c \in Connections, LookForTrunk(c)
    PROVE  TypeOK' /\ CallOK(c)' /\ Local(c)
<1>1. /\ pc[c] = "trunk" /\ UNCHANGED <<tables, mishaps, calls>> /\ nextId' = nextId
      /\ call[c].account \in Accounts /\ call[c].op = "create" /\ call[c].name \in Names
      /\ rivals' \in {rivals, rivals \cup {call[c].account}}
  BY CreatesAt DEF LookForTrunk, tables
<1>2. CASE Goto(c, "new trunk") /\ UNCHANGED call
  <2>1. "new trunk" \in Creating /\ "new trunk" \in Statements
    BY DEF Creating, Statements
  <2>2. /\ pc' \in [Connections -> Statements] /\ pc'[c] = "new trunk"
        /\ \A d \in Connections \ {c} : pc'[d] = pc[d]
    BY <1>2, <2>1, GotoEffect DEF Base
  <2>3. CallOK(c)'
    BY <1>1, <1>2, <2>1, <2>2 DEF Base, CallInv, CallOK
  <2>4. TypeOK'
    BY <1>1, <1>2, <2>2 DEF TypeOK, Base, tables
  <2>5. Local(c)
    <3>1. \A a \in Accounts : trunk'[a] >= trunk[a]
      BY <1>1 DEF TypeOK, Base, tables
    <3> QED
      BY <1>1, <1>2, <2>2, <3>1 DEF Local, Others, Elsewhere, tables
  <2> QED
    BY <2>3, <2>4, <2>5
<1>3. CASE End(c)
  <2>1. CallOK(c)'
    BY <1>1, <1>3, EndOK DEF tables
  <2> QED
    BY <1>1, <1>3, <2>1, EndEffect DEF TypeOK, Base, Local, Others, Elsewhere, tables
<1> QED
  BY <1>2, <1>3 DEF LookForTrunk

LEMMA InsertTrunkLocal ==
    ASSUME Base, NEW c \in Connections, InsertTrunk(c)
    PROVE  TypeOK' /\ CallOK(c)' /\ Local(c)
<1>1. /\ pc[c] = "new trunk" /\ End(c) /\ UNCHANGED <<owner, name, rows, nextId, mishaps, rivals, calls>>
      /\ call[c].account \in Accounts
  BY CreatesAt DEF InsertTrunk
<1>2. trunk' \in [Accounts -> Nat] /\ \A a \in Accounts : trunk'[a] >= trunk[a]
  <2> DEFINE a == call[c].account
  <2>1. trunk \in [Accounts -> Nat] /\ a \in Accounts /\ trunk' = [trunk EXCEPT ![a] = trunk[a] + 1]
    BY <1>1 DEF InsertTrunk, Base, TypeOK
  <2> HIDE DEF a
  <2>2. trunk[a] + 1 \in Nat /\ trunk[a] + 1 >= trunk[a]
    BY <2>1
  <2>3. \A b \in Accounts : trunk'[b] = (IF b = a THEN trunk[a] + 1 ELSE trunk[b]) /\ trunk[b] \in Nat
    BY <2>1
  <2>4. trunk' \in [Accounts -> Nat]
    BY <2>1, <2>2
  <2> QED
    BY <2>2, <2>3, <2>4
<1>3. CallOK(c)'
  BY <1>1, EndOK DEF tables
<1> QED
  BY <1>1, <1>2, <1>3, EndEffect DEF TypeOK, Base, Local, Others, Elsewhere

\* A statement of DeleteCharacter other than the last.
LEMMA DeletingOn ==
    ASSUME Base, NEW c \in Connections, pc[c] \in Deleting, NEW statement \in Deleting,
           Goto(c, statement), UNCHANGED <<nextId, call>>
    PROVE  pc' \in [Connections -> Statements] /\ pc'[c] = statement /\ CallOK(c)' /\ Others(c)
<1>1. statement \in Statements /\ statement # "idle"
  BY DEF Deleting, Statements
<1>2. CallOK(c)'
  BY <1>1, GotoEffect, DeletesAt DEF Base, CallInv, CallOK
<1> QED
  BY <1>1, <1>2, GotoEffect DEF Base, Others

LEMMA UnlistLocal ==
    ASSUME Base, NEW c \in Connections, Unlist(c)
    PROVE  TypeOK' /\ CallOK(c)' /\ Local(c)
<1> DEFINE i == call[c].id
<1>1. /\ pc[c] = "unlist" /\ Goto(c, "unequip")
      /\ UNCHANGED <<rows, trunk, nextId, call, rivals, calls>>
  BY DEF Unlist
<1>2. pc[c] \in Deleting /\ "unequip" \in Deleting
  BY <1>1 DEF Deleting
<1>3. i \in Ids
  BY <1>2, DeletesAt
<1>4. pc' \in [Connections -> Statements] /\ CallOK(c)' /\ Others(c)
  BY <1>1, <1>2, DeletingOn
<1>5. CASE owner[i] = call[c].account
  <2>1. /\ owner' = [owner EXCEPT ![i] = Nobody]
        /\ name' = [name EXCEPT ![i] = Nobody]
        /\ UNCHANGED mishaps
    BY <1>5 DEF Unlist
  <2>2. /\ owner' \in [Ids -> Accounts \cup {Nobody}]
        /\ name' \in [Ids -> Names \cup {Nobody}]
        /\ \A j \in Ids \ {i} : owner'[j] = owner[j]
    BY <1>3, <2>1 DEF Base, TypeOK
  <2>3. TypeOK'
    BY <1>1, <1>4, <2>1, <2>2 DEF TypeOK, Base
  <2>4. \A a \in Accounts : trunk'[a] >= trunk[a]
    BY <1>1 DEF TypeOK, Base
  <2>5. Local(c)
    BY <1>1, <1>4, <2>1, <2>2, <2>4 DEF Local, Elsewhere
  <2> QED
    BY <1>4, <2>3, <2>5
<1>6. CASE owner[i] # call[c].account
  <2>1. (IF owner[i] # Nobody THEN {"foreign"} ELSE {}) \in SUBSET Mishaps
    BY DEF Mishaps
  <2>2. Note(i, IF owner[i] # Nobody THEN {"foreign"} ELSE {}) /\ UNCHANGED <<owner, name>>
    BY <1>6 DEF Unlist
  <2>3. /\ mishaps' \in [Ids -> SUBSET Mishaps] /\ mishaps[i] \subseteq mishaps'[i]
        /\ \A j \in Ids \ {i} : mishaps'[j] = mishaps[j]
    BY <1>3, <2>1, <2>2, NoteEffect DEF Base
  <2> QED
    BY <1>1, <1>4, <2>2, <2>3 DEF TypeOK, Base, Local, Elsewhere
<1> QED
  BY <1>5, <1>6

LEMMA UnequipLocal ==
    ASSUME Base, NEW c \in Connections, Unequip(c)
    PROVE  TypeOK' /\ CallOK(c)' /\ Local(c)
<1>1. /\ pc[c] \in Deleting /\ Clear(call[c].id, Equipment)
      /\ Goto(c, "unequip again") \/ Goto(c, "strip")
      /\ UNCHANGED <<owner, name, trunk, nextId, call, mishaps, rivals, calls>>
  BY DEF Unequip, Deleting
<1>2. "unequip again" \in Deleting /\ "strip" \in Deleting
  BY DEF Deleting
<1>3. pc' \in [Connections -> Statements] /\ CallOK(c)' /\ Others(c)
  BY <1>1, <1>2, DeletingOn
<1>4. /\ rows' \in [Ids -> [Parts -> Nat]]
      /\ \A j \in Ids \ {call[c].id} : rows'[j] = rows[j]
  BY <1>1, DeletesAt, ClearEffect DEF Base
<1> QED
  BY <1>1, <1>3, <1>4, RowsLocal DEF Base, TypeOK

LEMMA StripLocal ==
    ASSUME Base, NEW c \in Connections, Strip(c)
    PROVE  TypeOK' /\ CallOK(c)' /\ Local(c)
<1>1. /\ pc[c] \in Deleting /\ Clear(call[c].id, {"belongings"}) /\ Goto(c, "unmap")
      /\ UNCHANGED <<owner, name, trunk, nextId, call, mishaps, rivals, calls>>
  BY DEF Strip, Deleting
<1>2. "unmap" \in Deleting
  BY DEF Deleting
<1>3. pc' \in [Connections -> Statements] /\ CallOK(c)' /\ Others(c)
  BY <1>1, <1>2, DeletingOn
<1>4. /\ rows' \in [Ids -> [Parts -> Nat]]
      /\ \A j \in Ids \ {call[c].id} : rows'[j] = rows[j]
  BY <1>1, DeletesAt, ClearEffect DEF Base
<1> QED
  BY <1>1, <1>3, <1>4, RowsLocal DEF Base, TypeOK

LEMMA UnmapLocal ==
    ASSUME Base, NEW c \in Connections, Unmap(c)
    PROVE  TypeOK' /\ CallOK(c)' /\ Local(c)
<1>1. /\ pc[c] \in Deleting /\ Clear(call[c].id, {"keys"}) /\ Goto(c, "unsize")
      /\ UNCHANGED <<owner, name, trunk, nextId, call, mishaps, rivals, calls>>
  BY DEF Unmap, Deleting
<1>2. "unsize" \in Deleting
  BY DEF Deleting
<1>3. pc' \in [Connections -> Statements] /\ CallOK(c)' /\ Others(c)
  BY <1>1, <1>2, DeletingOn
<1>4. /\ rows' \in [Ids -> [Parts -> Nat]]
      /\ \A j \in Ids \ {call[c].id} : rows'[j] = rows[j]
  BY <1>1, DeletesAt, ClearEffect DEF Base
<1> QED
  BY <1>1, <1>3, <1>4, RowsLocal DEF Base, TypeOK

LEMMA UnsizeLocal ==
    ASSUME Base, NEW c \in Connections, Unsize(c)
    PROVE  TypeOK' /\ CallOK(c)' /\ Local(c)
<1>1. /\ pc[c] \in Deleting /\ Clear(call[c].id, {"sizes"}) /\ End(c)
      /\ UNCHANGED <<owner, name, trunk, nextId, mishaps, rivals, calls>>
  BY DEF Unsize, Deleting
<1>2. /\ rows' \in [Ids -> [Parts -> Nat]]
      /\ \A j \in Ids \ {call[c].id} : rows'[j] = rows[j]
  BY <1>1, DeletesAt, ClearEffect DEF Base
<1>3. CallOK(c)'
  BY <1>1, EndOK DEF tables
<1> QED
  BY <1>1, <1>2, <1>3, EndOK, EndEffect, RowsLocal DEF Base

LEMMA BreakLocal ==
    ASSUME Base, NEW c \in Connections, Break(c)
    PROVE  TypeOK' /\ CallOK(c)' /\ Local(c)
<1> DEFINE i == call[c].id
<1>1. End(c) /\ UNCHANGED <<tables, rivals, calls>>
  BY DEF Break
<1>2. CallOK(c)'
  BY <1>1, EndOK DEF tables
<1>3. /\ mishaps' \in [Ids -> SUBSET Mishaps] /\ \A j \in Ids \ {i} : mishaps'[j] = mishaps[j]
      /\ i \in Ids => mishaps[i] \subseteq mishaps'[i]
  <2>1. CASE i = Null
    BY <2>1 DEF Break, Base, TypeOK
  <2>2. CASE i # Null
    <3>1. i \in Ids /\ {"cut"} \in SUBSET Mishaps /\ Note(i, {"cut"})
      BY <2>2, CallTypes DEF Break, Mishaps
    <3> QED
      BY <3>1, NoteEffect DEF Base
  <2> QED
    BY <2>1, <2>2
<1> QED
  BY <1>1, <1>2, <1>3, EndEffect DEF TypeOK, Base, Local, Others, Elsewhere, tables

\* The statements after which the calls and characters other than one's own are as before.
Modest(c) ==
    \/ InsertEquipment(c) \/ UpdateSizes(c) \/ InsertSizes(c) \/ LookForKeys(c) \/ InsertKeys(c)
    \/ LookForTrunk(c) \/ InsertTrunk(c)
    \/ Unlist(c) \/ Unequip(c) \/ Strip(c) \/ Unmap(c) \/ Unsize(c)
    \/ Break(c)

LEMMA ModestLocal ==
    ASSUME Base, NEW c \in Connections, Modest(c)
    PROVE  TypeOK' /\ CallOK(c)' /\ Local(c)
BY InsertEquipmentLocal, UpdateSizesLocal, InsertSizesLocal, LookForKeysLocal, InsertKeysLocal,
   LookForTrunkLocal, InsertTrunkLocal, UnlistLocal, UnequipLocal, StripLocal, UnmapLocal,
   UnsizeLocal, BreakLocal
   DEF Modest

LEMMA ModestBase ==
    ASSUME Base, NEW c \in Connections, Modest(c)
    PROVE  Base'
<1>1. TypeOK' /\ CallOK(c)' /\ Local(c)
  BY ModestLocal
<1>2. CallInv'
  BY <1>1 DEF Local, Others, Base, CallInv, CallOK
<1>3. FreshInv'
  <2> SUFFICES ASSUME NEW i \in Ids, i >= nextId
               PROVE  owner'[i] = Nobody /\ mishaps'[i] = {} /\ \A p \in Parts : rows'[i][p] = 0
    BY <1>1 DEF FreshInv, Local
  <2>1. i # call[c].id
    BY CallTypes DEF Base, TypeOK, Ids, Null
  <2> QED
    BY <1>1, <2>1 DEF Local, Elsewhere, Base, FreshInv
<1> QED
  BY <1>1, <1>2, <1>3 DEF Base

-----------------------------------------------------------------------------
(* Requests, new characters and players *)

LEMMA FreshId ==
    ASSUME Base, NEW c \in Connections, InsertCharacter(c)
    PROVE  /\ nextId \in Ids /\ nextId' = nextId + 1
           /\ owner[nextId] = Nobody /\ mishaps[nextId] = {} /\ \A p \in Parts : rows[nextId][p] = 0
           /\ \A d \in Connections : call[d].id # nextId
<1>1. nextId \in Ids /\ nextId' = nextId + 1 /\ nextId \in Nat /\ nextId >= nextId
  BY DEF InsertCharacter, Base, TypeOK
<1>2. \A d \in Connections : call[d].id < nextId
  BY DEF Base, CallInv, CallOK
<1>3. \A d \in Connections : call[d].id # nextId
  BY <1>1, <1>2
<1> QED
  BY <1>1, <1>3 DEF Base, FreshInv

\* The new row, or none if its name is taken.
LEMMA InsertCharacterEffect ==
    ASSUME Base, NEW c \in Connections, InsertCharacter(c)
    PROVE  /\ TypeOK' /\ CallOK(c)' /\ Others(c)
           /\ UNCHANGED <<rows, trunk, rivals>> /\ Elsewhere(nextId)
           /\ pc'[c] = "shoes" /\ call'[c].op = "create" /\ call'[c].account = call[c].account
           /\ \/ /\ owner'[nextId] = call[c].account /\ call[c].account \in Accounts
                 /\ mishaps'[nextId] = {} /\ call'[c].id = nextId
              \/ /\ owner'[nextId] = Nobody /\ mishaps'[nextId] = {"refused"}
                 /\ call'[c].id \in {Null, nextId}
<1> DEFINE n == call[c].name
<1>1. /\ pc[c] = "character" /\ Goto(c, "shoes")
      /\ UNCHANGED <<rows, trunk, rivals, calls>>
      /\ nextId' = nextId + 1 /\ nextId \in Ids /\ nextId \in Nat \ {0}
  BY DEF InsertCharacter, Base, TypeOK
<1>2. /\ call[c].op = "create" /\ call[c].account \in Accounts /\ n \in Names
      /\ call[c] \in Call
  BY <1>1, CreatesAt, CallTypes
<1>3. /\ pc' \in [Connections -> Statements] /\ pc'[c] = "shoes"
      /\ \A d \in Connections \ {c} : pc'[d] = pc[d]
  <2>1. "shoes" \in Statements
    BY DEF Statements, Equipment
  <2> QED
    BY <1>1, <2>1, GotoEffect DEF Base
<1>4. ASSUME NEW i \in {Null, nextId}, call' = [call EXCEPT ![c].id = i]
      PROVE  /\ call' \in [Connections -> Call] /\ Others(c) /\ CallOK(c)'
             /\ call'[c].op = "create" /\ call'[c].account = call[c].account /\ call'[c].id = i
  <2>1. [call[c] EXCEPT !.id = i] \in Call
    BY <1>1, <1>2 DEF Call
  <2>2. call' = [call EXCEPT ![c] = [call[c] EXCEPT !.id = i]]
    BY <1>4
  <2>3. call' \in [Connections -> Call] /\ call'[c] = [call[c] EXCEPT !.id = i]
    BY <2>1, <2>2 DEF Base, TypeOK
  <2>4. /\ call'[c].op = "create" /\ call'[c].account = call[c].account
        /\ call'[c].name = n /\ call'[c].id = i
    BY <1>2, <2>3 DEF Call
  <2>5. i < nextId'
    BY <1>1 DEF Null
  <2>6. CallOK(c)'
    BY <1>2, <1>3, <2>4, <2>5 DEF CallOK, Creating, Equipment
  <2>7. Others(c)
    BY <1>3, <1>4 DEF Others, Base, TypeOK
  <2> QED
    BY <2>3, <2>4, <2>6, <2>7
<1>5. CASE \E i \in Ids : name[i] = n
  <2>1. PICK i \in {Null, nextId} : call' = [call EXCEPT ![c].id = i]
    BY <1>5 DEF InsertCharacter
  <2>2. Note(nextId, {"refused"}) /\ UNCHANGED <<owner, name>>
    BY <1>5 DEF InsertCharacter
  <2>3. {"refused"} \in SUBSET Mishaps
    BY DEF Mishaps
  <2>4. /\ mishaps' \in [Ids -> SUBSET Mishaps] /\ mishaps'[nextId] = {"refused"}
        /\ \A j \in Ids \ {nextId} : mishaps'[j] = mishaps[j]
    BY <1>1, <2>2, <2>3, NoteEffect, FreshId DEF Base
  <2>5. TypeOK'
    <3>1. call' \in [Connections -> Call]
      BY <1>4, <2>1
    <3>2. nextId' \in Nat \ {0}
      BY <1>1
    <3> QED
      BY <1>1, <1>3, <2>2, <2>4, <3>1, <3>2 DEF TypeOK, Base
  <2> QED
    BY <1>1, <1>3, <1>4, <2>1, <2>2, <2>4, <2>5, FreshId DEF Elsewhere
<1>6. CASE ~ \E i \in Ids : name[i] = n
  <2>1. /\ owner' = [owner EXCEPT ![nextId] = call[c].account]
        /\ name' = [name EXCEPT ![nextId] = n]
        /\ call' = [call EXCEPT ![c].id = nextId]
        /\ UNCHANGED mishaps
    BY <1>6 DEF InsertCharacter
  <2>2. /\ owner' \in [Ids -> Accounts \cup {Nobody}]
        /\ name' \in [Ids -> Names \cup {Nobody}]
        /\ owner'[nextId] = call[c].account
        /\ \A j \in Ids \ {nextId} : owner'[j] = owner[j]
    BY <1>1, <1>2, <2>1 DEF Base, TypeOK
  <2>3. TypeOK'
    BY <1>1, <1>3, <1>4, <2>1, <2>2 DEF TypeOK, Base
  <2> QED
    BY <1>1, <1>2, <1>3, <1>4, <2>1, <2>2, <2>3, FreshId DEF Elsewhere
<1> QED
  BY <1>5, <1>6

LEMMA InsertCharacterBase ==
    ASSUME Base, NEW c \in Connections, InsertCharacter(c)
    PROVE  Base'
<1>1. /\ TypeOK' /\ CallOK(c)' /\ Others(c) /\ Elsewhere(nextId)
      /\ nextId \in Nat /\ nextId' = nextId + 1
  BY InsertCharacterEffect, FreshId DEF Base, TypeOK
<1>2. CallInv'
  <2> SUFFICES ASSUME NEW d \in Connections \ {c}
               PROVE  CallOK(d)'
    BY <1>1 DEF CallInv
  <2>1. pc'[d] = pc[d] /\ call'[d] = call[d] /\ CallOK(d)
    BY <1>1 DEF Others, Base, CallInv
  <2>2. call[d].id < nextId + 1
    <3>1. call[d].id < nextId /\ call[d].id \in Ids \cup {0}
      BY <2>1, CallTypes DEF CallOK, Null
    <3> QED
      BY <1>1, <3>1, MaxCallsAssumption DEF Ids
  <2> QED
    BY <1>1, <2>1, <2>2 DEF CallOK
<1>3. FreshInv'
  <2> SUFFICES ASSUME NEW i \in Ids, i >= nextId + 1
               PROVE  owner'[i] = Nobody /\ mishaps'[i] = {} /\ \A p \in Parts : rows'[i][p] = 0
    BY <1>1 DEF FreshInv
  <2>1. i # nextId /\ i >= nextId
    BY <1>1 DEF Ids
  <2> QED
    BY <1>1, <2>1 DEF Elsewhere, Base, FreshInv
<1> QED
  BY <1>1, <1>2, <1>3 DEF Base

\* What is new after a request: one call, and what is noted of the character it is about.
LEMMA RequestEffect ==
    ASSUME Base, NEW c \in Connections, Request(c)
    PROVE  /\ TypeOK' /\ CallOK(c)' /\ Others(c) /\ call[c].id = Null
           /\ UNCHANGED <<tables, rivals>>
           /\ pc'[c] \in {"character", "unlist", "sizes", "keys"}
           /\ \/ /\ call'[c].id = Null
                 /\ UNCHANGED mishaps
              \/ /\ call'[c].id \in Ids /\ call'[c].op # "create"
                 /\ call'[c].op = "delete" <=> pc'[c] = "unlist"
                 /\ mishaps[call'[c].id] \subseteq mishaps'[call'[c].id]
                 /\ \A j \in Ids \ {call'[c].id} : mishaps'[j] = mishaps[j]
                 /\ (\E d \in Connections : call[d].id = call'[c].id)
                    => "overlap" \in mishaps'[call'[c].id]
                 /\ call'[c].op # "delete" /\ owner[call'[c].id] = Nobody
                    => "late" \in mishaps'[call'[c].id]
<1>1. ASSUME NEW new \in Call, NEW first \in Statements, Invoke(c, new, first)
      PROVE  /\ pc' \in [Connections -> Statements] /\ call' \in [Connections -> Call]
             /\ pc'[c] = first /\ call'[c] = new /\ Others(c) /\ call[c].id = Null
             /\ calls' \in Nat /\ UNCHANGED <<tables, rivals>>
  <2>1. /\ Goto(c, first) /\ call' = [call EXCEPT ![c] = new] /\ calls' = calls + 1
        /\ UNCHANGED <<tables, rivals>> /\ pc[c] = "idle"
    BY <1>1 DEF Invoke
  <2>2. /\ pc' \in [Connections -> Statements] /\ pc'[c] = first
        /\ \A d \in Connections \ {c} : pc'[d] = pc[d]
    BY <2>1, GotoEffect DEF Base
  <2>3. /\ call' \in [Connections -> Call] /\ call'[c] = new /\ calls' \in Nat
        /\ \A d \in Connections \ {c} : call'[d] = call[d]
    BY <2>1 DEF Base, TypeOK
  <2>4. call[c].id = Null
    BY <2>1 DEF Base, CallInv, CallOK
  <2> QED
    BY <2>1, <2>2, <2>3, <2>4 DEF Others
<1>2. ASSUME NEW a \in Accounts, NEW n \in Names,
             Invoke(c, [op |-> "create", account |-> a, id |-> Null, name |-> n], "character"),
             UNCHANGED mishaps
      PROVE  /\ TypeOK' /\ CallOK(c)' /\ Others(c) /\ call[c].id = Null
             /\ UNCHANGED <<tables, rivals>> /\ pc'[c] = "character" /\ call'[c].id = Null
  <2> DEFINE new == [op |-> "create", account |-> a, id |-> Null, name |-> n]
  <2>1. new \in Call /\ "character" \in Statements
    BY DEF Call, Statements
  <2>2. /\ pc' \in [Connections -> Statements] /\ call' \in [Connections -> Call]
        /\ pc'[c] = "character" /\ call'[c] = new /\ Others(c) /\ call[c].id = Null
        /\ calls' \in Nat /\ UNCHANGED <<tables, rivals>>
    BY <1>1, <1>2, <2>1
  <2>3. TypeOK'
    BY <1>2, <2>2 DEF TypeOK, Base, tables
  <2>4. nextId' > 0 /\ new.op = "create" /\ new.id = 0 /\ new.account = a /\ new.name = n
    BY <2>2 DEF Base, TypeOK, tables, Null
  <2>5. CallOK(c)'
    BY <2>2, <2>4 DEF CallOK, Creating, Null
  <2> QED
    BY <2>2, <2>3, <2>4, <2>5 DEF Null
<1>3. ASSUME NEW op \in {"delete", "sizes", "keys"}, NEW a \in Accounts \cup {Nobody}, NEW i \in Ids,
             NEW first, InvokeAbout(c, op, a, i, first),
             op = "delete" => a \in Accounts /\ first = "unlist",
             op # "delete" => first = op
      PROVE  /\ TypeOK' /\ CallOK(c)' /\ Others(c) /\ call[c].id = Null
             /\ UNCHANGED <<tables, rivals>> /\ pc'[c] = first
             /\ call'[c].id = i /\ call'[c].op = op
             /\ mishaps[i] \subseteq mishaps'[i]
             /\ \A j \in Ids \ {i} : mishaps'[j] = mishaps[j]
             /\ (\E d \in Connections : call[d].id = i) => "overlap" \in mishaps'[i]
             /\ op # "delete" /\ owner[i] = Nobody => "late" \in mishaps'[i]
  <2> DEFINE new == [op |-> op, account |-> a, id |-> i, name |-> Nobody]
             what == (IF \E d \in Connections : call[d].id = i THEN {"overlap"} ELSE {})
                     \cup (IF op # "delete" /\ owner[i] = Nobody THEN {"late"} ELSE {})
  <2>1. new \in Call /\ first \in Statements /\ what \in SUBSET Mishaps
    BY <1>3 DEF Call, Statements, Mishaps
  <2>2. i < nextId /\ Invoke(c, new, first) /\ Note(i, what)
    BY <1>3 DEF InvokeAbout
  <2>3. /\ pc' \in [Connections -> Statements] /\ call' \in [Connections -> Call]
        /\ pc'[c] = first /\ call'[c] = new /\ Others(c) /\ call[c].id = Null
        /\ calls' \in Nat /\ UNCHANGED <<tables, rivals>>
    BY <1>1, <2>1, <2>2
  <2>4. /\ mishaps' \in [Ids -> SUBSET Mishaps] /\ mishaps'[i] = mishaps[i] \cup what
        /\ \A j \in Ids \ {i} : mishaps'[j] = mishaps[j]
    BY <2>1, <2>2, NoteEffect DEF Base
  <2>5. TypeOK'
    BY <2>3, <2>4 DEF TypeOK, Base, tables
  <2>6. nextId' = nextId /\ new.op = op /\ new.id = i /\ new.account = a
    BY <2>3 DEF tables
  <2>7. CallOK(c)'
    BY <1>3, <2>2, <2>3, <2>6 DEF CallOK, Creating, Deleting
  <2> QED
    BY <2>3, <2>4, <2>5, <2>6, <2>7
<1>4. CASE \E a \in Accounts, n \in Names :
              /\ Invoke(c, [op |-> "create", account |-> a, id |-> Null, name |-> n], "character")
              /\ UNCHANGED mishaps
  BY <1>2, <1>4
<1>5. CASE \E a \in Accounts, i \in Ids : InvokeAbout(c, "delete", a, i, "unlist")
  BY <1>3, <1>5
<1>6. CASE \E i \in Ids, op \in {"sizes", "keys"} : InvokeAbout(c, op, Nobody, i, op)
  BY <1>3, <1>6
<1> QED
  BY <1>4, <1>5, <1>6 DEF Request

LEMMA RequestBase ==
    ASSUME Base, NEW c \in Connections, Request(c)
    PROVE  Base'
<1>1. /\ TypeOK' /\ CallOK(c)' /\ Others(c) /\ UNCHANGED tables
      /\ call'[c].id = Null \/ call'[c].id \in Ids
  BY RequestEffect
<1>2. CallInv'
  BY <1>1 DEF Others, tables, Base, CallInv, CallOK
<1>3. FreshInv'
  <2> SUFFICES ASSUME NEW i \in Ids, i >= nextId
               PROVE  owner'[i] = Nobody /\ mishaps'[i] = {} /\ \A p \in Parts : rows'[i][p] = 0
    BY <1>1 DEF FreshInv, tables
  <2>1. i # call'[c].id
    <3>1. call'[c].id < nextId /\ nextId \in Nat
      BY <1>1 DEF CallOK, tables, Base, TypeOK
    <3> QED
      BY <3>1, MaxCallsAssumption DEF Ids
  <2>2. mishaps'[i] = mishaps[i]
    BY <2>1, RequestEffect
  <2> QED
    BY <1>1, <2>2 DEF tables, Base, FreshInv
<1> QED
  BY <1>1, <1>2, <1>3 DEF Base

LEMMA PlayEffect ==
    ASSUME Base, NEW i \in Ids, Play(i)
    PROVE  /\ rows' \in [Ids -> [Parts -> Nat]]
           /\ \A j \in Ids \ {i} : rows'[j] = rows[j]
           /\ \A p \in Parts \ {"belongings"} : rows'[i][p] = rows[i][p]
           /\ owner[i] # Nobody
           /\ UNCHANGED <<owner, name, trunk, nextId, pc, call, mishaps, rivals, calls>>
<1>1. rows' = [rows EXCEPT ![i] = [rows[i] EXCEPT !["belongings"] = 1]]
  BY DEF Play
<1>2. rows[i] \in [Parts -> Nat]
  BY DEF Base, TypeOK
<1>3. [rows[i] EXCEPT !["belongings"] = 1] \in [Parts -> Nat]
  BY <1>2
<1> QED
  BY <1>1, <1>2, <1>3 DEF Play, Base, TypeOK

LEMMA PlayBase ==
    ASSUME Base, NEW i \in Ids, Play(i)
    PROVE  Base'
<1>1. i < nextId
  BY PlayEffect DEF Base, FreshInv, TypeOK, Ids
<1>2. \A j \in Ids : j >= nextId => j # i
  BY <1>1 DEF Base, TypeOK, Ids
<1>3. TypeOK'
  BY PlayEffect DEF Base, TypeOK
<1>4. CallInv'
  BY PlayEffect DEF Base, CallInv, CallOK
<1>5. FreshInv'
  BY <1>2, PlayEffect DEF Base, FreshInv
<1> QED
  BY <1>3, <1>4, <1>5 DEF Base

LEMMA BaseInvariant == Spec => []Base
<1>1. Init => Base
  <2> SUFFICES ASSUME Init PROVE Base
    OBVIOUS
  <2>1. NoCall \in Call /\ "idle" \in Statements /\ NoCall.op = "none" /\ NoCall.id = Null
    BY DEF NoCall, Call, Statements
  <2>2. TypeOK
    <3>1. rows \in [Ids -> [Parts -> Nat]] /\ mishaps \in [Ids -> SUBSET Mishaps]
      BY DEF Init
    <3>2. pc \in [Connections -> Statements] /\ call \in [Connections -> Call]
      BY <2>1 DEF Init
    <3>3. /\ owner \in [Ids -> Accounts \cup {Nobody}] /\ name \in [Ids -> Names \cup {Nobody}]
          /\ trunk \in [Accounts -> Nat] /\ nextId \in Nat \ {0} /\ rivals \subseteq Accounts
          /\ calls \in Nat
      BY DEF Init
    <3> QED
      BY <3>1, <3>2, <3>3 DEF TypeOK
  <2>3. CallInv
    <3> SUFFICES ASSUME NEW c \in Connections PROVE CallOK(c)
      BY DEF CallInv
    <3>1. pc[c] = "idle" /\ call[c] = NoCall /\ nextId = 1 /\ Null < 1
      BY DEF Init, Null
    <3> QED
      BY <2>1, <3>1 DEF CallOK
  <2>4. FreshInv
    BY DEF Init, FreshInv
  <2> QED
    BY <2>2, <2>3, <2>4 DEF Base
<1>2. Base /\ [Next]_vars => Base'
  <2> SUFFICES ASSUME Base, [Next]_vars PROVE Base'
    OBVIOUS
  <2>1. CASE \E c \in Connections : Request(c) \/ Execute(c) \/ Break(c)
    BY <2>1, RequestBase, InsertCharacterBase, ModestBase DEF Execute, Modest
  <2>2. CASE \E i \in Ids : Play(i)
    BY <2>2, PlayBase
  <2>3. CASE UNCHANGED vars
    BY <2>3 DEF vars, tables, Base, TypeOK, CallInv, CallOK, FreshInv
  <2> QED
    BY <2>1, <2>2, <2>3 DEF Next
<1> QED
  BY <1>1, <1>2, PTL DEF Spec

\* The types of the tables, the calls and the histories.
THEOREM TypeCorrect == Spec => []TypeOK
BY BaseInvariant, PTL DEF Base

-----------------------------------------------------------------------------
(* One trunk *)

\* A step that does not insert into Trunk, and sends no creation to do so.
AwayFromTrunk ==
    /\ UNCHANGED <<trunk, rivals>>
    /\ \A d \in Connections : pc'[d] = "new trunk" => pc[d] = "new trunk" /\ call'[d] = call[d]

LEMMA AwayKeepsTrunks ==
    ASSUME TrunkInv, AwayFromTrunk
    PROVE  TrunkInv'
<1>1. \A d \in Connections : \A a : ToTrunk(d, a)' => ToTrunk(d, a)
  BY DEF AwayFromTrunk, ToTrunk
<1>2. trunk' = trunk /\ rivals' = rivals
  BY DEF AwayFromTrunk
<1> QED
  BY <1>1, <1>2 DEF TrunkInv

LEMMA OthersAway ==
    ASSUME NEW c \in Connections, Others(c), UNCHANGED <<trunk, rivals>>, pc'[c] # "new trunk"
    PROVE  AwayFromTrunk
BY DEF Others, AwayFromTrunk

LEMMA ModestAway ==
    ASSUME Base, NEW c \in Connections, Modest(c), ~LookForTrunk(c), ~InsertTrunk(c)
    PROVE  AwayFromTrunk
<1>1. Others(c)
  BY ModestLocal DEF Local
<1>2. \A statement : Goto(c, statement) => pc'[c] = statement
  BY DEF Goto, Base, TypeOK
<1>3. End(c) => pc'[c] = "idle"
  BY <1>2 DEF End
<1>4. /\ Proceed(c, "keys") \/ Proceed(c, "trunk") => pc'[c] # "new trunk"
      /\ Goto(c, "new sizes") \/ Goto(c, "new keys") => pc'[c] # "new trunk"
  BY <1>2, <1>3 DEF Proceed
<1>5. CASE InsertEquipment(c)
  <2>1. Following(pc[c]) # "new trunk"
    BY <1>5 DEF InsertEquipment, Following, Equipment
  <2> QED
    BY <1>1, <1>2, <1>5, <2>1, OthersAway DEF InsertEquipment
<1>6. CASE UpdateSizes(c) \/ InsertSizes(c) \/ LookForKeys(c) \/ InsertKeys(c)
  <2>1. UNCHANGED <<trunk, rivals>>
    BY <1>6 DEF UpdateSizes, InsertSizes, LookForKeys, InsertKeys, tables
  <2>2. pc'[c] # "new trunk"
    BY <1>4, <1>6 DEF UpdateSizes, InsertSizes, LookForKeys, InsertKeys
  <2> QED
    BY <1>1, <2>1, <2>2, OthersAway
<1>7. CASE Unlist(c) \/ Unequip(c) \/ Strip(c) \/ Unmap(c) \/ Unsize(c) \/ Break(c)
  <2>1. UNCHANGED <<trunk, rivals>>
    BY <1>7 DEF Unlist, Unequip, Strip, Unmap, Unsize, Break, tables
  <2>2. pc'[c] # "new trunk"
    BY <1>2, <1>3, <1>7 DEF Unlist, Unequip, Strip, Unmap, Unsize, Break
  <2> QED
    BY <1>1, <2>1, <2>2, OthersAway
<1> QED
  BY <1>5, <1>6, <1>7 DEF Modest

LEMMA LookForTrunkTrunks ==
    ASSUME Base, TrunkInv, NEW c \in Connections, LookForTrunk(c)
    PROVE  TrunkInv'
<1> DEFINE a == call[c].account
<1>1. /\ trunk' = trunk /\ a \in Accounts /\ trunk[a] \in Nat /\ rivals \subseteq rivals'
      /\ a \in rivals' \/ \A d \in Connections : ~ToTrunk(d, a)
      /\ pc[c] = "trunk"
  BY CreatesAt DEF LookForTrunk, tables, Base, TypeOK, ToTrunk
<1>2. CASE NeedsTrunk(a) /\ Goto(c, "new trunk") /\ UNCHANGED call
  <2>1. trunk[a] = 0
    <3>1. trunk[a] \in Nat /\ trunk[a] < 1
      BY <1>1, <1>2 DEF NeedsTrunk
    <3> QED
      BY <3>1
  <2>2. \A d \in Connections : \A b : ToTrunk(d, b)' => ToTrunk(d, b) \/ (d = c /\ b = a)
    BY <1>2, GotoEffect DEF Goto, ToTrunk, Base, TypeOK
  <2> QED
    BY <1>1, <2>1, <2>2 DEF TrunkInv
<1>3. CASE End(c)
  <2>1. \A d \in Connections : \A b : ToTrunk(d, b)' => ToTrunk(d, b)
    BY <1>3, EndEffect DEF ToTrunk, Base
  <2> QED
    BY <1>1, <2>1 DEF TrunkInv
<1> QED
  BY <1>2, <1>3 DEF LookForTrunk

LEMMA InsertTrunkTrunks ==
    ASSUME Base, TrunkInv, NEW c \in Connections, InsertTrunk(c)
    PROVE  TrunkInv'
<1>0. PICK a \in Accounts : a = call[c].account
  BY CreatesAt DEF InsertTrunk
<1>1. /\ rivals' = rivals /\ ToTrunk(c, a) /\ End(c)
      /\ trunk' = [trunk EXCEPT ![a] = trunk[a] + 1] /\ trunk \in [Accounts -> Nat]
  BY <1>0 DEF InsertTrunk, Base, TypeOK, ToTrunk
<1>2. \A d \in Connections : \A b : ToTrunk(d, b)' => ToTrunk(d, b) /\ d # c
  BY <1>1, EndEffect DEF ToTrunk, Base
<1>3. /\ \A b \in Accounts : b # a => trunk'[b] = trunk[b]
      /\ trunk[a] = 0 => trunk'[a] = 1
  BY <1>1
<1>4. a \in rivals \/ trunk[a] = 0
  BY <1>1 DEF TrunkInv
<1>5. a \in rivals \/ \A d \in Connections : ~ToTrunk(d, a)'
  BY <1>1, <1>2 DEF TrunkInv
<1> QED
  BY <1>1, <1>2, <1>3, <1>4, <1>5 DEF TrunkInv

LEMMA TrunkInvariant == Spec => []TrunkInv
<1>1. Init => TrunkInv
  BY DEF Init, TrunkInv, ToTrunk
<1>2. Base /\ TrunkInv /\ [Next]_vars => TrunkInv'
  <2> SUFFICES ASSUME Base, TrunkInv, [Next]_vars PROVE TrunkInv'
    OBVIOUS
  <2>1. ASSUME NEW c \in Connections, Request(c) PROVE TrunkInv'
    <3>1. Others(c) /\ UNCHANGED <<trunk, rivals>> /\ pc'[c] # "new trunk"
      BY <2>1, RequestEffect DEF tables
    <3> QED
      BY <3>1, OthersAway, AwayKeepsTrunks
  <2>2. ASSUME NEW c \in Connections, InsertCharacter(c) PROVE TrunkInv'
    <3>1. Others(c) /\ UNCHANGED <<trunk, rivals>> /\ pc'[c] # "new trunk"
      BY <2>2, InsertCharacterEffect
    <3> QED
      BY <3>1, OthersAway, AwayKeepsTrunks
  <2>3. ASSUME NEW c \in Connections, Modest(c) PROVE TrunkInv'
    BY <2>3, ModestAway, AwayKeepsTrunks, LookForTrunkTrunks, InsertTrunkTrunks
  <2>4. ASSUME NEW i \in Ids, Play(i) PROVE TrunkInv'
    <3>1. AwayFromTrunk
      BY <2>4, PlayEffect DEF AwayFromTrunk
    <3> QED
      BY <3>1, AwayKeepsTrunks
  <2>5. CASE UNCHANGED vars
    BY <2>5 DEF vars, tables, TrunkInv, ToTrunk
  <2> QED
    BY <2>1, <2>2, <2>3, <2>4, <2>5 DEF Next, Execute, Modest
<1> QED
  BY <1>1, <1>2, BaseInvariant, PTL DEF Spec

\* CreateNewCharacter gives an account a second trunk only when two of its calls for that
\* account looked for the first one before either had inserted it.
THEOREM OneTrunkHolds == Spec => []OneTrunk
<1>1. Base /\ TrunkInv => OneTrunk
  BY DEF TrunkInv, OneTrunk, Base, TypeOK
<1> QED
  BY <1>1, BaseInvariant, TrunkInvariant, PTL

-----------------------------------------------------------------------------
(* The story of a character *)

LEMMA BeforeValues ==
    /\ Before("shoes") = {} /\ Before("bottom") = {"shoes"}
    /\ Before("top") = {"shoes", "bottom"} /\ Before("weapon") = {"shoes", "bottom", "top"}
    /\ Before("sizes") = Equipment /\ Before("new sizes") = Equipment
    /\ Before("keys") = Equipment \cup {"sizes"} /\ Before("new keys") = Equipment \cup {"sizes"}
    /\ Before("trunk") = Created /\ Before("new trunk") = Created
BY DEF Before

LEMMA GoneValues ==
    /\ Gone("unlist") = {} /\ Gone("unequip") = {}
    /\ Gone("unequip again") = Equipment /\ Gone("strip") = Equipment
    /\ Gone("unmap") = Equipment \cup {"belongings"}
    /\ Gone("unsize") = Equipment \cup {"belongings", "keys"}
BY DEF Gone

\* What is known of a character outlives a step that leaves its rows alone.
LEMMA Kept ==
    ASSUME Base, NEW j \in Ids,
           owner'[j] = owner[j], mishaps[j] \subseteq mishaps'[j],
           \A a \in Accounts : trunk'[a] >= trunk[a] /\ trunk'[a] \in Nat,
           \A p \in Parts \ {"belongings"} : rows'[j][p] = rows[j][p],
           owner[j] # Nobody \/ rows'[j]["belongings"] = rows[j]["belongings"]
    PROVE  /\ Without(j) => Without(j)'
           /\ \A d \in Connections :
                  pc'[d] = pc[d] /\ call'[d] = call[d] /\ With(j, d) => With(j, d)'
<1>1. Created \subseteq Parts \ {"belongings"} /\ Parts = Created \cup {"belongings"}
  BY DEF Parts, Created, Equipment
<1>2. owner[j] = Nobody /\ Empty(j) => Empty(j)'
  BY <1>1 DEF Empty
<1>3. owner[j] # Nobody /\ Whole(j) => Whole(j)'
  <2> SUFFICES ASSUME owner[j] # Nobody, Whole(j) PROVE Whole(j)'
    OBVIOUS
  <2>1. owner[j] \in Accounts /\ trunk[owner[j]] \in Nat
    BY DEF Base, TypeOK
  <2>2. trunk'[owner[j]] > 0
    BY <2>1 DEF Whole
  <2> QED
    BY <1>1, <2>2 DEF Whole
<1>4. \A d \in Connections :
          /\ pc'[d] = pc[d] /\ Progress(j, pc[d]) => Progress(j, pc[d])'
          /\ pc'[d] = pc[d] /\ call[d].op = "delete" /\ Cleared(j, pc[d]) => Cleared(j, pc[d])'
  <2> SUFFICES ASSUME NEW d \in Connections, pc'[d] = pc[d]
               PROVE  /\ Progress(j, pc[d]) => Progress(j, pc[d])'
                      /\ call[d].op = "delete" /\ Cleared(j, pc[d]) => Cleared(j, pc[d])'
    OBVIOUS
  <2>1. Before(pc[d])' = Before(pc[d]) /\ Gone(pc[d])' = Gone(pc[d])
    BY DEF Before, Gone
  <2>2. Progress(j, pc[d]) => Progress(j, pc[d])'
    BY <1>1, <2>1 DEF Progress
  <2>3. pc[d] \in Deleting /\ Cleared(j, pc[d]) => Cleared(j, pc[d])'
    <3>1. pc[d] \in Deleting => Gone(pc[d]) \subseteq Parts
      BY GoneValues DEF Deleting, Parts, Created, Equipment
    <3> QED
      BY <2>1, <3>1 DEF Cleared
  <2>4. call[d].op = "delete" => pc[d] \in Deleting
    BY DEF Base, CallInv, CallOK
  <2> QED
    BY <2>2, <2>3, <2>4
<1>5. Without(j) => Without(j)'
  BY <1>2, <1>3 DEF Without
<1>6. ASSUME NEW d \in Connections, pc'[d] = pc[d], call'[d] = call[d], With(j, d)
      PROVE  With(j, d)'
  <2>1. (call[d].op = "delete" => Cleared(j, pc[d]))'
    BY <1>4, <1>6 DEF With
  <2>2. (owner[j] = Nobody /\ mishaps[j] = {} =>
           call[d].op = "delete" /\ (pc[d] = "unlist" => Empty(j)))'
    BY <1>2, <1>6 DEF With
  <2>3. (owner[j] # Nobody /\ mishaps[j] \cap {"cut", "foreign"} = {} =>
           \/ call[d].op = "create" /\ call[d].account = owner[j] /\ Progress(j, pc[d])
           \/ call[d].op # "create" /\ pc[d] \in {"unlist", "sizes", "keys"} /\ Whole(j))'
    BY <1>3, <1>4, <1>6 DEF With
  <2> QED
    BY <2>1, <2>2, <2>3 DEF With
<1> QED
  BY <1>5, <1>6

\* Only the story of the character that a call is about goes on with its statement.
LEMMA StoryElsewhere ==
    ASSUME Base, TypeOK', NEW c \in Connections, Local(c),
           NEW j \in Ids, j # call[c].id, Story(j)
    PROVE  Story(j)'
<1>1. /\ rows'[j] = rows[j] /\ owner'[j] = owner[j] /\ mishaps'[j] = mishaps[j]
      /\ \A a \in Accounts : trunk'[a] >= trunk[a] /\ trunk'[a] \in Nat
  BY DEF Local, Elsewhere, TypeOK
<1>2. \A d \in Connections : call'[d].id = j <=> call[d].id = j
  BY DEF Local, Others, NoCall, Ids, Null
<1>3. \A d \in Connections : call[d].id = j => pc'[d] = pc[d] /\ call'[d] = call[d]
  BY DEF Local, Others
<1>4. /\ Without(j) => Without(j)'
      /\ \A d \in Connections :
             pc'[d] = pc[d] /\ call'[d] = call[d] /\ With(j, d) => With(j, d)'
  BY <1>1, Kept
<1> QED
  BY <1>1, <1>2, <1>3, <1>4 DEF Story, Underway

LEMMA StoryOwn ==
    ASSUME Base, NEW c \in Connections, Local(c), NEW i \in Ids, call[c].id = i, Story(i),
           With(i, c) => \/ call'[c] = call[c] /\ With(i, c)'
                         \/ call'[c] = NoCall /\ Without(i)'
    PROVE  Story(i)'
<1> SUFFICES ASSUME "overlap" \notin mishaps'[i]
             PROVE  /\ \A d, e \in Connections : call'[d].id = i /\ call'[e].id = i => d = e
                    /\ \A d \in Connections : call'[d].id = i => With(i, d)'
                    /\ (~Underway(i))' => Without(i)'
  BY DEF Story
<1>1. /\ \A d \in Connections : call[d].id = i => d = c
      /\ With(i, c)
  BY DEF Local, Story
<1>2. \A d \in Connections : call'[d].id = i => d = c
  BY <1>1 DEF Local, Others
<1>3. CASE call'[c] = call[c] /\ With(i, c)'
  BY <1>2, <1>3 DEF Underway
<1>4. CASE call'[c] = NoCall /\ Without(i)'
  <2>1. call'[c].id # i
    BY <1>4 DEF NoCall, Ids, Null
  <2> QED
    BY <1>2, <1>4, <2>1
<1> QED
  BY <1>1, <1>3, <1>4

LEMMA NullIsNoId == \A i \in Ids : i # Null
BY DEF Ids, Null

\* What a statement of a creation or of a save has to keep of the rows, or to complete.
LEMMA CreationGoesOn ==
    ASSUME Base, NEW c \in Connections, NEW i \in Ids, With(i, c),
           call[c].op \in {"create", "sizes", "keys"},
           owner'[i] = owner[i], mishaps'[i] = mishaps[i], call'[c] = call[c],
           call[c].op = "create" /\ Progress(i, pc[c]) => Progress(i, pc[c])',
           call[c].op # "create" => pc[c] \notin {"sizes", "keys"} \/ ~Whole(i)
    PROVE  With(i, c)'
<1>1. pc[c] = "unlist" => call[c].op = "delete"
  BY DEF Base, CallInv, CallOK, Creating, Equipment
<1> QED
  BY <1>1 DEF With

LEMMA CreationEnds ==
    ASSUME Base, NEW c \in Connections, NEW i \in Ids, With(i, c),
           call[c].op \in {"create", "sizes", "keys"},
           owner'[i] = owner[i], mishaps'[i] = mishaps[i],
           call[c].op = "create" /\ call[c].account = owner[i] /\ Progress(i, pc[c]) => Whole(i)',
           call[c].op # "create" /\ pc[c] \in {"sizes", "keys"} /\ Whole(i) => Whole(i)'
    PROVE  Without(i)'
<1>1. pc[c] = "unlist" => call[c].op = "delete"
  BY DEF Base, CallInv, CallOK, Creating, Equipment
<1> QED
  BY <1>1 DEF With, Without

LEMMA InsertEquipmentStory ==
    ASSUME Base, NEW c \in Connections, NEW i \in Ids, call[c].id = i, With(i, c), InsertEquipment(c)
    PROVE  call'[c] = call[c] /\ With(i, c)'
<1>1. /\ pc[c] \in Equipment /\ Add(i, pc[c], 1) /\ call[c].op = "create"
      /\ call' = call /\ owner' = owner /\ mishaps' = mishaps
      /\ Following(pc[c]) \in Creating \ {"character"} /\ pc'[c] = Following(pc[c])
  <2>1. pc[c] \in Equipment /\ Goto(c, Following(pc[c]))
    BY DEF InsertEquipment
  <2>2. Following(pc[c]) \in Creating \ {"character"}
    BY <2>1 DEF Following, Creating, Equipment
  <2> QED
    BY <2>1, <2>2, CreatesAt DEF InsertEquipment, Goto, Base, TypeOK
<1>2. pc[c] \in Parts /\ Created \subseteq Parts
  BY <1>1 DEF Parts, Created
<1>3. \A p \in Created : rows'[i][p] = IF p = pc[c] THEN 1 ELSE rows[i][p]
  BY <1>1, <1>2, AddEffect DEF Base
<1>4. Before(Following(pc[c])) = Before(pc[c]) \cup {pc[c]}
  BY <1>1, BeforeValues DEF Following, Equipment
<1>5. Progress(i, pc[c]) => Progress(i, pc[c])'
  <2> SUFFICES ASSUME Progress(i, pc[c]), NEW p \in Created
               PROVE  rows'[i][p] = IF p \in Before(Following(pc[c])) THEN 1 ELSE 0
    BY <1>1 DEF Progress, Before
  <2> QED
    BY <1>3, <1>4 DEF Progress
<1> QED
  BY <1>1, <1>5, CreationGoesOn

\* The two updates, InventorySize_Set and SetFuncKeyMapped: a new character has no row yet.
LEMMA UpdateSizesStory ==
    ASSUME Base, NEW c \in Connections, NEW i \in Ids, call[c].id = i, With(i, c), UpdateSizes(c)
    PROVE  \/ call'[c] = call[c] /\ With(i, c)'
           \/ call'[c] = NoCall /\ Without(i)'
<1>1. /\ pc[c] = "sizes" /\ owner' = owner /\ mishaps' = mishaps /\ rows' = rows /\ trunk' = trunk
      /\ call[c].op \in {"create", "sizes"} /\ nextId' = nextId
  <2>1. /\ pc[c] = "sizes" /\ owner' = owner /\ mishaps' = mishaps /\ rows' = rows
        /\ trunk' = trunk /\ nextId' = nextId
    BY DEF UpdateSizes, tables
  <2> QED
    BY <2>1, SavesAt
<1>2. "sizes" \in Created /\ "sizes" \notin Equipment
  BY DEF Created, Equipment
<1>3. Whole(i) => Whole(i)'
  BY <1>1 DEF Whole
<1>4. CASE Has(i, "sizes") /\ Proceed(c, "keys")
  <2>1. /\ call[c].op = "create" => call'[c] = call[c]
        /\ call[c].op # "create" => call'[c] = NoCall
    BY <1>1, <1>4, ProceedEffect DEF Creating
  <2>2. ~Progress(i, pc[c])
    <3>1. rows[i]["sizes"] > 0
      BY <1>4 DEF Has
    <3>2. Progress(i, pc[c]) => rows[i]["sizes"] = 0
      BY <1>1, <1>2, BeforeValues DEF Progress
    <3> QED
      BY <3>1, <3>2
  <2> QED
    BY <1>1, <1>3, <2>1, <2>2, CreationGoesOn, CreationEnds
<1>5. CASE ~Has(i, "sizes") /\ Goto(c, "new sizes") /\ UNCHANGED call
  <2>1. pc'[c] = "new sizes"
    BY <1>5 DEF Goto, Base, TypeOK
  <2>2. Progress(i, pc[c]) => Progress(i, pc[c])'
    BY <1>1, <2>1, BeforeValues DEF Progress, Before, Creating
  <2>3. ~Whole(i)
    <3>1. ~(rows[i]["sizes"] > 0)
      BY <1>5, NullIsNoId DEF Has
    <3>2. Whole(i) => rows[i]["sizes"] = 1
      BY <1>2 DEF Whole
    <3> QED
      BY <3>1, <3>2
  <2> QED
    BY <1>1, <1>5, <2>2, <2>3, CreationGoesOn
<1> QED
  BY <1>4, <1>5 DEF UpdateSizes

LEMMA LookForKeysStory ==
    ASSUME Base, NEW c \in Connections, NEW i \in Ids, call[c].id = i, With(i, c), LookForKeys(c)
    PROVE  \/ call'[c] = call[c] /\ With(i, c)'
           \/ call'[c] = NoCall /\ Without(i)'
<1>1. /\ pc[c] = "keys" /\ owner' = owner /\ mishaps' = mishaps /\ rows' = rows /\ trunk' = trunk
      /\ call[c].op \in {"create", "keys"} /\ nextId' = nextId
  <2>1. /\ pc[c] = "keys" /\ owner' = owner /\ mishaps' = mishaps /\ rows' = rows
        /\ trunk' = trunk /\ nextId' = nextId
    BY DEF LookForKeys, tables
  <2> QED
    BY <2>1, SavesAt
<1>2. "keys" \in Created /\ "keys" \notin Equipment \cup {"sizes"}
  BY DEF Created, Equipment
<1>3. Whole(i) => Whole(i)'
  BY <1>1 DEF Whole
<1>4. CASE Has(i, "keys") /\ Proceed(c, "trunk")
  <2>1. /\ call[c].op = "create" => call'[c] = call[c]
        /\ call[c].op # "create" => call'[c] = NoCall
    BY <1>1, <1>4, ProceedEffect DEF Creating
  <2>2. ~Progress(i, pc[c])
    <3>1. rows[i]["keys"] > 0
      BY <1>4 DEF Has
    <3>2. Progress(i, pc[c]) => rows[i]["keys"] = 0
      BY <1>1, <1>2, BeforeValues DEF Progress
    <3> QED
      BY <3>1, <3>2
  <2> QED
    BY <1>1, <1>3, <2>1, <2>2, CreationGoesOn, CreationEnds
<1>5. CASE ~Has(i, "keys") /\ Goto(c, "new keys") /\ UNCHANGED call
  <2>1. pc'[c] = "new keys"
    BY <1>5 DEF Goto, Base, TypeOK
  <2>2. Progress(i, pc[c]) => Progress(i, pc[c])'
    BY <1>1, <2>1, BeforeValues DEF Progress, Before, Creating
  <2>3. ~Whole(i)
    <3>1. ~(rows[i]["keys"] > 0)
      BY <1>5, NullIsNoId DEF Has
    <3>2. Whole(i) => rows[i]["keys"] = 1
      BY <1>2 DEF Whole
    <3> QED
      BY <3>1, <3>2
  <2> QED
    BY <1>1, <1>5, <2>2, <2>3, CreationGoesOn
<1> QED
  BY <1>4, <1>5 DEF LookForKeys

LEMMA InsertSizesStory ==
    ASSUME Base, NEW c \in Connections, NEW i \in Ids, call[c].id = i, With(i, c), InsertSizes(c)
    PROVE  \/ call'[c] = call[c] /\ With(i, c)'
           \/ call'[c] = NoCall /\ Without(i)'
<1>1. /\ pc[c] = "new sizes" /\ owner' = owner /\ mishaps' = mishaps
      /\ call[c].op \in {"create", "sizes"} /\ nextId' = nextId
      /\ Add(i, "sizes", 1) /\ Proceed(c, "keys")
  BY SavesAt DEF InsertSizes
<1>2. "sizes" \in Parts /\ Created \subseteq Parts
  BY DEF Parts, Created
<1>3. \A p \in Created : rows'[i][p] = IF p = "sizes" THEN 1 ELSE rows[i][p]
  <2>1. TypeOK /\ Add(i, "sizes", 1) /\ i \in Ids \cup {Null}
    BY <1>1 DEF Base
  <2>2. \A p \in Parts : rows'[i][p] = IF p = "sizes" THEN 1 ELSE rows[i][p]
    BY <1>2, <2>1, AddEffect
  <2> QED
    BY <1>2, <2>2
<1>4. CASE call[c].op = "create"
  <2>1. call'[c] = call[c] /\ pc'[c] = "keys"
    BY <1>1, <1>4, ProceedEffect DEF Creating
  <2>2. Progress(i, pc[c]) => Progress(i, pc[c])'
    <3> SUFFICES ASSUME Progress(i, pc[c]), NEW p \in Created
                 PROVE  rows'[i][p] = IF p \in Before("keys") THEN 1 ELSE 0
      BY <2>1 DEF Progress, Before, Creating
    <3> QED
      BY <1>1, <1>3, BeforeValues DEF Progress
  <2> QED
    BY <1>1, <1>4, <2>1, <2>2, CreationGoesOn
<1>5. CASE call[c].op # "create"
  <2>1. call'[c] = NoCall
    BY <1>1, <1>5, ProceedEffect DEF Creating
  <2> QED
    BY <1>1, <1>5, <2>1, CreationEnds
<1> QED
  BY <1>4, <1>5

LEMMA InsertKeysStory ==
    ASSUME Base, NEW c \in Connections, NEW i \in Ids, call[c].id = i, With(i, c), InsertKeys(c)
    PROVE  \/ call'[c] = call[c] /\ With(i, c)'
           \/ call'[c] = NoCall /\ Without(i)'
<1>1. /\ pc[c] = "new keys" /\ owner' = owner /\ mishaps' = mishaps
      /\ call[c].op \in {"create", "keys"} /\ nextId' = nextId
      /\ Add(i, "keys", rows[i]["keys"] + 1) /\ Proceed(c, "trunk")
  <2>1. /\ pc[c] = "new keys" /\ owner' = owner /\ mishaps' = mishaps /\ nextId' = nextId
        /\ Add(i, "keys", rows[i]["keys"] + 1) /\ Proceed(c, "trunk")
    BY NullIsNoId DEF InsertKeys
  <2> QED
    BY <2>1, SavesAt
<1>2. "keys" \in Parts /\ Created \subseteq Parts /\ rows[i]["keys"] + 1 \in Nat
  <2>1. "keys" \in Parts /\ Created \subseteq Parts
    BY DEF Parts, Created
  <2>2. rows[i] \in [Parts -> Nat]
    BY DEF Base, TypeOK
  <2>3. rows[i]["keys"] \in Nat
    BY <2>1, <2>2
  <2> QED
    BY <2>1, <2>3
<1>3. \A p \in Created : rows'[i][p] = IF p = "keys" THEN rows[i]["keys"] + 1 ELSE rows[i][p]
  <2>1. TypeOK /\ Add(i, "keys", rows[i]["keys"] + 1) /\ i \in Ids \cup {Null}
    BY <1>1 DEF Base
  <2>2. \A p \in Parts : rows'[i][p] = IF p = "keys" THEN rows[i]["keys"] + 1 ELSE rows[i][p]
    BY <1>2, <2>1, AddEffect
  <2> QED
    BY <1>2, <2>2
<1>4. CASE call[c].op = "create"
  <2>1. call'[c] = call[c] /\ pc'[c] = "trunk"
    BY <1>1, <1>4, ProceedEffect DEF Creating
  <2>2. Progress(i, pc[c]) => Progress(i, pc[c])'
    <3> SUFFICES ASSUME Progress(i, pc[c]), NEW p \in Created
                 PROVE  rows'[i][p] = IF p \in Before("trunk") THEN 1 ELSE 0
      BY <2>1 DEF Progress, Before, Creating
    <3>1. "keys" \notin Before(pc[c]) /\ Before(pc[c]) = Created \ {"keys"}
      BY <1>1, BeforeValues DEF Created, Equipment
    <3>2. rows[i]["keys"] = 0
      BY <3>1 DEF Progress, Created
    <3>3. p # "keys" => rows'[i][p] = 1
      BY <1>3, <3>1 DEF Progress
    <3>4. p = "keys" => rows'[i][p] = 1
      BY <1>3, <3>2
    <3> QED
      BY <3>3, <3>4, BeforeValues
  <2> QED
    BY <1>1, <1>4, <2>1, <2>2, CreationGoesOn
<1>5. CASE call[c].op # "create"
  <2>1. call'[c] = NoCall
    BY <1>1, <1>5, ProceedEffect DEF Creating
  <2> QED
    BY <1>1, <1>5, <2>1, CreationEnds
<1> QED
  BY <1>4, <1>5

LEMMA LookForTrunkStory ==
    ASSUME Base, NEW c \in Connections, NEW i \in Ids, call[c].id = i, With(i, c), LookForTrunk(c)
    PROVE  \/ call'[c] = call[c] /\ With(i, c)'
           \/ call'[c] = NoCall /\ Without(i)'
<1>1. /\ pc[c] = "trunk" /\ owner' = owner /\ mishaps' = mishaps /\ rows' = rows /\ trunk' = trunk
      /\ call[c].op = "create" /\ call[c].account \in Accounts
  BY CreatesAt DEF LookForTrunk, tables
<1>2. CASE Goto(c, "new trunk") /\ UNCHANGED call
  <2>1. pc'[c] = "new trunk"
    BY <1>2 DEF Goto, Base, TypeOK
  <2>2. Progress(i, pc[c]) => Progress(i, pc[c])'
    BY <1>1, <2>1, BeforeValues DEF Progress, Before, Creating
  <2> QED
    BY <1>1, <1>2, <2>2, CreationGoesOn
<1>3. CASE ~NeedsTrunk(call[c].account) /\ End(c)
  <2>1. trunk[call[c].account] \in Nat /\ ~(trunk[call[c].account] < 1)
    BY <1>1, <1>3 DEF NeedsTrunk, Base, TypeOK
  <2>2. trunk[call[c].account] > 0
    BY <2>1
  <2>3. call[c].account = owner[i] /\ Progress(i, pc[c]) => Whole(i)'
    BY <1>1, <2>2, BeforeValues DEF Progress, Whole
  <2> QED
    BY <1>1, <1>3, <2>3, EndEffect, CreationEnds DEF Base
<1> QED
  BY <1>2, <1>3 DEF LookForTrunk

LEMMA InsertTrunkStory ==
    ASSUME Base, NEW c \in Connections, NEW i \in Ids, call[c].id = i, With(i, c), InsertTrunk(c)
    PROVE  call'[c] = NoCall /\ Without(i)'
<1>1. /\ pc[c] = "new trunk" /\ owner' = owner /\ mishaps' = mishaps /\ rows' = rows
      /\ call[c].op = "create" /\ call[c].account \in Accounts /\ End(c)
      /\ trunk' = [trunk EXCEPT ![call[c].account] = trunk[call[c].account] + 1]
      /\ trunk \in [Accounts -> Nat]
  BY CreatesAt DEF InsertTrunk, Base, TypeOK
<1>2. trunk'[call[c].account] > 0
  <2>1. PICK a \in Accounts : a = call[c].account
    BY <1>1
  <2>2. trunk[a] \in Nat /\ trunk'[a] = trunk[a] + 1
    BY <1>1, <2>1
  <2>3. trunk'[a] > 0
    BY <2>2
  <2> QED
    BY <2>1, <2>3
<1>3. call[c].account = owner[i] /\ Progress(i, pc[c]) => Whole(i)'
  BY <1>1, <1>2, BeforeValues DEF Progress, Whole
<1> QED
  BY <1>1, <1>3, EndEffect, CreationEnds DEF Base

LEMMA UnlistStory ==
    ASSUME Base, NEW c \in Connections, NEW i \in Ids, call[c].id = i, With(i, c), Unlist(c)
    PROVE  call'[c] = call[c] /\ With(i, c)'
<1>1. /\ call[c].op = "delete" /\ call[c].account \in Accounts /\ call' = call /\ pc'[c] = "unequip"
  BY DeletesAt DEF Unlist, Goto, Base, TypeOK, Deleting
<1>2. Cleared(i, pc[c])'
  BY <1>1, GoneValues DEF Cleared, Gone
<1>3. owner'[i] = Nobody \/ "foreign" \in mishaps'[i]
  BY DEF Unlist, Note, Base, TypeOK
<1> QED
  BY <1>1, <1>2, <1>3 DEF With

\* A statement of DeleteCharacter that empties tables, other than the last.
LEMMA DeletionGoesOn ==
    ASSUME Base, NEW c \in Connections, NEW i \in Ids, call[c].id = i, With(i, c),
           pc[c] \in Deleting \ {"unlist"}, NEW statement \in Deleting \ {"unlist"}, NEW parts,
           Goto(c, statement), Clear(i, parts), UNCHANGED <<owner, mishaps, call>>,
           Gone(statement) \subseteq Gone(pc[c]) \cup parts, Gone(statement) \subseteq Parts
    PROVE  call'[c] = call[c] /\ With(i, c)'
<1>1. pc'[c] = statement /\ call[c].op = "delete" /\ pc[c] \notin {"unlist", "sizes", "keys"}
  BY DeletesAt DEF Goto, Base, TypeOK, Deleting
<1>2. \A p \in Parts : rows'[i][p] = IF p \in parts THEN 0 ELSE rows[i][p]
  BY ClearEffect DEF Base
<1>3. Cleared(i, pc[c])
  BY <1>1 DEF With
<1>4. Cleared(i, statement)'
  BY <1>2, <1>3 DEF Cleared
<1>5. Cleared(i, pc[c])'
  BY <1>1, <1>4
<1> QED
  BY <1>1, <1>5 DEF With

LEMMA ClearingStory ==
    ASSUME Base, NEW c \in Connections, NEW i \in Ids, call[c].id = i, With(i, c),
           Unequip(c) \/ Strip(c) \/ Unmap(c)
    PROVE  call'[c] = call[c] /\ With(i, c)'
<1>1. /\ \A s \in {"unequip", "unequip again", "strip", "unmap", "unsize"} :
             s \in Deleting \ {"unlist"} /\ Gone(s) \subseteq Parts
      /\ UNCHANGED <<owner, mishaps, call>>
  BY GoneValues DEF Deleting, Parts, Created, Equipment, Unequip, Strip, Unmap
<1>2. CASE Unequip(c)
  <2>1. CASE pc[c] = "unequip"
    <3>1. Goto(c, "unequip again") /\ Clear(i, Equipment)
      BY <1>2, <2>1 DEF Unequip
    <3> QED
      BY <1>1, <2>1, <3>1, GoneValues, DeletionGoesOn
  <2>2. CASE pc[c] = "unequip again"
    <3>1. Goto(c, "strip") /\ Clear(i, Equipment)
      BY <1>2, <2>2 DEF Unequip
    <3> QED
      BY <1>1, <2>2, <3>1, GoneValues, DeletionGoesOn
  <2> QED
    BY <1>2, <2>1, <2>2 DEF Unequip
<1>3. CASE Strip(c)
  <2>1. pc[c] = "strip" /\ Goto(c, "unmap") /\ Clear(i, {"belongings"})
    BY <1>3 DEF Strip
  <2> QED
    BY <1>1, <2>1, GoneValues, DeletionGoesOn
<1>4. CASE Unmap(c)
  <2>1. pc[c] = "unmap" /\ Goto(c, "unsize") /\ Clear(i, {"keys"})
    BY <1>4 DEF Unmap
  <2> QED
    BY <1>1, <2>1, GoneValues, DeletionGoesOn
<1> QED
  BY <1>2, <1>3, <1>4

\* Before the last statement only the sizes are left.
LEMMA LastRows ==
    ASSUME NEW i \in Ids, NEW c \in Connections, Cleared(i, "unsize")
    PROVE  \A p \in IF owner[i] = Nobody THEN Parts ELSE Created : p = "sizes" \/ rows[i][p] = 0
BY GoneValues DEF Cleared, Parts, Created, Equipment

LEMMA UnsizeStory ==
    ASSUME Base, NEW c \in Connections, NEW i \in Ids, call[c].id = i, With(i, c), Unsize(c)
    PROVE  /\ call'[c] = NoCall /\ Without(i)'
           /\ \A p \in IF owner[i] = Nobody THEN Parts ELSE Created : rows'[i][p] = 0
<1>1. /\ pc[c] = "unsize" /\ Clear(i, {"sizes"}) /\ End(c) /\ UNCHANGED <<owner, mishaps>>
      /\ call[c].op = "delete"
  BY DeletesAt DEF Unsize, Deleting
<1>2. \A p \in Parts : rows'[i][p] = IF p \in {"sizes"} THEN 0 ELSE rows[i][p]
  BY <1>1, ClearEffect DEF Base
<1>3. \A p \in IF owner[i] = Nobody THEN Parts ELSE Created : p = "sizes" \/ rows[i][p] = 0
  BY <1>1, LastRows DEF With
<1>4. \A p \in IF owner[i] = Nobody THEN Parts ELSE Created : rows'[i][p] = 0
  BY <1>2, <1>3 DEF Parts
<1>5. call'[c] = NoCall
  BY <1>1, EndEffect DEF Base
<1>6. Without(i)'
  BY <1>1, <1>4 DEF With, Without, Empty
<1> QED
  BY <1>4, <1>5, <1>6

LEMMA BreakStory ==
    ASSUME Base, NEW c \in Connections, NEW i \in Ids, call[c].id = i, Break(c)
    PROVE  call'[c] = NoCall /\ Without(i)'
<1>1. End(c) /\ Note(i, {"cut"})
  BY DEF Break, Ids, Null
<1>2. "cut" \in mishaps'[i]
  BY <1>1 DEF Note, Base, TypeOK
<1> QED
  BY <1>1, <1>2, EndEffect DEF Without, Base

LEMMA ModestStory ==
    ASSUME Base, StoryInv, NEW c \in Connections, Modest(c)
    PROVE  StoryInv'
<1>1. TypeOK' /\ Local(c)
  BY ModestLocal
<1> SUFFICES ASSUME NEW i \in Ids PROVE Story(i)'
  BY DEF StoryInv
<1>2. Story(i)
  BY DEF StoryInv
<1>3. CASE call[c].id # i
  BY <1>1, <1>2, <1>3, StoryElsewhere
<1>4. CASE call[c].id = i
  <2>1. With(i, c) => \/ call'[c] = call[c] /\ With(i, c)'
                      \/ call'[c] = NoCall /\ Without(i)'
    BY <1>4, InsertEquipmentStory, UpdateSizesStory, InsertSizesStory, LookForKeysStory,
       InsertKeysStory, LookForTrunkStory, InsertTrunkStory, UnlistStory, ClearingStory,
       UnsizeStory, BreakStory DEF Modest
  <2> QED
    BY <1>1, <1>2, <1>4, <2>1, StoryOwn
<1> QED
  BY <1>3, <1>4

LEMMA RequestStory ==
    ASSUME Base, StoryInv, NEW c \in Connections, Request(c)
    PROVE  StoryInv'
<1>1. /\ Others(c) /\ call[c].id = Null /\ UNCHANGED tables /\ CallOK(c)'
      /\ pc'[c] \in {"character", "unlist", "sizes", "keys"}
      /\ call'[c].id = Null \/ call'[c].id \in Ids
      /\ \A a \in Accounts : trunk'[a] >= trunk[a] /\ trunk'[a] \in Nat
  BY RequestEffect DEF tables, Base, TypeOK
<1> SUFFICES ASSUME NEW i \in Ids PROVE Story(i)'
  BY DEF StoryInv
<1>2. Story(i) /\ call[c].id # i
  BY <1>1, NullIsNoId DEF StoryInv
<1>3. CASE call'[c].id # i
  <2>1. mishaps'[i] = mishaps[i]
    BY <1>3, RequestEffect
  <2>2. /\ Without(i) => Without(i)'
        /\ \A d \in Connections :
               pc'[d] = pc[d] /\ call'[d] = call[d] /\ With(i, d) => With(i, d)'
    BY <1>1, <2>1, Kept DEF tables
  <2>3. \A d \in Connections : call'[d].id = i <=> call[d].id = i
    BY <1>1, <1>2, <1>3 DEF Others
  <2>4. \A d \in Connections : call[d].id = i => pc'[d] = pc[d] /\ call'[d] = call[d]
    BY <1>1, <1>2 DEF Others
  <2> QED
    BY <1>2, <2>1, <2>2, <2>3, <2>4 DEF Story, Underway
<1>4. CASE call'[c].id = i
  <2> SUFFICES ASSUME "overlap" \notin mishaps'[i]
               PROVE  /\ \A d, e \in Connections : call'[d].id = i /\ call'[e].id = i => d = e
                      /\ \A d \in Connections : call'[d].id = i => With(i, d)'
                      /\ (~Underway(i))' => Without(i)'
    BY DEF Story
  <2>1. /\ mishaps[i] \subseteq mishaps'[i]
        /\ \A d \in Connections : call[d].id # i
        /\ call'[c].op # "create"
        /\ call'[c].op = "delete" <=> pc'[c] = "unlist"
        /\ call'[c].op # "delete" /\ owner[i] = Nobody => "late" \in mishaps'[i]
    BY <1>4, RequestEffect, NullIsNoId
  <2>2. \A d \in Connections : call'[d].id = i => d = c
    BY <1>1, <2>1 DEF Others
  <2>3. Without(i)
    BY <1>2, <2>1 DEF Story, Underway
  <2>4. Without(i)'
    BY <1>1, <2>1, <2>3, Kept DEF tables
  <2>5. pc'[c] \in {"unlist", "sizes", "keys"}
    <3>1. call'[c].op \in {"none", "create", "delete", "sizes", "keys"}
      BY RequestEffect DEF TypeOK, Call
    <3>2. pc'[c] # "character"
      BY <1>4, <2>1, <3>1, <1>1, NullIsNoId DEF CallOK, Deleting
    <3> QED
      BY <1>1, <3>2
  <2>6. (call[c].op = "delete" => Cleared(i, pc[c]))'
    BY <2>1, GoneValues DEF Cleared, Gone
  <2>7. With(i, c)'
    BY <1>1, <2>1, <2>4, <2>5, <2>6 DEF With, Without, tables
  <2> QED
    BY <1>4, <2>2, <2>7 DEF Underway
<1> QED
  BY <1>3, <1>4

LEMMA InsertCharacterStory ==
    ASSUME Base, StoryInv, NEW c \in Connections, InsertCharacter(c)
    PROVE  StoryInv'
<1>1. /\ Others(c) /\ Elsewhere(nextId) /\ pc'[c] = "shoes" /\ call'[c].op = "create"
      /\ call'[c].account = call[c].account
      /\ UNCHANGED <<rows, trunk>>
      /\ call'[c].id \in {Null, nextId}
      /\ \A a \in Accounts : trunk'[a] >= trunk[a] /\ trunk'[a] \in Nat
  BY InsertCharacterEffect DEF Base, TypeOK
<1>2. call[c].id = Null
  BY CreatesAt DEF InsertCharacter
<1>3. /\ nextId \in Ids /\ \A p \in Parts : rows[nextId][p] = 0
      /\ \A d \in Connections : call[d].id # nextId
  BY FreshId
<1> SUFFICES ASSUME NEW i \in Ids PROVE Story(i)'
  BY DEF StoryInv
<1>4. Story(i) /\ call[c].id # i
  BY <1>2, NullIsNoId DEF StoryInv
<1>5. CASE i # nextId
  <2>1. mishaps'[i] = mishaps[i] /\ owner'[i] = owner[i] /\ rows'[i] = rows[i]
    BY <1>1, <1>5 DEF Elsewhere
  <2>2. /\ Without(i) => Without(i)'
        /\ \A d \in Connections :
               pc'[d] = pc[d] /\ call'[d] = call[d] /\ With(i, d) => With(i, d)'
    BY <1>1, <2>1, Kept
  <2>3. \A d \in Connections : call'[d].id = i <=> call[d].id = i
    BY <1>1, <1>4, <1>5, NullIsNoId DEF Others
  <2>4. \A d \in Connections : call[d].id = i => pc'[d] = pc[d] /\ call'[d] = call[d]
    BY <1>1, <1>4 DEF Others
  <2> QED
    BY <1>4, <2>1, <2>2, <2>3, <2>4 DEF Story, Underway
<1>6. CASE i = nextId
  <2>1. \A d \in Connections : call'[d].id = i => d = c
    BY <1>1, <1>3, <1>6 DEF Others
  <2>2. CASE /\ owner'[i] = call[c].account /\ call[c].account \in Accounts
             /\ call'[c].id = i
    <3>1. owner'[i] # Nobody
      BY <2>2, NobodyAssumption
    <3>2. Progress(i, pc[c])'
      <4>1. \A p \in Created : rows'[i][p] = 0
        BY <1>1, <1>3, <1>6 DEF Parts
      <4> QED
        BY <1>1, <4>1, BeforeValues DEF Progress, Before, Creating, Equipment
    <3>3. With(i, c)'
      BY <1>1, <2>2, <3>1, <3>2 DEF With
    <3> QED
      BY <2>1, <2>2, <3>3 DEF Story, Underway
  <2>3. CASE owner'[i] = Nobody /\ mishaps'[i] = {"refused"}
    <3>1. With(i, c)' /\ Without(i)'
      BY <1>1, <2>3 DEF With, Without
    <3> QED
      BY <2>1, <3>1 DEF Story, Underway
  <2> QED
    BY <1>6, <2>2, <2>3, InsertCharacterEffect
<1> QED
  BY <1>5, <1>6

\* A step of no call.
LEMMA NoCallStory ==
    ASSUME Base, StoryInv, UNCHANGED <<owner, trunk, pc, call, mishaps>>,
           \A j \in Ids : \A p \in Parts \ {"belongings"} : rows'[j][p] = rows[j][p],
           \A j \in Ids : owner[j] # Nobody \/ rows'[j]["belongings"] = rows[j]["belongings"]
    PROVE  StoryInv'
<1> SUFFICES ASSUME NEW j \in Ids PROVE Story(j)'
  BY DEF StoryInv
<1>1. \A a \in Accounts : trunk'[a] >= trunk[a] /\ trunk'[a] \in Nat
  BY DEF Base, TypeOK
<1>2. /\ Without(j) => Without(j)'
      /\ \A d \in Connections :
             pc'[d] = pc[d] /\ call'[d] = call[d] /\ With(j, d) => With(j, d)'
  <2>1. owner'[j] = owner[j] /\ mishaps[j] \subseteq mishaps'[j]
    OBVIOUS
  <2>2. /\ \A p \in Parts \ {"belongings"} : rows'[j][p] = rows[j][p]
        /\ owner[j] # Nobody \/ rows'[j]["belongings"] = rows[j]["belongings"]
    OBVIOUS
  <2> QED
    BY <1>1, <2>1, <2>2, Kept
<1> QED
  BY <1>2 DEF StoryInv, Story, Underway

LEMMA StoryInvariant == Spec => []StoryInv
<1>1. Init => StoryInv
  <2> SUFFICES ASSUME Init, NEW i \in Ids PROVE Story(i)
    BY DEF StoryInv
  <2>1. \A c \in Connections : call[c].id # i
    BY NullIsNoId DEF Init, NoCall
  <2>2. Without(i)
    BY DEF Init, Without, Empty
  <2> QED
    BY <2>1, <2>2 DEF Story
<1>2. Base /\ StoryInv /\ [Next]_vars => StoryInv'
  <2> SUFFICES ASSUME Base, StoryInv, [Next]_vars PROVE StoryInv'
    OBVIOUS
  <2>1. CASE \E c \in Connections : Request(c) \/ Execute(c) \/ Break(c)
    BY <2>1, RequestStory, InsertCharacterStory, ModestStory DEF Execute, Modest
  <2>2. CASE \E i \in Ids : Play(i)
    BY <2>2, PlayEffect, NoCallStory
  <2>3. CASE UNCHANGED vars
    BY <2>3, NoCallStory DEF vars, tables
  <2> QED
    BY <2>1, <2>2, <2>3 DEF Next
<1> QED
  BY <1>1, <1>2, BaseInvariant, PTL DEF Spec

\* A character on which no call works has each row of a creation once, and a trunk, or none of
\* its rows, although no procedure is a transaction: only a call that broke off, an overlap,
\* the deletion by another account, a refused name or a save after the deletion leaves less.
THEOREM CharactersWhole == Spec => []WholeOrNothing
<1>1. StoryInv => WholeOrNothing
  BY DEF StoryInv, Story, Without, Whole, Empty, WholeOrNothing, CreatedWhole, NothingLeftBehind
<1> QED
  BY <1>1, StoryInvariant, PTL

\* DeleteCharacter that gets to its end, and meets no other call, empties every table, also of
\* what a creation that broke off had left.
THEOREM DeletionsClean == Spec => DeletionCleans
<1> DEFINE Left(i) == IF owner[i] = Nobody THEN Parts ELSE Created
<1>1. ASSUME Base, StoryInv, Next, NEW c \in Connections,
             pc[c] = "unsize", pc'[c] = "idle", rows'[call[c].id]["sizes"] = 0,
             "overlap" \notin mishaps[call[c].id]
      PROVE  \A p \in Left(call[c].id) : rows'[call[c].id][p] = 0
  <2>1. PICK i \in Ids : i = call[c].id /\ call[c].op = "delete"
    BY <1>1, DeletesAt DEF Deleting
  <2>2. With(i, c) /\ Cleared(i, "unsize")
    BY <1>1, <2>1 DEF StoryInv, Story, With
  <2>3. \A d \in Connections \ {c} : ~Others(d)
    BY <1>1 DEF Others
  <2>4. Execute(c) \/ Break(c)
    <3>1. ~\E j \in Ids : Play(j)
      BY <1>1, PlayEffect
    <3>2. ASSUME NEW d \in Connections, Request(d) \/ Execute(d) \/ Break(d)
          PROVE  Others(d)
      BY <1>1, <3>2, RequestEffect, InsertCharacterEffect, ModestLocal DEF Execute, Modest, Local
    <3>3. ~Request(c)
      BY <1>1, RequestEffect
    <3> QED
      BY <1>1, <2>3, <3>1, <3>2, <3>3 DEF Next
  <2>5. Unsize(c) \/ Break(c)
    BY <1>1, <2>4 DEF Execute, InsertCharacter, InsertEquipment, Equipment, UpdateSizes,
       InsertSizes, LookForKeys, InsertKeys, LookForTrunk, InsertTrunk, Unlist, Unequip, Strip,
       Unmap
  <2>6. CASE Unsize(c)
    BY <1>1, <2>1, <2>2, <2>6, UnsizeStory
  <2>7. CASE Break(c)
    <3>1. rows' = rows
      BY <2>7 DEF Break, tables
    <3> QED
      BY <1>1, <2>1, <2>2, <3>1, LastRows
  <2> QED
    BY <2>5, <2>6, <2>7
<1>2. Base /\ StoryInv /\ [Next]_vars =>
          [\A c \in Connections :
              LET i == call[c].id
              IN  pc[c] = "unsize" /\ pc'[c] = "idle" /\ rows'[i]["sizes"] = 0
                  /\ "overlap" \notin mishaps[i]
                  => \A p \in IF owner[i] = Nobody THEN Parts ELSE Created : rows'[i][p] = 0]_vars
  BY <1>1
<1> QED
  BY <1>2, BaseInvariant, StoryInvariant, PTL DEF Spec, DeletionCleans

-----------------------------------------------------------------------------
(* The bulletin board *)

DeletesComment(c) == task[c].op = "delete"

\* What the statement of a call says about its parameters and locals.
CallFits(c) ==
    /\ stage[c] \in {"insert", "increment"} =>
           task[c].op = "register" /\ task[c].parent \in 1 .. nextEntry - 1
    /\ stage[c] \in {"erase all", "erase entry"} =>
           task[c].op = "drop" /\ task[c].parent \in 1 .. nextEntry - 1
    /\ stage[c] \in {"find", "count", "write", "erase"} =>
           /\ DeletesComment(c)
           /\ task[c].sn \in 1 .. nextComment - 1
           /\ task[c].parent \in {None, parentOf[task[c].sn]}
    /\ stage[c] = "find" => task[c].parent = None
    /\ stage[c] = "write" => task[c].count > 0 /\ task[c].parent # None

CallsFit == \A c \in Servers : CallFits(c)

\* SNs are given out in order, and there is one for every call that will want one.
Inserting == {c \in Servers : stage[c] = "insert"}

SNsInOrder ==
    /\ nextEntry \in 1 .. MaxEntries + 1
    /\ nextComment \in Nat \ {0}
    /\ entries \subseteq 1 .. nextEntry - 1
    /\ comments \subseteq 1 .. nextComment - 1
    /\ \A s \in 1 .. nextComment - 1 : parentOf[s] \in 1 .. nextEntry - 1
    /\ \A e \in Entries : e >= nextEntry => commentCount[e] = 0

SNsSuffice ==
    /\ IsFiniteSet(Inserting)
    /\ nextComment + Cardinality(Inserting) <= tasks + 1
    /\ tasks <= MaxTasks

\* A comment that a deletion did not find stays away.
GoneStaysGone ==
    \A c \in Servers :
        stage[c] \in {"count", "write", "erase"} /\ task[c].parent = None => task[c].sn \notin comments

\* A deletion no other call has met is the only call on its entry; a call that meets a
\* deletion has made the entry's count suspect.
Undisturbed(c) == DeletesComment(c) /\ c \notin disturbed

MeetingsAt(e) ==
    \A c \in Working(e) :
        /\ Undisturbed(c) => Working(e) = {c}
        /\ DeletesComment(c) /\ c \in disturbed => e \in wrong

\* An undisturbed deletion that has found its comment finds it until the end, and what it has
\* counted is still the number.
ReadsAt(e) ==
    \A c \in Working(e) :
        Undisturbed(c) /\ task[c].parent = e =>
            /\ task[c].sn \in comments
            /\ stage[c] = "write" => task[c].count = Cardinality(CommentsOf(e))

\* The calls that have made one of their two changes: CommentCount is behind by one for each.
Owes(c) == stage[c] = "increment" \/ (stage[c] = "erase" /\ task[c].parent # None)
Owing(e) == {c \in Working(e) : Owes(c)}

Balanced(e) ==
    /\ IsFiniteSet(Owing(e))
    /\ commentCount[e] + Cardinality(Owing(e)) = Cardinality(CommentsOf(e))

\* The entries whose number is right but for the calls under way.
Trusted(e) == e \notin wrong \/ \E c \in Working(e) : Undisturbed(c) /\ Owes(c)

Going(e) == \E c \in Working(e) : stage[c] = "erase entry"

BooksAt(e) == e \in entries /\ Trusted(e) /\ ~Going(e) => Balanced(e)

EntriesFit == \A e \in Entries : MeetingsAt(e) /\ ReadsAt(e) /\ BooksAt(e)

\* Where the comments are erased already, those that have come since came late.
GoingEmpty == \A e \in Entries : Going(e) => CommentsOf(e) \subseteq late

BoardInv ==
    /\ BoardTypeOK
    /\ CallsFit
    /\ SNsInOrder
    /\ SNsSuffice
    /\ GoneStaysGone
    /\ EntriesFit
    /\ GoingEmpty
    /\ CommentsHaveEntries

-----------------------------------------------------------------------------
(* Sets of calls and comments *)

LEMMA CommentsAreFinite ==
    ASSUME BoardTypeOK, NEW e
    PROVE  IsFiniteSet(CommentsOf(e)) /\ Cardinality(CommentsOf(e)) \in Nat
  <1>1. MaxTasks \in Nat /\ IsFiniteSet(1 .. MaxTasks)
    BY BoundsAssumption, FS_Interval
  <1>2. CommentsOf(e) \subseteq 1 .. MaxTasks
    BY DEF CommentsOf, BoardTypeOK, Comments
  <1> QED  BY <1>1, <1>2, FS_Subset, FS_CardinalityType

\* What a call is about is an entry.
LEMMA AboutEntry ==
    ASSUME BoardTypeOK, CallsFit, SNsInOrder, NEW c \in Servers, stage[c] # "idle"
    PROVE  About(c) \in 1 .. nextEntry - 1 /\ About(c) \in Entries /\ About(c) # None
  <1>1. stage[c] \in BoardStatements /\ CallFits(c)
    BY DEF BoardTypeOK, CallsFit
  <1>2. About(c) \in 1 .. nextEntry - 1
    <2>1. CASE stage[c] \in {"insert", "increment", "erase all", "erase entry"}
      BY <1>1, <2>1 DEF CallFits, About
    <2>2. CASE stage[c] \in {"find", "count", "write", "erase"}
      BY <1>1, <2>2 DEF CallFits, About, DeletesComment, SNsInOrder
    <2> QED  BY <1>1, <2>1, <2>2 DEF BoardStatements
  <1>3. MaxEntries \in Nat /\ nextEntry \in 1 .. MaxEntries + 1
    BY BoundsAssumption DEF SNsInOrder
  <1> QED  BY <1>2, <1>3 DEF Entries, None

\* The SN that is given out next is not in use.
LEMMA NextIsNew ==
    ASSUME SNsInOrder
    PROVE  nextComment \notin comments
  <1>1. nextComment \notin 1 .. nextComment - 1
    BY DEF SNsInOrder
  <1> QED  BY <1>1 DEF SNsInOrder

\* A call on an entry that is no undisturbed deletion has company of its own kind only.
LEMMA NoneUndisturbed ==
    ASSUME NEW e, MeetingsAt(e), NEW c \in Working(e), ~Undisturbed(c)
    PROVE  \A d \in Working(e) : ~Undisturbed(d)
  BY DEF MeetingsAt

-----------------------------------------------------------------------------
(* A step of one call touches one entry *)

Touches(c, e) ==
    /\ \A d \in Servers \ {c} : stage'[d] = stage[d] /\ task'[d] = task[d]
    /\ \A s \in 1 .. nextComment - 1 : parentOf'[s] = parentOf[s]
    /\ stage[c] # "idle" => About(c) = e
    /\ stage'[c] # "idle" => About(c)' = e
    /\ comments' \subseteq comments \cup {nextComment}
    /\ \A s \in comments : parentOf[s] # e => s \in comments'
    /\ nextComment \in comments' => parentOf'[nextComment] = e
    /\ \A x \in Entries : x # e => /\ commentCount'[x] = commentCount[x]
                                   /\ x \in entries' => x \in entries
                                   /\ x \in wrong <=> x \in wrong'
    /\ \A d \in Servers : d # c /\ About(d) # e => (d \in disturbed <=> d \in disturbed')

\* The other calls are about what they were about.
LEMMA OthersAbout ==
    ASSUME BoardTypeOK, CallsFit, NEW c \in Servers, NEW e, Touches(c, e),
           NEW d \in Servers, d # c, stage[d] # "idle"
    PROVE  About(d)' = About(d)
  <1>1. stage[d] \in BoardStatements /\ CallFits(d) /\ task'[d] = task[d]
    BY DEF BoardTypeOK, CallsFit, Touches
  <1>2. CASE DeletesComment(d)
    <2>1. stage[d] \in {"find", "count", "write", "erase"}
      BY <1>1, <1>2 DEF BoardStatements, CallFits, DeletesComment
    <2>2. task[d].sn \in 1 .. nextComment - 1
      BY <1>1, <2>1 DEF CallFits
    <2> QED  BY <1>1, <2>2 DEF Touches, About
  <1>3. CASE ~DeletesComment(d)
    BY <1>1, <1>3 DEF DeletesComment, About
  <1> QED  BY <1>2, <1>3

\* Another entry keeps its calls and its comments.
LEMMA ElsewhereSame ==
    ASSUME BoardTypeOK, CallsFit, SNsInOrder, NEW c \in Servers, NEW e \in Entries, Touches(c, e),
           NEW x \in Entries, x # e
    PROVE  /\ Working(x)' = Working(x)
           /\ CommentsOf(x)' = CommentsOf(x)
           /\ \A d \in Working(x) : /\ d \in Servers /\ d # c
                                    /\ stage'[d] = stage[d] /\ task'[d] = task[d]
                                    /\ d \in disturbed <=> d \in disturbed'
  <1>1. ASSUME NEW d \in Servers PROVE d \in Working(x)' <=> d \in Working(x)
    <2>1. CASE d = c
      BY <2>1 DEF Touches, Working
    <2>2. CASE d # c /\ stage[d] # "idle"
      BY <2>2, OthersAbout DEF Touches, Working
    <2>3. CASE d # c /\ stage[d] = "idle"
      BY <2>3 DEF Touches, Working
    <2> QED  BY <2>1, <2>2, <2>3
  <1>2. Working(x)' = Working(x)
    BY <1>1 DEF Working
  <1>3. CommentsOf(x)' = CommentsOf(x)
    <2>1. \A s \in comments : s \in 1 .. nextComment - 1 /\ parentOf'[s] = parentOf[s]
      BY DEF SNsInOrder, Touches
    <2>2. ASSUME NEW s \in CommentsOf(x) PROVE s \in CommentsOf(x)'
      BY <2>1 DEF CommentsOf, Touches
    <2>3. ASSUME NEW s \in CommentsOf(x)' PROVE s \in CommentsOf(x)
      <3>1. s \in comments' /\ parentOf'[s] = x
        BY DEF CommentsOf
      <3>2. s \in comments
        BY <3>1 DEF Touches
      <3> QED  BY <2>1, <3>1, <3>2 DEF CommentsOf
    <2> QED  BY <2>2, <2>3
  <1>4. ASSUME NEW d \in Working(x)
        PROVE  /\ d \in Servers /\ d # c
               /\ stage'[d] = stage[d] /\ task'[d] = task[d]
               /\ d \in disturbed <=> d \in disturbed'
    BY DEF Touches, Working
  <1> QED  BY <1>2, <1>3, <1>4

\* So what holds of another entry goes on holding.
LEMMA ElsewhereFits ==
    ASSUME BoardTypeOK, CallsFit, SNsInOrder, NEW c \in Servers, NEW e \in Entries, Touches(c, e),
           NEW x \in Entries, x # e, MeetingsAt(x), ReadsAt(x), BooksAt(x)
    PROVE  MeetingsAt(x)' /\ ReadsAt(x)' /\ BooksAt(x)'
  <1>1. /\ Working(x)' = Working(x)
        /\ CommentsOf(x)' = CommentsOf(x)
        /\ \A d \in Working(x) : /\ d \in Servers /\ d # c
                                 /\ stage'[d] = stage[d] /\ task'[d] = task[d]
                                 /\ d \in disturbed <=> d \in disturbed'
    BY ElsewhereSame
  <1>2. /\ commentCount'[x] = commentCount[x]
        /\ x \in entries' => x \in entries
        /\ x \in wrong <=> x \in wrong'
    BY DEF Touches
  <1>3. \A d \in Working(x) : (Undisturbed(d)' <=> Undisturbed(d)) /\ (DeletesComment(d)' <=> DeletesComment(d))
    BY <1>1 DEF Undisturbed, DeletesComment
  <1>4. \A d \in Working(x) : Owes(d)' <=> Owes(d)
    BY <1>1 DEF Owes
  <1>5. MeetingsAt(x)'
    BY <1>1, <1>2, <1>3 DEF MeetingsAt
  <1>6. ReadsAt(x)'
    <2> SUFFICES ASSUME NEW d \in Working(x), Undisturbed(d)', task'[d].parent = x
                 PROVE  /\ task'[d].sn \in comments'
                        /\ stage'[d] = "write" => task'[d].count = Cardinality(CommentsOf(x)')
      BY <1>1 DEF ReadsAt
    <2>1. /\ task[d].sn \in comments
          /\ stage[d] = "write" => task[d].count = Cardinality(CommentsOf(x))
      BY <1>1, <1>3 DEF ReadsAt
    <2>2. parentOf[task[d].sn] = x
      BY <1>1, <1>3 DEF Working, About, Undisturbed, DeletesComment
    <2>3. task[d].sn \in comments'
      BY <2>1, <2>2 DEF Touches
    <2> QED  BY <1>1, <2>1, <2>3
  <1>7. BooksAt(x)'
    <2>1. Owing(x)' = Owing(x)
      BY <1>1, <1>4 DEF Owing
    <2>2. Trusted(x)' <=> Trusted(x)
      BY <1>1, <1>2, <1>3, <1>4 DEF Trusted
    <2>3. Going(x)' <=> Going(x)
      BY <1>1 DEF Going
    <2> QED  BY <1>1, <1>2, <2>1, <2>2, <2>3 DEF BooksAt, Balanced
  <1> QED  BY <1>5, <1>6, <1>7

LEMMA EverywhereFits ==
    ASSUME BoardInv, NEW c \in Servers, NEW e \in Entries, Touches(c, e),
           MeetingsAt(e)', ReadsAt(e)', BooksAt(e)'
    PROVE  EntriesFit'
  <1>1. ASSUME NEW x \in Entries PROVE MeetingsAt(x)' /\ ReadsAt(x)' /\ BooksAt(x)'
    BY ElsewhereFits DEF BoardInv, EntriesFit
  <1> QED  BY <1>1 DEF EntriesFit, Entries

\* The calls on the entry that is touched.
LEMMA WorkingHere ==
    ASSUME BoardTypeOK, CallsFit, SNsInOrder, NEW c \in Servers, NEW e \in Entries, Touches(c, e)
    PROVE  /\ Working(e)' \ {c} = Working(e) \ {c}
           /\ c \in Working(e) <=> stage[c] # "idle"
           /\ c \in Working(e)' <=> stage'[c] # "idle"
           /\ \A d \in Working(e) \ {c} : /\ d \in Servers
                                          /\ stage'[d] = stage[d] /\ task'[d] = task[d]
  <1>1. ASSUME NEW d \in Servers, d # c PROVE d \in Working(e)' <=> d \in Working(e)
    <2>1. CASE stage[d] # "idle"
      BY <1>1, <2>1, OthersAbout DEF Touches, Working
    <2>2. CASE stage[d] = "idle"
      BY <1>1, <2>2 DEF Touches, Working
    <2> QED  BY <2>1, <2>2
  <1>2. Working(e) \subseteq Servers /\ Working(e)' \subseteq Servers
    BY DEF Working
  <1>3. Working(e)' \ {c} = Working(e) \ {c}
    BY <1>1, <1>2
  <1>4. (c \in Working(e) <=> stage[c] # "idle") /\ (c \in Working(e)' <=> stage'[c] # "idle")
    BY DEF Touches, Working
  <1>5. ASSUME NEW d \in Working(e) \ {c}
        PROVE  d \in Servers /\ stage'[d] = stage[d] /\ task'[d] = task[d]
    BY <1>2 DEF Touches
  <1> QED  BY <1>3, <1>4, <1>5

\* The SNs that were given out stay given out.
LEMMA SNsGrow ==
    ASSUME NEW a \in Nat, NEW b \in Nat, a <= b
    PROVE  \A x \in 1 .. a - 1 : x \in 1 .. b - 1
  OBVIOUS

LEMMA OthersFit ==
    ASSUME CallsFit, NEW c \in Servers, NEW e, Touches(c, e), nextEntry \in Nat, nextComment \in Nat,
           nextEntry' \in Nat, nextComment' \in Nat, nextEntry <= nextEntry', nextComment <= nextComment',
           NEW d \in Servers, d # c
    PROVE  CallFits(d)'
  <1>1. CallFits(d) /\ stage'[d] = stage[d] /\ task'[d] = task[d]
    BY DEF CallsFit, Touches
  <1>2. \A s \in 1 .. nextComment - 1 : parentOf'[s] = parentOf[s] /\ s \in 1 .. nextComment' - 1
    <2>1. \A s \in 1 .. nextComment - 1 : s \in 1 .. nextComment' - 1
      BY SNsGrow
    <2> QED  BY <2>1 DEF Touches
  <1>3. \A x \in 1 .. nextEntry - 1 : x \in 1 .. nextEntry' - 1
    BY SNsGrow
  <1>4. stage[d] \in {"insert", "increment"} =>
            task'[d].op = "register" /\ task'[d].parent \in 1 .. nextEntry' - 1
    BY <1>1, <1>3 DEF CallFits
  <1>5. stage[d] \in {"erase all", "erase entry"} =>
            task'[d].op = "drop" /\ task'[d].parent \in 1 .. nextEntry' - 1
    BY <1>1, <1>3 DEF CallFits
  <1>6. stage[d] \in {"find", "count", "write", "erase"} =>
            /\ DeletesComment(d)'
            /\ task'[d].sn \in 1 .. nextComment' - 1
            /\ task'[d].parent \in {None, parentOf'[task'[d].sn]}
    BY <1>1, <1>2 DEF CallFits, DeletesComment
  <1>7. /\ stage[d] = "find" => task'[d].parent = None
        /\ stage[d] = "write" => task'[d].count > 0 /\ task'[d].parent # None
    BY <1>1 DEF CallFits
  <1> QED  BY <1>1, <1>4, <1>5, <1>6, <1>7 DEF CallFits

LEMMA OthersGone ==
    ASSUME BoardTypeOK, CallsFit, SNsInOrder, GoneStaysGone, NEW c \in Servers, NEW e, Touches(c, e),
           NEW d \in Servers, d # c
    PROVE  stage'[d] \in {"count", "write", "erase"} /\ task'[d].parent = None
               => task'[d].sn \notin comments'
  <1>1. CallFits(d) /\ stage'[d] = stage[d] /\ task'[d] = task[d]
    BY DEF CallsFit, Touches
  <1> SUFFICES ASSUME stage[d] \in {"count", "write", "erase"}, task[d].parent = None
               PROVE  task[d].sn \notin comments'
    BY <1>1
  <1>2. task[d].sn \notin comments /\ task[d].sn \in 1 .. nextComment - 1
    BY <1>1 DEF GoneStaysGone, CallFits
  <1>3. task[d].sn # nextComment
    BY <1>2 DEF SNsInOrder
  <1> QED  BY <1>2, <1>3 DEF Touches

\* A statement that registers nothing.
RegistersNothing(c, e) ==
    /\ UNCHANGED <<parentOf, nextEntry, nextComment, late, tasks>>
    /\ comments' \subseteq comments
    /\ entries' = entries \/ (entries' = entries \ {e} /\ Going(e))
    /\ \A x \in Entries \ entries : commentCount'[x] = commentCount[x]
    /\ stage'[c] # "insert"
    /\ stage'[c] = "erase entry" => CommentsOf(e)' = {}
    /\ stage'[c] \in {"count", "write", "erase"} /\ task'[c].parent = None => task'[c].sn \notin comments'

LEMMA StatementStep ==
    ASSUME BoardInv, BoardTypeOK', NEW c \in Servers, NEW e \in Entries, Touches(c, e),
           RegistersNothing(c, e), CallFits(c)', MeetingsAt(e)', ReadsAt(e)', BooksAt(e)'
    PROVE  BoardInv'
  <1>1. BoardTypeOK /\ CallsFit /\ SNsInOrder /\ SNsSuffice /\ GoneStaysGone /\ GoingEmpty
        /\ CommentsHaveEntries
    BY DEF BoardInv
  <1>2. EntriesFit'
    BY EverywhereFits
  <1>3. CallsFit'
    <2>1. nextEntry \in Nat /\ nextComment \in Nat /\ nextEntry' = nextEntry /\ nextComment' = nextComment
      BY <1>1 DEF BoardTypeOK, RegistersNothing
    <2> QED  BY <1>1, <2>1, OthersFit DEF CallsFit
  <1>4. SNsInOrder'
    <2>1. \A x \in Entries : x >= nextEntry => commentCount'[x] = commentCount[x]
      <3> SUFFICES ASSUME NEW x \in Entries, x >= nextEntry PROVE x \notin entries
        BY DEF RegistersNothing
      <3>1. nextEntry \in Nat /\ x \in Nat
        BY <1>1 DEF BoardTypeOK, Entries
      <3> QED  BY <1>1, <3>1 DEF SNsInOrder
    <2> QED  BY <1>1, <2>1 DEF SNsInOrder, RegistersNothing
  <1>5. SNsSuffice'
    <2>1. Inserting' \subseteq Inserting
      BY DEF Inserting, Touches, RegistersNothing
    <2>2. IsFiniteSet(Inserting') /\ Cardinality(Inserting') <= Cardinality(Inserting)
      BY <1>1, <2>1, FS_Subset DEF SNsSuffice
    <2>3. Cardinality(Inserting') \in Nat /\ Cardinality(Inserting) \in Nat
      BY <1>1, <2>2, FS_CardinalityType DEF SNsSuffice
    <2>4. nextComment' = nextComment /\ tasks' = tasks /\ nextComment \in Nat /\ tasks \in Nat
      BY <1>1 DEF RegistersNothing, BoardTypeOK
    <2> QED  BY <1>1, <2>2, <2>3, <2>4 DEF SNsSuffice
  <1>6. GoneStaysGone'
    BY <1>1, OthersGone DEF GoneStaysGone, RegistersNothing
  <1>7. GoingEmpty'
    <2> SUFFICES ASSUME NEW x \in Entries, Going(x)' PROVE CommentsOf(x)' \subseteq late
      BY DEF GoingEmpty, Entries, RegistersNothing
    <2>1. PICK d \in Working(x)' : stage'[d] = "erase entry"
      BY DEF Going
    <2>2. CASE x # e
      <3>1. Working(x)' = Working(x) /\ CommentsOf(x)' = CommentsOf(x) /\ stage'[d] = stage[d]
        BY <1>1, <2>1, <2>2, ElsewhereSame
      <3> QED  BY <1>1, <2>1, <3>1 DEF GoingEmpty, Going
    <2>3. CASE x = e /\ d = c
      BY <2>1, <2>3 DEF RegistersNothing
    <2>4. CASE x = e /\ d # c
      <3>1. d \in Working(e) /\ stage[d] = "erase entry"
        BY <1>1, <2>1, <2>4, WorkingHere
      <3>2. CommentsOf(e) \subseteq late
        BY <1>1, <3>1 DEF GoingEmpty, Going
      <3> QED  BY <2>4, <3>2 DEF CommentsOf, RegistersNothing
    <2> QED  BY <2>2, <2>3, <2>4
  <1>8. CommentsHaveEntries'
    <2> SUFFICES ASSUME NEW s \in comments' \ late' PROVE parentOf'[s] \in entries'
      BY DEF CommentsHaveEntries
    <2>1. s \in comments \ late /\ parentOf'[s] = parentOf[s] /\ parentOf[s] \in entries
      BY <1>1 DEF RegistersNothing, CommentsHaveEntries
    <2>2. CASE Going(e)
      BY <1>1, <2>1, <2>2 DEF GoingEmpty, CommentsOf, RegistersNothing
    <2>3. CASE entries' = entries
      BY <2>1, <2>3
    <2> QED  BY <2>2, <2>3 DEF RegistersNothing
  <1> QED  BY <1>2, <1>3, <1>4, <1>5, <1>6, <1>7, <1>8 DEF BoardInv

-----------------------------------------------------------------------------
(* What the parts of the statements do *)

LEMMA ReachFacts ==
    ASSUME BoardTypeOK, NEW c \in Servers, NEW statement \in BoardStatements, Reach(c, statement)
    PROVE  /\ stage' \in [Servers -> BoardStatements]
           /\ stage'[c] = statement
           /\ \A d \in Servers \ {c} : stage'[d] = stage[d]
  BY DEF BoardTypeOK, Reach

LEMMA ReturnFacts ==
    ASSUME BoardTypeOK, NEW c \in Servers, Return(c)
    PROVE  /\ stage' \in [Servers -> BoardStatements]
           /\ task' \in [Servers -> BoardCall]
           /\ stage'[c] = "idle"
           /\ \A d \in Servers \ {c} : stage'[d] = stage[d] /\ task'[d] = task[d]
  <1>1. "idle" \in BoardStatements /\ NoBoardCall \in BoardCall
    BY DEF BoardStatements, BoardCall, NoBoardCall
  <1>2. /\ stage' \in [Servers -> BoardStatements] /\ stage'[c] = "idle"
        /\ \A d \in Servers \ {c} : stage'[d] = stage[d]
    BY <1>1, ReachFacts DEF Return
  <1>3. task' \in [Servers -> BoardCall] /\ \A d \in Servers \ {c} : task'[d] = task[d]
    BY <1>1 DEF BoardTypeOK, Return
  <1> QED  BY <1>2, <1>3

LEMMA SetCountFacts ==
    ASSUME BoardTypeOK, NEW e \in Entries, NEW n \in Nat, SetCount(e, n)
    PROVE  /\ commentCount' \in [Entries -> Nat]
           /\ \A x \in Entries : x # e \/ x \notin entries => commentCount'[x] = commentCount[x]
           /\ e \in entries => commentCount'[e] = n
  BY DEF BoardTypeOK, SetCount

\* A call under way: its entry, and what holds there.
LEMMA UnderWay ==
    ASSUME BoardInv, NEW c \in Servers, stage[c] # "idle"
    PROVE  \E e \in Entries : /\ About(c) = e /\ e # None
                              /\ c \in Working(e)
                              /\ MeetingsAt(e) /\ ReadsAt(e) /\ BooksAt(e)
  <1>1. About(c) \in Entries /\ About(c) # None
    BY AboutEntry DEF BoardInv
  <1> QED  BY <1>1 DEF BoardInv, EntriesFit, Working

\* A call that leaves an entry, and was no undisturbed deletion, leaves the others as they were.
LEMMA LeavesMeetings ==
    ASSUME BoardInv, NEW c \in Servers, NEW e \in Entries, Touches(c, e), stage[c] # "idle",
           ~Undisturbed(c), UNCHANGED <<disturbed, wrong>>,
           stage'[c] = "idle" \/ (stage'[c] # "idle" /\ (DeletesComment(c)' <=> DeletesComment(c)))
    PROVE  /\ MeetingsAt(e)' /\ ReadsAt(e)'
           /\ \A d \in Working(e)' : ~Undisturbed(d)'
  <1>1. BoardTypeOK /\ CallsFit /\ SNsInOrder /\ MeetingsAt(e)
    BY DEF BoardInv, EntriesFit
  <1>2. /\ Working(e)' \ {c} = Working(e) \ {c}
        /\ c \in Working(e)
        /\ c \in Working(e)' <=> stage'[c] # "idle"
        /\ \A d \in Working(e) \ {c} : d \in Servers /\ stage'[d] = stage[d] /\ task'[d] = task[d]
    BY <1>1, WorkingHere
  <1>3. ASSUME NEW d \in Working(e)'
        PROVE  d \in Working(e) /\ (DeletesComment(d)' <=> DeletesComment(d)) /\ (Undisturbed(d)' <=> Undisturbed(d))
    BY <1>2 DEF DeletesComment, Undisturbed
  <1>4. \A d \in Working(e) : ~Undisturbed(d)
    BY <1>1, <1>2, NoneUndisturbed
  <1>5. \A d \in Working(e)' : ~Undisturbed(d)'
    BY <1>3, <1>4
  <1>6. MeetingsAt(e)'
    BY <1>1, <1>3, <1>5 DEF MeetingsAt
  <1>7. ReadsAt(e)'
    BY <1>5 DEF ReadsAt
  <1> QED  BY <1>5, <1>6, <1>7

-----------------------------------------------------------------------------
(* GuildBBS_RegisterComment, the second statement *)

LEMMA IncrementStep ==
    ASSUME BoardInv, NEW c \in Servers, Increment(c)
    PROVE  BoardInv'
  <1>1. BoardTypeOK /\ CallsFit /\ SNsInOrder /\ stage[c] = "increment" /\ CallFits(c)
    BY DEF BoardInv, CallsFit, Increment
  <1>2. PICK e \in Entries : /\ About(c) = e /\ e # None /\ c \in Working(e)
                             /\ MeetingsAt(e) /\ ReadsAt(e) /\ BooksAt(e)
    BY <1>1, UnderWay
  <1>3. ~DeletesComment(c) /\ task[c].parent = e /\ ~Undisturbed(c)
    BY <1>1, <1>2 DEF CallFits, About, DeletesComment, Undisturbed
  <1>4. /\ commentCount' \in [Entries -> Nat]
        /\ \A x \in Entries : x # e \/ x \notin entries => commentCount'[x] = commentCount[x]
        /\ e \in entries => commentCount'[e] = commentCount[e] + 1
    <2>1. commentCount[e] + 1 \in Nat /\ SetCount(e, commentCount[e] + 1)
      BY <1>1, <1>3 DEF Increment, BoardTypeOK
    <2> QED  BY <1>1, <2>1, SetCountFacts
  <1>5. /\ stage' \in [Servers -> BoardStatements] /\ task' \in [Servers -> BoardCall]
        /\ stage'[c] = "idle"
        /\ \A d \in Servers \ {c} : stage'[d] = stage[d] /\ task'[d] = task[d]
    BY <1>1, ReturnFacts DEF Increment
  <1>6. UNCHANGED <<entries, comments, parentOf, nextEntry, nextComment, boardHistory, tasks>>
    BY DEF Increment
  <1>7. BoardTypeOK'
    BY <1>1, <1>4, <1>5, <1>6 DEF BoardTypeOK, boardHistory
  <1>8. Touches(c, e)
    <2>1. nextComment \notin comments'
      BY <1>1, <1>6, NextIsNew
    <2> QED  BY <1>2, <1>4, <1>5, <1>6, <2>1 DEF Touches, boardHistory
  <1>9. MeetingsAt(e)' /\ ReadsAt(e)' /\ \A d \in Working(e)' : ~Undisturbed(d)'
    BY <1>1, <1>3, <1>5, <1>6, <1>8, LeavesMeetings DEF boardHistory
  <1>10. BooksAt(e)'
    <2> SUFFICES ASSUME e \in entries', Trusted(e)', ~Going(e)' PROVE Balanced(e)'
      BY DEF BooksAt
    <2>1. /\ Working(e)' \ {c} = Working(e) \ {c}
          /\ c \in Working(e) /\ c \notin Working(e)'
          /\ \A d \in Working(e) \ {c} : d \in Servers /\ stage'[d] = stage[d] /\ task'[d] = task[d]
      BY <1>1, <1>5, <1>8, WorkingHere
    <2>2. e \notin wrong
      BY <1>6, <1>9 DEF Trusted, boardHistory
    <2>3. ~Going(e)
      BY <1>1, <2>1 DEF Going
    <2>4. Balanced(e)
      BY <1>2, <1>6, <2>2, <2>3 DEF BooksAt, Trusted
    <2>5. Owing(e)' = Owing(e) \ {c} /\ c \in Owing(e)
      <3>1. c \in Owing(e)
        BY <1>1, <1>2 DEF Owing, Owes
      <3>2. \A d \in Working(e) \ {c} : Owes(d)' <=> Owes(d)
        BY <2>1 DEF Owes
      <3> QED  BY <2>1, <3>1, <3>2 DEF Owing
    <2>6. /\ IsFiniteSet(Owing(e)')
          /\ Cardinality(Owing(e)') = Cardinality(Owing(e)) - 1
          /\ Cardinality(Owing(e)) \in Nat
      BY <2>4, <2>5, FS_RemoveElement, FS_CardinalityType DEF Balanced
    <2>7. CommentsOf(e)' = CommentsOf(e)
      BY <1>6 DEF CommentsOf
    <2>8. commentCount[e] \in Nat /\ commentCount'[e] = commentCount[e] + 1
      BY <1>1, <1>4, <1>6 DEF BoardTypeOK
    <2>9. commentCount'[e] + Cardinality(Owing(e)') = Cardinality(CommentsOf(e))
      BY <2>4, <2>6, <2>8 DEF Balanced
    <2> QED  BY <2>6, <2>7, <2>9 DEF Balanced
  <1>11. CallFits(c)' /\ RegistersNothing(c, e)
    BY <1>4, <1>5, <1>6 DEF CallFits, RegistersNothing, boardHistory
  <1> QED  BY <1>7, <1>8, <1>9, <1>10, <1>11, StatementStep

-----------------------------------------------------------------------------
(* GuildBBS_DeleteComment *)

\* A call that goes on to its next statement meets the same calls as before.
LEMMA GoesOn ==
    ASSUME BoardInv, NEW c \in Servers, NEW e \in Entries, Touches(c, e), stage[c] # "idle",
           stage'[c] # "idle", DeletesComment(c)' <=> DeletesComment(c), UNCHANGED <<disturbed, wrong>>
    PROVE  /\ MeetingsAt(e)'
           /\ Working(e)' = Working(e) /\ c \in Working(e)
           /\ \A d \in Working(e) : Undisturbed(d)' <=> Undisturbed(d)
           /\ \A d \in Working(e) \ {c} : stage'[d] = stage[d] /\ task'[d] = task[d]
  <1>1. BoardTypeOK /\ CallsFit /\ SNsInOrder /\ MeetingsAt(e)
    BY DEF BoardInv, EntriesFit
  <1>2. /\ Working(e)' \ {c} = Working(e) \ {c}
        /\ c \in Working(e) /\ c \in Working(e)'
        /\ \A d \in Working(e) \ {c} : d \in Servers /\ stage'[d] = stage[d] /\ task'[d] = task[d]
    BY <1>1, WorkingHere
  <1>3. Working(e)' = Working(e)
    BY <1>2
  <1>4. \A d \in Working(e) : (Undisturbed(d)' <=> Undisturbed(d)) /\ (DeletesComment(d)' <=> DeletesComment(d))
    BY <1>2 DEF DeletesComment, Undisturbed
  <1>5. MeetingsAt(e)'
    BY <1>1, <1>3, <1>4 DEF MeetingsAt
  <1> QED  BY <1>2, <1>3, <1>4, <1>5

\* The deletion that is under way: its comment is one of its entry.
LEMMA DeletionUnderWay ==
    ASSUME BoardInv, NEW c \in Servers, stage[c] \in {"find", "count", "write", "erase"}
    PROVE  /\ DeletesComment(c) /\ CallFits(c) /\ About(c) = parentOf[task[c].sn]
           /\ task[c].sn \in 1 .. nextComment - 1
           /\ task[c].parent \in {None, About(c)}
           /\ task[c] \in BoardCall
  BY DEF BoardInv, BoardTypeOK, CallsFit, CallFits, DeletesComment, About

LEMMA FindParentStep ==
    ASSUME BoardInv, NEW c \in Servers, FindParent(c)
    PROVE  BoardInv'
  <1>1. BoardTypeOK /\ CallsFit /\ SNsInOrder /\ stage[c] = "find"
    BY DEF BoardInv, FindParent
  <1>2. PICK e \in Entries : /\ About(c) = e /\ e # None /\ c \in Working(e)
                             /\ MeetingsAt(e) /\ ReadsAt(e) /\ BooksAt(e)
    BY <1>1, UnderWay
  <1>3. /\ DeletesComment(c) /\ parentOf[task[c].sn] = e /\ task[c].sn \in 1 .. nextComment - 1
        /\ task[c] \in BoardCall
    BY <1>1, <1>2, DeletionUnderWay
  <1> DEFINE p == IF task[c].sn \in comments THEN e ELSE None
  <1>4. /\ task' = [task EXCEPT ![c] = [task[c] EXCEPT !.parent = p]] /\ Reach(c, "count")
        /\ UNCHANGED <<boardTables, boardHistory, tasks>>
    BY <1>3 DEF FindParent
  <1>5. p \in {None, e} /\ (p = e <=> task[c].sn \in comments)
    BY <1>2
  <1> HIDE DEF p
  <1>6. /\ task' \in [Servers -> BoardCall]
        /\ task'[c].op = "delete" /\ task'[c].sn = task[c].sn /\ task'[c].parent = p
        /\ \A d \in Servers \ {c} : task'[d] = task[d]
    BY <1>1, <1>3, <1>4, <1>5 DEF BoardTypeOK, BoardCall, DeletesComment
  <1>7. /\ stage' \in [Servers -> BoardStatements] /\ stage'[c] = "count"
        /\ \A d \in Servers \ {c} : stage'[d] = stage[d]
    BY <1>1, <1>4, ReachFacts DEF BoardStatements
  <1>8. BoardTypeOK'
    BY <1>1, <1>4, <1>6, <1>7 DEF BoardTypeOK, boardTables, boardHistory
  <1>9. Touches(c, e)
    <2>1. nextComment \notin comments'
      BY <1>1, <1>4, NextIsNew DEF boardTables
    <2>2. About(c)' = e
      BY <1>3, <1>4, <1>6 DEF About, boardTables
    <2> QED  BY <1>2, <1>4, <1>6, <1>7, <2>1, <2>2 DEF Touches, boardTables, boardHistory
  <1>10. /\ MeetingsAt(e)' /\ Working(e)' = Working(e)
         /\ \A d \in Working(e) : Undisturbed(d)' <=> Undisturbed(d)
         /\ \A d \in Working(e) \ {c} : stage'[d] = stage[d] /\ task'[d] = task[d]
    BY <1>1, <1>3, <1>4, <1>6, <1>7, <1>9, GoesOn DEF DeletesComment, boardHistory
  <1>11. CommentsOf(e)' = CommentsOf(e)
    BY <1>4 DEF CommentsOf, boardTables
  <1>12. ReadsAt(e)'
    <2>1. ASSUME NEW d \in Working(e), Undisturbed(d)', task'[d].parent = e
          PROVE  /\ task'[d].sn \in comments'
                 /\ stage'[d] = "write" => task'[d].count = Cardinality(CommentsOf(e)')
      <3>1. d = c
        BY <1>2, <1>10, <2>1 DEF MeetingsAt
      <3> QED  BY <1>2, <1>4, <1>5, <1>6, <1>7, <2>1, <3>1 DEF boardTables
    <2> QED  BY <1>10, <2>1 DEF ReadsAt
  <1>13. BooksAt(e)'
    <2>1. \A d \in Working(e) : Owes(d)' <=> Owes(d)
      BY <1>1, <1>7, <1>10 DEF Owes
    <2>2. Owing(e)' = Owing(e)
      BY <1>10, <2>1 DEF Owing
    <2>3. (Trusted(e)' <=> Trusted(e)) /\ (Going(e)' <=> Going(e))
      BY <1>1, <1>4, <1>7, <1>10, <2>1 DEF Trusted, Going, boardHistory
    <2> QED  BY <1>2, <1>4, <1>11, <2>2, <2>3 DEF BooksAt, Balanced, boardTables
  <1>14. CallFits(c)' /\ RegistersNothing(c, e)
    <2>1. CallFits(c)'
      BY <1>3, <1>4, <1>5, <1>6, <1>7 DEF CallFits, DeletesComment, boardTables
    <2>2. RegistersNothing(c, e)
      BY <1>2, <1>4, <1>5, <1>6, <1>7 DEF RegistersNothing, boardTables, boardHistory
    <2> QED  BY <2>1, <2>2
  <1> QED  BY <1>8, <1>9, <1>10, <1>12, <1>13, <1>14, StatementStep

LEMMA CountCommentsStep ==
    ASSUME BoardInv, NEW c \in Servers, CountComments(c)
    PROVE  BoardInv'
  <1>1. BoardTypeOK /\ CallsFit /\ SNsInOrder /\ stage[c] = "count"
    BY DEF BoardInv, CountComments
  <1>2. PICK e \in Entries : /\ About(c) = e /\ e # None /\ c \in Working(e)
                             /\ MeetingsAt(e) /\ ReadsAt(e) /\ BooksAt(e)
    BY <1>1, UnderWay
  <1>3. /\ DeletesComment(c) /\ parentOf[task[c].sn] = e /\ task[c].sn \in 1 .. nextComment - 1
        /\ task[c] \in BoardCall /\ task[c].parent \in {None, e}
    BY <1>1, <1>2, DeletionUnderWay
  <1> DEFINE n == IF task[c].parent = None THEN 0 ELSE Cardinality(CommentsOf(task[c].parent))
             st == IF n > 0 THEN "write" ELSE "erase"
  <1>4. /\ task' = [task EXCEPT ![c] = [task[c] EXCEPT !.count = n]] /\ Reach(c, st)
        /\ UNCHANGED <<boardTables, boardHistory, tasks>>
    BY DEF CountComments
  <1>5. /\ n \in Nat
        /\ task[c].parent = None => n = 0
        /\ task[c].parent = e => n = Cardinality(CommentsOf(e))
    BY <1>1, <1>2, <1>3, CommentsAreFinite
  <1>6. st \in {"write", "erase"} /\ (st = "write" <=> n > 0)
    BY <1>5
  <1> HIDE DEF n, st
  <1>7. /\ task' \in [Servers -> BoardCall]
        /\ task'[c].op = "delete" /\ task'[c].sn = task[c].sn /\ task'[c].parent = task[c].parent
        /\ task'[c].count = n
        /\ \A d \in Servers \ {c} : task'[d] = task[d]
    BY <1>1, <1>3, <1>4, <1>5 DEF BoardTypeOK, BoardCall, DeletesComment
  <1>8. /\ stage' \in [Servers -> BoardStatements] /\ stage'[c] = st
        /\ \A d \in Servers \ {c} : stage'[d] = stage[d]
    BY <1>1, <1>4, <1>6, ReachFacts DEF BoardStatements
  <1>9. BoardTypeOK'
    BY <1>1, <1>4, <1>7, <1>8 DEF BoardTypeOK, boardTables, boardHistory
  <1>10. Touches(c, e)
    <2>1. nextComment \notin comments'
      BY <1>1, <1>4, NextIsNew DEF boardTables
    <2>2. About(c)' = e
      BY <1>3, <1>4, <1>7 DEF About, boardTables
    <2> QED  BY <1>2, <1>4, <1>7, <1>8, <2>1, <2>2 DEF Touches, boardTables, boardHistory
  <1>11. /\ MeetingsAt(e)' /\ Working(e)' = Working(e)
         /\ \A d \in Working(e) : Undisturbed(d)' <=> Undisturbed(d)
         /\ \A d \in Working(e) \ {c} : stage'[d] = stage[d] /\ task'[d] = task[d]
    BY <1>1, <1>3, <1>4, <1>6, <1>7, <1>8, <1>10, GoesOn DEF DeletesComment, boardHistory
  <1>12. CommentsOf(e)' = CommentsOf(e)
    BY <1>4 DEF CommentsOf, boardTables
  <1>13. ReadsAt(e)'
    <2>1. ASSUME NEW d \in Working(e), Undisturbed(d)', task'[d].parent = e
          PROVE  /\ task'[d].sn \in comments'
                 /\ stage'[d] = "write" => task'[d].count = Cardinality(CommentsOf(e)')
      <3>1. d = c
        BY <1>2, <1>11, <2>1 DEF MeetingsAt
      <3>2. task[c].sn \in comments
        BY <1>2, <1>7, <1>11, <2>1, <3>1 DEF ReadsAt
      <3> QED  BY <1>4, <1>5, <1>7, <1>12, <2>1, <3>1, <3>2 DEF boardTables
    <2> QED  BY <1>11, <2>1 DEF ReadsAt
  <1>14. BooksAt(e)'
    <2> SUFFICES ASSUME e \in entries', Trusted(e)', ~Going(e)' PROVE Balanced(e)'
      BY DEF BooksAt
    <2>1. ~Owes(c)'
      <3> SUFFICES ASSUME Owes(c)' PROVE FALSE
        OBVIOUS
      <3>1. n = 0 /\ task[c].parent = e
        BY <1>3, <1>5, <1>6, <1>7, <1>8 DEF Owes
      <3>2. CommentsOf(e) = {}
        BY <1>1, <1>5, <3>1, CommentsAreFinite, FS_EmptySet
      <3>3. ~Undisturbed(c)
        BY <1>2, <1>3, <3>1, <3>2 DEF ReadsAt, CommentsOf
      <3>4. e \in wrong
        BY <1>2, <1>3, <3>3 DEF MeetingsAt, Undisturbed
      <3>5. \A d \in Working(e) : ~Undisturbed(d)
        BY <1>2, <3>3, NoneUndisturbed
      <3> QED  BY <1>4, <1>11, <3>4, <3>5 DEF Trusted, boardHistory
    <2>2. \A d \in Working(e) : Owes(d)' <=> Owes(d)
      BY <1>1, <1>11, <2>1 DEF Owes
    <2>3. Owing(e)' = Owing(e)
      BY <1>11, <2>2 DEF Owing
    <2>4. Trusted(e) /\ ~Going(e)
      BY <1>1, <1>4, <1>11, <2>2 DEF Trusted, Going, boardHistory
    <2> QED  BY <1>2, <1>4, <1>12, <2>3, <2>4 DEF BooksAt, Balanced, boardTables
  <1>15. /\ stage'[c] \in {"write", "erase"}
         /\ stage'[c] = "write" => task'[c].count > 0 /\ task'[c].parent # None
         /\ task'[c].parent \in {None, parentOf'[task'[c].sn]}
         /\ task'[c].sn \in 1 .. nextComment' - 1
    <2>1. parentOf' = parentOf /\ nextComment' = nextComment
      BY <1>4 DEF boardTables
    <2>2. stage'[c] = "write" => n > 0 /\ task[c].parent # None
      BY <1>5, <1>6, <1>8
    <2> QED  BY <1>3, <1>6, <1>7, <1>8, <2>1, <2>2
  <1>16. CallFits(c)'
    BY <1>7, <1>15 DEF CallFits, DeletesComment
  <1>17. RegistersNothing(c, e)
    <2>1. task[c].parent = None => task[c].sn \notin comments
      BY <1>1 DEF BoardInv, GoneStaysGone
    <2>2. UNCHANGED <<entries, commentCount, comments, parentOf, nextEntry, nextComment, late, tasks>>
      BY <1>4 DEF boardTables, boardHistory
    <2> QED  BY <1>7, <1>15, <2>1, <2>2 DEF RegistersNothing
  <1> QED  BY <1>9, <1>10, <1>11, <1>13, <1>14, <1>16, <1>17, StatementStep

LEMMA WriteCountStep ==
    ASSUME BoardInv, NEW c \in Servers, WriteCount(c)
    PROVE  BoardInv'
  <1>1. BoardTypeOK /\ CallsFit /\ SNsInOrder /\ stage[c] = "write"
    BY DEF BoardInv, WriteCount
  <1>2. PICK e \in Entries : /\ About(c) = e /\ e # None /\ c \in Working(e)
                             /\ MeetingsAt(e) /\ ReadsAt(e) /\ BooksAt(e)
    BY <1>1, UnderWay
  <1>3. /\ DeletesComment(c) /\ parentOf[task[c].sn] = e /\ task[c].sn \in 1 .. nextComment - 1
        /\ task[c].parent = e /\ task[c].count \in Nat /\ task[c].count > 0
    <2>1. task[c].parent # None /\ task[c].count > 0
      BY <1>1 DEF CallsFit, CallFits
    <2>2. task[c].count \in Nat
      BY <1>1, DeletionUnderWay DEF BoardCall
    <2> QED  BY <1>1, <1>2, <2>1, <2>2, DeletionUnderWay
  <1>4. /\ commentCount' \in [Entries -> Nat]
        /\ \A x \in Entries : x # e \/ x \notin entries => commentCount'[x] = commentCount[x]
        /\ e \in entries => commentCount'[e] = task[c].count - 1
    <2>1. task[c].count - 1 \in Nat /\ SetCount(e, task[c].count - 1)
      BY <1>3 DEF WriteCount
    <2> QED  BY <1>1, <2>1, SetCountFacts
  <1>5. UNCHANGED <<entries, comments, parentOf, nextEntry, nextComment, task, boardHistory, tasks>>
    BY DEF WriteCount
  <1>6. /\ stage' \in [Servers -> BoardStatements] /\ stage'[c] = "erase"
        /\ \A d \in Servers \ {c} : stage'[d] = stage[d]
    BY <1>1, ReachFacts DEF WriteCount, BoardStatements
  <1>7. BoardTypeOK'
    BY <1>1, <1>4, <1>5, <1>6 DEF BoardTypeOK, boardHistory
  <1>8. Touches(c, e)
    <2>1. nextComment \notin comments'
      BY <1>1, <1>5, NextIsNew
    <2>2. About(c)' = e
      BY <1>2, <1>5 DEF About
    <2> QED  BY <1>2, <1>4, <1>5, <1>6, <2>1, <2>2 DEF Touches, boardHistory
  <1>9. /\ MeetingsAt(e)' /\ Working(e)' = Working(e)
        /\ \A d \in Working(e) : Undisturbed(d)' <=> Undisturbed(d)
        /\ \A d \in Working(e) \ {c} : stage'[d] = stage[d] /\ task'[d] = task[d]
    BY <1>1, <1>5, <1>6, <1>8, GoesOn DEF DeletesComment, boardHistory
  <1>10. CommentsOf(e)' = CommentsOf(e)
    BY <1>5 DEF CommentsOf
  <1>11. ReadsAt(e)'
    <2>1. ASSUME NEW d \in Working(e), Undisturbed(d)', task'[d].parent = e
          PROVE  /\ task'[d].sn \in comments'
                 /\ stage'[d] = "write" => task'[d].count = Cardinality(CommentsOf(e)')
      <3>1. d = c
        BY <1>2, <1>9, <2>1 DEF MeetingsAt
      <3> QED  BY <1>2, <1>5, <1>6, <1>9, <2>1, <3>1 DEF ReadsAt
    <2> QED  BY <1>9, <2>1 DEF ReadsAt
  <1>12. BooksAt(e)'
    <2> SUFFICES ASSUME e \in entries', Trusted(e)', ~Going(e)' PROVE Balanced(e)'
      BY DEF BooksAt
    <2>1. Undisturbed(c)
      <3> SUFFICES ASSUME ~Undisturbed(c) PROVE FALSE
        OBVIOUS
      <3>1. e \in wrong
        BY <1>2, <1>3 DEF MeetingsAt, Undisturbed
      <3>2. \A d \in Working(e) : ~Undisturbed(d)
        BY <1>2, NoneUndisturbed
      <3> QED  BY <1>5, <1>9, <3>1, <3>2 DEF Trusted, boardHistory
    <2>2. Working(e) = {c} /\ task[c].count = Cardinality(CommentsOf(e))
      BY <1>1, <1>2, <1>3, <2>1 DEF MeetingsAt, ReadsAt
    <2>3. Owing(e)' = {c}
      BY <1>2, <1>3, <1>5, <1>6, <1>9, <2>2 DEF Owing, Owes
    <2>4. IsFiniteSet(Owing(e)') /\ Cardinality(Owing(e)') = 1
      BY <2>3, FS_Singleton
    <2>5. commentCount'[e] = task[c].count - 1
      BY <1>4, <1>5
    <2>6. commentCount'[e] + Cardinality(Owing(e)') = Cardinality(CommentsOf(e)')
      BY <1>3, <1>10, <2>2, <2>4, <2>5
    <2> QED  BY <2>4, <2>6 DEF Balanced
  <1>13. CallFits(c)' /\ RegistersNothing(c, e)
    <2>1. CallFits(c)'
      BY <1>3, <1>5, <1>6 DEF CallFits, DeletesComment
    <2>2. RegistersNothing(c, e)
      BY <1>2, <1>3, <1>4, <1>5, <1>6 DEF RegistersNothing, boardHistory
    <2> QED  BY <2>1, <2>2
  <1> QED  BY <1>7, <1>8, <1>9, <1>11, <1>12, <1>13, StatementStep

LEMMA EraseCommentStep ==
    ASSUME BoardInv, NEW c \in Servers, EraseComment(c)
    PROVE  BoardInv'
  <1>1. BoardTypeOK /\ CallsFit /\ SNsInOrder /\ stage[c] = "erase"
    BY DEF BoardInv, EraseComment
  <1>2. PICK e \in Entries : /\ About(c) = e /\ e # None /\ c \in Working(e)
                             /\ MeetingsAt(e) /\ ReadsAt(e) /\ BooksAt(e)
    BY <1>1, UnderWay
  <1>3. /\ DeletesComment(c) /\ parentOf[task[c].sn] = e /\ task[c].sn \in 1 .. nextComment - 1
        /\ task[c].parent \in {None, e}
    BY <1>1, <1>2, DeletionUnderWay
  <1>4. /\ stage' \in [Servers -> BoardStatements] /\ task' \in [Servers -> BoardCall]
        /\ stage'[c] = "idle"
        /\ \A d \in Servers \ {c} : stage'[d] = stage[d] /\ task'[d] = task[d]
    BY <1>1, ReturnFacts DEF EraseComment
  <1>5. /\ UNCHANGED <<entries, commentCount, parentOf, nextEntry, nextComment, disturbed, late, tasks>>
        /\ comments' = comments \ {task[c].sn}
        /\ wrong' = IF c \in disturbed \/ task[c].parent = None THEN wrong ELSE wrong \ {e}
    BY <1>3 DEF EraseComment
  <1>6. BoardTypeOK'
    BY <1>1, <1>4, <1>5 DEF BoardTypeOK
  <1>7. Touches(c, e)
    <2>1. nextComment \notin comments'
      BY <1>1, <1>5, NextIsNew
    <2> QED  BY <1>2, <1>3, <1>4, <1>5, <2>1 DEF Touches
  <1>8. /\ Working(e)' \ {c} = Working(e) \ {c}
        /\ c \notin Working(e)'
        /\ \A d \in Working(e) \ {c} : d \in Servers /\ stage'[d] = stage[d] /\ task'[d] = task[d]
    BY <1>1, <1>4, <1>7, WorkingHere
  <1>9. MeetingsAt(e)' /\ ReadsAt(e)' /\ BooksAt(e)'
    <2>1. CASE c \in disturbed
      <3>1. ~Undisturbed(c) /\ e \in wrong /\ wrong' = wrong
        BY <1>2, <1>3, <1>5, <2>1 DEF Undisturbed, MeetingsAt
      <3>2. MeetingsAt(e)' /\ ReadsAt(e)' /\ \A d \in Working(e)' : ~Undisturbed(d)'
        BY <1>1, <1>4, <1>5, <1>7, <3>1, LeavesMeetings
      <3> QED  BY <3>1, <3>2 DEF BooksAt, Trusted
    <2>2. CASE c \notin disturbed
      <3>1. Undisturbed(c) /\ Working(e) = {c}
        BY <1>2, <1>3, <2>2 DEF Undisturbed, MeetingsAt
      <3>2. Working(e)' = {}
        BY <1>8, <3>1
      <3>3. MeetingsAt(e)' /\ ReadsAt(e)'
        BY <3>2 DEF MeetingsAt, ReadsAt
      <3>4. Owing(e)' = {} /\ IsFiniteSet(Owing(e)') /\ Cardinality(Owing(e)') = 0
        BY <3>2, FS_EmptySet DEF Owing
      <3>5. ~Going(e)
        BY <1>1, <3>1 DEF Going
      <3>6. commentCount[e] \in Nat /\ commentCount' = commentCount /\ entries' = entries
        BY <1>1, <1>5 DEF BoardTypeOK
      <3>7. IsFiniteSet(CommentsOf(e)) /\ Cardinality(CommentsOf(e)) \in Nat
        BY <1>1, CommentsAreFinite
      <3>8. CommentsOf(e)' = CommentsOf(e) \ {task[c].sn}
        BY <1>5 DEF CommentsOf
      <3>9. CASE task[c].parent = None
        <4>1. task[c].sn \notin comments
          BY <1>1, <3>9 DEF BoardInv, GoneStaysGone
        <4>2. CommentsOf(e)' = CommentsOf(e)
          BY <3>8, <4>1 DEF CommentsOf
        <4>3. Owing(e) = {} /\ Cardinality(Owing(e)) = 0
          BY <1>1, <3>1, <3>9, FS_EmptySet DEF Owing, Owes
        <4>4. ASSUME e \in entries', Trusted(e)' PROVE Balanced(e)'
          <5>1. e \notin wrong
            BY <1>5, <3>2, <3>9, <4>4 DEF Trusted
          <5>2. Balanced(e)
            BY <1>2, <3>5, <3>6, <4>4, <5>1 DEF BooksAt, Trusted
          <5> QED  BY <3>4, <3>6, <4>2, <4>3, <5>2 DEF Balanced
        <4> QED  BY <3>3, <4>4 DEF BooksAt
      <3>10. CASE task[c].parent = e
        <4>1. task[c].sn \in CommentsOf(e)
          BY <1>2, <1>3, <3>1, <3>10 DEF ReadsAt, CommentsOf
        <4>2. Cardinality(CommentsOf(e)') = Cardinality(CommentsOf(e)) - 1
          BY <3>7, <3>8, <4>1, FS_RemoveElement
        <4>3. Owing(e) = {c} /\ Cardinality(Owing(e)) = 1 /\ Owes(c)
          <5>1. Owes(c)
            BY <1>1, <1>2, <3>10 DEF Owes
          <5>2. Owing(e) = {c}
            BY <3>1, <5>1 DEF Owing
          <5> QED  BY <5>1, <5>2, FS_Singleton
        <4>4. ASSUME e \in entries' PROVE Balanced(e)'
          <5>1. Balanced(e)
            BY <1>2, <3>1, <3>5, <3>6, <4>3, <4>4 DEF BooksAt, Trusted
          <5>2. commentCount[e] + 1 = Cardinality(CommentsOf(e))
            BY <4>3, <5>1 DEF Balanced
          <5>3. commentCount'[e] + Cardinality(Owing(e)') = Cardinality(CommentsOf(e)')
            BY <3>4, <3>6, <4>2, <5>2
          <5> QED  BY <3>4, <5>3 DEF Balanced
        <4> QED  BY <3>3, <4>4 DEF BooksAt
      <3> QED  BY <1>3, <3>9, <3>10
    <2> QED  BY <2>1, <2>2
  <1>10. CallFits(c)' /\ RegistersNothing(c, e)
    BY <1>4, <1>5 DEF CallFits, RegistersNothing
  <1> QED  BY <1>6, <1>7, <1>9, <1>10, StatementStep

-----------------------------------------------------------------------------
(* GuildBBS_DeleteEntry, and a connection that breaks *)

LEMMA EraseAllStep ==
    ASSUME BoardInv, NEW c \in Servers, EraseAll(c)
    PROVE  BoardInv'
  <1>1. BoardTypeOK /\ CallsFit /\ SNsInOrder /\ stage[c] = "erase all" /\ CallFits(c)
    BY DEF BoardInv, CallsFit, EraseAll
  <1>2. PICK e \in Entries : /\ About(c) = e /\ e # None /\ c \in Working(e)
                             /\ MeetingsAt(e) /\ ReadsAt(e) /\ BooksAt(e)
    BY <1>1, UnderWay
  <1>3. ~DeletesComment(c) /\ task[c].parent = e /\ ~Undisturbed(c)
    BY <1>1, <1>2 DEF CallFits, About, DeletesComment, Undisturbed
  <1>4. /\ UNCHANGED <<entries, commentCount, parentOf, nextEntry, nextComment, task, boardHistory, tasks>>
        /\ comments' = comments \ CommentsOf(e)
    BY <1>3 DEF EraseAll
  <1>5. /\ stage' \in [Servers -> BoardStatements] /\ stage'[c] = "erase entry"
        /\ \A d \in Servers \ {c} : stage'[d] = stage[d]
    BY <1>1, ReachFacts DEF EraseAll, BoardStatements
  <1>6. BoardTypeOK'
    BY <1>1, <1>4, <1>5 DEF BoardTypeOK, boardHistory
  <1>7. Touches(c, e)
    <2>1. nextComment \notin comments'
      BY <1>1, <1>4, NextIsNew
    <2>2. About(c)' = e
      BY <1>2, <1>4 DEF About
    <2>3. \A s \in comments : parentOf[s] # e => s \in comments'
      BY <1>4 DEF CommentsOf
    <2> QED  BY <1>2, <1>4, <1>5, <2>1, <2>2, <2>3 DEF Touches, boardHistory
  <1>8. MeetingsAt(e)' /\ ReadsAt(e)'
    BY <1>1, <1>3, <1>4, <1>5, <1>7, LeavesMeetings DEF DeletesComment, boardHistory
  <1>9. BooksAt(e)'
    <2>1. c \in Working(e)'
      BY <1>1, <1>5, <1>7, WorkingHere
    <2> QED  BY <1>5, <2>1 DEF BooksAt, Going
  <1>10. CallFits(c)' /\ RegistersNothing(c, e)
    <2>1. CallFits(c)'
      BY <1>1, <1>4, <1>5 DEF CallFits
    <2>2. CommentsOf(e)' = {}
      BY <1>4 DEF CommentsOf
    <2> QED  BY <1>4, <1>5, <2>1, <2>2 DEF RegistersNothing, boardHistory
  <1> QED  BY <1>6, <1>7, <1>8, <1>9, <1>10, StatementStep

LEMMA EraseEntryStep ==
    ASSUME BoardInv, NEW c \in Servers, EraseEntry(c)
    PROVE  BoardInv'
  <1>1. BoardTypeOK /\ CallsFit /\ SNsInOrder /\ stage[c] = "erase entry" /\ CallFits(c)
    BY DEF BoardInv, CallsFit, EraseEntry
  <1>2. PICK e \in Entries : /\ About(c) = e /\ e # None /\ c \in Working(e)
                             /\ MeetingsAt(e) /\ ReadsAt(e) /\ BooksAt(e)
    BY <1>1, UnderWay
  <1>3. ~DeletesComment(c) /\ task[c].parent = e /\ ~Undisturbed(c)
    BY <1>1, <1>2 DEF CallFits, About, DeletesComment, Undisturbed
  <1>4. /\ UNCHANGED <<commentCount, comments, parentOf, nextEntry, nextComment, boardHistory, tasks>>
        /\ entries' = entries \ {e}
    BY <1>3 DEF EraseEntry
  <1>5. /\ stage' \in [Servers -> BoardStatements] /\ task' \in [Servers -> BoardCall]
        /\ stage'[c] = "idle"
        /\ \A d \in Servers \ {c} : stage'[d] = stage[d] /\ task'[d] = task[d]
    BY <1>1, ReturnFacts DEF EraseEntry
  <1>6. BoardTypeOK'
    BY <1>1, <1>4, <1>5 DEF BoardTypeOK, boardHistory
  <1>7. Touches(c, e)
    <2>1. nextComment \notin comments'
      BY <1>1, <1>4, NextIsNew
    <2> QED  BY <1>2, <1>4, <1>5, <2>1 DEF Touches, boardHistory
  <1>8. MeetingsAt(e)' /\ ReadsAt(e)'
    BY <1>1, <1>3, <1>4, <1>5, <1>7, LeavesMeetings DEF boardHistory
  <1>9. BooksAt(e)'
    BY <1>4 DEF BooksAt
  <1>10. CallFits(c)' /\ RegistersNothing(c, e)
    <2>1. Going(e)
      BY <1>1, <1>2 DEF Going
    <2> QED  BY <1>4, <1>5, <2>1 DEF CallFits, RegistersNothing, boardHistory
  <1> QED  BY <1>6, <1>7, <1>8, <1>9, <1>10, StatementStep

LEMMA BoardBreakStep ==
    ASSUME BoardInv, NEW c \in Servers, BoardBreak(c)
    PROVE  BoardInv'
  <1>1. BoardTypeOK /\ CallsFit /\ SNsInOrder /\ stage[c] # "idle"
    BY DEF BoardInv, BoardBreak
  <1>2. PICK e \in Entries : /\ About(c) = e /\ e # None /\ c \in Working(e)
                             /\ MeetingsAt(e) /\ ReadsAt(e) /\ BooksAt(e)
    BY <1>1, UnderWay
  <1>3. /\ UNCHANGED <<boardTables, late, tasks>>
        /\ wrong' = wrong \cup {e}
        /\ disturbed' = disturbed \cup {d \in Working(e) : DeletesComment(d)}
    BY <1>2 DEF BoardBreak, DeletesComment
  <1>4. /\ stage' \in [Servers -> BoardStatements] /\ task' \in [Servers -> BoardCall]
        /\ stage'[c] = "idle"
        /\ \A d \in Servers \ {c} : stage'[d] = stage[d] /\ task'[d] = task[d]
    BY <1>1, ReturnFacts DEF BoardBreak
  <1>5. BoardTypeOK'
    <2>1. wrong' \subseteq Entries /\ disturbed' \subseteq Servers
      BY <1>1, <1>3 DEF BoardTypeOK, Working
    <2> QED  BY <1>1, <1>3, <1>4, <2>1 DEF BoardTypeOK, boardTables
  <1>6. Touches(c, e)
    <2>1. nextComment \notin comments'
      BY <1>1, <1>3, NextIsNew DEF boardTables
    <2>2. \A d \in Working(e) : About(d) = e
      BY DEF Working
    <2> QED  BY <1>2, <1>3, <1>4, <2>1, <2>2 DEF Touches, boardTables
  <1>7. /\ Working(e)' \ {c} = Working(e) \ {c}
        /\ c \notin Working(e)'
        /\ \A d \in Working(e) \ {c} : d \in Servers /\ stage'[d] = stage[d] /\ task'[d] = task[d]
    BY <1>1, <1>4, <1>6, WorkingHere
  <1>8. \A d \in Working(e)' : ~Undisturbed(d)'
    BY <1>3, <1>7 DEF Undisturbed, DeletesComment
  <1>9. e \in wrong'
    BY <1>3
  <1>10. MeetingsAt(e)' /\ ReadsAt(e)' /\ BooksAt(e)'
    BY <1>8, <1>9 DEF MeetingsAt, ReadsAt, BooksAt, Trusted
  <1>11. CallFits(c)' /\ RegistersNothing(c, e)
    BY <1>3, <1>4 DEF CallFits, RegistersNothing, boardTables
  <1> QED  BY <1>5, <1>6, <1>10, <1>11, StatementStep

-----------------------------------------------------------------------------
(* GuildBBS_RegisterComment, the first statement *)

LEMMA InsertCommentStep ==
    ASSUME BoardInv, NEW c \in Servers, InsertComment(c)
    PROVE  BoardInv'
  <1>1. BoardTypeOK /\ CallsFit /\ SNsInOrder /\ stage[c] = "insert" /\ CallFits(c)
    BY DEF BoardInv, CallsFit, InsertComment
  <1>2. PICK e \in Entries : /\ About(c) = e /\ e # None /\ c \in Working(e)
                             /\ MeetingsAt(e) /\ ReadsAt(e) /\ BooksAt(e)
    BY <1>1, UnderWay
  <1>3. /\ ~DeletesComment(c) /\ task[c].parent = e /\ ~Undisturbed(c) /\ e \in 1 .. nextEntry - 1
        /\ task[c].op = "register"
    BY <1>1, <1>2 DEF CallFits, About, DeletesComment, Undisturbed
  <1>4. /\ UNCHANGED <<entries, commentCount, nextEntry, task, disturbed, wrong, tasks>>
        /\ comments' = comments \cup {nextComment}
        /\ parentOf' = [parentOf EXCEPT ![nextComment] = e]
        /\ nextComment' = nextComment + 1
        /\ late' = IF e \notin entries \/ \E d \in Working(e) : task[d].op = "drop"
                   THEN late \cup {nextComment} ELSE late
    BY <1>3 DEF InsertComment
  <1>5. /\ stage' \in [Servers -> BoardStatements] /\ stage'[c] = "increment"
        /\ \A d \in Servers \ {c} : stage'[d] = stage[d]
    BY <1>1, ReachFacts DEF InsertComment, BoardStatements
  \* The SN exists: this call was counted among those that want one.
  <1>6. /\ IsFiniteSet(Inserting') /\ nextComment' + Cardinality(Inserting') <= tasks' + 1
        /\ nextComment \in Comments
    <2>1. Inserting' = Inserting \ {c} /\ c \in Inserting
      BY <1>1, <1>5 DEF Inserting
    <2>2. /\ IsFiniteSet(Inserting)
          /\ nextComment + Cardinality(Inserting) <= tasks + 1 /\ tasks <= MaxTasks
      BY DEF BoardInv, SNsSuffice
    <2>3. /\ IsFiniteSet(Inserting') /\ Cardinality(Inserting') = Cardinality(Inserting) - 1
          /\ Cardinality(Inserting) \in Nat /\ Cardinality(Inserting') \in Nat
      BY <2>1, <2>2, FS_RemoveElement, FS_CardinalityType
    <2>4. nextComment \in Nat \ {0} /\ tasks \in Nat /\ MaxTasks \in Nat
      BY <1>1, BoundsAssumption DEF SNsInOrder, BoardTypeOK
    <2>5. nextComment <= MaxTasks
      BY <2>2, <2>3, <2>4
    <2> QED  BY <1>4, <2>2, <2>3, <2>4, <2>5 DEF Comments
  <1>7. /\ nextComment \in Nat \ {0} /\ nextComment' \in Nat \ {0}
        /\ parentOf'[nextComment] = e
        /\ \A s \in Comments : s # nextComment => parentOf'[s] = parentOf[s]
        /\ \A s \in 1 .. nextComment - 1 : s # nextComment /\ s \in Comments
        /\ nextComment \notin comments
    <2>1. nextComment \in Nat \ {0} /\ nextComment \in 1 .. MaxTasks /\ MaxTasks \in Nat
      BY <1>1, <1>6, BoundsAssumption DEF SNsInOrder, Comments
    <2>2. \A s \in 1 .. nextComment - 1 : s # nextComment /\ s \in 1 .. MaxTasks
      BY <2>1
    <2>3. nextComment \notin comments
      BY <1>1, <2>2 DEF SNsInOrder
    <2>4. parentOf'[nextComment] = e /\ \A s \in Comments : s # nextComment => parentOf'[s] = parentOf[s]
      BY <1>1, <1>4, <1>6 DEF BoardTypeOK
    <2>5. nextComment' \in Nat \ {0}
      BY <1>4, <2>1
    <2> QED  BY <2>1, <2>2, <2>3, <2>4, <2>5 DEF Comments
  <1>8. BoardTypeOK'
    <2>1. parentOf' \in [Comments -> Entries \cup {None}]
      BY <1>1, <1>2, <1>4 DEF BoardTypeOK
    <2>2. comments' \subseteq Comments /\ late' \subseteq Comments
      BY <1>1, <1>4, <1>6 DEF BoardTypeOK
    <2> QED  BY <1>1, <1>4, <1>5, <1>7, <2>1, <2>2 DEF BoardTypeOK
  <1>9. Touches(c, e)
    <2>1. About(c)' = e
      BY <1>3, <1>4 DEF About
    <2> QED  BY <1>2, <1>4, <1>5, <1>7, <2>1 DEF Touches
  <1>10. MeetingsAt(e)' /\ ReadsAt(e)' /\ \A d \in Working(e)' : ~Undisturbed(d)'
    BY <1>1, <1>3, <1>4, <1>5, <1>9, LeavesMeetings DEF DeletesComment
  <1>11. /\ Working(e)' = Working(e)
         /\ \A d \in Working(e) \ {c} : stage'[d] = stage[d] /\ task'[d] = task[d]
    BY <1>1, <1>4, <1>5, <1>9, GoesOn DEF DeletesComment
  <1>12. CommentsOf(e)' = CommentsOf(e) \cup {nextComment} /\ nextComment \notin CommentsOf(e)
    <2>1. \A s \in comments : s \in Comments /\ s # nextComment
      BY <1>1, <1>7 DEF BoardTypeOK
    <2> QED  BY <1>4, <1>7, <2>1 DEF CommentsOf
  <1>13. BooksAt(e)'
    <2> SUFFICES ASSUME e \in entries', Trusted(e)', ~Going(e)' PROVE Balanced(e)'
      BY DEF BooksAt
    <2>1. e \notin wrong
      BY <1>4, <1>10 DEF Trusted
    <2>2. ~Going(e)
      BY <1>1, <1>11 DEF Going
    <2>3. Balanced(e)
      BY <1>2, <1>4, <2>1, <2>2 DEF BooksAt, Trusted
    <2>4. Owing(e)' = Owing(e) \cup {c} /\ c \notin Owing(e)
      <3>1. Owes(c)' /\ ~Owes(c)
        BY <1>1, <1>5 DEF Owes
      <3>2. \A d \in Working(e) \ {c} : Owes(d)' <=> Owes(d)
        BY <1>11 DEF Owes
      <3> QED  BY <1>2, <1>11, <3>1, <3>2 DEF Owing
    <2>5. /\ IsFiniteSet(Owing(e)') /\ Cardinality(Owing(e)') = Cardinality(Owing(e)) + 1
          /\ Cardinality(Owing(e)) \in Nat
      BY <2>3, <2>4, FS_AddElement, FS_CardinalityType DEF Balanced
    <2>6. /\ Cardinality(CommentsOf(e)') = Cardinality(CommentsOf(e)) + 1
          /\ Cardinality(CommentsOf(e)) \in Nat
      BY <1>1, <1>12, CommentsAreFinite, FS_AddElement
    <2>7. commentCount'[e] = commentCount[e] /\ commentCount[e] \in Nat
      BY <1>1, <1>4 DEF BoardTypeOK
    <2>8. commentCount'[e] + Cardinality(Owing(e)') = Cardinality(CommentsOf(e)')
      BY <2>3, <2>5, <2>6, <2>7 DEF Balanced
    <2> QED  BY <2>5, <2>8 DEF Balanced
  <1>14. EntriesFit'
    BY <1>9, <1>10, <1>13, EverywhereFits
  <1>15. CallsFit'
    <2>1. CallFits(c)'
      BY <1>3, <1>4, <1>5 DEF CallFits
    <2>2. nextEntry \in Nat /\ nextEntry' = nextEntry /\ nextComment <= nextComment'
      BY <1>1, <1>4, <1>7 DEF BoardTypeOK
    <2> QED  BY <1>1, <1>7, <1>9, <2>1, <2>2, OthersFit DEF CallsFit
  <1>16. SNsInOrder'
    <2>1. \A s \in 1 .. nextComment' - 1 : s \in 1 .. nextComment - 1 \/ s = nextComment
      BY <1>4, <1>7
    <2>2. nextComment \in 1 .. nextComment' - 1 /\ \A s \in 1 .. nextComment - 1 : s \in 1 .. nextComment' - 1
      BY <1>4, <1>7
    <2>3. comments' \subseteq 1 .. nextComment' - 1
      BY <1>1, <1>4, <2>2 DEF SNsInOrder
    <2>4. \A s \in 1 .. nextComment' - 1 : parentOf'[s] \in 1 .. nextEntry - 1
      BY <1>1, <1>3, <1>7, <2>1 DEF SNsInOrder
    <2> QED  BY <1>1, <1>4, <1>7, <2>3, <2>4 DEF SNsInOrder
  <1>17. SNsSuffice'
    BY <1>4, <1>6 DEF BoardInv, SNsSuffice
  <1>18. GoneStaysGone'
    <2>1. GoneStaysGone
      BY DEF BoardInv
    <2> QED  BY <1>1, <1>5, <1>9, <2>1, OthersGone DEF GoneStaysGone
  <1>19. GoingEmpty'
    <2> SUFFICES ASSUME NEW x \in Entries, Going(x)' PROVE CommentsOf(x)' \subseteq late'
      BY DEF GoingEmpty, Entries
    <2>1. PICK d \in Working(x)' : stage'[d] = "erase entry"
      BY DEF Going
    <2>2. GoingEmpty /\ late \subseteq late'
      BY <1>4 DEF BoardInv
    <2>3. CASE x # e
      <3>1. Working(x)' = Working(x) /\ CommentsOf(x)' = CommentsOf(x) /\ stage'[d] = stage[d]
        BY <1>1, <1>9, <2>1, <2>3, ElsewhereSame
      <3> QED  BY <2>1, <2>2, <3>1 DEF GoingEmpty, Going
    <2>4. CASE x = e
      <3>1. d \in Working(e) /\ d \in Servers /\ d # c /\ stage[d] = "erase entry"
        BY <1>5, <1>11, <2>1, <2>4 DEF Working
      <3>2. task[d].op = "drop"
        BY <1>1, <3>1 DEF CallsFit, CallFits
      <3>3. CommentsOf(e) \subseteq late /\ nextComment \in late'
        BY <1>4, <2>2, <3>1, <3>2 DEF GoingEmpty, Going
      <3> QED  BY <1>12, <2>2, <2>4, <3>3
    <2> QED  BY <2>3, <2>4
  <1>20. CommentsHaveEntries'
    <2> SUFFICES ASSUME NEW s \in comments' \ late' PROVE parentOf'[s] \in entries
      BY <1>4 DEF CommentsHaveEntries
    <2>1. CASE s = nextComment
      BY <1>4, <1>7, <2>1
    <2>2. CASE s # nextComment
      <3>1. s \in comments \ late /\ parentOf'[s] = parentOf[s]
        BY <1>1, <1>4, <1>7, <2>2 DEF BoardTypeOK
      <3> QED  BY <3>1 DEF BoardInv, CommentsHaveEntries
    <2> QED  BY <2>1, <2>2
  <1> QED  BY <1>8, <1>14, <1>15, <1>16, <1>17, <1>18, <1>19, <1>20 DEF BoardInv

-----------------------------------------------------------------------------
(* Procedures that are called *)

LEMMA RequestForEntry ==
    ASSUME NEW op, NEW x
    PROVE  [NoBoardCall EXCEPT !.op = op, !.parent = x]
               = [op |-> op, sn |-> None, parent |-> x, count |-> 0]
  <1> DEFINE r == [op |-> op, sn |-> None, parent |-> None, count |-> 0]
  <1>1. [NoBoardCall EXCEPT !.op = op] = r
    BY DEF NoBoardCall
  <1>2. [r EXCEPT !.parent = x] = [op |-> op, sn |-> None, parent |-> x, count |-> 0]
    OBVIOUS
  <1>3. [NoBoardCall EXCEPT !.op = op, !.parent = x] = [[NoBoardCall EXCEPT !.op = op] EXCEPT !.parent = x]
    OBVIOUS
  <1> QED  BY <1>1, <1>2, <1>3, Zenon

LEMMA RequestForComment ==
    ASSUME NEW s
    PROVE  [NoBoardCall EXCEPT !.op = "delete", !.sn = s]
               = [op |-> "delete", sn |-> s, parent |-> None, count |-> 0]
  <1> DEFINE r == [op |-> "delete", sn |-> None, parent |-> None, count |-> 0]
  <1>1. [NoBoardCall EXCEPT !.op = "delete"] = r
    BY DEF NoBoardCall
  <1>2. [r EXCEPT !.sn = s] = [op |-> "delete", sn |-> s, parent |-> None, count |-> 0]
    OBVIOUS
  <1>3. [NoBoardCall EXCEPT !.op = "delete", !.sn = s] = [[NoBoardCall EXCEPT !.op = "delete"] EXCEPT !.sn = s]
    OBVIOUS
  <1> QED  BY <1>1, <1>2, <1>3, Zenon

\* What a request asks for, and the statement its procedure begins with.
Asks(new, e, first) ==
    /\ e \in 1 .. nextEntry - 1
    /\ \/ first = "insert" /\ new.op = "register" /\ new.parent = e
       \/ first = "erase all" /\ new.op = "drop" /\ new.parent = e
       \/ /\ first = "find" /\ new.op = "delete" /\ new.sn \in 1 .. nextComment - 1
          /\ parentOf[new.sn] = e /\ new.parent = None

LEMMA TakeStep ==
    ASSUME BoardInv, NEW c \in Servers, NEW new \in BoardCall, NEW e \in Entries,
           NEW first, Take(c, new, e, first), Asks(new, e, first)
    PROVE  BoardInv'
  <1> DEFINE deletes == (IF new.op = "delete" THEN {c} ELSE {}) \cup {d \in Working(e) : DeletesComment(d)}
             meets == e # None /\ Working(e) # {} /\ deletes # {}
  <1>1. /\ BoardTypeOK /\ CallsFit /\ SNsInOrder /\ SNsSuffice
        /\ MeetingsAt(e) /\ ReadsAt(e) /\ BooksAt(e)
    BY DEF BoardInv, EntriesFit
  <1>2. /\ stage[c] = "idle" /\ tasks < MaxTasks /\ tasks' = tasks + 1
        /\ task' = [task EXCEPT ![c] = new] /\ Reach(c, first)
        /\ disturbed' = (disturbed \ {c}) \cup (IF meets THEN deletes ELSE {})
        /\ wrong' = IF meets THEN wrong \cup {e} ELSE wrong
        /\ UNCHANGED <<boardTables, late>>
    BY DEF Take, DeletesComment
  <1>3. e # None /\ MaxTasks \in Nat /\ tasks \in Nat /\ tasks' \in Nat /\ tasks' <= MaxTasks
    <2>1. MaxTasks \in Nat /\ tasks \in Nat /\ tasks < MaxTasks /\ tasks' = tasks + 1
      BY <1>1, <1>2, BoundsAssumption DEF BoardTypeOK
    <2>2. e # None
      BY BoundsAssumption DEF Entries, None
    <2> QED  BY <2>1, <2>2
  <1>4. /\ task' \in [Servers -> BoardCall] /\ task'[c] = new
        /\ \A d \in Servers \ {c} : task'[d] = task[d]
    BY <1>1, <1>2 DEF BoardTypeOK
  <1>5. /\ stage' \in [Servers -> BoardStatements] /\ stage'[c] = first
        /\ \A d \in Servers \ {c} : stage'[d] = stage[d]
    BY <1>1, <1>2, ReachFacts DEF BoardStatements, Asks
  <1>6. deletes \subseteq Servers /\ \A d \in deletes \ {c} : d \in Working(e)
    BY DEF Working
  <1>7. c \in deletes <=> DeletesComment(c)'
    BY <1>2, <1>4 DEF DeletesComment, Working
  <1>8. \A d \in Working(e) : DeletesComment(d) => d \in deletes
    OBVIOUS
  <1>9. deletes # {} => \E d \in deletes : TRUE
    OBVIOUS
  <1> HIDE DEF deletes
  <1>10. BoardTypeOK'
    <2>1. disturbed' \subseteq Servers
      BY <1>1, <1>2, <1>6 DEF BoardTypeOK
    <2>2. wrong' \subseteq Entries
      BY <1>1, <1>2 DEF BoardTypeOK
    <2>3. UNCHANGED <<entries, commentCount, comments, parentOf, nextEntry, nextComment, late>>
      BY <1>2 DEF boardTables
    <2> QED  BY <1>1, <1>3, <1>4, <1>5, <2>1, <2>2, <2>3 DEF BoardTypeOK
  <1>11. first # "idle" /\ first \notin {"increment", "count", "write", "erase", "erase entry"}
    BY DEF Asks
  <1>12. Touches(c, e)
    <2>1. nextComment \notin comments'
      BY <1>1, <1>2, NextIsNew DEF boardTables
    <2>2. About(c)' = e
      BY <1>2, <1>4, <1>5 DEF About, Asks, boardTables
    <2>3. \A d \in deletes \ {c} : About(d) = e
      BY <1>6 DEF Working
    <2> QED  BY <1>2, <1>4, <1>5, <2>1, <2>2, <2>3 DEF Touches, boardTables
  <1>13. /\ Working(e)' \ {c} = Working(e) \ {c}
         /\ c \notin Working(e) /\ c \in Working(e)'
         /\ \A d \in Working(e) \ {c} : d \in Servers /\ stage'[d] = stage[d] /\ task'[d] = task[d]
    BY <1>1, <1>2, <1>5, <1>11, <1>12, WorkingHere
  <1>14. Working(e)' = Working(e) \cup {c}
    BY <1>13
  <1>15. \A d \in Working(e) : (DeletesComment(d)' <=> DeletesComment(d)) /\ (Owes(d)' <=> Owes(d))
    BY <1>13 DEF DeletesComment, Owes
  \* Whoever deletes a comment is alone on its entry or remembered.
  <1>16. ASSUME NEW d \in Working(e)', DeletesComment(d)'
         PROVE  (Working(e)' = {c} /\ d = c /\ c \notin disturbed') \/ (d \in disturbed' /\ e \in wrong')
    <2>1. d \in deletes
      BY <1>7, <1>8, <1>14, <1>15, <1>16
    <2>2. CASE Working(e) = {}
      BY <1>2, <1>14, <1>16, <2>2
    <2>3. CASE Working(e) # {}
      BY <1>2, <1>3, <2>1, <2>3
    <2> QED  BY <2>2, <2>3
  <1>17. MeetingsAt(e)'
    BY <1>14, <1>16 DEF MeetingsAt, Undisturbed
  <1>18. ~Owes(c)' /\ stage'[c] # "erase entry"
    BY <1>5, <1>11 DEF Owes
  <1>19. ReadsAt(e)'
    <2>1. ASSUME NEW d \in Working(e)', Undisturbed(d)', task'[d].parent = e PROVE FALSE
      <3>1. d = c /\ DeletesComment(c)'
        BY <1>16, <2>1 DEF Undisturbed
      <3> QED  BY <1>3, <1>4, <2>1, <3>1 DEF DeletesComment, Asks
    <2> QED  BY <2>1 DEF ReadsAt
  <1>20. BooksAt(e)'
    <2> SUFFICES ASSUME e \in entries', Trusted(e)', ~Going(e)' PROVE Balanced(e)'
      BY DEF BooksAt
    <2>1. ASSUME NEW d \in Working(e)', Undisturbed(d)', Owes(d)' PROVE FALSE
      BY <1>16, <1>18, <2>1 DEF Undisturbed
    <2>2. e \notin wrong
      BY <1>2, <2>1 DEF Trusted
    <2>3. ~Going(e)
      BY <1>13, <1>14 DEF Going
    <2>4. Balanced(e) /\ entries' = entries /\ commentCount' = commentCount
      BY <1>1, <1>2, <2>2, <2>3 DEF BooksAt, Trusted, boardTables
    <2>5. Owing(e)' = Owing(e)
      BY <1>14, <1>15, <1>18 DEF Owing
    <2>6. CommentsOf(e)' = CommentsOf(e)
      BY <1>2 DEF CommentsOf, boardTables
    <2> QED  BY <2>4, <2>5, <2>6 DEF Balanced
  <1>21. EntriesFit'
    BY <1>12, <1>17, <1>19, <1>20, EverywhereFits
  <1>22. CallsFit'
    <2>1. CallFits(c)'
      BY <1>2, <1>4, <1>5 DEF CallFits, DeletesComment, Asks, boardTables
    <2>2. /\ nextEntry \in Nat /\ nextEntry' \in Nat /\ nextEntry <= nextEntry'
          /\ nextComment \in Nat /\ nextComment' \in Nat /\ nextComment <= nextComment'
      BY <1>1, <1>2 DEF BoardTypeOK, boardTables
    <2>3. \A d \in Servers : d # c => CallFits(d)'
      BY <1>1, <1>12, <2>2, OthersFit
    <2> QED  BY <2>1, <2>3 DEF CallsFit
  <1>23. SNsInOrder'
    BY <1>1, <1>2 DEF SNsInOrder, boardTables
  <1>24. SNsSuffice'
    <2>1. Inserting' \subseteq Inserting \cup {c} /\ c \notin Inserting
      BY <1>2, <1>5 DEF Inserting
    <2>2. /\ IsFiniteSet(Inserting \cup {c}) /\ Cardinality(Inserting \cup {c}) = Cardinality(Inserting) + 1
          /\ Cardinality(Inserting) \in Nat
      BY <1>1, <2>1, FS_AddElement, FS_CardinalityType DEF SNsSuffice
    <2>3. IsFiniteSet(Inserting') /\ Cardinality(Inserting') <= Cardinality(Inserting \cup {c})
      BY <2>1, <2>2, FS_Subset
    <2>4. Cardinality(Inserting') \in Nat
      BY <2>3, FS_CardinalityType
    <2>5. nextComment' = nextComment /\ nextComment \in Nat
      BY <1>1, <1>2 DEF BoardTypeOK, boardTables
    <2>6. nextComment + Cardinality(Inserting) <= tasks + 1
      BY <1>1 DEF SNsSuffice
    <2>7. tasks' = tasks + 1
      BY <1>2
    <2>8. nextComment' + Cardinality(Inserting') <= tasks' + 1
      BY <1>3, <2>2, <2>3, <2>4, <2>5, <2>6, <2>7
    <2> QED  BY <1>3, <2>3, <2>8 DEF SNsSuffice
  <1>25. GoneStaysGone'
    <2>1. GoneStaysGone
      BY DEF BoardInv
    <2> QED  BY <1>1, <1>5, <1>11, <1>12, <2>1, OthersGone DEF GoneStaysGone
  <1>26. GoingEmpty'
    <2> SUFFICES ASSUME NEW x \in Entries, Going(x)' PROVE CommentsOf(x)' \subseteq late'
      BY DEF GoingEmpty, Entries
    <2>1. CommentsOf(x)' = CommentsOf(x) /\ late' = late
      BY <1>2 DEF CommentsOf, boardTables
    <2>2. Going(x)
      <3>1. CASE x # e
        <4>1. PICK d \in Working(x)' : stage'[d] = "erase entry"
          BY DEF Going
        <4>2. Working(x)' = Working(x) /\ stage'[d] = stage[d]
          BY <1>1, <1>12, <3>1, <4>1, ElsewhereSame
        <4> QED  BY <4>1, <4>2 DEF Going
      <3>2. CASE x = e
        BY <1>13, <1>14, <1>18, <3>2 DEF Going
      <3> QED  BY <3>1, <3>2
    <2> QED  BY <2>1, <2>2 DEF BoardInv, GoingEmpty
  <1>27. CommentsHaveEntries'
    BY <1>2 DEF BoardInv, CommentsHaveEntries, boardTables
  <1> QED  BY <1>10, <1>21, <1>22, <1>23, <1>24, <1>25, <1>26, <1>27 DEF BoardInv

LEMMA BoardRequestStep ==
    ASSUME BoardInv, NEW c \in Servers, BoardRequest(c)
    PROVE  BoardInv'
  <1>1. BoardTypeOK /\ SNsInOrder /\ tasks < MaxTasks
    BY DEF BoardInv, BoardRequest, Take
  <1>2. \A x \in 1 .. nextEntry - 1 : x \in Entries
    BY <1>1, BoundsAssumption DEF SNsInOrder, Entries
  <1>3. ASSUME NEW x \in 1 .. nextEntry - 1, NEW op \in {"register", "drop"}
        PROVE  /\ [NoBoardCall EXCEPT !.op = op, !.parent = x] \in BoardCall
               /\ [NoBoardCall EXCEPT !.op = op, !.parent = x].op = op
               /\ [NoBoardCall EXCEPT !.op = op, !.parent = x].parent = x
    <2> DEFINE new == [NoBoardCall EXCEPT !.op = op, !.parent = x]
    <2>1. new = [op |-> op, sn |-> None, parent |-> x, count |-> 0]
      BY RequestForEntry
    <2> HIDE DEF new
    <2>2. new \in BoardCall /\ new.op = op /\ new.parent = x
      BY <1>2, <2>1 DEF BoardCall
    <2> QED  BY <2>2 DEF new
  <1>4. CASE \E x \in 1 .. nextEntry - 1 :
                 Take(c, [NoBoardCall EXCEPT !.op = "register", !.parent = x], x, "insert")
    BY <1>2, <1>3, <1>4, TakeStep DEF Asks
  <1>5. CASE \E x \in 1 .. nextEntry - 1 :
                 Take(c, [NoBoardCall EXCEPT !.op = "drop", !.parent = x], x, "erase all")
    BY <1>2, <1>3, <1>5, TakeStep DEF Asks
  <1>6. CASE \E s \in 1 .. nextComment - 1 :
                 Take(c, [NoBoardCall EXCEPT !.op = "delete", !.sn = s], parentOf[s], "find")
    <2>1. PICK s \in 1 .. nextComment - 1 :
                 Take(c, [NoBoardCall EXCEPT !.op = "delete", !.sn = s], parentOf[s], "find")
      BY <1>6
    <2>2. PICK x : x = parentOf[s]
      OBVIOUS
    <2>3. x \in 1 .. nextEntry - 1 /\ x \in Entries
      BY <1>1, <1>2, <2>2 DEF SNsInOrder
    <2>4. s \in Comments
      <3>1. nextComment + Cardinality(Inserting) <= tasks + 1 /\ IsFiniteSet(Inserting)
        BY DEF BoardInv, SNsSuffice
      <3>2. Cardinality(Inserting) \in Nat /\ tasks \in Nat /\ nextComment \in Nat /\ MaxTasks \in Nat
        BY <1>1, <3>1, FS_CardinalityType, BoundsAssumption DEF BoardTypeOK
      <3>3. nextComment - 1 <= MaxTasks
        BY <1>1, <3>1, <3>2
      <3>4. s \in 1 .. MaxTasks
        BY <3>2, <3>3
      <3> QED  BY <3>4 DEF Comments
    <2> DEFINE new == [NoBoardCall EXCEPT !.op = "delete", !.sn = s]
    <2>5. new = [op |-> "delete", sn |-> s, parent |-> None, count |-> 0]
      BY RequestForComment
    <2>6. Take(c, new, x, "find")
      BY <2>1, <2>2
    <2> HIDE DEF new
    <2>7. new \in BoardCall /\ new.op = "delete" /\ new.sn = s /\ new.parent = None
      BY <2>4, <2>5 DEF BoardCall
    <2> QED  BY <2>2, <2>3, <2>6, <2>7, TakeStep DEF Asks
  <1> QED  BY <1>4, <1>5, <1>6 DEF BoardRequest

LEMMA RegisterEntryStep ==
    ASSUME BoardInv, RegisterEntry
    PROVE  BoardInv'
  <1>1. /\ BoardTypeOK /\ CallsFit /\ SNsInOrder /\ SNsSuffice /\ GoneStaysGone
        /\ EntriesFit /\ GoingEmpty /\ CommentsHaveEntries
    BY DEF BoardInv
  <1>2. /\ nextEntry <= MaxEntries /\ nextEntry' = nextEntry + 1
        /\ entries' = entries \cup {nextEntry}
        /\ UNCHANGED <<commentCount, comments, parentOf, nextComment, stage, task, disturbed, wrong,
                       late, tasks>>
    BY DEF RegisterEntry, boardHistory
  <1>3. MaxEntries \in Nat /\ nextEntry \in 1 .. MaxEntries /\ nextEntry \in Entries
        /\ nextEntry' \in 1 .. MaxEntries + 1
    BY <1>1, <1>2, BoundsAssumption DEF SNsInOrder, Entries
  <1>4. \A x : /\ Working(x)' = Working(x) /\ CommentsOf(x)' = CommentsOf(x)
               /\ Going(x)' = Going(x) /\ Owing(x)' = Owing(x) /\ Trusted(x)' = Trusted(x)
               /\ MeetingsAt(x)' = MeetingsAt(x) /\ ReadsAt(x)' = ReadsAt(x)
    <2>1. \A x : Working(x)' = Working(x) /\ CommentsOf(x)' = CommentsOf(x)
      BY <1>2 DEF Working, CommentsOf, About
    <2>2. \A d : Undisturbed(d)' = Undisturbed(d) /\ Owes(d)' = Owes(d) /\ DeletesComment(d)' = DeletesComment(d)
      BY <1>2 DEF Undisturbed, DeletesComment, Owes
    <2>3. \A x : Going(x)' = Going(x) /\ Owing(x)' = Owing(x)
      BY <1>2, <2>1, <2>2 DEF Going, Owing
    <2>4. \A x : Trusted(x)' = Trusted(x)
      BY <1>2, <2>1, <2>2 DEF Trusted
    <2>5. \A x : MeetingsAt(x)' = MeetingsAt(x)
      BY <1>2, <2>1, <2>2 DEF MeetingsAt
    <2>6. \A x : ReadsAt(x)' = ReadsAt(x)
      BY <1>2, <2>1, <2>2 DEF ReadsAt
    <2> QED  BY <2>1, <2>3, <2>4, <2>5, <2>6
  <1>5. BoardTypeOK'
    <2>1. entries' \subseteq Entries /\ nextEntry' \in Nat
      BY <1>1, <1>2, <1>3 DEF BoardTypeOK
    <2> QED  BY <1>1, <1>2, <2>1 DEF BoardTypeOK
  <1>6. \A x \in 1 .. nextEntry - 1 : x \in 1 .. nextEntry' - 1
    BY <1>2, <1>3
  <1>7. CallsFit'
    <2> SUFFICES ASSUME NEW d \in Servers PROVE CallFits(d)'
      BY DEF CallsFit
    <2>1. CallFits(d)
      BY <1>1 DEF CallsFit
    <2> QED  BY <1>2, <1>6, <2>1 DEF CallFits, DeletesComment
  <1>8. SNsInOrder'
    <2>1. entries' \subseteq 1 .. nextEntry' - 1
      <3>1. nextEntry \in 1 .. nextEntry' - 1
        BY <1>2, <1>3
      <3> QED  BY <1>1, <1>2, <1>6, <3>1 DEF SNsInOrder
    <2>2. \A s \in 1 .. nextComment - 1 : parentOf[s] \in 1 .. nextEntry' - 1
      BY <1>1, <1>6 DEF SNsInOrder
    <2>3. \A x \in Entries : x >= nextEntry' => x >= nextEntry
      BY <1>2, <1>3 DEF Entries
    <2> QED  BY <1>1, <1>2, <1>3, <2>1, <2>2, <2>3 DEF SNsInOrder
  <1>9. SNsSuffice' /\ GoneStaysGone'
    <2>1. Inserting' = Inserting
      BY <1>2 DEF Inserting
    <2> QED  BY <1>1, <1>2, <2>1 DEF SNsSuffice, GoneStaysGone
  \* The new entry has no calls and no comments.
  <1>10. Balanced(nextEntry)
    <2>1. commentCount[nextEntry] = 0
      BY <1>1, <1>3 DEF SNsInOrder
    <2>2. \A s \in comments : parentOf[s] \in 1 .. nextEntry - 1
      BY <1>1 DEF SNsInOrder
    <2>3. CommentsOf(nextEntry) = {}
      BY <1>3, <2>2 DEF CommentsOf
    <2>4. \A d \in Servers : stage[d] # "idle" => About(d) \in 1 .. nextEntry - 1
      BY <1>1, AboutEntry
    <2>5. Working(nextEntry) = {}
      BY <1>3, <2>4 DEF Working
    <2>6. Owing(nextEntry) = {}
      BY <2>5 DEF Owing
    <2> QED  BY <2>1, <2>3, <2>6, FS_EmptySet DEF Balanced
  <1>11. EntriesFit'
    <2> SUFFICES ASSUME NEW x \in Entries PROVE MeetingsAt(x)' /\ ReadsAt(x)' /\ BooksAt(x)'
      BY DEF EntriesFit, Entries
    <2>1. MeetingsAt(x) /\ ReadsAt(x) /\ BooksAt(x)
      BY <1>1 DEF EntriesFit
    <2>2. Balanced(x)' = Balanced(x)
      BY <1>2, <1>4 DEF Balanced
    <2>3. BooksAt(x)'
      BY <1>2, <1>4, <1>10, <2>1, <2>2 DEF BooksAt
    <2> QED  BY <1>4, <2>1, <2>3
  <1>12. GoingEmpty'
    BY <1>1, <1>2, <1>4 DEF GoingEmpty, Entries
  <1>13. CommentsHaveEntries'
    BY <1>1, <1>2 DEF CommentsHaveEntries
  <1> QED  BY <1>5, <1>7, <1>8, <1>9, <1>11, <1>12, <1>13 DEF BoardInv

-----------------------------------------------------------------------------

LEMMA InitEstablishesBoardInv == BoardInit => BoardInv
  <1> SUFFICES ASSUME BoardInit PROVE BoardInv
    OBVIOUS
  <1>1. /\ entries = {} /\ comments = {} /\ nextEntry = 1 /\ nextComment = 1
        /\ commentCount = [e \in Entries |-> 0] /\ parentOf = [s \in Comments |-> None]
        /\ disturbed = {} /\ wrong = {} /\ late = {} /\ tasks = 0
        /\ \A c \in Servers : stage[c] = "idle" /\ task[c] = NoBoardCall
    BY DEF BoardInit
  <1>2. BoardTypeOK
    <2>1. NoBoardCall \in BoardCall
      BY DEF NoBoardCall, BoardCall
    <2>2. stage \in [Servers -> BoardStatements] /\ task \in [Servers -> BoardCall]
      BY <2>1 DEF BoardInit, BoardStatements
    <2> QED  BY <1>1, <2>2 DEF BoardTypeOK
  <1>3. CallsFit /\ GoneStaysGone
    BY <1>1 DEF CallsFit, CallFits, GoneStaysGone
  <1>4. SNsInOrder
    BY <1>1, BoundsAssumption DEF SNsInOrder
  <1>5. \A e : Working(e) = {} /\ CommentsOf(e) = {}
    BY <1>1 DEF Working, CommentsOf
  <1>6. SNsSuffice
    <2>1. Inserting = {}
      BY <1>1 DEF Inserting
    <2> QED  BY <1>1, <2>1, FS_EmptySet, BoundsAssumption DEF SNsSuffice
  <1>7. EntriesFit
    BY <1>1, <1>5 DEF EntriesFit, MeetingsAt, ReadsAt, BooksAt
  <1>8. GoingEmpty /\ CommentsHaveEntries
    BY <1>1, <1>5 DEF GoingEmpty, CommentsHaveEntries
  <1> QED  BY <1>2, <1>3, <1>4, <1>6, <1>7, <1>8 DEF BoardInv

LEMMA NextPreservesBoardInv == BoardInv /\ [BoardNext]_boardVars => BoardInv'
  <1> SUFFICES ASSUME BoardInv, [BoardNext]_boardVars PROVE BoardInv'
    OBVIOUS
  <1>1. CASE RegisterEntry
    BY <1>1, RegisterEntryStep
  <1>2. ASSUME NEW c \in Servers, BoardRequest(c) PROVE BoardInv'
    BY <1>2, BoardRequestStep
  <1>3. ASSUME NEW c \in Servers, BoardBreak(c) PROVE BoardInv'
    BY <1>3, BoardBreakStep
  <1>4. ASSUME NEW c \in Servers, BoardExecute(c) PROVE BoardInv'
    BY <1>4, InsertCommentStep, IncrementStep, FindParentStep, CountCommentsStep, WriteCountStep,
       EraseCommentStep, EraseAllStep, EraseEntryStep DEF BoardExecute
  <1>5. CASE UNCHANGED boardVars
    <2>1. UNCHANGED <<entries, commentCount, comments, parentOf, nextEntry, nextComment>>
      BY <1>5 DEF boardVars, boardTables
    <2>2. UNCHANGED <<stage, task, disturbed, wrong, late, tasks>>
      BY <1>5 DEF boardVars, boardHistory
    <2>3. \A x : Working(x)' = Working(x) /\ CommentsOf(x)' = CommentsOf(x)
      BY <2>1, <2>2 DEF Working, CommentsOf, About
    <2>4. \A d : Undisturbed(d)' = Undisturbed(d) /\ Owes(d)' = Owes(d) /\ DeletesComment(d)' = DeletesComment(d)
      BY <2>2 DEF Undisturbed, DeletesComment, Owes
    <2>5. \A x : Going(x)' = Going(x) /\ Owing(x)' = Owing(x) /\ Trusted(x)' = Trusted(x)
      BY <2>2, <2>3, <2>4 DEF Going, Owing, Trusted
    <2>6. EntriesFit'
      <3> SUFFICES ASSUME NEW x \in Entries PROVE MeetingsAt(x)' /\ ReadsAt(x)' /\ BooksAt(x)'
        BY DEF EntriesFit, Entries
      <3>1. MeetingsAt(x) /\ ReadsAt(x) /\ BooksAt(x)
        BY DEF BoardInv, EntriesFit
      <3>2. MeetingsAt(x)' /\ ReadsAt(x)'
        BY <2>1, <2>2, <2>3, <2>4, <3>1 DEF MeetingsAt, ReadsAt
      <3>3. BooksAt(x)'
        BY <2>1, <2>3, <2>5, <3>1 DEF BooksAt, Balanced
      <3> QED  BY <3>2, <3>3
    <2>7. Inserting' = Inserting
      BY <2>2 DEF Inserting
    <2>8. CallsFit' /\ SNsInOrder' /\ SNsSuffice' /\ GoneStaysGone'
      BY <2>1, <2>2, <2>4, <2>7
      DEF BoardInv, CallsFit, CallFits, SNsInOrder, SNsSuffice, GoneStaysGone
    <2>9. BoardTypeOK'
      BY <2>1, <2>2 DEF BoardInv, BoardTypeOK
    <2>10. GoingEmpty' /\ CommentsHaveEntries'
      BY <2>1, <2>2, <2>3, <2>5 DEF BoardInv, GoingEmpty, CommentsHaveEntries
    <2> QED  BY <2>6, <2>8, <2>9, <2>10 DEF BoardInv
  <1> QED  BY <1>1, <1>2, <1>3, <1>4, <1>5 DEF BoardNext

LEMMA BoardInvariance == BoardSpec => []BoardInv
  BY InitEstablishesBoardInv, NextPreservesBoardInv, PTL DEF BoardSpec

\* The bulletin board of any number of guilds and servers: whatever calls meet on an entry, the
\* count it keeps (GuildBBS_RegisterComment, GuildBBS_DeleteComment) is the number of its
\* comments once no call on it is under way, unless a DeleteComment met another call or one
\* broke off; no count is negative, and only comments that came late outlive their entry.
THEOREM BoardStaysConsistent == BoardSpec => []BoardConsistent
  <1>1. BoardInv => BoardConsistent
    <2> SUFFICES ASSUME BoardInv PROVE BoardConsistent
      OBVIOUS
    <2>1. BoardTypeOK /\ EntriesFit /\ CommentsHaveEntries
      BY DEF BoardInv
    <2>2. ASSUME NEW e \in entries, Working(e) = {}, e \notin wrong
          PROVE  commentCount[e] = Cardinality(CommentsOf(e))
      <3>1. e \in Entries /\ commentCount[e] \in Nat
        BY <2>1 DEF BoardTypeOK
      <3>2. Balanced(e)
        BY <2>1, <2>2, <3>1 DEF EntriesFit, BooksAt, Trusted, Going
      <3>3. Owing(e) = {}
        BY <2>2 DEF Owing
      <3> QED  BY <3>1, <3>2, <3>3, FS_EmptySet DEF Balanced
    <2> QED  BY <2>1, <2>2 DEF BoardConsistent, CountTruthful
  <1> QED  BY <1>1, BoardInvariance, PTL

-----------------------------------------------------------------------------
(* Fame *)

FameStatements == {"idle", "select", "select receiver", "decide", "insert"}
FameRow == [to : Receivers, day : Nat]
FameCall == [from : Givers \cup {NoOne}, to : Receivers \cup {NoOne}, last : Int, lastTo : Int]

FameTypeOK ==
    /\ fames \in [Givers -> Seq(FameRow)]
    /\ day \in Nat
    /\ at \in [Callers -> FameStatements]
    /\ asked \in [Callers -> FameCall]
    /\ together \subseteq Givers

\* No fame was given in the future.
FamesPast == \A g \in Givers : \A i \in DOMAIN fames[g] : fames[g][i].day <= day

\* A call that is under way has its parameters.
CallsFilled ==
    \A c \in Callers : at[c] # "idle" => asked[c].from \in Givers /\ asked[c].to \in Receivers

\* Two calls of one giver at a time are remembered.
CallsAlone ==
    \A c, d \in Callers :
        c # d /\ at[c] # "idle" /\ at[d] # "idle" /\ asked[c].from = asked[d].from
            => asked[c].from \in together

\* What a lonely call has read is still true, and what it decided still holds: days pass, and
\* that only helps.
StillTrue(c) ==
    LET given == ToSet(fames[asked[c].from])
    IN  /\ at[c] \in {"select receiver", "decide", "insert"} => asked[c].last = Latest(given)
        /\ at[c] \in {"decide", "insert"} =>
               asked[c].lastTo = Latest({row \in given : row.to = asked[c].to})
        /\ at[c] = "insert" => ~TooEarly(asked[c])

ReadsStillTrue ==
    \A c \in Callers : at[c] # "idle" /\ asked[c].from \notin together => StillTrue(c)

FameInv ==
    /\ FameTypeOK
    /\ FamesPast
    /\ CallsFilled
    /\ CallsAlone
    /\ ReadsStillTrue
    /\ FameLimits

-----------------------------------------------------------------------------
(* MAX *)

\* A set of integers that is bounded on both sides has a greatest member.
LEMMA GreatestExists ==
    ASSUME NEW n \in Nat, NEW S, S \subseteq -1 .. n, S # {}
    PROVE  \E x \in S : \A y \in S : x >= y
  <1> DEFINE R == OpToRel(<, Nat)
             T == {n - x : x \in S}
  <1>1. \A i, j \in Nat : i < j => <<i, j>> \in R
    BY DEF OpToRel
  <1>2. IsWellFoundedOn(R, Nat)
    BY NatLessThanWellFounded
  <1>3. ASSUME NEW x \in S PROVE x \in Int /\ n - x \in Nat
    <2>1. x \in -1 .. n
      OBVIOUS
    <2>2. CASE n - x >= 0
      BY <2>1, <2>2
    <2> QED  BY <2>1, <2>2
  <1>4. T \subseteq Nat /\ T # {}
    BY <1>3
  <1> HIDE DEF R, T
  <1>5. PICK t \in T : \A u \in T : ~(<<u, t>> \in R)
    BY <1>2, <1>4, WFMin, Zenon
  <1>6. PICK x \in S : t = n - x
    BY <1>5 DEF T
  <1>7. ASSUME NEW y \in S PROVE x >= y
    <2>1. n - y \in T /\ n - y \in Nat /\ n - x \in Nat /\ x \in Int /\ y \in Int
      BY <1>3 DEF T
    <2>2. ~(n - y < n - x)
      BY <1>1, <1>5, <1>6, <2>1
    <2> QED  BY <2>1, <2>2
  <1> QED  BY <1>7

\* MAX(Lastfame): no row is later, and there is no row that has no day.
LEMMA LatestIsGreatest ==
    ASSUME NEW n \in Nat, NEW given, \A row \in given : row.day \in 0 .. n
    PROVE  /\ Latest(given) \in Int
           /\ \A row \in given : row.day <= Latest(given)
           /\ given # {} => Latest(given) # Never
  <1> DEFINE S == {Never} \cup {row.day : row \in given}
  <1>1. S \subseteq -1 .. n /\ S # {} /\ Never \in S
    BY DEF Never
  <1>2. \A row \in given : row.day \in S
    OBVIOUS
  <1>3. Latest(given) = CHOOSE x \in S : \A y \in S : x >= y
    BY DEF Latest, Max
  <1> HIDE DEF S
  <1>4. \E x \in S : \A y \in S : x >= y
    BY <1>1, GreatestExists
  <1>5. Latest(given) \in S /\ \A y \in S : Latest(given) >= y
    BY <1>3, <1>4
  <1>6. Latest(given) \in Int
    <2> DEFINE l == Latest(given)
    <2> HIDE DEF l
    <2>1. l \in S
      BY <1>5 DEF l
    <2>2. l \in -1 .. n
      BY <1>1, <2>1
    <2>3. l \in Int
      BY <2>2
    <2> QED  BY <2>3 DEF l
  <1>7. ASSUME NEW row \in given PROVE row.day <= Latest(given) /\ Latest(given) # Never
    BY <1>2, <1>5, <1>6 DEF Never
  <1> QED  BY <1>6, <1>7

\* The rows of a giver, all and those to one receiver, are days up to today.
LEMMA DaysOfRows ==
    ASSUME FameTypeOK, FamesPast, NEW g \in Givers, NEW r
    PROVE  /\ \A row \in ToSet(fames[g]) : row.day \in 0 .. day
           /\ \A row \in {x \in ToSet(fames[g]) : x.to = r} : row.day \in 0 .. day
  <1>1. fames[g] \in Seq(FameRow) /\ day \in Nat
    BY DEF FameTypeOK
  <1>2. ASSUME NEW i \in DOMAIN fames[g] PROVE fames[g][i].day \in 0 .. day
    <2>1. fames[g][i] \in FameRow
      BY <1>1, ElementOfSeq, LenProperties
    <2> QED  BY <1>1, <2>1 DEF FamesPast, FameRow
  <1> QED  BY <1>2 DEF ToSet

\* What a decision to give fame means, whatever day it is taken on.
LEMMA NotTooEarly ==
    ASSUME NEW q \in FameCall, ~TooEarly(q), day \in Nat
    PROVE  /\ q.last # Never => day > q.last
           /\ q.last # Never /\ q.lastTo # Never => day - q.lastTo >= Month
  <1>1. q.last \in Int /\ q.lastTo \in Int
    BY DEF FameCall
  <1>2. Month \in Nat
    BY FameAssumption
  <1> QED  BY <1>1, <1>2 DEF TooEarly

-----------------------------------------------------------------------------
(* The statements *)

LEMMA InitEstablishesFameInv == FameInit => FameInv
  <1> SUFFICES ASSUME FameInit PROVE FameInv
    OBVIOUS
  <1>1. Never \in Int
    BY DEF Never
  <1>2. FameTypeOK
    <2>1. NotAsked \in FameCall
      BY <1>1 DEF NotAsked, FameCall
    <2> QED  BY <2>1 DEF FameInit, FameTypeOK, FameStatements
  <1>3. \A g \in Givers : DOMAIN fames[g] = {}
    BY DEF FameInit
  <1>4. FamesPast /\ FameLimits
    BY <1>3 DEF FamesPast, FameLimits
  <1>5. CallsFilled /\ CallsAlone /\ ReadsStillTrue
    BY DEF FameInit, CallsFilled, CallsAlone, ReadsStillTrue
  <1> QED  BY <1>2, <1>4, <1>5 DEF FameInv

\* What may be inserted today may be inserted on any later day.
LEMMA NeverTooLate ==
    ASSUME NEW q \in FameCall, ~TooEarly(q), day \in Nat, day' \in Nat, day <= day'
    PROVE  /\ q.last # Never => day' > q.last
           /\ q.last # Never /\ q.lastTo # Never => day' - q.lastTo >= Month
  <1>1. q.last \in Int /\ q.lastTo \in Int /\ Month \in Nat
    BY FameAssumption DEF FameCall
  <1> QED  BY <1>1, NotTooEarly

\* A call whose variables and whose giver's rows stay the same is not misled by the step.
LEMMA NotMisled ==
    ASSUME FameInv, FameTypeOK', NEW c \in Callers, day <= day', together \subseteq together',
           at'[c] = at[c], asked'[c] = asked[c],
           fames'[asked[c].from] = fames[asked[c].from] \/ asked[c].from \in together'
    PROVE  at'[c] # "idle" /\ asked'[c].from \notin together' => StillTrue(c)'
  <1> SUFFICES ASSUME at'[c] # "idle", asked'[c].from \notin together'
               PROVE  StillTrue(c)'
    OBVIOUS
  <1>1. StillTrue(c) /\ fames'[asked[c].from] = fames[asked[c].from]
    BY DEF FameInv, ReadsStillTrue
  <1>2. /\ at[c] \in {"select receiver", "decide", "insert"} =>
               asked[c].last = Latest(ToSet(fames[asked[c].from]))
        /\ at[c] \in {"decide", "insert"} =>
               asked[c].lastTo = Latest({row \in ToSet(fames[asked[c].from]) : row.to = asked[c].to})
        /\ at[c] = "insert" => ~TooEarly(asked[c])
    BY <1>1 DEF StillTrue
  <1>3. asked[c] \in FameCall /\ day \in Nat /\ day' \in Nat
    BY DEF FameInv, FameTypeOK
  <1>4. at'[c] = "insert" => ~TooEarly(asked[c])'
    <2> SUFFICES ASSUME at[c] = "insert" PROVE ~TooEarly(asked[c])'
      OBVIOUS
    <2>1. /\ asked[c].last # Never => day' > asked[c].last
          /\ asked[c].last # Never /\ asked[c].lastTo # Never => day' - asked[c].lastTo >= Month
      BY <1>2, <1>3, NeverTooLate
    <2>2. asked[c].last \in Int /\ asked[c].lastTo \in Int /\ Month \in Nat
      BY <1>3, FameAssumption DEF FameCall
    <2> QED  BY <1>3, <2>1, <2>2 DEF TooEarly
  <1> QED  BY <1>1, <1>2, <1>4 DEF StillTrue

\* Steps that add no row leave the limits as they are.
LEMMA LimitsKept ==
    ASSUME FameInv, FameTypeOK', fames' = fames, day <= day', together \subseteq together'
    PROVE  FamesPast' /\ FameLimits'
  <1>1. FameLimits'
    BY DEF FameInv, FameLimits
  <1>2. FamesPast'
    <2>1. ASSUME NEW g \in Givers, NEW i \in DOMAIN fames[g] PROVE fames[g][i].day <= day'
      <3>1. fames[g] \in Seq(FameRow) /\ day \in Nat /\ day' \in Nat
        BY DEF FameInv, FameTypeOK
      <3>2. fames[g][i] \in FameRow
        BY <3>1, ElementOfSeq, LenProperties
      <3>3. fames[g][i].day \in Nat /\ fames[g][i].day <= day
        BY <3>2 DEF FameRow, FameInv, FamesPast
      <3> QED  BY <3>1, <3>3
    <2> QED  BY <2>1 DEF FamesPast
  <1> QED  BY <1>1, <1>2

LEMMA MidnightStep ==
    ASSUME FameInv, Midnight
    PROVE  FameInv'
  <1>1. FameTypeOK' /\ day <= day'
    BY DEF FameInv, FameTypeOK, Midnight
  <1>2. ReadsStillTrue'
    BY <1>1, NotMisled DEF ReadsStillTrue, Midnight
  <1>3. CallsFilled' /\ CallsAlone'
    BY DEF FameInv, CallsFilled, CallsAlone, Midnight
  <1>4. FamesPast' /\ FameLimits'
    BY <1>1, LimitsKept DEF Midnight
  <1> QED  BY <1>1, <1>2, <1>3, <1>4 DEF FameInv

LEMMA CheckGivePopularityStep ==
    ASSUME FameInv, NEW c \in Callers, NEW g \in Givers, NEW r \in Receivers, g # r,
           CheckGivePopularity(c, g, r)
    PROVE  FameInv'
  <1>1. /\ asked'[c] = [from |-> g, to |-> r, last |-> Never, lastTo |-> Never]
        /\ at'[c] = "select" /\ day' = day /\ fames' = fames
    BY DEF FameInv, FameTypeOK, CheckGivePopularity, Step, NotAsked
  <1>2. \A d \in Callers : d # c => asked'[d] = asked[d] /\ at'[d] = at[d]
    BY DEF FameInv, FameTypeOK, CheckGivePopularity, Step
  <1>3. together \subseteq together' /\ together' \subseteq Givers
    BY DEF FameInv, FameTypeOK, CheckGivePopularity
  <1>4. FameTypeOK'
    <2>1. asked'[c] \in FameCall
      BY <1>1 DEF FameCall, Never
    <2>2. asked' \in [Callers -> FameCall]
      <3>1. PICK q : asked' = [asked EXCEPT ![c] = q]
        BY DEF CheckGivePopularity
      <3> QED  BY <2>1, <3>1 DEF FameInv, FameTypeOK
    <2>3. at' \in [Callers -> FameStatements]
      BY DEF FameInv, FameTypeOK, FameStatements, CheckGivePopularity, Step
    <2> QED  BY <1>1, <1>3, <2>2, <2>3 DEF FameInv, FameTypeOK
  <1>5. CallsFilled'
    BY <1>1, <1>2 DEF FameInv, CallsFilled
  <1>6. CallsAlone'
    <2>1. ASSUME NEW d \in Callers, d # c, asked[d].from = g PROVE g \in together'
      BY <2>1 DEF CheckGivePopularity
    <2>2. ASSUME NEW d \in Callers, NEW e \in Callers, d # e, at'[d] # "idle", at'[e] # "idle",
                 asked'[d].from = asked'[e].from
          PROVE  asked'[d].from \in together'
      <3>1. CASE d = c
        BY <1>1, <1>2, <2>1, <2>2, <3>1
      <3>2. CASE e = c
        BY <1>1, <1>2, <2>1, <2>2, <3>2
      <3>3. CASE d # c /\ e # c
        BY <1>2, <1>3, <2>2, <3>3 DEF FameInv, CallsAlone
      <3> QED  BY <3>1, <3>2, <3>3
    <2> QED  BY <2>2 DEF CallsAlone
  <1>7. ReadsStillTrue'
    <2>1. ASSUME NEW d \in Callers
          PROVE  at'[d] # "idle" /\ asked'[d].from \notin together' => StillTrue(d)'
      <3>1. CASE d = c
        BY <1>1, <3>1 DEF StillTrue
      <3>2. CASE d # c
        BY <1>1, <1>2, <1>3, <1>4, <3>2, NotMisled DEF FameInv, FameTypeOK
      <3> QED  BY <3>1, <3>2
    <2> QED  BY <2>1 DEF ReadsStillTrue
  <1>8. FamesPast' /\ FameLimits'
    BY <1>1, <1>3, <1>4, LimitsKept DEF FameInv, FameTypeOK
  <1> QED  BY <1>4, <1>5, <1>6, <1>7, <1>8 DEF FameInv

\* A step of one call that is not its INSERT: the call itself is what is left to look at.
LEMMA OneCallSteps ==
    ASSUME FameInv, NEW c \in Callers, at[c] # "idle",
           UNCHANGED <<fames, day, together>>,
           NEW q \in FameCall, NEW statement \in FameStatements,
           asked' = [asked EXCEPT ![c] = q], Step(c, statement), fameCalls' = fameCalls,
           statement # "idle" => /\ q.from = asked[c].from
                                 /\ q.to = asked[c].to
                                 /\ q.from \notin together => StillTrue(c)'
    PROVE  FameInv'
  <1>1. asked'[c] = q /\ at'[c] = statement
    BY DEF FameInv, FameTypeOK, Step
  <1>2. \A d \in Callers : d # c => asked'[d] = asked[d] /\ at'[d] = at[d]
    BY DEF FameInv, FameTypeOK, Step
  <1>3. FameTypeOK'
    <2>1. asked' \in [Callers -> FameCall]
      BY DEF FameInv, FameTypeOK
    <2>2. at' \in [Callers -> FameStatements]
      BY DEF FameInv, FameTypeOK, Step
    <2> QED  BY <2>1, <2>2 DEF FameInv, FameTypeOK
  <1>4. CallsFilled'
    BY <1>1, <1>2 DEF FameInv, CallsFilled
  <1>5. CallsAlone'
    <2>1. ASSUME NEW d \in Callers, at'[d] # "idle"
          PROVE  at[d] # "idle" /\ asked'[d].from = asked[d].from
      BY <1>1, <1>2, <2>1
    <2> QED  BY <2>1 DEF FameInv, CallsAlone
  <1>6. ReadsStillTrue'
    <2>1. ASSUME NEW d \in Callers
          PROVE  at'[d] # "idle" /\ asked'[d].from \notin together' => StillTrue(d)'
      <3>1. CASE d = c
        BY <1>1, <3>1
      <3>2. CASE d # c
        BY <1>2, <1>3, <3>2, NotMisled DEF FameInv, FameTypeOK
      <3> QED  BY <3>1, <3>2
    <2> QED  BY <2>1 DEF ReadsStillTrue
  <1>7. FamesPast' /\ FameLimits'
    BY <1>3, LimitsKept DEF FameInv, FameTypeOK
  <1> QED  BY <1>3, <1>4, <1>5, <1>6, <1>7 DEF FameInv

LEMMA LeaveStep ==
    ASSUME FameInv, NEW c \in Callers, at[c] # "idle", Leave(c),
           UNCHANGED <<fames, day, together, fameCalls>>
    PROVE  FameInv'
  <1>1. NotAsked \in FameCall /\ "idle" \in FameStatements
    BY DEF NotAsked, FameCall, Never, FameStatements
  <1> QED  BY <1>1, OneCallSteps DEF Leave

LEMMA SelectFamesStep ==
    ASSUME FameInv, NEW c \in Callers, SelectFames(c)
    PROVE  FameInv'
  <1> DEFINE l == Latest(ToSet(fames[asked[c].from]))
  <1>1. at[c] = "select" /\ asked[c] \in FameCall /\ asked[c].from \in Givers
    BY DEF SelectFames, FameInv, FameTypeOK, CallsFilled
  <1>2. l \in Int
    BY <1>1, DaysOfRows, LatestIsGreatest DEF FameInv, FameTypeOK
  <1>3. PICK q \in FameCall : /\ asked' = [asked EXCEPT ![c] = q]
                              /\ q.from = asked[c].from /\ q.to = asked[c].to /\ q.last = l
    <2>1. asked' = [asked EXCEPT ![c] = [asked[c] EXCEPT !.last = l]]
      BY DEF SelectFames
    <2> HIDE DEF l
    <2>2. [asked[c] EXCEPT !.last = l] \in FameCall
      BY <1>1, <1>2 DEF FameCall
    <2>3. /\ [asked[c] EXCEPT !.last = l].from = asked[c].from
          /\ [asked[c] EXCEPT !.last = l].to = asked[c].to
          /\ [asked[c] EXCEPT !.last = l].last = l
      BY <1>1 DEF FameCall
    <2> QED  BY <2>1, <2>2, <2>3
  <1>4. Step(c, "select receiver") /\ UNCHANGED <<fames, day, together, fameCalls>>
    BY DEF SelectFames
  <1>5. asked'[c] = q /\ at'[c] = "select receiver"
    BY <1>3, <1>4 DEF FameInv, FameTypeOK, Step
  <1>6. StillTrue(c)'
    BY <1>3, <1>4, <1>5 DEF StillTrue
  <1>7. "select receiver" \in FameStatements
    BY DEF FameStatements
  <1> QED  BY <1>1, <1>3, <1>4, <1>6, <1>7, OneCallSteps

LEMMA SelectFamesOfReceiverStep ==
    ASSUME FameInv, NEW c \in Callers, SelectFamesOfReceiver(c)
    PROVE  FameInv'
  <1> DEFINE l == Latest({row \in ToSet(fames[asked[c].from]) : row.to = asked[c].to})
  <1>1. at[c] = "select receiver" /\ asked[c] \in FameCall /\ asked[c].from \in Givers
    BY DEF SelectFamesOfReceiver, FameInv, FameTypeOK, CallsFilled
  <1>2. l \in Int
    BY <1>1, DaysOfRows, LatestIsGreatest DEF FameInv, FameTypeOK
  <1>3. PICK q \in FameCall : /\ asked' = [asked EXCEPT ![c] = q]
                              /\ q.from = asked[c].from /\ q.to = asked[c].to
                              /\ q.last = asked[c].last /\ q.lastTo = l
    <2>1. asked' = [asked EXCEPT ![c] = [asked[c] EXCEPT !.lastTo = l]]
      BY DEF SelectFamesOfReceiver
    <2> HIDE DEF l
    <2>2. [asked[c] EXCEPT !.lastTo = l] \in FameCall
      BY <1>1, <1>2 DEF FameCall
    <2>3. /\ [asked[c] EXCEPT !.lastTo = l].from = asked[c].from
          /\ [asked[c] EXCEPT !.lastTo = l].to = asked[c].to
          /\ [asked[c] EXCEPT !.lastTo = l].last = asked[c].last
          /\ [asked[c] EXCEPT !.lastTo = l].lastTo = l
      BY <1>1 DEF FameCall
    <2> QED  BY <2>1, <2>2, <2>3
  <1>4. Step(c, "decide") /\ UNCHANGED <<fames, day, together, fameCalls>>
    BY DEF SelectFamesOfReceiver
  <1>5. asked'[c] = q /\ at'[c] = "decide"
    BY <1>3, <1>4 DEF FameInv, FameTypeOK, Step
  <1>6. ASSUME q.from \notin together PROVE StillTrue(c)'
    <2>1. asked[c].last = Latest(ToSet(fames[asked[c].from]))
      BY <1>1, <1>3, <1>6 DEF FameInv, ReadsStillTrue, StillTrue
    <2> QED  BY <1>3, <1>4, <1>5, <2>1 DEF StillTrue
  <1>7. "decide" \in FameStatements
    BY DEF FameStatements
  <1> QED  BY <1>1, <1>3, <1>4, <1>6, <1>7, OneCallSteps

LEMMA DecideStep ==
    ASSUME FameInv, NEW c \in Callers, Decide(c)
    PROVE  FameInv'
  <1>1. at[c] = "decide" /\ UNCHANGED <<fames, day, together, fameCalls>>
    BY DEF Decide
  <1>2. CASE Leave(c)
    BY <1>1, <1>2, LeaveStep
  <1>3. CASE ~TooEarly(asked[c]) /\ Step(c, "insert") /\ UNCHANGED asked
    <2>1. asked[c] \in FameCall /\ asked' = [asked EXCEPT ![c] = asked[c]] /\ asked'[c] = asked[c]
      BY <1>3 DEF FameInv, FameTypeOK
    <2>2. "insert" \in FameStatements /\ at'[c] = "insert"
      BY <1>3 DEF FameInv, FameTypeOK, FameStatements, Step
    <2>3. ASSUME asked[c].from \notin together PROVE StillTrue(c)'
      <3>1. StillTrue(c)
        BY <1>1, <2>3 DEF FameInv, ReadsStillTrue
      <3>2. /\ asked[c].last = Latest(ToSet(fames[asked[c].from]))
            /\ asked[c].lastTo = Latest({row \in ToSet(fames[asked[c].from]) : row.to = asked[c].to})
        BY <1>1, <3>1 DEF StillTrue
      <3>3. ~TooEarly(asked[c])'
        BY <1>1, <1>3 DEF TooEarly
      <3> QED  BY <1>1, <1>3, <3>2, <3>3 DEF StillTrue
    <2> QED  BY <1>1, <1>3, <2>1, <2>2, <2>3, OneCallSteps
  <1> QED  BY <1>2, <1>3 DEF Decide

\* The row that is added comes after all rows, and late enough after those to its receiver.
LEMMA RowIsDue ==
    ASSUME FameInv, NEW c \in Callers, at[c] = "insert", asked[c].from \notin together
    PROVE  \A i \in DOMAIN fames[asked[c].from] :
               /\ fames[asked[c].from][i].day < day
               /\ fames[asked[c].from][i].to = asked[c].to
                      => day - fames[asked[c].from][i].day >= Month
  <1> SUFFICES ASSUME NEW i \in DOMAIN fames[asked[c].from]
               PROVE  /\ fames[asked[c].from][i].day < day
                      /\ fames[asked[c].from][i].to = asked[c].to
                             => day - fames[asked[c].from][i].day >= Month
    OBVIOUS
  <1> DEFINE row == fames[asked[c].from][i]
             given == ToSet(fames[asked[c].from])
             rowsTo == {x \in given : x.to = asked[c].to}
  <1>1. /\ asked[c].from \in Givers /\ asked[c] \in FameCall /\ day \in Nat
        /\ asked[c].last = Latest(given) /\ asked[c].lastTo = Latest(rowsTo)
        /\ ~TooEarly(asked[c])
    BY DEF FameInv, FameTypeOK, CallsFilled, ReadsStillTrue, StillTrue
  <1>2. (\A x \in given : x.day \in 0 .. day) /\ (\A x \in rowsTo : x.day \in 0 .. day)
    BY <1>1, DaysOfRows DEF FameInv
  <1>3. row \in given /\ (row.to = asked[c].to => row \in rowsTo)
    BY DEF ToSet
  <1> HIDE DEF row, given, rowsTo
  <1>4. row.day \in 0 .. day /\ row.day <= asked[c].last /\ asked[c].last # Never
    BY <1>1, <1>2, <1>3, LatestIsGreatest
  <1>5. row.to = asked[c].to => row.day <= asked[c].lastTo /\ asked[c].lastTo # Never
    BY <1>1, <1>2, <1>3, LatestIsGreatest
  <1>6. day > asked[c].last /\ (asked[c].lastTo # Never => day - asked[c].lastTo >= Month)
    BY <1>1, <1>4, NotTooEarly
  <1>7. asked[c].last \in Int /\ asked[c].lastTo \in Int /\ row.day \in Int /\ Month \in Int
    BY <1>1, <1>4, FameAssumption DEF FameCall
  <1>8. row.day < day
    BY <1>1, <1>4, <1>6, <1>7
  <1>9. ASSUME row.to = asked[c].to PROVE day - row.day >= Month
    BY <1>1, <1>5, <1>6, <1>7, <1>9
  <1> QED  BY <1>8, <1>9 DEF row

LEMMA InsertFameStep ==
    ASSUME FameInv, NEW c \in Callers, InsertFame(c)
    PROVE  FameInv'
  <1>1. PICK g \in Givers : asked[c].from = g
    BY DEF FameInv, CallsFilled, InsertFame
  <1>2. PICK r \in Receivers : asked[c].to = r
    BY DEF FameInv, CallsFilled, InsertFame
  <1> DEFINE new == [to |-> r, day |-> day]
  <1>3. at[c] = "insert" /\ day \in Nat /\ fames[g] \in Seq(FameRow) /\ day' = day /\ together' = together
    BY DEF InsertFame, FameInv, FameTypeOK
  <1>4. fames' = [fames EXCEPT ![g] = Append(fames[g], new)]
    BY <1>1, <1>2 DEF InsertFame
  <1>5. new \in FameRow /\ new.day = day /\ new.to = r
    BY <1>3 DEF FameRow
  <1> HIDE DEF new
  <1>6. /\ Len(fames[g]) \in Nat /\ DOMAIN fames[g] = 1 .. Len(fames[g])
        /\ Append(fames[g], new) \in Seq(FameRow)
        /\ DOMAIN Append(fames[g], new) = 1 .. Len(fames[g]) + 1
        /\ \A i \in 1 .. Len(fames[g]) : Append(fames[g], new)[i] = fames[g][i]
        /\ Append(fames[g], new)[Len(fames[g]) + 1] = new
    BY <1>3, <1>5, AppendProperties, LenProperties
  <1>7. fames'[g] = Append(fames[g], new) /\ \A h \in Givers : h # g => fames'[h] = fames[h]
    BY <1>4 DEF FameInv, FameTypeOK
  <1>8. asked'[c] = NotAsked /\ at'[c] = "idle"
    BY DEF FameInv, FameTypeOK, InsertFame, Leave, Step
  <1>9. \A d \in Callers : d # c => asked'[d] = asked[d] /\ at'[d] = at[d]
    BY DEF FameInv, FameTypeOK, InsertFame, Leave, Step
  <1>10. FameTypeOK'
    <2>1. fames' \in [Givers -> Seq(FameRow)]
      BY <1>4, <1>6 DEF FameInv, FameTypeOK
    <2>2. NotAsked \in FameCall
      BY DEF NotAsked, FameCall, Never
    <2>3. asked' \in [Callers -> FameCall]
      BY <2>2 DEF FameInv, FameTypeOK, InsertFame, Leave
    <2>4. at' \in [Callers -> FameStatements]
      BY DEF FameInv, FameTypeOK, InsertFame, Leave, Step, FameStatements
    <2> QED  BY <1>3, <2>1, <2>3, <2>4 DEF FameInv, FameTypeOK
  <1>11. CallsFilled' /\ CallsAlone'
    <2>1. ASSUME NEW d \in Callers, at'[d] # "idle"
          PROVE  d # c /\ at[d] # "idle" /\ asked'[d] = asked[d]
      BY <1>8, <1>9, <2>1
    <2>2. CallsFilled'
      BY <2>1 DEF FameInv, CallsFilled
    <2>3. CallsAlone'
      BY <1>3, <2>1 DEF FameInv, CallsAlone
    <2> QED  BY <2>2, <2>3
  <1>12. ReadsStillTrue'
    <2>1. ASSUME NEW d \in Callers
          PROVE  at'[d] # "idle" /\ asked'[d].from \notin together' => StillTrue(d)'
      <3>1. CASE d = c
        BY <1>8, <3>1
      <3>2. CASE d # c /\ at[d] # "idle"
        <4>1. asked[d].from \in Givers
          BY <3>2 DEF FameInv, CallsFilled
        <4>2. asked[d].from = g => g \in together
          BY <1>1, <1>3, <3>2 DEF FameInv, CallsAlone
        <4>3. fames'[asked[d].from] = fames[asked[d].from] \/ asked[d].from \in together'
          BY <1>3, <1>7, <4>1, <4>2
        <4> QED  BY <1>3, <1>9, <1>10, <3>2, <4>3, NotMisled
      <3>3. CASE d # c /\ at[d] = "idle"
        BY <1>9, <3>3
      <3> QED  BY <3>1, <3>2, <3>3
    <2> QED  BY <2>1 DEF ReadsStillTrue
  <1>13. FamesPast'
    <2>1. ASSUME NEW h \in Givers, NEW i \in DOMAIN fames'[h] PROVE fames'[h][i].day <= day'
      <3>1. CASE h # g
        BY <1>3, <1>7, <2>1, <3>1 DEF FameInv, FamesPast
      <3>2. CASE h = g /\ i \in 1 .. Len(fames[g])
        BY <1>3, <1>6, <1>7, <3>2 DEF FameInv, FamesPast
      <3>3. CASE h = g /\ i = Len(fames[g]) + 1
        BY <1>3, <1>5, <1>6, <1>7, <3>3
      <3> QED  BY <1>6, <1>7, <2>1, <3>1, <3>2, <3>3
    <2> QED  BY <2>1 DEF FamesPast
  <1>14. FameLimits'
    <2>1. ASSUME NEW h \in Givers \ together', NEW i \in DOMAIN fames'[h], NEW j \in DOMAIN fames'[h],
                 i < j
          PROVE  /\ fames'[h][i].day < fames'[h][j].day
                 /\ fames'[h][i].to = fames'[h][j].to => fames'[h][j].day - fames'[h][i].day >= Month
      <3>1. CASE h # g
        BY <1>3, <1>7, <2>1, <3>1 DEF FameInv, FameLimits
      <3>2. CASE h = g /\ j \in 1 .. Len(fames[g])
        <4>1. i \in 1 .. Len(fames[g])
          BY <1>6, <1>7, <2>1, <3>2
        <4> QED  BY <1>3, <1>6, <1>7, <2>1, <3>2, <4>1 DEF FameInv, FameLimits
      <3>3. CASE h = g /\ j = Len(fames[g]) + 1
        <4>1. i \in 1 .. Len(fames[g])
          BY <1>6, <1>7, <2>1, <3>3
        <4>2. fames[g][i].day < day /\ (fames[g][i].to = r => day - fames[g][i].day >= Month)
          BY <1>1, <1>2, <1>3, <1>6, <2>1, <3>3, <4>1, RowIsDue
        <4> QED  BY <1>5, <1>6, <1>7, <3>3, <4>1, <4>2
      <3> QED  BY <1>6, <1>7, <2>1, <3>1, <3>2, <3>3
    <2> QED  BY <2>1 DEF FameLimits
  <1> QED  BY <1>10, <1>11, <1>12, <1>13, <1>14 DEF FameInv

LEMMA NextPreservesFameInv == FameInv /\ [FameNext]_fameVars => FameInv'
  <1> SUFFICES ASSUME FameInv, [FameNext]_fameVars PROVE FameInv'
    OBVIOUS
  <1>1. CASE UNCHANGED fameVars
    BY <1>1 DEF fameVars, FameInv, FameTypeOK, FamesPast, CallsFilled, CallsAlone, ReadsStillTrue,
                StillTrue, TooEarly, FameLimits
  <1>2. CASE FameNext
    BY <1>2, MidnightStep, CheckGivePopularityStep, SelectFamesStep, SelectFamesOfReceiverStep,
       DecideStep, InsertFameStep, LeaveStep DEF FameNext, BreakOff
  <1> QED  BY <1>1, <1>2

LEMMA FameInvariance == FameSpec => []FameInv
  <1>1. FameInit => FameInv
    BY InitEstablishesFameInv
  <1>2. FameInv /\ [FameNext]_fameVars => FameInv'
    BY NextPreservesFameInv
  <1> QED  BY <1>1, <1>2, PTL DEF FameSpec

\* CheckGivePopularity: whoever's calls do not overlap gives one fame a day and one a month to
\* the same character, for any number of servers, givers and midnights.
THEOREM FameStaysLimited == FameSpec => []FameLimits
  <1>1. FameInv => FameLimits
    BY DEF FameInv
  <1> QED  BY <1>1, FameInvariance, PTL
=============================================================================
