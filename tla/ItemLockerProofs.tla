-------------------------- MODULE ItemLockerProofs --------------------------
(***************************************************************************)
(* Safety of ItemLocker for any connections, items and number of calls.    *)
(*                                                                         *)
(* The locks carry the argument: whoever wrote a row inside a transaction  *)
(* is the only one to hold a lock on it, so what an undo restores is what  *)
(* the others last saw.  Where a connection stands in its procedure says   *)
(* how deep it is in transactions, unless a move leaked one.               *)
(***************************************************************************)
EXTENDS ItemLocker, TLAPS

\* The statements of a move behind its UPDATE.
InMove(c) == pc[c] \in {"select", "insert", "delete", "commit"}

\* What a step of c leaves alone.
OthersStay(c) ==
    \A d \in Connections \ {c} :
        /\ pc'[d] = pc[d] /\ call'[d] = call[d] /\ depth'[d] = depth[d]
        /\ lock'[d] = lock[d] /\ image'[d] = image[d] /\ unsettled'[d] = unsettled[d]

\* A step of c, one by one.
StepOf(c) ==
    \/ Request(c)
    \/ Execute(c)
    \/ Undo(c)

LEMMA NextIsStepOf == Next => \E c \in Connections : StepOf(c)
  BY DEF Next, StepOf, Disconnect, Victim

-----------------------------------------------------------------------------
(* Types *)

LEMMA Records ==
    ASSUME TypeOK, NEW s \in SNs
    PROVE  /\ row[s] \in Row
           /\ \A n \in Int : [row[s] EXCEPT !.number = n] \in Row
           /\ \A n \in Nat : [row[s] EXCEPT !.bundles = n] \in Row
           /\ \A ch \in Characters \cup {0} : /\ [row[s] EXCEPT !.char = ch] \in Row
                                              /\ [row[s] EXCEPT !.char = ch, !.expired = FALSE] \in Row
           /\ [row[s] EXCEPT !.here = FALSE] \in Row
           /\ [row[s] EXCEPT !.expired = FALSE] \in Row
  BY DEF TypeOK, Row

LEMMA CallTypes ==
    ASSUME TypeOK, NEW c \in Connections
    PROVE  /\ call[c].sn \in SNs /\ call[c].pet \in SNs /\ call[c].char \in Characters \cup {0}
           /\ call[c].op \in {"none", "LtoS", "StoL", "use", "change", "expire", "renew"}
           /\ Target(c) \in SNs
  BY DEF TypeOK, Call, Target

LEMMA NoCallType == NoCall \in Call /\ NoRow \in Row
<1>1. PICK t \in SNs : TRUE
  BY SNsAssumption
<1> DEFINE s == CHOOSE s \in SNs : TRUE
<1>2. s \in SNs
  BY <1>1
<1>3. NoCall = [op |-> "none", sn |-> s, char |-> 0, pet |-> s]
  BY DEF NoCall
<1>4. NoCall \in Call
  BY <1>2, <1>3 DEF Call
<1>5. NoRow \in Row
  BY DEF NoRow, Row
<1> QED
  BY <1>4, <1>5

\* The types of the lock, the image and the row behind a statement that writes or misses.
LEMMA WriteTypes ==
    ASSUME TypeOK, NEW c \in Connections, NEW s \in SNs, NEW new \in Row, Write(c, s, new)
    PROVE  /\ row' \in [SNs -> Row]
           /\ lock' \in [Connections -> [SNs -> {"none", "update", "exclusive"}]]
           /\ image' \in [Connections -> [SNs -> Row]]
<1>1. row' \in [SNs -> Row]
  BY DEF TypeOK, Write
<1>2. lock' \in [Connections -> [SNs -> {"none", "update", "exclusive"}]]
  <2>1. lock' = lock \/ lock' = [lock EXCEPT ![c] = [lock[c] EXCEPT ![s] = "exclusive"]]
    BY DEF Write
  <2>2. [lock[c] EXCEPT ![s] = "exclusive"] \in [SNs -> {"none", "update", "exclusive"}]
    BY DEF TypeOK
  <2> QED
    BY <2>1, <2>2 DEF TypeOK
<1>3. row[s] \in Row
  BY DEF TypeOK
<1>4. image' = image \/ image' = [image EXCEPT ![c] = [image[c] EXCEPT ![s] = row[s]]]
  BY DEF Write
<1>5. image' \in [Connections -> [SNs -> Row]]
  <2>1. [image[c] EXCEPT ![s] = row[s]] \in [SNs -> Row]
    BY <1>3 DEF TypeOK
  <2> QED
    BY <1>4, <2>1 DEF TypeOK
<1> QED
  BY <1>1, <1>2, <1>5

LEMMA MissTypes ==
    ASSUME TypeOK, NEW c \in Connections, NEW s \in SNs, Miss(c, s)
    PROVE  /\ row' \in [SNs -> Row]
           /\ lock' \in [Connections -> [SNs -> {"none", "update", "exclusive"}]]
           /\ image' \in [Connections -> [SNs -> Row]]
<1>1. lock' = lock \/ lock' = [lock EXCEPT ![c] = [lock[c] EXCEPT ![s] = "update"]]
  BY DEF Miss
<1>2. lock' \in [Connections -> [SNs -> {"none", "update", "exclusive"}]]
  <2>1. [lock[c] EXCEPT ![s] = "update"] \in [SNs -> {"none", "update", "exclusive"}]
    BY DEF TypeOK
  <2> QED
    BY <1>1, <2>1 DEF TypeOK
<1> QED
  BY <1>2 DEF TypeOK, Miss

LEMMA TableTypes ==
    ASSUME TypeOK, NEW c \in Connections, NEW mode \in {"shared", "exclusive"}, Take(c, mode)
    PROVE  table' \in [Connections -> {"none", "shared", "exclusive"}]
  BY DEF TypeOK, Take

LEMMA EndTypes ==
    ASSUME TypeOK, NEW c \in Connections, End(c)
    PROVE  pc' \in [Connections -> Statements] /\ call' \in [Connections -> Call]
  BY NoCallType DEF TypeOK, End, Goto, Statements

LEMMA ReturnTypes ==
    ASSUME TypeOK, NEW c \in Connections, Return(c)
    PROVE  /\ pc' \in [Connections -> Statements] /\ call' \in [Connections -> Call]
           /\ unsettled' \in [Connections -> Nat]
  BY EndTypes DEF TypeOK, Return

LEMMA ReleaseTypes ==
    ASSUME TypeOK, NEW c \in Connections, Release(c)
    PROVE  /\ lock' \in [Connections -> [SNs -> {"none", "update", "exclusive"}]]
           /\ image' \in [Connections -> [SNs -> Row]]
           /\ table' \in [Connections -> {"none", "shared", "exclusive"}]
<1>1. Unlocked \in [SNs -> {"none", "update", "exclusive"}] /\ Unwritten \in [SNs -> Row]
  BY NoCallType DEF Unlocked, Unwritten
<1> QED
  BY <1>1 DEF TypeOK, Release

LEMMA GotoTypes ==
    ASSUME TypeOK, NEW c \in Connections, NEW st \in Statements, Goto(c, st)
    PROVE  pc' \in [Connections -> Statements]
  BY DEF TypeOK, Goto

\* A move is in a transaction until its COMMIT, whether an earlier one leaked or not.
Nested == \A c \in Connections : InMove(c) => depth[c] > 0

LEMMA UndoTypes ==
    ASSUME TypeOK, NEW c \in Connections, Undo(c)
    PROVE  TypeOK'
<1> USE DEF Undo
<1>1. row' \in [SNs -> Row]
  BY DEF TypeOK
<1> QED
  BY <1>1, ReleaseTypes, EndTypes, CallTypes DEF TypeOK

LEMMA RequestTypes ==
    ASSUME TypeOK, NEW c \in Connections, Request(c)
    PROVE  TypeOK'
<1>0. calls' \in Nat
  <2>1. calls' = calls + 1 /\ calls \in Nat
    BY DEF Request, Invoke, TypeOK
  <2> QED
    BY <2>1
<1> DEFINE Firsts == {"move in", "move out", "decrement", "look", "extend"}
           Called == [op : {"LtoS", "StoL", "use", "change", "expire", "renew"}, sn : SNs,
                      char : Characters \cup {0}, pet : SNs]
<1>1. \E first \in Firsts, new \in Called :
         /\ calls' = calls + 1
         /\ call' = [call EXCEPT ![c] = new]
         /\ Goto(c, first)
         /\ UNCHANGED <<tables, depth, history>>
  BY DEF Request, Invoke
<1>2. PICK first \in Firsts, new \in Called :
         /\ calls' = calls + 1
         /\ call' = [call EXCEPT ![c] = new]
         /\ Goto(c, first)
         /\ UNCHANGED <<tables, depth, history>>
  BY <1>1
<1>3. first \in Statements /\ new \in Call
  BY DEF Statements, Call
<1>4. pc' \in [Connections -> Statements]
  BY <1>2, <1>3, GotoTypes
<1>5. call' \in [Connections -> Call]
  BY <1>2, <1>3 DEF TypeOK
<1>6. UNCHANGED <<row, lock, image, table, depth, leaks, unsettled, overtaken, stranded>>
  BY <1>2 DEF tables, history
<1> QED
  BY <1>0, <1>4, <1>5, <1>6 DEF TypeOK

LEMMA MoveTypes ==
    ASSUME TypeOK, NEW c \in Connections, NEW found \in BOOLEAN,
           NEW owner \in Characters \cup {0}, NEW following \in {"select", "delete"},
           Move(c, found, owner, following)
    PROVE  TypeOK'
<1>1. depth' \in [Connections -> Nat]
  BY DEF Move, Begin, TypeOK
<1>2. call[c].sn \in SNs
  BY CallTypes
<1>3. CASE found
  <2>1. Write(c, call[c].sn, [row[call[c].sn] EXCEPT !.char = owner]) /\ Goto(c, following)
    BY <1>3 DEF Move
  <2>2. following \in Statements /\ [row[call[c].sn] EXCEPT !.char = owner] \in Row
    BY <1>2, Records DEF Statements
  <2> QED
    BY <1>1, <1>2, <1>3, <2>1, <2>2, WriteTypes, GotoTypes DEF Move, TypeOK
<1>4. CASE ~found
  BY <1>1, <1>2, <1>4, MissTypes, EndTypes DEF Move, TypeOK
<1> QED
  BY <1>3, <1>4

LEMMA SetBundlesTypes ==
    ASSUME TypeOK, NEW c \in Connections, NEW n \in Nat, SetBundles(c, n)
    PROVE  /\ row' \in [SNs -> Row]
           /\ lock' \in [Connections -> [SNs -> {"none", "update", "exclusive"}]]
           /\ image' \in [Connections -> [SNs -> Row]]
           /\ table' \in [Connections -> {"none", "shared", "exclusive"}]
           /\ UNCHANGED <<depth, leaks, overtaken, stranded, calls>>
<1>1. call[c].sn \in SNs /\ [row[call[c].sn] EXCEPT !.bundles = n] \in Row
  BY CallTypes, Records
<1> QED
  BY <1>1, WriteTypes, TableTypes DEF SetBundles

\* One statement of c.
LEMMA ExecuteTypes ==
    ASSUME TypeOK, Nested, NEW c \in Connections, Execute(c)
    PROVE  TypeOK'
<1> DEFINE s == call[c].sn
<1>1. s \in SNs /\ call[c].pet \in SNs /\ call[c].char \in Characters \cup {0}
  BY CallTypes
<1>2. CASE MoveCashItemLtoS(c)
  BY <1>1, <1>2, MoveTypes DEF MoveCashItemLtoS, TypeOK, Row
<1>3. CASE MoveCashItemStoL(c)
  <2>1. (row[s].here /\ row[s].char = call[c].char) \in BOOLEAN
    OBVIOUS
  <2> QED
    BY <1>1, <1>3, <2>1, MoveTypes DEF MoveCashItemStoL
<1>4. CASE SelectBundle(c)
  <2>1. "insert" \in Statements /\ "commit" \in Statements
    BY DEF Statements
  <2> QED
    BY <1>4, <2>1, TableTypes, GotoTypes DEF SelectBundle, TypeOK, history
<1>5. CASE InsertBundle(c)
  <2>1. row[s] \in Row
    BY <1>1 DEF TypeOK
  <2>2. "commit" \in Statements /\ row[s].bundles + 1 \in Nat
    BY <2>1 DEF Statements, Row
  <2> QED
    BY <1>5, <2>2, SetBundlesTypes, GotoTypes DEF InsertBundle, TypeOK
<1>6. CASE DeleteBundle(c)
  <2>1. "commit" \in Statements
    BY DEF Statements
  <2> QED
    BY <1>6, <2>1, SetBundlesTypes, GotoTypes DEF DeleteBundle, TypeOK
<1>7. CASE Commit(c)
  <2>1. depth[c] - 1 \in Nat
    BY <1>7 DEF Commit, At, InMove, Nested, TypeOK
  <2>2. depth' \in [Connections -> Nat]
    BY <1>7, <2>1 DEF Commit, TypeOK
  <2> QED
    BY <1>7, <2>2, ReleaseTypes, ReturnTypes DEF Commit, TypeOK
<1>8. CASE Decrement(c)
  <2>1. row[s] \in Row
    BY <1>1 DEF TypeOK
  <2>2. "read" \in Statements /\ row[s].number - 1 \in Int
    BY <2>1 DEF Statements, Row
  <2>3. [row[s] EXCEPT !.number = @ - 1] \in Row
    BY <2>1, <2>2 DEF Row
  <2> QED
    BY <1>1, <1>8, <2>2, <2>3, WriteTypes, MissTypes, GotoTypes DEF Decrement, UseFrame, TypeOK
<1>9. CASE Read(c)
  <2>1. "purge" \in Statements
    BY DEF Statements
  <2> QED
    BY <1>9, <2>1, ReturnTypes, GotoTypes DEF Read, UseFrame, TypeOK
<1>10. CASE Purge(c)
  <2>1. [row[s] EXCEPT !.here = FALSE] \in Row
    BY <1>1, Records
  <2> QED
    BY <1>1, <1>10, <2>1, WriteTypes, MissTypes, ReturnTypes DEF Purge, UseFrame, TypeOK
<1>11. CASE SetPetLife(c)
  <2>1. "decrement" \in Statements /\ [row[call[c].pet] EXCEPT !.expired = FALSE] \in Row
    BY <1>1, Records DEF Statements
  <2> QED
    BY <1>1, <1>11, <2>1, WriteTypes, MissTypes, GotoTypes DEF SetPetLife, Overtake, TypeOK
<1>12. CASE Look(c)
  <2>1. "reset" \in Statements /\ "remove" \in Statements
    BY DEF Statements
  <2> QED
    BY <1>12, <2>1, ReturnTypes, GotoTypes DEF Look, tables, TypeOK
<1>13. CASE Reset(c)
  <2>1. [row[s] EXCEPT !.char = 0, !.expired = FALSE] \in Row
    BY <1>1, Records
  <2> QED
    BY <1>1, <1>13, <2>1, WriteTypes, MissTypes, ReturnTypes DEF Reset, Overtake, TypeOK
<1>14. CASE Remove(c)
  <2>1. "sweep" \in Statements /\ [row[s] EXCEPT !.here = FALSE] \in Row
    BY <1>1, Records DEF Statements
  <2> QED
    BY <1>1, <1>14, <2>1, WriteTypes, MissTypes, GotoTypes DEF Remove, UseFrame, TypeOK
<1>15. CASE Sweep(c)
  BY <1>15, SetBundlesTypes, ReturnTypes DEF Sweep, TypeOK
<1> QED
  BY <1>2, <1>3, <1>4, <1>5, <1>6, <1>7, <1>8, <1>9, <1>10, <1>11, <1>12, <1>13, <1>14, <1>15
     DEF Execute

-----------------------------------------------------------------------------
(* Locks *)

\* Rows are locked inside transactions only.
LocksInside == \A c \in Connections, s \in SNs : lock[c][s] # "none" => depth[c] > 0

\* A lock on a row excludes every other connection's: rows are only locked to write them.
LocksExclude ==
    \A c, d \in Connections, s \in SNs : c # d /\ lock[c][s] # "none" => lock[d][s] = "none"

\* A move holds the row it wrote; so does the removal of an expired item.
MoverHolds ==
    \A c \in Connections :
        /\ pc[c] \in {"select", "insert", "delete"} => lock[c][call[c].sn] = "exclusive"
        /\ pc[c] = "sweep" /\ depth[c] > 0 => lock[c][call[c].sn] # "none"

LockInv == TypeOK /\ Nested /\ LocksInside /\ LocksExclude /\ MoverHolds

\* A step of c leaves what belongs to the other connections alone.
LEMMA StepOthersStay ==
    ASSUME TypeOK, NEW c \in Connections, StepOf(c)
    PROVE  OthersStay(c)
<1> USE DEF TypeOK, OthersStay, Goto, End, Return
<1>1. CASE Request(c)
  BY <1>1 DEF Request, Invoke, tables, history
<1>2. CASE Undo(c)
  BY <1>2 DEF Undo, Release
<1>3. CASE MoveCashItemLtoS(c)
  BY <1>3 DEF MoveCashItemLtoS, Move, Begin, Write, Miss
<1>4. CASE MoveCashItemStoL(c)
  BY <1>4 DEF MoveCashItemStoL, Move, Begin, Write, Miss
<1>5. CASE SelectBundle(c)
  BY <1>5 DEF SelectBundle, history
<1>6. CASE InsertBundle(c)
  BY <1>6 DEF InsertBundle, SetBundles, Write
<1>7. CASE DeleteBundle(c)
  BY <1>7 DEF DeleteBundle, SetBundles, Write
<1>8. CASE Commit(c)
  BY <1>8 DEF Commit, Release
<1>9. CASE Decrement(c)
  BY <1>9 DEF Decrement, Write, Miss, UseFrame
<1>10. CASE Read(c)
  BY <1>10 DEF Read, UseFrame
<1>11. CASE Purge(c)
  BY <1>11 DEF Purge, Write, Miss, UseFrame
<1>12. CASE SetPetLife(c)
  BY <1>12 DEF SetPetLife, Write, Miss
<1>13. CASE Look(c)
  BY <1>13 DEF Look, tables
<1>14. CASE Reset(c)
  BY <1>14 DEF Reset, Write, Miss
<1>15. CASE Remove(c)
  BY <1>15 DEF Remove, Write, Miss, UseFrame
<1>16. CASE Sweep(c)
  BY <1>16 DEF Sweep, SetBundles, Write
<1> QED
  BY <1>1, <1>2, <1>3, <1>4, <1>5, <1>6, <1>7, <1>8, <1>9, <1>10, <1>11, <1>12, <1>13, <1>14,
     <1>15, <1>16 DEF StepOf, Execute

\* What one statement of c does to the rows and to its locks: nothing, or it lets go of
\* all, or it writes or locks its target, on which nobody else has a lock.
Quiet(c) == UNCHANGED <<row, lock, image>> /\ (depth'[c] = depth[c] \/ depth'[c] > 0)

Lets(c) == UNCHANGED row /\ lock' = [lock EXCEPT ![c] = Unlocked]

\* Or, outside a transaction, it deletes the bundles of an item that it removed before.
Sweeps(c) ==
    /\ pc[c] = "sweep"
    /\ row' = [row EXCEPT ![call[c].sn].bundles = 0]
    /\ UNCHANGED <<lock, image, depth>>

Holds(c) ==
    LET s == Target(c)
    IN  /\ depth'[c] >= depth[c]
        /\ \A d \in Connections \ {c} : lock[d][s] = "none"
        /\ \A r \in SNs \ {s} : /\ row'[r] = row[r]
                                /\ lock'[c][r] = lock[c][r] /\ image'[c][r] = image[c][r]
        /\ \/ depth'[c] = 0 /\ lock'[c] = lock[c] /\ image'[c] = image[c]
           \/ /\ depth'[c] > 0
              /\ lock'[c][s] = "exclusive"
              /\ image'[c][s] = IF lock[c][s] = "exclusive" THEN image[c][s] ELSE row[s]
           \/ /\ depth'[c] > 0
              /\ row'[s] = row[s] /\ image'[c][s] = image[c][s]
              /\ lock'[c][s] = IF lock[c][s] = "none" THEN "update" ELSE lock[c][s]

LEMMA WriteHolds ==
    ASSUME TypeOK, NEW c \in Connections, NEW new,
           \A d \in Connections \ {c} : lock[d][Target(c)] = "none",
           depth' \in [Connections -> Nat], depth'[c] >= depth[c],
           Write(c, Target(c), new) \/ Miss(c, Target(c))
    PROVE  Holds(c)
<1> DEFINE s == Target(c)
<1>0. s \in SNs /\ depth'[c] \in Nat
  BY CallTypes
<1> HIDE DEF s
<1>1. CASE Write(c, s, new) /\ depth'[c] > 0
  BY <1>0, <1>1 DEF Write, Holds, TypeOK, s
<1>2. CASE Write(c, s, new) /\ ~(depth'[c] > 0)
  BY <1>0, <1>2 DEF Write, Holds, TypeOK, s
<1>3. CASE Miss(c, s)
  BY <1>0, <1>3 DEF Miss, Holds, TypeOK, s
<1> QED
  BY <1>1, <1>2, <1>3 DEF s

LEMMA ExecuteEffect ==
    ASSUME LockInv, NEW c \in Connections, Execute(c)
    PROVE  Quiet(c) \/ Lets(c) \/ Sweeps(c) \/ Holds(c)
<1> DEFINE s == call[c].sn
           Alone == \A d \in Connections \ {c} : lock[d][Target(c)] = "none"
<1>1. TypeOK' /\ depth' \in [Connections -> Nat] /\ depth \in [Connections -> Nat]
  BY ExecuteTypes DEF LockInv, TypeOK
<1>2. TypeOK /\ s \in SNs /\ call[c].pet \in SNs
  BY CallTypes DEF LockInv
<1>3. pc[c] \in {"move in", "move out", "extend", "decrement", "purge", "reset", "remove"}
        /\ Blockers(c) = {} => Alone
  BY DEF Blockers
<1>4. pc[c] # "extend" => Target(c) = s
  BY DEF Target
<1>5. pc[c] = "extend" => Target(c) = call[c].pet
  BY DEF Target
<1>6. CASE MoveCashItemLtoS(c) \/ MoveCashItemStoL(c)
  <2>1. Alone /\ Target(c) = s
    BY <1>3, <1>4, <1>6 DEF MoveCashItemLtoS, MoveCashItemStoL, At
  <2>2. depth'[c] >= depth[c]
    <3>1. depth' = [depth EXCEPT ![c] = @ + 1]
      BY <1>6 DEF MoveCashItemLtoS, MoveCashItemStoL, Move, Begin
    <3> QED
      BY <1>1, <3>1
  <2>3. \/ \E new : Write(c, Target(c), new)
        \/ Miss(c, Target(c))
    BY <1>6, <2>1 DEF MoveCashItemLtoS, MoveCashItemStoL, Move
  <2> QED
    BY <1>1, <1>2, <2>1, <2>2, <2>3, WriteHolds
<1>7. CASE Decrement(c) \/ Purge(c) \/ Reset(c) \/ Remove(c)
  <2>1. Alone /\ Target(c) = s
    BY <1>3, <1>4, <1>7 DEF Decrement, Purge, Reset, Remove, At
  <2>2. depth'[c] >= depth[c]
    BY <1>1, <1>7 DEF Decrement, Purge, Reset, Remove
  <2>3. \/ \E new : Write(c, Target(c), new)
        \/ Miss(c, Target(c))
    BY <1>7, <2>1 DEF Decrement, Purge, Reset, Remove
  <2> QED
    BY <1>1, <1>2, <2>1, <2>2, <2>3, WriteHolds
<1>8. CASE SetPetLife(c)
  <2>1. Alone /\ Target(c) = call[c].pet
    BY <1>3, <1>5, <1>8 DEF SetPetLife, At
  <2>2. depth'[c] >= depth[c]
    BY <1>1, <1>8 DEF SetPetLife
  <2>3. \/ \E new : Write(c, Target(c), new)
        \/ Miss(c, Target(c))
    BY <1>8, <2>1 DEF SetPetLife
  <2> QED
    BY <1>1, <1>2, <2>1, <2>2, <2>3, WriteHolds
<1>9. CASE InsertBundle(c) \/ DeleteBundle(c)
  <2>1. Target(c) = s /\ lock[c][s] = "exclusive"
    BY <1>4, <1>9 DEF InsertBundle, DeleteBundle, At, LockInv, MoverHolds
  <2>2. Alone
    BY <1>2, <2>1 DEF LockInv, LocksExclude
  <2>3. depth'[c] >= depth[c] /\ \E new : Write(c, Target(c), new)
    BY <1>1, <1>9, <2>1 DEF InsertBundle, DeleteBundle, SetBundles
  <2> QED
    BY <1>1, <1>2, <2>2, <2>3, WriteHolds
<1>10. CASE Sweep(c) /\ depth[c] > 0
  <2>1. Target(c) = s /\ lock[c][s] # "none"
    BY <1>4, <1>10 DEF Sweep, At, LockInv, MoverHolds
  <2>2. Alone
    BY <1>2, <2>1 DEF LockInv, LocksExclude
  <2>3. depth'[c] >= depth[c] /\ \E new : Write(c, Target(c), new)
    BY <1>1, <1>10, <2>1 DEF Sweep, SetBundles
  <2> QED
    BY <1>1, <1>2, <2>2, <2>3, WriteHolds
<1>11. CASE Sweep(c) /\ ~(depth[c] > 0)
  BY <1>11 DEF Sweep, At, SetBundles, Write, Sweeps
<1>12. CASE SelectBundle(c) \/ Read(c) \/ Look(c)
  BY <1>12 DEF SelectBundle, Read, Look, tables, Quiet
<1>13. CASE Commit(c)
  <2>1. depth[c] > 0 /\ depth'[c] = depth[c] - 1
    BY <1>1, <1>13 DEF Commit, At, InMove, LockInv, Nested
  <2> QED
    BY <1>1, <1>13, <2>1 DEF Commit, Release, Quiet, Lets
<1> QED
  BY <1>6, <1>7, <1>8, <1>9, <1>10, <1>11, <1>12, <1>13 DEF Execute

\* What an undo does.
LEMMA UndoEffect ==
    ASSUME TypeOK, NEW c \in Connections, Undo(c)
    PROVE  /\ lock' = [lock EXCEPT ![c] = Unlocked]
           /\ \A s \in SNs : row'[s] = IF lock[c][s] = "exclusive" THEN image[c][s] ELSE row[s]
           /\ pc'[c] = "idle" /\ depth'[c] = 0
  BY DEF Undo, Release, End, Goto, TypeOK

LEMMA LocksStep ==
    ASSUME LockInv, NEW c \in Connections, StepOf(c), depth' \in [Connections -> Nat]
    PROVE  (LocksInside /\ LocksExclude)'
<1> USE DEF LockInv
<1>0. OthersStay(c) /\ depth \in [Connections -> Nat] /\ Target(c) \in SNs
  BY StepOthersStay, CallTypes DEF TypeOK
<1>1. CASE UNCHANGED lock /\ (depth'[c] = depth[c] \/ depth'[c] > 0)
  BY <1>0, <1>1 DEF LocksInside, LocksExclude, OthersStay
<1>2. CASE lock' = [lock EXCEPT ![c] = Unlocked]
  <2>1. \A s \in SNs : lock'[c][s] = "none"
    BY <1>2 DEF TypeOK, Unlocked
  <2> QED
    BY <1>0, <2>1 DEF LocksInside, LocksExclude, OthersStay
<1>3. CASE Holds(c)
  <2>1. \A r \in SNs : lock'[c][r] # "none" =>
           /\ depth'[c] > 0
           /\ \A d \in Connections \ {c} : lock[d][r] = "none"
    BY <1>0, <1>3 DEF Holds, LocksInside, LocksExclude
  <2>2. \A d \in Connections \ {c}, r \in SNs :
           lock[d][r] # "none" => depth[d] > 0 /\ lock'[c][r] = "none"
    BY <1>0, <2>1 DEF LocksInside, TypeOK
  <2> QED
    BY <1>0, <2>1, <2>2 DEF LocksInside, LocksExclude, OthersStay
<1>4. CASE Request(c)
  BY <1>1, <1>4 DEF Request, Invoke, tables
<1>5. CASE Undo(c)
  BY <1>2, <1>5, UndoEffect
<1>6. CASE Execute(c)
  BY <1>1, <1>2, <1>3, <1>6, ExecuteEffect DEF Quiet, Lets, Sweeps
<1> QED
  BY <1>4, <1>5, <1>6 DEF StepOf

\* Where a statement of c leads, as far as locks and transactions go.
LEMMA MoverStep ==
    ASSUME LockInv, NEW c \in Connections, StepOf(c), TypeOK'
    PROVE  (Nested /\ MoverHolds)'
<1> USE DEF LockInv
<1> DEFINE s == call[c].sn
           MoverHoldsAt == /\ pc'[c] \in {"select", "insert", "delete", "commit"} => depth'[c] > 0
                           /\ pc'[c] \in {"select", "insert", "delete"}
                                => lock'[c][call'[c].sn] = "exclusive"
                           /\ pc'[c] = "sweep" /\ depth'[c] > 0 => lock'[c][call'[c].sn] # "none"
<1>0. /\ OthersStay(c) /\ s \in SNs
      /\ pc \in [Connections -> Statements] /\ depth \in [Connections -> Nat]
      /\ call \in [Connections -> Call] /\ lock \in [Connections -> [SNs -> {"none", "update", "exclusive"}]]
  BY StepOthersStay, CallTypes DEF TypeOK
<1> SUFFICES MoverHoldsAt
  BY <1>0 DEF OthersStay, Nested, InMove, MoverHolds
<1>1. CASE pc'[c] \notin {"select", "insert", "delete", "commit", "sweep"}
  BY <1>1
<1>2. CASE MoveCashItemLtoS(c) \/ MoveCashItemStoL(c)
  <2>1. depth' = [depth EXCEPT ![c] = @ + 1]
    BY <1>2 DEF MoveCashItemLtoS, MoveCashItemStoL, Move, Begin
  <2>2. depth'[c] > 0
    BY <1>0, <2>1
  <2>3. \/ pc'[c] = "idle"
        \/ /\ pc'[c] \in {"select", "delete"} /\ call' = call
           /\ \E new : Write(c, s, new)
    BY <1>0, <1>2 DEF MoveCashItemLtoS, MoveCashItemStoL, Move, Goto, End
  <2>4. ASSUME NEW new, Write(c, s, new) PROVE lock'[c][s] = "exclusive"
    BY <1>0, <2>2, <2>4 DEF Write
  <2> QED
    BY <2>2, <2>3, <2>4
<1>3. CASE SelectBundle(c)
  BY <1>0, <1>3 DEF SelectBundle, At, Goto, Nested, InMove, MoverHolds
<1>4. CASE InsertBundle(c) \/ DeleteBundle(c)
  BY <1>0, <1>4 DEF InsertBundle, DeleteBundle, SetBundles, At, Goto, Nested, InMove
<1>5. CASE Remove(c)
  <2>1. pc'[c] = "sweep" /\ call' = call /\ depth' = depth
    BY <1>0, <1>5 DEF Remove, Goto
  <2>2. (\E new : Write(c, s, new)) \/ Miss(c, s)
    BY <1>5 DEF Remove
  <2>3. ASSUME depth'[c] > 0, NEW new, Write(c, s, new) PROVE lock'[c][s] # "none"
    BY <1>0, <2>3 DEF Write
  <2>4. ASSUME depth'[c] > 0, Miss(c, s) PROVE lock'[c][s] # "none"
    BY <1>0, <2>4 DEF Miss
  <2> QED
    BY <2>1, <2>2, <2>3, <2>4
<1>6. CASE Undo(c)
  BY <1>1, <1>6, UndoEffect
<1>7. CASE Request(c)
  BY <1>0, <1>1, <1>7 DEF Request, Invoke, Goto
<1>8. CASE Commit(c) \/ Read(c) \/ Purge(c) \/ Reset(c) \/ Sweep(c)
  BY <1>0, <1>1, <1>8 DEF Commit, Read, Purge, Reset, Sweep, Return, End, Goto
<1>9. CASE Decrement(c) \/ SetPetLife(c)
  BY <1>0, <1>1, <1>9 DEF Decrement, SetPetLife, Goto
<1>10. CASE Look(c)
  BY <1>0, <1>1, <1>10 DEF Look, Return, End, Goto
<1> QED
  BY <1>2, <1>3, <1>4, <1>5, <1>6, <1>7, <1>8, <1>9, <1>10 DEF StepOf, Execute

LEMMA LockInvStep == LockInv /\ [Next]_vars => LockInv'
<1> SUFFICES ASSUME LockInv, [Next]_vars PROVE LockInv'
  OBVIOUS
<1>1. ASSUME NEW c \in Connections, StepOf(c) PROVE LockInv'
  <2>1. TypeOK'
    BY <1>1, RequestTypes, ExecuteTypes, UndoTypes DEF StepOf, LockInv
  <2> QED
    BY <1>1, <2>1, LocksStep, MoverStep DEF LockInv, TypeOK
<1>2. CASE UNCHANGED vars
  BY <1>2 DEF vars, tables, history, LockInv, TypeOK, Nested, InMove, LocksInside, LocksExclude, MoverHolds
<1> QED
  BY <1>1, <1>2, NextIsStepOf

LEMMA LockInvInit == Init => LockInv
<1> SUFFICES ASSUME Init PROVE LockInv
  OBVIOUS
<1>1. NoCall \in Call /\ NoRow \in Row
  BY NoCallType
<1>2. row \in [SNs -> Row]
  BY NumberAssumption DEF Init, Row
<1>3. /\ lock \in [Connections -> [SNs -> {"none", "update", "exclusive"}]]
      /\ image \in [Connections -> [SNs -> Row]]
  BY <1>1 DEF Init, Unlocked, Unwritten
<1>4. pc \in [Connections -> Statements] /\ call \in [Connections -> Call]
  BY <1>1 DEF Init, Statements
<1>5. TypeOK
  BY <1>2, <1>3, <1>4 DEF Init, TypeOK
<1>6. \A c \in Connections : pc[c] = "idle" /\ \A s \in SNs : lock[c][s] = "none"
  BY DEF Init, Unlocked
<1> QED
  BY <1>5, <1>6 DEF LockInv, Nested, InMove, LocksInside, LocksExclude, MoverHolds

\* The locks of SQL Server do what the procedures trust them to do, whatever leaks, deadlocks and
\* connections that break come between: all types hold, and two connections never
\* hold locks on one row.
THEOREM LockInvariant == Spec => []LockInv
  BY LockInvInit, LockInvStep, PTL DEF Spec

THEOREM TypeCorrect == Spec => []TypeOK
<1>1. LockInv => TypeOK
  BY DEF LockInv
<1> QED
  BY <1>1, LockInvariant, PTL

-----------------------------------------------------------------------------
(* Transactions: AnsweredWorkLasts *)

\* A connection on which no move leaked is in a transaction only in the middle of a move, and
\* answers nothing from within.
SettledInv ==
    \A c \in Connections :
        c \notin leaks => depth[c] = (IF InMove(c) THEN 1 ELSE 0) /\ unsettled[c] = 0

LEMMA SettledStep ==
    ASSUME LockInv, SettledInv, NEW c \in Connections, StepOf(c)
    PROVE  SettledInv'
<1> DEFINE SettledAt == c \notin leaks' =>
               /\ depth'[c] = (IF pc'[c] \in {"select", "insert", "delete", "commit"} THEN 1 ELSE 0)
               /\ unsettled'[c] = 0
<1>0. /\ OthersStay(c) /\ c \in Connections
      /\ pc \in [Connections -> Statements] /\ depth \in [Connections -> Nat]
      /\ unsettled \in [Connections -> Nat]
  BY StepOthersStay DEF LockInv, TypeOK
<1>1. leaks' \in {leaks, leaks \cup {c}, leaks \ {c}}
  <2>1. CASE Request(c)
    BY <2>1 DEF Request, Invoke, history
  <2>2. CASE Undo(c)
    BY <2>2 DEF Undo
  <2>3. CASE Execute(c)
    BY <2>3 DEF Execute, MoveCashItemLtoS, MoveCashItemStoL, Move, SelectBundle, InsertBundle,
                DeleteBundle, SetBundles, Commit, Decrement, Read, Purge, UseFrame, SetPetLife,
                Look, Reset, Remove, Sweep, history
  <2> QED
    BY <2>1, <2>2, <2>3 DEF StepOf
<1> SUFFICES SettledAt
  BY <1>0, <1>1 DEF OthersStay, SettledInv, InMove
<1>2. c \notin leaks => /\ depth[c] = (IF pc[c] \in {"select", "insert", "delete", "commit"} THEN 1 ELSE 0)
                        /\ unsettled[c] = 0
  BY <1>0 DEF SettledInv, InMove
<1>3. CASE MoveCashItemLtoS(c) \/ MoveCashItemStoL(c)
  <2>1. /\ depth' = [depth EXCEPT ![c] = @ + 1] /\ unsettled' = unsettled
        /\ pc[c] \notin {"select", "insert", "delete", "commit"}
        /\ c \in leaks' \/ (pc'[c] \in {"select", "delete"} /\ leaks' = leaks)
    BY <1>0, <1>3 DEF MoveCashItemLtoS, MoveCashItemStoL, At, Move, Begin, Goto
  <2> QED
    BY <1>0, <1>2, <2>1
<1>4. CASE SelectBundle(c) \/ InsertBundle(c) \/ DeleteBundle(c)
  BY <1>0, <1>2, <1>4 DEF SelectBundle, InsertBundle, DeleteBundle, SetBundles, At, Goto, history
<1>5. CASE Commit(c)
  <2>1. /\ depth' = [depth EXCEPT ![c] = @ - 1] /\ pc[c] = "commit" /\ pc'[c] = "idle"
        /\ leaks' = leaks /\ unsettled' = IF depth'[c] > 0 THEN [unsettled EXCEPT ![c] = @ + 1] ELSE unsettled
    BY <1>0, <1>5 DEF Commit, At, Return, End, Goto
  <2> QED
    BY <1>0, <1>2, <2>1
<1>6. CASE Read(c) \/ Purge(c) \/ Look(c) \/ Reset(c) \/ Sweep(c)
  <2>1. /\ pc[c] \in {"read", "purge", "look", "reset", "sweep"}
        /\ pc'[c] \in {"idle", "purge", "reset", "remove"}
        /\ leaks' = leaks /\ depth' = depth
        /\ unsettled' = unsettled \/ (unsettled' = IF depth'[c] > 0 THEN [unsettled EXCEPT ![c] = @ + 1] ELSE unsettled)
    BY <1>0, <1>6 DEF Read, Purge, Look, Reset, Sweep, SetBundles, UseFrame, At, Return, End, Goto
  <2> QED
    BY <1>0, <1>2, <2>1
<1>7. CASE Decrement(c) \/ SetPetLife(c) \/ Remove(c)
  BY <1>0, <1>2, <1>7 DEF Decrement, SetPetLife, Remove, UseFrame, At, Goto
<1>8. CASE Request(c)
  BY <1>0, <1>2, <1>8 DEF Request, Invoke, Goto, tables, history
<1>9. CASE Undo(c)
  BY <1>0, <1>9 DEF Undo, End, Goto
<1> QED
  BY <1>3, <1>4, <1>5, <1>6, <1>7, <1>8, <1>9 DEF StepOf, Execute

\* MoveCashItemLtoS and MoveCashItemStoL (7-GameWorld.sql:3342, 3383): with any number of
\* connections, an answer of 0 that can still be undone is one given on a connection on which
\* a move returned 1 before.
THEOREM AnsweredWorkLastsAlways == Spec => []AnsweredWorkLasts
<1>1. Init => SettledInv
  BY DEF Init, SettledInv, InMove
<1>2. LockInv /\ SettledInv /\ [Next]_vars => SettledInv'
  BY NextIsStepOf, SettledStep DEF vars, tables, history, SettledInv, InMove
<1>3. LockInv /\ SettledInv => AnsweredWorkLasts
  BY DEF LockInv, TypeOK, SettledInv, AnsweredWorkLasts
<1> QED
  BY <1>1, <1>2, <1>3, LockInvariant, PTL DEF Spec

-----------------------------------------------------------------------------
(* Bundles: BundlesBounded *)

Cap(s) == IF Kind[s] = "bundle" THEN 1 ELSE 0

\* No row, and nothing an undo restores, has more bundles than it may; and who is about to
\* insert one still sees none.
BundleInv ==
    /\ \A s \in SNs : row[s].bundles <= Cap(s)
    /\ \A c \in Connections, s \in SNs : image[c][s].bundles <= Cap(s)
    /\ \A c \in Connections :
          pc[c] = "insert" => Kind[call[c].sn] = "bundle" /\ row[call[c].sn].bundles = 0

\* The statement that changes a row, and how: of all columns only the bundles and the date
\* matter here.
LEMMA RowEffect ==
    ASSUME TypeOK, NEW c \in Connections, Execute(c), NEW r \in SNs
    PROVE  LET s == call[c].sn
               Same == row'[r].bundles = row[r].bundles
               Kept == row'[r].expired <=> row[r].expired
           IN  \/ Same /\ Kept
               \/ row'[r].bundles = 0 /\ Kept
               \/ InsertBundle(c) /\ r = s /\ row'[r].bundles = row[r].bundles + 1 /\ Kept
               \/ SetPetLife(c) /\ r = call[c].pet /\ Same /\ ~row'[r].expired
               \/ Reset(c) /\ r = s /\ Same /\ ~row'[r].expired
<1> DEFINE s == call[c].sn
           p == call[c].pet
<1>0. row \in [SNs -> Row] /\ s \in SNs /\ p \in SNs
  BY CallTypes DEF TypeOK
<1>1. row[s] \in Row /\ row[p] \in Row
  BY <1>0
<1>a. ASSUME NEW t \in SNs, NEW new, Write(c, t, new)
      PROVE  row'[r] = row[r] \/ (r = t /\ row'[r] = new)
  BY <1>0, <1>a DEF Write
<1>b. ASSUME NEW t \in SNs, Miss(c, t)
      PROVE  row'[r] = row[r]
  BY <1>b DEF Miss
<1>2. CASE MoveCashItemLtoS(c)
  <2> DEFINE new == [row[s] EXCEPT !.char = call[c].char]
  <2>1. Write(c, s, new) \/ Miss(c, s)
    BY <1>2 DEF MoveCashItemLtoS, Move
  <2>2. new.bundles = row[s].bundles /\ (new.expired <=> row[s].expired)
    BY <1>1 DEF Row
  <2> HIDE DEF new
  <2>3. row'[r] = row[r] \/ (r = s /\ row'[r] = new)
    BY <1>0, <1>a, <1>b, <2>1
  <2> QED
    BY <1>2, <2>2, <2>3
<1>3. CASE MoveCashItemStoL(c)
  <2> DEFINE new == [row[s] EXCEPT !.char = 0]
  <2>1. Write(c, s, new) \/ Miss(c, s)
    BY <1>3 DEF MoveCashItemStoL, Move
  <2>2. new.bundles = row[s].bundles /\ (new.expired <=> row[s].expired)
    BY <1>1 DEF Row
  <2> HIDE DEF new
  <2>3. row'[r] = row[r] \/ (r = s /\ row'[r] = new)
    BY <1>0, <1>a, <1>b, <2>1
  <2> QED
    BY <1>3, <2>2, <2>3
<1>4. CASE Decrement(c)
  <2> DEFINE new == [row[s] EXCEPT !.number = @ - 1]
  <2>1. Write(c, s, new) \/ Miss(c, s)
    BY <1>4 DEF Decrement
  <2>2. new.bundles = row[s].bundles /\ (new.expired <=> row[s].expired)
    BY <1>1 DEF Row
  <2> HIDE DEF new
  <2>3. row'[r] = row[r] \/ (r = s /\ row'[r] = new)
    BY <1>0, <1>a, <1>b, <2>1
  <2> QED
    BY <1>4, <2>2, <2>3
<1>5. CASE Purge(c) \/ Remove(c)
  <2> DEFINE new == [row[s] EXCEPT !.here = FALSE]
  <2>1. Write(c, s, new) \/ Miss(c, s)
    BY <1>5 DEF Purge, Remove
  <2>2. new.bundles = row[s].bundles /\ (new.expired <=> row[s].expired)
    BY <1>1 DEF Row
  <2> HIDE DEF new
  <2>3. row'[r] = row[r] \/ (r = s /\ row'[r] = new)
    BY <1>0, <1>a, <1>b, <2>1
  <2> QED
    BY <1>5, <2>2, <2>3
<1>6. CASE InsertBundle(c)
  <2> DEFINE new == [row[s] EXCEPT !.bundles = row[s].bundles + 1]
  <2>1. Write(c, s, new)
    BY <1>6 DEF InsertBundle, SetBundles
  <2>2. new.bundles = row[s].bundles + 1 /\ (new.expired <=> row[s].expired)
    BY <1>1 DEF Row
  <2> HIDE DEF new
  <2>3. row'[r] = row[r] \/ (r = s /\ row'[r] = new)
    BY <1>0, <1>a, <2>1
  <2> QED
    BY <1>6, <2>2, <2>3
<1>7. CASE DeleteBundle(c) \/ Sweep(c)
  <2> DEFINE new == [row[s] EXCEPT !.bundles = 0]
  <2>1. Write(c, s, new)
    BY <1>7 DEF DeleteBundle, Sweep, SetBundles
  <2>2. new.bundles = 0 /\ (new.expired <=> row[s].expired)
    BY <1>1 DEF Row
  <2> HIDE DEF new
  <2>3. row'[r] = row[r] \/ (r = s /\ row'[r] = new)
    BY <1>0, <1>a, <2>1
  <2> QED
    BY <1>7, <2>2, <2>3
<1>8. CASE SetPetLife(c)
  <2> DEFINE new == [row[p] EXCEPT !.expired = FALSE]
  <2>1. Write(c, p, new) \/ Miss(c, p)
    BY <1>8 DEF SetPetLife
  <2>2. new.bundles = row[p].bundles /\ ~new.expired
    BY <1>1 DEF Row
  <2> HIDE DEF new
  <2>3. row'[r] = row[r] \/ (r = p /\ row'[r] = new)
    BY <1>0, <1>a, <1>b, <2>1
  <2> QED
    BY <1>8, <2>2, <2>3
<1>9. CASE Reset(c)
  <2> DEFINE new == [row[s] EXCEPT !.char = 0, !.expired = FALSE]
  <2>1. Write(c, s, new) \/ Miss(c, s)
    BY <1>9 DEF Reset
  <2>2. new.bundles = row[s].bundles /\ ~new.expired
    BY <1>1 DEF Row
  <2> HIDE DEF new
  <2>3. row'[r] = row[r] \/ (r = s /\ row'[r] = new)
    BY <1>0, <1>a, <1>b, <2>1
  <2> QED
    BY <1>9, <2>2, <2>3
<1>10. CASE SelectBundle(c) \/ Commit(c) \/ Read(c) \/ Look(c)
  BY <1>10 DEF SelectBundle, Commit, Read, Look, tables
<1> QED
  BY <1>2, <1>3, <1>4, <1>5, <1>6, <1>7, <1>8, <1>9, <1>10 DEF Execute

\* Only three statements change the number of bundles.
LEMMA BundleEffect ==
    ASSUME TypeOK, NEW c \in Connections, Execute(c), NEW r \in SNs
    PROVE  \/ row'[r].bundles = row[r].bundles
           \/ row'[r].bundles = 0
           \/ InsertBundle(c) /\ r = call[c].sn /\ row'[r].bundles = row[r].bundles + 1
  BY RowEffect

\* What c may restore later is what it could restore before, or a row of now.
LEMMA ImageEffect ==
    ASSUME LockInv, NEW c \in Connections, Execute(c), NEW r \in SNs
    PROVE  image'[c][r] \in {image[c][r], row[r], NoRow}
<1>0. Target(c) \in SNs
  BY CallTypes DEF LockInv
<1>1. CASE Quiet(c) \/ Sweeps(c)
  BY <1>1 DEF Quiet, Sweeps
<1>2. CASE Holds(c)
  BY <1>0, <1>2 DEF Holds
<1>3. CASE Lets(c)
  <2>1. CASE Commit(c)
    BY <2>1 DEF Commit, Release, Unwritten, LockInv, TypeOK
  <2>2. ASSUME NEW s \in SNs, NEW new, Write(c, s, new) PROVE image'[c][r] \in {image[c][r], row[r]}
    BY <2>2 DEF Write, LockInv, TypeOK
  <2>3. CASE ~Commit(c)
    BY <1>0, <2>2, <2>3, CallTypes
       DEF Execute, LockInv, MoveCashItemLtoS, MoveCashItemStoL, Move, SelectBundle, InsertBundle, DeleteBundle,
           SetBundles, Decrement, Read, Purge, SetPetLife, Look, Reset, Remove, Sweep, Miss,
           tables
  <2> QED
    BY <2>1, <2>3
<1> QED
  BY <1>1, <1>2, <1>3, ExecuteEffect

LEMMA BundleStep ==
    ASSUME LockInv, BundleInv, NEW c \in Connections, StepOf(c), TypeOK'
    PROVE  BundleInv'
<1>0. /\ OthersStay(c) /\ TypeOK /\ NoRow.bundles = 0
      /\ \A s \in SNs : Cap(s) \in {0, 1} /\ row[s].bundles \in Nat
      /\ \A d \in Connections : call[d].sn \in SNs
  BY StepOthersStay, CallTypes DEF LockInv, NoRow, Cap, TypeOK, Row
<1>1. CASE Request(c)
  <2>1. /\ UNCHANGED <<row, image>>
        /\ pc'[c] # "insert"
    BY <1>0, <1>1 DEF Request, Invoke, tables, Goto, TypeOK
  <2> QED
    BY <1>0, <2>1 DEF BundleInv, OthersStay
<1>2. CASE Undo(c)
  <2>1. \A s \in SNs : row'[s] = IF lock[c][s] = "exclusive" THEN image[c][s] ELSE row[s]
    BY <1>0, <1>2, UndoEffect
  <2>2. \A s \in SNs : row'[s].bundles <= Cap(s)
    BY <2>1 DEF BundleInv
  <2>3. \A d \in Connections, s \in SNs : image'[d][s].bundles <= Cap(s)
    <3>1. \A s \in SNs : image'[c][s] = NoRow
      BY <1>0, <1>2 DEF Undo, Release, Unwritten, TypeOK
    <3>2. \A s \in SNs : image'[c][s].bundles <= Cap(s)
      BY <1>0, <3>1
    <3> QED
      BY <1>0, <3>2 DEF BundleInv, OthersStay
  <2>4. ASSUME NEW d \in Connections \ {c}, pc[d] = "insert"
        PROVE  row'[call[d].sn] = row[call[d].sn]
    BY <1>0, <2>1, <2>4 DEF LockInv, LocksExclude, MoverHolds
  <2>5. pc'[c] # "insert"
    BY <1>0, <1>2, UndoEffect
  <2> QED
    BY <1>0, <2>2, <2>3, <2>4, <2>5 DEF BundleInv, OthersStay
<1>3. CASE Execute(c)
  <2>1. \A s \in SNs : row'[s].bundles <= Cap(s)
    <3> SUFFICES ASSUME NEW s \in SNs PROVE row'[s].bundles <= Cap(s)
      OBVIOUS
    <3>1. CASE InsertBundle(c) /\ s = call[c].sn /\ row'[s].bundles = row[s].bundles + 1
      BY <1>0, <3>1 DEF InsertBundle, At, BundleInv, Cap
    <3> QED
      BY <1>0, <1>3, <3>1, BundleEffect DEF BundleInv
  <2>2. \A s \in SNs : image'[c][s].bundles <= Cap(s)
    BY <1>0, <1>3, ImageEffect DEF BundleInv
  <2>3. ASSUME NEW d \in Connections \ {c}, pc[d] = "insert"
        PROVE  row'[call[d].sn].bundles = 0
    <3>1. row[call[d].sn].bundles = 0 /\ lock[d][call[d].sn] = "exclusive"
      BY <2>3 DEF BundleInv, LockInv, MoverHolds
    <3>2. ~(InsertBundle(c) /\ call[d].sn = call[c].sn)
      BY <1>0, <3>1 DEF InsertBundle, At, LockInv, MoverHolds, LocksExclude
    <3> QED
      BY <1>0, <1>3, <3>1, <3>2, BundleEffect
  <2>4. ASSUME pc'[c] = "insert"
        PROVE  Kind[call'[c].sn] = "bundle" /\ row'[call'[c].sn].bundles = 0
    <3>1. CASE SelectBundle(c)
      BY <1>0, <2>4, <3>1 DEF SelectBundle, Goto, NeedsBundle, TypeOK
    <3>2. CASE ~SelectBundle(c)
      BY <1>0, <1>3, <2>4, <3>2
         DEF Execute, MoveCashItemLtoS, MoveCashItemStoL, Move, InsertBundle, DeleteBundle, Commit,
             Decrement, Read, Purge, SetPetLife, Look, Reset, Remove, Sweep, Return, End, Goto, TypeOK
    <3> QED
      BY <3>1, <3>2
  <2> QED
    BY <1>0, <2>1, <2>2, <2>3, <2>4 DEF BundleInv, OthersStay
<1> QED
  BY <1>1, <1>2, <1>3 DEF StepOf

\* MoveCashItemLtoS inserts a bundle after it counted none (7-GameWorld.sql:3347-3352): the
\* row that every move holds keeps two of them from inserting one each.
THEOREM BundlesAlwaysBounded == Spec => []BundlesBounded
<1>1. Init => BundleInv
  BY DEF Init, BundleInv, Cap, Unwritten, NoRow
<1>2. LockInv /\ LockInv' /\ BundleInv /\ [Next]_vars => BundleInv'
  BY NextIsStepOf, BundleStep DEF vars, tables, BundleInv, LockInv
<1>3. BundleInv => BundlesBounded
  BY DEF BundleInv, BundlesBounded, Cap
<1> QED
  BY <1>1, <1>2, <1>3, LockInvariant, PTL DEF Spec

-----------------------------------------------------------------------------
(* Dates: ExpiryTakesOnlyExpired *)

\* No undo brings a date back that has passed, unless it still has; and the date of a pet that
\* is about to be reset has passed, or was overtaken.
DateInv ==
    /\ \A c \in Connections, s \in SNs :
          lock[c][s] = "exclusive" /\ row[s].expired => image[c][s].expired
    /\ \A c \in Connections :
          pc[c] = "reset" => /\ Kind[call[c].sn] = "pet"
                             /\ row[call[c].sn].expired \/ c \in overtaken

\* A statement of c gives no item a date that has passed, and tells the lookups it overtakes.
LEMMA DateEffect ==
    ASSUME TypeOK, NEW c \in Connections, Execute(c), NEW r \in SNs
    PROVE  /\ row'[r].expired => row[r].expired
           /\ \A d \in Connections \ {c} :
                 /\ d \in overtaken => d \in overtaken'
                 /\ pc[d] = "reset" /\ call[d].sn = r /\ row[r].expired =>
                       row'[r].expired \/ d \in overtaken'
<1>2. \/ row'[r].expired <=> row[r].expired
      \/ SetPetLife(c) /\ r = call[c].pet /\ ~row'[r].expired
      \/ Reset(c) /\ r = call[c].sn /\ ~row'[r].expired
  BY RowEffect
<1>3. CASE SetPetLife(c)
  <2>1. \A d \in Connections \ {c} :
           d \in overtaken \/ (pc[d] = "reset" /\ call[d].sn = call[c].pet) => d \in overtaken'
    BY <1>3 DEF SetPetLife, Overtake
  <2>2. ~Reset(c)
    BY <1>3 DEF SetPetLife, Reset, At
  <2> QED
    BY <1>2, <2>1, <2>2
<1>4. CASE Reset(c)
  <2>1. \A d \in Connections \ {c} :
           d \in overtaken \/ (pc[d] = "reset" /\ call[d].sn = call[c].sn) => d \in overtaken'
    BY <1>4 DEF Reset, Overtake
  <2>2. ~SetPetLife(c)
    BY <1>4 DEF SetPetLife, Reset, At
  <2> QED
    BY <1>2, <2>1, <2>2
<1>5. CASE ~SetPetLife(c) /\ ~Reset(c)
  <2>1. overtaken' = overtaken
    BY <1>5 DEF Execute, MoveCashItemLtoS, MoveCashItemStoL, Move, SelectBundle, InsertBundle,
                DeleteBundle, SetBundles, Commit, Decrement, Read, Purge, UseFrame, Look, Remove,
                Sweep, history
  <2> QED
    BY <1>2, <1>5, <2>1
<1> QED
  BY <1>3, <1>4, <1>5

LEMMA DateStep ==
    ASSUME LockInv, DateInv, NEW c \in Connections, StepOf(c)
    PROVE  DateInv'
<1>0. /\ OthersStay(c) /\ TypeOK /\ Target(c) \in SNs
      /\ \A d \in Connections : call[d].sn \in SNs
  BY StepOthersStay, CallTypes DEF LockInv
<1>1. CASE Request(c)
  <2>1. /\ UNCHANGED <<row, lock, image, overtaken>>
        /\ pc'[c] # "reset"
    BY <1>0, <1>1 DEF Request, Invoke, tables, history, Goto, TypeOK
  <2> QED
    BY <1>0, <2>1 DEF DateInv, OthersStay
<1>2. CASE Undo(c)
  <2>1. /\ \A s \in SNs : row'[s] = IF lock[c][s] = "exclusive" THEN image[c][s] ELSE row[s]
        /\ lock' = [lock EXCEPT ![c] = Unlocked] /\ pc'[c] = "idle" /\ overtaken' = overtaken \ {c}
    BY <1>0, <1>2, UndoEffect DEF Undo
  <2>2. ASSUME NEW d \in Connections \ {c}, NEW s \in SNs, lock[d][s] = "exclusive"
        PROVE  row'[s] = row[s]
    BY <2>1, <2>2 DEF LockInv, LocksExclude
  <2>3. \A s \in SNs : lock'[c][s] = "none"
    BY <1>0, <2>1 DEF Unlocked, TypeOK
  <2>4. \A s \in SNs : row[s].expired => row'[s].expired
    BY <2>1 DEF DateInv
  <2> QED
    BY <1>0, <2>1, <2>2, <2>3, <2>4 DEF DateInv, OthersStay
<1>3. CASE Execute(c)
  <2>1. ASSUME NEW s \in SNs, lock'[c][s] = "exclusive", row'[s].expired
        PROVE  image'[c][s].expired
    <3>1. row[s].expired
      BY <1>0, <1>3, <2>1, DateEffect
    <3>2. CASE Quiet(c) \/ Sweeps(c)
      BY <2>1, <3>1, <3>2 DEF Quiet, Sweeps, DateInv
    <3>3. CASE Lets(c)
      BY <1>0, <2>1, <3>3 DEF Lets, Unlocked, TypeOK
    <3>4. CASE Holds(c)
      BY <1>0, <2>1, <3>1, <3>4 DEF Holds, DateInv
    <3> QED
      BY <1>3, <3>2, <3>3, <3>4, ExecuteEffect
  <2>2. ASSUME NEW d \in Connections \ {c}, NEW s \in SNs, lock'[d][s] = "exclusive", row'[s].expired
        PROVE  image'[d][s].expired
    BY <1>0, <1>3, <2>2, DateEffect DEF OthersStay, DateInv
  <2>3. ASSUME NEW d \in Connections \ {c}, pc'[d] = "reset"
        PROVE  /\ Kind[call'[d].sn] = "pet"
               /\ row'[call'[d].sn].expired \/ d \in overtaken'
    BY <1>0, <1>3, <2>3, DateEffect DEF OthersStay, DateInv
  <2>4. ASSUME pc'[c] = "reset"
        PROVE  Kind[call'[c].sn] = "pet" /\ row'[call'[c].sn].expired
    <3>1. CASE Look(c)
      BY <1>0, <2>4, <3>1 DEF Look, Expired, Return, End, Goto, tables, TypeOK
    <3>2. CASE ~Look(c)
      BY <1>0, <1>3, <2>4, <3>2
         DEF Execute, MoveCashItemLtoS, MoveCashItemStoL, Move, SelectBundle, InsertBundle, DeleteBundle,
             Commit, Decrement, Read, Purge, SetPetLife, Reset, Remove, Sweep, Return, End, Goto,
             TypeOK
    <3> QED
      BY <3>1, <3>2
  <2> QED
    BY <2>1, <2>2, <2>3, <2>4 DEF DateInv
<1> QED
  BY <1>1, <1>2, <1>3 DEF StepOf

\* ExpireCashItem branches on what it looked up and then writes by SN alone (7-GameWorld.sql:2381-2399): it
\* still takes only what has expired, but for the pets whose lookup was overtaken.
THEOREM OnlyExpiredIsTaken == Spec => ExpiryTakesOnlyExpired
<1> DEFINE Takes(c) ==
      LET s == call[c].sn
      IN  /\ pc[c] \in {"reset", "remove"} /\ pc'[c] # pc[c] /\ depth' = depth
          /\ row'[s] # row[s]
          => row[s].expired \/ (Kind[s] = "pet" /\ c \in overtaken)
<1>1. Init => DateInv
  BY DEF Init, DateInv, Unlocked
<1>2. LockInv /\ DateInv /\ [Next]_vars => DateInv'
  BY NextIsStepOf, DateStep DEF vars, tables, history, DateInv
<1>3. ASSUME LockInv, DateInv, NEW d \in Connections, StepOf(d), NEW c \in Connections
      PROVE  Takes(c)
  <2>0. TypeOK /\ call[c].sn \in SNs /\ OthersStay(d)
    BY <1>3, CallTypes, StepOthersStay DEF LockInv
  <2>1. CASE d # c
    BY <2>0, <2>1 DEF OthersStay
  <2>2. CASE d = c /\ Request(c)
    BY <2>2 DEF Request, Invoke
  <2>3. CASE d = c /\ Undo(c)
    <3>1. depth' = depth => depth[c] = 0
      BY <2>0, <2>3, UndoEffect
    <3>2. depth[c] = 0 => lock[c][call[c].sn] # "exclusive"
      BY <1>3, <2>0 DEF LockInv, LocksInside, TypeOK
    <3> QED
      BY <2>0, <2>3, <3>1, <3>2, UndoEffect
  <2>4. CASE d = c /\ Execute(c) /\ pc[c] = "reset"
    BY <1>3, <2>4 DEF DateInv
  <2>5. CASE d = c /\ Execute(c) /\ pc[c] = "remove"
    <3>1. Remove(c)
      BY <2>5 DEF Execute, MoveCashItemLtoS, MoveCashItemStoL, SelectBundle, InsertBundle,
                  DeleteBundle, Commit, Decrement, Read, Purge, SetPetLife, Look, Reset, Sweep, At
    <3> QED
      BY <2>0, <3>1 DEF Remove, Miss
  <2> QED
    BY <1>3, <2>1, <2>2, <2>3, <2>4, <2>5 DEF StepOf
<1>4. LockInv /\ DateInv /\ [Next]_vars => [\A c \in Connections : Takes(c)]_vars
  BY <1>3, NextIsStepOf
<1> QED
  BY <1>1, <1>2, <1>4, LockInvariant, PTL DEF Spec, ExpiryTakesOnlyExpired

-----------------------------------------------------------------------------
(* What goes together: ItemsConsistent *)

\* The row of s if the transaction of d were undone now.
Restored(d, s) == IF lock[d][s] = "exclusive" THEN image[d][s] ELSE row[s]

\* What a statement of c does to the columns of a row, but for its date.
Columns(r, here, char, number, bundles) ==
    /\ row'[r].here <=> here
    /\ row'[r].char = char
    /\ row'[r].number = number
    /\ row'[r].bundles = bundles

LEMMA ColumnEffect ==
    ASSUME TypeOK, NEW c \in Connections, Execute(c), NEW r \in SNs
    PROVE  LET s == call[c].sn
               old == row[r]
           IN  \/ row'[r] = old
               \/ MoveCashItemLtoS(c) /\ r = s /\ Columns(r, old.here, call[c].char, old.number, old.bundles)
               \/ MoveCashItemStoL(c) /\ r = s /\ Columns(r, old.here, 0, old.number, old.bundles)
               \/ Decrement(c) /\ r = s /\ Usable(c, s)
                  /\ Columns(r, old.here, old.char, old.number - 1, old.bundles)
               \/ (Purge(c) \/ Remove(c)) /\ r = s /\ ~row'[r].here
               \/ InsertBundle(c) /\ r = s /\ Columns(r, old.here, old.char, old.number, old.bundles + 1)
               \/ (DeleteBundle(c) \/ Sweep(c)) /\ r = s /\ Columns(r, old.here, old.char, old.number, 0)
               \/ SetPetLife(c) /\ r = call[c].pet /\ Columns(r, old.here, old.char, old.number, old.bundles)
               \/ Reset(c) /\ r = s /\ Columns(r, old.here, 0, old.number, old.bundles)
<1> DEFINE s == call[c].sn
           p == call[c].pet
<1>0. row \in [SNs -> Row] /\ s \in SNs /\ p \in SNs
  BY CallTypes DEF TypeOK
<1>1. row[s] \in Row /\ row[p] \in Row
  BY <1>0
<1>a. ASSUME NEW t \in SNs, NEW new, Write(c, t, new)
      PROVE  row'[r] = row[r] \/ (r = t /\ row'[r] = new)
  BY <1>0, <1>a DEF Write
<1>b. ASSUME NEW t \in SNs, Miss(c, t)
      PROVE  row'[r] = row[r]
  BY <1>b DEF Miss
<1>2. CASE MoveCashItemLtoS(c)
  <2> DEFINE new == [row[s] EXCEPT !.char = call[c].char]
  <2>1. Write(c, s, new) \/ Miss(c, s)
    BY <1>2 DEF MoveCashItemLtoS, Move
  <2>2. /\ new.here = row[s].here /\ new.char = call[c].char
        /\ new.number = row[s].number /\ new.bundles = row[s].bundles
    BY <1>1 DEF Row
  <2> HIDE DEF new
  <2>3. row'[r] = row[r] \/ (r = s /\ row'[r] = new)
    BY <1>0, <1>a, <1>b, <2>1
  <2> QED
    BY <1>2, <2>2, <2>3 DEF Columns
<1>3. CASE MoveCashItemStoL(c)
  <2> DEFINE new == [row[s] EXCEPT !.char = 0]
  <2>1. Write(c, s, new) \/ Miss(c, s)
    BY <1>3 DEF MoveCashItemStoL, Move
  <2>2. /\ new.here = row[s].here /\ new.char = 0
        /\ new.number = row[s].number /\ new.bundles = row[s].bundles
    BY <1>1 DEF Row
  <2> HIDE DEF new
  <2>3. row'[r] = row[r] \/ (r = s /\ row'[r] = new)
    BY <1>0, <1>a, <1>b, <2>1
  <2> QED
    BY <1>3, <2>2, <2>3 DEF Columns
<1>4. CASE Decrement(c)
  <2> DEFINE new == [row[s] EXCEPT !.number = @ - 1]
  <2>1. (Usable(c, s) /\ Write(c, s, new)) \/ Miss(c, s)
    BY <1>4 DEF Decrement
  <2>2. /\ new.here = row[s].here /\ new.char = row[s].char
        /\ new.number = row[s].number - 1 /\ new.bundles = row[s].bundles
    BY <1>1 DEF Row
  <2> HIDE DEF new
  <2>3. row'[r] = row[r] \/ (Usable(c, s) /\ r = s /\ row'[r] = new)
    BY <1>0, <1>a, <1>b, <2>1
  <2> QED
    BY <1>4, <2>2, <2>3 DEF Columns
<1>5. CASE Purge(c) \/ Remove(c)
  <2> DEFINE new == [row[s] EXCEPT !.here = FALSE]
  <2>1. Write(c, s, new) \/ Miss(c, s)
    BY <1>5 DEF Purge, Remove
  <2>2. ~new.here
    BY <1>1 DEF Row
  <2> HIDE DEF new
  <2>3. row'[r] = row[r] \/ (r = s /\ row'[r] = new)
    BY <1>0, <1>a, <1>b, <2>1
  <2> QED
    BY <1>5, <2>2, <2>3
<1>6. CASE InsertBundle(c)
  <2> DEFINE new == [row[s] EXCEPT !.bundles = row[s].bundles + 1]
  <2>1. Write(c, s, new)
    BY <1>6 DEF InsertBundle, SetBundles
  <2>2. /\ new.here = row[s].here /\ new.char = row[s].char
        /\ new.number = row[s].number /\ new.bundles = row[s].bundles + 1
    BY <1>1 DEF Row
  <2> HIDE DEF new
  <2>3. row'[r] = row[r] \/ (r = s /\ row'[r] = new)
    BY <1>0, <1>a, <2>1
  <2> QED
    BY <1>6, <2>2, <2>3 DEF Columns
<1>7. CASE DeleteBundle(c) \/ Sweep(c)
  <2> DEFINE new == [row[s] EXCEPT !.bundles = 0]
  <2>1. Write(c, s, new)
    BY <1>7 DEF DeleteBundle, Sweep, SetBundles
  <2>2. /\ new.here = row[s].here /\ new.char = row[s].char
        /\ new.number = row[s].number /\ new.bundles = 0
    BY <1>1 DEF Row
  <2> HIDE DEF new
  <2>3. row'[r] = row[r] \/ (r = s /\ row'[r] = new)
    BY <1>0, <1>a, <2>1
  <2> QED
    BY <1>7, <2>2, <2>3 DEF Columns
<1>8. CASE SetPetLife(c)
  <2> DEFINE new == [row[p] EXCEPT !.expired = FALSE]
  <2>1. Write(c, p, new) \/ Miss(c, p)
    BY <1>8 DEF SetPetLife
  <2>2. /\ new.here = row[p].here /\ new.char = row[p].char
        /\ new.number = row[p].number /\ new.bundles = row[p].bundles
    BY <1>1 DEF Row
  <2> HIDE DEF new
  <2>3. row'[r] = row[r] \/ (r = p /\ row'[r] = new)
    BY <1>0, <1>a, <1>b, <2>1
  <2> QED
    BY <1>8, <2>2, <2>3 DEF Columns
<1>9. CASE Reset(c)
  <2> DEFINE new == [row[s] EXCEPT !.char = 0, !.expired = FALSE]
  <2>1. Write(c, s, new) \/ Miss(c, s)
    BY <1>9 DEF Reset
  <2>2. /\ new.here = row[s].here /\ new.char = 0
        /\ new.number = row[s].number /\ new.bundles = row[s].bundles
    BY <1>1 DEF Row
  <2> HIDE DEF new
  <2>3. row'[r] = row[r] \/ (r = s /\ row'[r] = new)
    BY <1>0, <1>a, <1>b, <2>1
  <2> QED
    BY <1>9, <2>2, <2>3 DEF Columns
<1>10. CASE SelectBundle(c) \/ Commit(c) \/ Read(c) \/ Look(c)
  BY <1>10 DEF SelectBundle, Commit, Read, Look, tables
<1> QED
  BY <1>2, <1>3, <1>4, <1>5, <1>6, <1>7, <1>8, <1>9, <1>10 DEF Execute

\* A statement of c leaves what an undo restores, except that a sweep outside transactions
\* takes the bundles of an item somebody else has locked without writing it.
LEMMA RestoredEffect ==
    ASSUME LockInv, NEW c \in Connections, Execute(c), NEW d \in Connections, NEW s \in SNs,
           lock'[d][s] # "none"
    PROVE  /\ \/ Restored(d, s)' = Restored(d, s)
              \/ Sweeps(c) /\ s = call[c].sn /\ Restored(d, s) = row[s] /\ Restored(d, s)' = row'[s]
           /\ lock[d][s] = "none" =>
                 /\ d = c /\ s = Target(c) /\ depth'[c] > 0 /\ Restored(d, s)' = row[s]
                 /\ \A e \in Connections \ {c} : lock[e][s] = "none"
<1>1. OthersStay(c) /\ TypeOK /\ Target(c) \in SNs /\ call[c].sn \in SNs
  BY StepOthersStay, CallTypes DEF StepOf, LockInv
<1>2. CASE Quiet(c)
  BY <1>2 DEF Quiet, Restored
<1>3. CASE Lets(c)
  <2>1. d # c
    BY <1>1, <1>3 DEF Lets, Unlocked, TypeOK
  <2> QED  BY <1>1, <1>3, <2>1 DEF Lets, OthersStay, Restored
<1>4. CASE Sweeps(c)
  <2>1. lock' = lock /\ image' = image /\ \A r \in SNs : r # call[c].sn => row'[r] = row[r]
    BY <1>1, <1>4 DEF Sweeps, TypeOK
  <2> QED  BY <1>4, <2>1 DEF Restored
<1>5. CASE Holds(c)
  <2>1. CASE d # c
    <3>1. lock'[d] = lock[d] /\ image'[d] = image[d] /\ s # Target(c)
      BY <1>1, <1>5, <2>1 DEF OthersStay, Holds
    <3>2. row'[s] = row[s]
      BY <1>5, <3>1 DEF Holds
    <3> QED  BY <3>1, <3>2 DEF Restored
  <2>2. CASE d = c /\ s # Target(c)
    <3>1. row'[s] = row[s] /\ lock'[c][s] = lock[c][s] /\ image'[c][s] = image[c][s]
      BY <1>5, <2>2 DEF Holds
    <3> QED  BY <2>2, <3>1 DEF Restored
  <2>3. CASE d = c /\ s = Target(c)
    <3>1. \A e \in Connections \ {c} : lock[e][s] = "none"
      BY <1>5, <2>3 DEF Holds
    <3>2. CASE depth'[c] = 0 /\ lock'[c] = lock[c] /\ image'[c] = image[c]
      <4>1. depth[c] = 0
        BY <1>1, <1>5, <3>2 DEF Holds, TypeOK
      <4> QED  BY <2>3, <3>2, <4>1 DEF LockInv, LocksInside
    <3>3. CASE /\ depth'[c] > 0 /\ lock'[c][s] = "exclusive"
               /\ image'[c][s] = IF lock[c][s] = "exclusive" THEN image[c][s] ELSE row[s]
      BY <2>3, <3>1, <3>3 DEF Restored
    <3>4. CASE /\ depth'[c] > 0 /\ row'[s] = row[s] /\ image'[c][s] = image[c][s]
               /\ lock'[c][s] = IF lock[c][s] = "none" THEN "update" ELSE lock[c][s]
      BY <2>3, <3>1, <3>4 DEF Restored
    <3> QED  BY <1>5, <2>3, <3>2, <3>3, <3>4 DEF Holds
  <2> QED  BY <2>1, <2>2, <2>3
<1> QED  BY <1>2, <1>3, <1>4, <1>5, ExecuteEffect

\* What an undo leaves of the locks of the others and of what they restore.
LEMMA UndoRestores ==
    ASSUME LockInv, NEW c \in Connections, Undo(c)
    PROVE  /\ \A s \in SNs : row'[s] = Restored(c, s) /\ lock'[c][s] = "none"
           /\ \A d \in Connections, s \in SNs : lock'[d][s] # "none" =>
                 /\ d # c /\ lock[d][s] = lock'[d][s] /\ lock[c][s] = "none"
                 /\ row'[s] = row[s] /\ Restored(d, s)' = Restored(d, s)
<1>1. OthersStay(c) /\ TypeOK
  BY StepOthersStay DEF StepOf, LockInv
<1>2. /\ lock' = [lock EXCEPT ![c] = Unlocked]
      /\ \A s \in SNs : row'[s] = Restored(c, s)
  BY <1>1, UndoEffect DEF Restored
<1>3. \A s \in SNs : lock'[c][s] = "none"
  BY <1>1, <1>2 DEF Unlocked, TypeOK
<1>4. ASSUME NEW d \in Connections, NEW s \in SNs, lock'[d][s] # "none"
      PROVE  /\ d # c /\ lock[d][s] = lock'[d][s] /\ lock[c][s] = "none"
             /\ row'[s] = row[s] /\ Restored(d, s)' = Restored(d, s)
  <2>1. d # c
    BY <1>3, <1>4
  <2>2. lock[d][s] = lock'[d][s] /\ image[d][s] = image'[d][s]
    BY <1>1, <2>1 DEF OthersStay
  <2>3. lock[c][s] = "none"
    BY <1>4, <2>1, <2>2 DEF LockInv, LocksExclude
  <2> QED  BY <1>2, <2>1, <2>2, <2>3 DEF Restored
<1> QED  BY <1>2, <1>3, <1>4

LEMMA RequestKeeps ==
    ASSUME TypeOK, NEW c \in Connections, Request(c)
    PROVE  /\ UNCHANGED <<row, lock, image, depth, stranded>>
           /\ \A d \in Connections, s \in SNs : Restored(d, s)' = Restored(d, s)
           /\ pc[c] = "idle"
<1>1. UNCHANGED <<tables, depth, history>> /\ pc[c] = "idle"
  BY DEF Request, Invoke
<1> QED  BY <1>1 DEF tables, history, Restored

\* A row that is to be deleted, and who will do it: Purge finds the row of s as r.
Dead(r) == r.here /\ r.number <= 0

Cleans(c, s, r) ==
    /\ pc[c] \in {"read", "purge"} /\ call[c].sn = s
    /\ IF call[c].op = "change" THEN r.char = call[c].char ELSE r.number = 0

\* The row of s, or what d restores of it, is deleted by somebody if it is to be.
Cleaned(s) == \A r \in {row[s]} : Dead(r) => \E c \in Connections : Cleans(c, s, r)

Reserved(d, s) ==
    lock[d][s] # "none" =>
        \A r \in {Restored(d, s)} : Dead(r) => \E c \in Connections \ {d} : Cleans(c, s, r)

UsersHold ==
    \A c \in Connections :
        pc[c] \in {"read", "purge"} /\ depth[c] > 0 => lock[c][call[c].sn] # "none"

\* Whoever uses an item inside a transaction has its row locked.  Who brought a row to zero
\* deletes it, whether another connection's work on it is undone before or not.
UseInv ==
    /\ UsersHold
    /\ \A s \in SNs \ stranded : Cleaned(s)
    /\ \A d \in Connections, s \in SNs \ stranded : Reserved(d, s)

LEMMA OthersClean ==
    ASSUME NEW c \in Connections, OthersStay(c), NEW e \in Connections \ {c}, NEW s, NEW r, Cleans(e, s, r)
    PROVE  Cleans(e, s, r)'
  BY DEF OthersStay, Cleans

\* A statement that changes who has an item, or whose use is cut off, strands it.
LEMMA StrandEffect ==
    ASSUME TypeOK, NEW c \in Connections, Execute(c)
    PROVE  /\ stranded \subseteq stranded'
           /\ \A s \in SNs : /\ s = call[c].sn /\ InUse(s)
                             /\ \/ (MoveCashItemLtoS(c) \/ MoveCashItemStoL(c)) /\ row'[s] # row[s]
                                \/ Reset(c)
                            => s \in stranded'
<1>1. CASE MoveCashItemLtoS(c)
  BY <1>1 DEF MoveCashItemLtoS, Move, Miss, Reset, At
<1>2. CASE MoveCashItemStoL(c)
  BY <1>2 DEF MoveCashItemStoL, Move, Miss, Reset, At
<1>3. CASE Reset(c)
  BY <1>3 DEF Reset, MoveCashItemLtoS, MoveCashItemStoL, At
<1>4. CASE SelectBundle(c) \/ InsertBundle(c) \/ DeleteBundle(c) \/ Commit(c) \/ Decrement(c) \/ Read(c)
           \/ Purge(c) \/ SetPetLife(c) \/ Look(c) \/ Remove(c) \/ Sweep(c)
  BY <1>4 DEF SelectBundle, InsertBundle, DeleteBundle, SetBundles, Commit, Decrement, Read, Purge, UseFrame,
              SetPetLife, Look, Remove, Sweep, history, At, MoveCashItemLtoS, MoveCashItemStoL, Reset
<1> QED  BY <1>1, <1>2, <1>3, <1>4 DEF Execute

\* The way into and through the two statements behind the decrement.
LEMMA UseFlow ==
    ASSUME TypeOK, NEW c \in Connections, Execute(c)
    PROVE  /\ pc'[c] \in {"read", "purge"} =>
                 (Decrement(c) \/ Read(c)) /\ call' = call /\ depth' = depth
           /\ pc[c] \in {"read", "purge"} => Read(c) \/ Purge(c)
           /\ Read(c) /\ UsedUp(call[c].sn) => pc'[c] = "purge" /\ call' = call
<1>0. pc \in [Connections -> Statements]
  BY DEF TypeOK
<1>1. CASE MoveCashItemLtoS(c) \/ MoveCashItemStoL(c)
  BY <1>0, <1>1 DEF MoveCashItemLtoS, MoveCashItemStoL, Move, Goto, End, At, Read
<1>2. CASE SelectBundle(c) \/ InsertBundle(c) \/ DeleteBundle(c) \/ Commit(c)
  BY <1>0, <1>2 DEF SelectBundle, InsertBundle, DeleteBundle, Commit, Goto, Return, End, At, Read
<1>3. CASE Decrement(c)
  BY <1>0, <1>3 DEF Decrement, Goto, At, UseFrame, Read
<1>4. CASE Read(c)
  BY <1>0, <1>4 DEF Read, Goto, Return, End, At, UseFrame
<1>5. CASE Purge(c) \/ SetPetLife(c) \/ Look(c) \/ Reset(c) \/ Remove(c) \/ Sweep(c)
  BY <1>0, <1>5 DEF Purge, SetPetLife, Look, Reset, Remove, Sweep, Goto, Return, End, At, Read
<1> QED  BY <1>1, <1>2, <1>3, <1>4, <1>5 DEF Execute

LEMMA UseStep ==
    ASSUME LockInv, LockInv', UseInv, NEW c \in Connections, StepOf(c)
    PROVE  UseInv'
<1>0. /\ OthersStay(c) /\ TypeOK /\ Target(c) \in SNs
      /\ \A d \in Connections : call[d].sn \in SNs
  BY StepOthersStay, CallTypes DEF LockInv
<1>1. CASE Request(c)
  <2>1. /\ UNCHANGED <<row, lock, image, depth, stranded>> /\ pc[c] = "idle"
        /\ \A d \in Connections, s \in SNs : Restored(d, s)' = Restored(d, s)
    BY <1>0, <1>1, RequestKeeps
  <2>2. pc'[c] \notin {"read", "purge"}
    BY <1>0, <1>1 DEF Request, Invoke, Goto, TypeOK
  <2>3. ASSUME NEW e \in Connections, NEW s, NEW r, Cleans(e, s, r) PROVE Cleans(e, s, r)'
    <3>1. e # c
      BY <2>1, <2>3 DEF Cleans
    <3> QED  BY <1>0, <2>3, <3>1, OthersClean
  <2>4. UsersHold'
    BY <1>0, <2>1, <2>2 DEF UseInv, UsersHold, OthersStay
  <2>5. ASSUME NEW s \in SNs \ stranded' PROVE Cleaned(s)'
    BY <2>1, <2>3 DEF UseInv, Cleaned
  <2>6. ASSUME NEW d \in Connections, NEW s \in SNs \ stranded' PROVE Reserved(d, s)'
    BY <2>1, <2>3 DEF UseInv, Reserved
  <2> QED  BY <2>4, <2>5, <2>6 DEF UseInv
<1>2. CASE Undo(c)
  <2>1. /\ \A s \in SNs : row'[s] = Restored(c, s) /\ lock'[c][s] = "none"
        /\ \A d \in Connections, s \in SNs : lock'[d][s] # "none" =>
              /\ d # c /\ lock[d][s] = lock'[d][s] /\ lock[c][s] = "none"
              /\ row'[s] = row[s] /\ Restored(d, s)' = Restored(d, s)
    BY <1>2, UndoRestores
  <2>2. pc'[c] = "idle" /\ stranded \subseteq stranded'
        /\ (pc[c] \in {"read", "purge"} => call[c].sn \in stranded')
    BY <1>0, <1>2, UndoEffect DEF Undo
  <2>3. ASSUME NEW e \in Connections, NEW s \in SNs \ stranded', NEW r, Cleans(e, s, r)
        PROVE  e # c /\ Cleans(e, s, r)'
    <3>1. e # c
      BY <2>2, <2>3 DEF Cleans
    <3> QED  BY <1>0, <2>3, <3>1, OthersClean
  <2>4. UsersHold'
    BY <1>0, <2>2 DEF UseInv, UsersHold, OthersStay
  <2>5. ASSUME NEW s \in SNs \ stranded' PROVE Cleaned(s)'
    <3> SUFFICES ASSUME NEW r, r = row'[s], Dead(r) PROVE \E e \in Connections : Cleans(e, s, r)'
      BY DEF Cleaned
    <3>1. r = Restored(c, s) /\ s \in SNs \ stranded
      BY <2>1, <2>2
    <3>2. \E e \in Connections : Cleans(e, s, r)
      <4>1. CASE lock[c][s] # "none"
        BY <3>1, <4>1 DEF UseInv, Reserved
      <4>2. CASE lock[c][s] = "none"
        BY <3>1, <4>2 DEF UseInv, Restored, Cleaned
      <4> QED  BY <4>1, <4>2
    <3> QED  BY <2>3, <3>2
  <2>6. ASSUME NEW d \in Connections, NEW s \in SNs \ stranded' PROVE Reserved(d, s)'
    <3> SUFFICES ASSUME lock'[d][s] # "none", NEW r, r = Restored(d, s)', Dead(r)
                 PROVE  \E e \in Connections \ {d} : Cleans(e, s, r)'
      BY DEF Reserved
    <3>1. Restored(d, s) = r /\ lock[d][s] # "none" /\ s \in SNs \ stranded
      BY <2>1, <2>2
    <3>2. PICK e \in Connections \ {d} : Cleans(e, s, r)
      BY <3>1 DEF UseInv, Reserved
    <3> QED  BY <2>3, <3>2
  <2> QED  BY <2>4, <2>5, <2>6 DEF UseInv
<1>3. CASE Execute(c)
  <2>1. stranded \subseteq stranded'
    BY <1>0, <1>3, StrandEffect
  <2>2. UsersHold'
    <3>1. ASSUME pc'[c] \in {"read", "purge"}, depth'[c] > 0 PROVE lock'[c][call'[c].sn] # "none"
      <4>1. call' = call /\ depth' = depth /\ (Decrement(c) \/ Read(c))
        BY <1>0, <1>3, <3>1, UseFlow
      <4>2. CASE Read(c)
        BY <3>1, <4>1, <4>2 DEF Read, At, UseInv, UsersHold
      <4>3. CASE Decrement(c)
        <5>1. (\E new : Write(c, call[c].sn, new)) \/ Miss(c, call[c].sn)
          BY <4>3 DEF Decrement
        <5>2. ASSUME NEW new, Write(c, call[c].sn, new) PROVE lock'[c][call[c].sn] # "none"
          BY <1>0, <3>1, <5>2 DEF Write, TypeOK
        <5>3. ASSUME Miss(c, call[c].sn) PROVE lock'[c][call[c].sn] # "none"
          BY <1>0, <3>1, <5>3 DEF Miss, TypeOK
        <5> QED  BY <4>1, <5>1, <5>2, <5>3
      <4> QED  BY <4>1, <4>2, <4>3
    <3> QED  BY <1>0, <3>1 DEF UseInv, UsersHold, OthersStay
  <2>3. ASSUME NEW s \in SNs \ stranded' PROVE Cleaned(s)'
    <3> SUFFICES ASSUME NEW r, r = row'[s], Dead(r) PROVE \E e \in Connections : Cleans(e, s, r)'
      BY DEF Cleaned
    <3>1. r = row'[s]
      OBVIOUS
    \* Whoever was to delete the row is still about to.
    <3>2. ASSUME Dead(row[s]), \A e \in Connections : Cleans(e, s, row[s]) => Cleans(e, s, r), r.here
          PROVE  \E e \in Connections : Cleans(e, s, r)'
      <4>1. PICK e \in Connections : Cleans(e, s, row[s])
        BY <2>1, <3>2 DEF UseInv, Cleaned
      <4>2. CASE e # c
        BY <1>0, <3>2, <4>1, <4>2, OthersClean
      <4>3. CASE e = c /\ Read(c)
        <5>1. call[c].sn = s /\ UsedUp(s)
          BY <3>2, <4>1, <4>3 DEF Cleans, Dead, UsedUp
        <5>2. pc'[c] = "purge" /\ call' = call
          BY <1>0, <1>3, <4>3, <5>1, UseFlow
        <5> QED  BY <3>2, <4>1, <4>3, <5>2 DEF Cleans
      <4>4. CASE e = c /\ Purge(c)
        <5>1. call[c].sn = s /\ Purged(c, s)
          BY <3>2, <4>1, <4>4 DEF Cleans, Dead, Purged
        <5>2. Write(c, s, [row[s] EXCEPT !.here = FALSE])
          BY <4>4, <5>1 DEF Purge
        <5>3. row'[s] = [row[s] EXCEPT !.here = FALSE] /\ row[s] \in Row
          BY <1>0, <5>2 DEF Write, TypeOK
        <5>4. ~row'[s].here
          BY <5>3 DEF Row
        <5> QED  BY <3>1, <3>2, <5>4
      <4>5. e = c => Read(c) \/ Purge(c)
        BY <1>0, <1>3, <4>1, UseFlow DEF Cleans
      <4> QED  BY <4>2, <4>3, <4>4, <4>5
    <3>3. Dead(r) /\ row[s] \in Row
      BY <1>0, <3>1 DEF TypeOK
    <3>4. CASE row'[s] = row[s]
      BY <3>1, <3>2, <3>3, <3>4 DEF Dead
    <3>5. CASE Columns(s, row[s].here, row[s].char, row[s].number, row'[s].bundles)
      <4>1. r.char = row[s].char /\ r.number = row[s].number /\ (r.here <=> row[s].here)
        BY <3>1, <3>5 DEF Columns
      <4> QED  BY <3>2, <3>3, <4>1 DEF Dead, Cleans
    <3>6. CASE /\ MoveCashItemLtoS(c) \/ MoveCashItemStoL(c) \/ Reset(c)
               /\ s = call[c].sn /\ row'[s] # row[s]
               /\ Columns(s, row[s].here, row'[s].char, row[s].number, row[s].bundles)
      <4>1. Dead(row[s])
        BY <3>1, <3>3, <3>6 DEF Dead, Columns
      <4>2. InUse(s)
        BY <2>1, <4>1 DEF UseInv, Cleaned, Cleans, InUse
      <4> QED  BY <1>0, <1>3, <3>6, <4>2, StrandEffect
    <3>7. CASE /\ Decrement(c) /\ s = call[c].sn /\ Usable(c, s)
               /\ Columns(s, row[s].here, row[s].char, row[s].number - 1, row[s].bundles)
      <4>1. pc'[c] = "read" /\ call' = call
        BY <1>0, <3>7 DEF Decrement, Goto, TypeOK
      <4>2. r.char = row[s].char /\ r.number = row[s].number - 1 /\ row[s].number \in Int /\ r.number <= 0
        BY <3>1, <3>3, <3>7 DEF Columns, Row, Dead
      <4>3. IF call[c].op = "change" THEN r.char = call[c].char ELSE r.number = 0
        BY <3>7, <4>2 DEF Usable
      <4> QED  BY <3>7, <4>1, <4>3 DEF Cleans
    <3>8. CASE ~row'[s].here
      BY <3>1, <3>3, <3>8 DEF Dead
    <3> QED  BY <1>0, <1>3, <3>4, <3>5, <3>6, <3>7, <3>8, ColumnEffect DEF Columns
  <2>4. ASSUME NEW d \in Connections, NEW s \in SNs \ stranded' PROVE Reserved(d, s)'
    <3> SUFFICES ASSUME lock'[d][s] # "none", NEW r, r = Restored(d, s)', Dead(r)
                 PROVE  \E e \in Connections \ {d} : Cleans(e, s, r)'
      BY DEF Reserved
    <3>1. r = Restored(d, s)'
      OBVIOUS
    <3>2. /\ \/ Restored(d, s)' = Restored(d, s)
             \/ Sweeps(c) /\ s = call[c].sn /\ Restored(d, s) = row[s] /\ Restored(d, s)' = row'[s]
          /\ lock[d][s] = "none" =>
                /\ d = c /\ s = Target(c) /\ depth'[c] > 0 /\ Restored(d, s)' = row[s]
                /\ \A e \in Connections \ {c} : lock[e][s] = "none"
      BY <1>3, RestoredEffect
    <3>3. Dead(r) /\ s \in SNs \ stranded
      BY <2>1
    \* A lock is taken by nobody who is about to delete the row.
    <3>4. CASE lock[d][s] = "none"
      <4>1. PICK e \in Connections : Cleans(e, s, r)
        BY <3>1, <3>2, <3>3, <3>4 DEF UseInv, Cleaned
      <4>2. pc[c] \notin {"read", "purge"}
        <5>1. Target(c) = call[c].sn /\ Read(c) => lock' = lock
          BY DEF Target, Read
        <5>2. ASSUME pc[c] \in {"read", "purge"} PROVE FALSE
          <6>1. Target(c) = call[c].sn /\ (Read(c) \/ Purge(c))
            BY <1>0, <1>3, <5>2, UseFlow DEF Target
          <6>2. depth' = depth
            BY <6>1 DEF Read, Purge
          <6> QED  BY <3>2, <3>4, <5>2, <6>1, <6>2 DEF UseInv, UsersHold
        <5> QED  BY <5>2
      <4>3. e # c
        BY <4>1, <4>2 DEF Cleans
      <4> QED  BY <1>0, <3>2, <3>4, <4>1, <4>3, OthersClean
    <3>5. CASE lock[d][s] # "none" /\ r = Restored(d, s)
      <4>1. PICK e \in Connections \ {d} : Cleans(e, s, r)
        BY <3>3, <3>5 DEF UseInv, Reserved
      <4>2. CASE e # c
        BY <1>0, <4>1, <4>2, OthersClean
      <4>3. CASE e = c
        <5>1. pc[c] \in {"read", "purge"} /\ call[c].sn = s /\ Target(c) = s /\ d # c
          BY <4>1, <4>3 DEF Cleans, Target
        <5>2. ~Purge(c)
          BY <3>5, <5>1 DEF Purge, At, Blockers
        <5>3. Read(c)
          BY <1>0, <1>3, <5>1, <5>2, UseFlow
        <5>4. lock[d][s] # "exclusive"
          BY <5>1, <5>3 DEF Read, At, Blockers
        <5>5. UsedUp(s)
          BY <3>3, <3>5, <5>4 DEF Restored, UsedUp, Dead
        <5>6. pc'[c] = "purge" /\ call' = call
          BY <1>0, <1>3, <5>1, <5>3, <5>5, UseFlow
        <5> QED  BY <4>1, <4>3, <5>6 DEF Cleans
      <4> QED  BY <4>2, <4>3
    <3>6. CASE lock[d][s] # "none" /\ Sweeps(c) /\ s = call[c].sn /\ Restored(d, s) = row[s] /\ r = row'[s]
      <4>1. r = [row[s] EXCEPT !.bundles = 0] /\ row[s] \in Row
        BY <1>0, <3>6 DEF Sweeps, TypeOK
      <4>2. r.here = row[s].here /\ r.number = row[s].number /\ r.char = row[s].char
        BY <4>1 DEF Row
      <4>3. PICK e \in Connections \ {d} : Cleans(e, s, row[s])
        BY <3>3, <3>6, <4>2 DEF UseInv, Reserved, Dead
      <4>4. Cleans(e, s, r)
        BY <4>2, <4>3 DEF Cleans
      <4>5. e # c
        BY <3>6, <4>3 DEF Cleans, Sweeps
      <4> QED  BY <1>0, <4>4, <4>5, OthersClean
    <3> QED  BY <3>1, <3>2, <3>4, <3>5, <3>6
  <2> QED  BY <2>2, <2>3, <2>4 DEF UseInv
<1> QED  BY <1>1, <1>2, <1>3 DEF StepOf

\* The bundle of s fits r, and its date, unless it is a pet, is the one it was bought with.
Fits(s, r) == r.here /\ Kind[s] = "bundle" => (r.bundles = 1 <=> r.char # 0)
Fixed(s, r) == Kind[s] # "pet" => (r.expired <=> s \in Old)

Moving(c, s) == pc[c] \in {"select", "insert", "delete"} /\ call[c].sn = s

Following(s) == \A r \in {row[s]} : Fixed(s, r) /\ (Fits(s, r) \/ \E c \in Connections : Moving(c, s))

Lasting(d, s) == lock[d][s] # "none" => \A r \in {Restored(d, s)} : Fixed(s, r) /\ Fits(s, r)

\* What a procedure knows of the item it is about.
KindsFit(c) ==
    /\ pc[c] = "move in" => call[c].char # 0
    /\ pc[c] = "extend" => Kind[call[c].pet] = "pet"
    /\ pc[c] = "reset" => Kind[call[c].sn] = "pet"
    /\ pc[c] = "remove" => Kind[call[c].sn] # "pet" /\ call[c].sn \in Old

MoverFits(c) ==
    /\ pc[c] \in {"select", "insert"} => row[call[c].sn].char # 0
    /\ pc[c] = "delete" => row[call[c].sn].char = 0

\* A sweep comes behind the removal of an item, which nobody can bring back.
SweeperFits(c) ==
    pc[c] = "sweep" =>
        /\ ~row[call[c].sn].here
        /\ \A d \in Connections \ {c} : lock[d][call[c].sn] # "none" => ~Restored(d, call[c].sn).here

FollowInv ==
    /\ \A c \in Connections : KindsFit(c) /\ MoverFits(c) /\ SweeperFits(c)
    /\ \A s \in SNs : Following(s)
    /\ \A d \in Connections, s \in SNs : Lasting(d, s)

LEMMA OthersMove ==
    ASSUME NEW c \in Connections, OthersStay(c), NEW e \in Connections \ {c}, NEW s
    PROVE  (Moving(e, s) => Moving(e, s)') /\ (KindsFit(e) => KindsFit(e)')
  BY DEF OthersStay, Moving, KindsFit

\* A row that somebody else has locked is not written, but for a sweep.
LEMMA LockedRowStays ==
    ASSUME LockInv, NEW c \in Connections, Execute(c), NEW d \in Connections \ {c}, NEW s \in SNs,
           lock[d][s] # "none"
    PROVE  row'[s] = row[s] \/ (Sweeps(c) /\ s = call[c].sn /\ row'[s] = [row[s] EXCEPT !.bundles = 0])
<1>1. TypeOK /\ call[c].sn \in SNs
  BY CallTypes DEF LockInv
<1>2. CASE Holds(c)
  BY <1>2 DEF Holds
<1>3. CASE Sweeps(c)
  BY <1>1, <1>3 DEF Sweeps, TypeOK
<1>4. CASE Quiet(c) \/ Lets(c)
  BY <1>4 DEF Quiet, Lets
<1> QED  BY <1>2, <1>3, <1>4, ExecuteEffect

\* The ways to the statements that this is about.
LEMMA MoveFlow ==
    ASSUME TypeOK, NEW c \in Connections, Execute(c)
    PROVE  /\ pc'[c] \notin {"move in", "extend"}
           /\ pc'[c] \in {"reset", "remove"} =>
                 /\ call' = call /\ Expired(call[c].sn)
                 /\ pc'[c] = "reset" <=> Kind[call[c].sn] = "pet"
           /\ pc'[c] = "select" => MoveCashItemLtoS(c) /\ call' = call /\ row'[call[c].sn].char = call[c].char
           /\ pc'[c] = "insert" => SelectBundle(c) /\ call' = call /\ row' = row
           /\ pc'[c] = "delete" => MoveCashItemStoL(c) /\ call' = call /\ row'[call[c].sn].char = 0
           /\ pc'[c] = "sweep" => Remove(c) /\ call' = call
           /\ (MoveCashItemLtoS(c) \/ MoveCashItemStoL(c)) /\ row' # row =>
                 pc'[c] \in {"select", "delete"} /\ call' = call
<1>0. /\ pc \in [Connections -> Statements] /\ row \in [SNs -> Row]
      /\ call[c].sn \in SNs /\ row[call[c].sn] \in Row
  BY CallTypes DEF TypeOK
<1>1. CASE MoveCashItemLtoS(c)
  <2> DEFINE new == [row[call[c].sn] EXCEPT !.char = call[c].char]
  <2>1. new.char = call[c].char
    BY <1>0 DEF Row
  <2>2. \/ Write(c, call[c].sn, new) /\ pc' = [pc EXCEPT ![c] = "select"] /\ call' = call
        \/ row' = row /\ pc' = [pc EXCEPT ![c] = "idle"]
    BY <1>1 DEF MoveCashItemLtoS, Move, Miss, Goto, End
  <2> HIDE DEF new
  <2> QED  BY <1>0, <1>1, <2>1, <2>2 DEF Write
<1>2. CASE MoveCashItemStoL(c)
  <2> DEFINE new == [row[call[c].sn] EXCEPT !.char = 0]
  <2>1. new.char = 0
    BY <1>0 DEF Row
  <2>2. \/ Write(c, call[c].sn, new) /\ pc' = [pc EXCEPT ![c] = "delete"] /\ call' = call
        \/ row' = row /\ pc' = [pc EXCEPT ![c] = "idle"]
    BY <1>2 DEF MoveCashItemStoL, Move, Miss, Goto, End
  <2> HIDE DEF new
  <2> QED  BY <1>0, <1>2, <2>1, <2>2 DEF Write
<1>3. CASE SelectBundle(c)
  BY <1>0, <1>3 DEF SelectBundle, Goto, MoveCashItemLtoS, MoveCashItemStoL, At
<1>4. CASE Look(c)
  BY <1>0, <1>4 DEF Look, Goto, Return, End, MoveCashItemLtoS, MoveCashItemStoL, At
<1>5. CASE Remove(c)
  BY <1>0, <1>5 DEF Remove, Goto, MoveCashItemLtoS, MoveCashItemStoL, At
<1>6. CASE InsertBundle(c) \/ DeleteBundle(c) \/ Commit(c) \/ Decrement(c) \/ Read(c)
           \/ Purge(c) \/ SetPetLife(c) \/ Reset(c) \/ Sweep(c)
  BY <1>0, <1>6 DEF InsertBundle, DeleteBundle, Commit, Decrement, Read, Purge, SetPetLife, Reset, Sweep,
                    Goto, Return, End, MoveCashItemLtoS, MoveCashItemStoL, At
<1> QED  BY <1>1, <1>2, <1>3, <1>4, <1>5, <1>6 DEF Execute

LEMMA FollowRequest ==
    ASSUME LockInv, FollowInv, NEW c \in Connections, Request(c)
    PROVE  FollowInv'
<1>0. OthersStay(c) /\ TypeOK
  BY StepOthersStay DEF LockInv, StepOf
<1>1. /\ UNCHANGED <<row, lock, image, depth, stranded>> /\ pc[c] = "idle"
      /\ \A d \in Connections, s \in SNs : Restored(d, s)' = Restored(d, s)
  BY <1>0, RequestKeeps
<1>2. KindsFit(c)' /\ MoverFits(c)' /\ SweeperFits(c)'
  <2>1. CASE \E s \in SNs, char \in Characters : \/ Invoke(c, "LtoS", s, char, s, "move in")
                                                 \/ Invoke(c, "StoL", s, char, s, "move out")
    <3>1. PICK s \in SNs, char \in Characters : \/ Invoke(c, "LtoS", s, char, s, "move in")
                                                \/ Invoke(c, "StoL", s, char, s, "move out")
      BY <2>1
    <3>2. char # 0
      BY CharactersAssumption
    <3>3. pc'[c] \in {"move in", "move out"}
      BY <1>0, <3>1 DEF Invoke, Goto, TypeOK
    <3>4. call'[c].char = char
      <4>1. DOMAIN call = Connections
        BY <1>0 DEF TypeOK
      <4>2. CASE Invoke(c, "LtoS", s, char, s, "move in")
        <5>1. call' = [call EXCEPT ![c] = [op |-> "LtoS", sn |-> s, char |-> char, pet |-> s]]
          BY <4>2 DEF Invoke
        <5> QED  BY <4>1, <5>1
      <4>3. CASE Invoke(c, "StoL", s, char, s, "move out")
        <5>1. call' = [call EXCEPT ![c] = [op |-> "StoL", sn |-> s, char |-> char, pet |-> s]]
          BY <4>3 DEF Invoke
        <5> QED  BY <4>1, <5>1
      <4> QED  BY <3>1, <4>2, <4>3
    <3> QED  BY <3>2, <3>3, <3>4 DEF KindsFit, MoverFits, SweeperFits
  <2>2. CASE \/ \E s \in SNs : Kind[s] # "equip" /\ Invoke(c, "use", s, 0, s, "decrement")
             \/ \E s \in SNs, char \in Characters :
                    Kind[s] = "bundle" /\ Invoke(c, "change", s, char, s, "decrement")
             \/ \E s \in SNs : Invoke(c, "expire", s, 0, s, "look")
    BY <1>0, <2>2 DEF Invoke, Goto, KindsFit, MoverFits, SweeperFits, TypeOK
  <2>3. CASE \E s, pet \in SNs : /\ Kind[s] = "bundle" /\ Kind[pet] = "pet"
                                 /\ Invoke(c, "renew", s, 0, pet, "extend")
    BY <1>0, <2>3 DEF Invoke, Goto, KindsFit, MoverFits, SweeperFits, TypeOK
  <2> QED  BY <2>1, <2>2, <2>3 DEF Request
<1>3. ASSUME NEW d \in Connections \ {c} PROVE KindsFit(d)' /\ MoverFits(d)' /\ SweeperFits(d)'
  <2>1. KindsFit(d) /\ MoverFits(d) /\ SweeperFits(d) /\ pc'[d] = pc[d] /\ call'[d] = call[d]
        /\ call[d].sn \in SNs
    BY <1>0, CallTypes DEF FollowInv, OthersStay
  <2> QED  BY <1>1, <2>1 DEF KindsFit, MoverFits, SweeperFits
<1>4. ASSUME NEW s \in SNs PROVE Following(s)'
  <2>1. ASSUME NEW e \in Connections, Moving(e, s) PROVE Moving(e, s)'
    <3>1. e # c
      BY <1>1, <2>1 DEF Moving
    <3> QED  BY <1>0, <2>1, <3>1, OthersMove
  <2> QED  BY <1>1, <2>1 DEF FollowInv, Following
<1>5. ASSUME NEW d \in Connections, NEW s \in SNs PROVE Lasting(d, s)'
  BY <1>1 DEF FollowInv, Lasting
<1> QED  BY <1>2, <1>3, <1>4, <1>5 DEF FollowInv

LEMMA FollowUndo ==
    ASSUME LockInv, FollowInv, NEW c \in Connections, Undo(c)
    PROVE  FollowInv'
<1>0. OthersStay(c) /\ TypeOK /\ \A d \in Connections : call[d].sn \in SNs
  BY StepOthersStay, CallTypes DEF LockInv, StepOf
<1>1. /\ \A s \in SNs : row'[s] = Restored(c, s) /\ lock'[c][s] = "none"
      /\ \A d \in Connections, s \in SNs : lock'[d][s] # "none" =>
            /\ d # c /\ lock[d][s] = lock'[d][s] /\ lock[c][s] = "none"
            /\ row'[s] = row[s] /\ Restored(d, s)' = Restored(d, s)
  BY UndoRestores
<1>2. pc'[c] = "idle"
  BY <1>0, UndoEffect
<1>3. KindsFit(c)' /\ MoverFits(c)' /\ SweeperFits(c)'
  BY <1>2 DEF KindsFit, MoverFits, SweeperFits
<1>4. ASSUME NEW d \in Connections \ {c} PROVE KindsFit(d)' /\ MoverFits(d)' /\ SweeperFits(d)'
  <2>1. /\ KindsFit(d) /\ MoverFits(d) /\ SweeperFits(d)
        /\ pc'[d] = pc[d] /\ call'[d] = call[d] /\ lock'[d] = lock[d]
    BY <1>0 DEF FollowInv, OthersStay
  <2>2. KindsFit(d)'
    BY <2>1 DEF KindsFit
  <2>3. MoverFits(d)'
    <3>1. CASE pc[d] \in {"select", "insert", "delete"}
      <4>1. lock'[d][call[d].sn] # "none"
        BY <2>1, <3>1 DEF LockInv, MoverHolds
      <4>2. row'[call[d].sn] = row[call[d].sn]
        BY <1>0, <1>1, <4>1
      <4> QED  BY <2>1, <4>2 DEF MoverFits
    <3>2. CASE pc[d] \notin {"select", "insert", "delete"}
      BY <2>1, <3>2 DEF MoverFits
    <3> QED  BY <3>1, <3>2
  <2>4. SweeperFits(d)'
    <3> SUFFICES ASSUME pc[d] = "sweep", NEW s \in SNs, s = call[d].sn
                 PROVE  /\ ~row'[s].here
                        /\ \A e \in Connections \ {d} : lock'[e][s] # "none" => ~Restored(e, s)'.here
      BY <1>0, <2>1 DEF SweeperFits
    <3>1. ~row[s].here /\ \A e \in Connections \ {d} : lock[e][s] # "none" => ~Restored(e, s).here
      BY <2>1 DEF SweeperFits
    <3>2. ~row'[s].here
      <4>1. CASE lock[c][s] # "none"
        BY <1>1, <3>1, <4>1
      <4>2. CASE lock[c][s] = "none"
        BY <1>1, <3>1, <4>2 DEF Restored
      <4> QED  BY <4>1, <4>2
    <3> QED  BY <1>1, <3>1, <3>2
  <2> QED  BY <2>2, <2>3, <2>4
<1>5. ASSUME NEW s \in SNs PROVE Following(s)'
  <2>1. CASE lock[c][s] # "none"
    BY <1>1, <2>1 DEF FollowInv, Lasting, Following
  <2>2. CASE lock[c][s] = "none"
    <3>1. row'[s] = row[s]
      BY <1>1, <2>2 DEF Restored
    <3>2. ASSUME NEW e \in Connections, Moving(e, s) PROVE Moving(e, s)'
      <4>1. e # c
        BY <2>2, <3>2 DEF Moving, LockInv, MoverHolds
      <4> QED  BY <1>0, <3>2, <4>1, OthersMove
    <3> QED  BY <3>1, <3>2 DEF FollowInv, Following
  <2> QED  BY <2>1, <2>2
<1>6. ASSUME NEW d \in Connections, NEW s \in SNs PROVE Lasting(d, s)'
  <2> SUFFICES ASSUME lock'[d][s] # "none" PROVE \A r \in {Restored(d, s)'} : Fixed(s, r) /\ Fits(s, r)
    BY DEF Lasting
  <2>1. lock[d][s] # "none" /\ Restored(d, s)' = Restored(d, s)
    BY <1>1
  <2> QED  BY <2>1 DEF FollowInv, Lasting
<1> QED  BY <1>3, <1>4, <1>5, <1>6 DEF FollowInv

LEMMA FollowExecute ==
    ASSUME LockInv, BundleInv, FollowInv, NEW c \in Connections, Execute(c)
    PROVE  FollowInv'
<1>0. /\ OthersStay(c) /\ TypeOK /\ \A d \in Connections : call[d].sn \in SNs
      /\ KindsFit(c) /\ MoverFits(c) /\ SweeperFits(c)
  BY StepOthersStay, CallTypes DEF LockInv, StepOf, FollowInv
<1>1. /\ pc'[c] \notin {"move in", "extend"}
      /\ pc'[c] \in {"reset", "remove"} =>
            /\ call' = call /\ Expired(call[c].sn)
            /\ pc'[c] = "reset" <=> Kind[call[c].sn] = "pet"
      /\ pc'[c] = "select" => MoveCashItemLtoS(c) /\ call' = call /\ row'[call[c].sn].char = call[c].char
      /\ pc'[c] = "insert" => SelectBundle(c) /\ call' = call /\ row' = row
      /\ pc'[c] = "delete" => MoveCashItemStoL(c) /\ call' = call /\ row'[call[c].sn].char = 0
      /\ pc'[c] = "sweep" => Remove(c) /\ call' = call
      /\ (MoveCashItemLtoS(c) \/ MoveCashItemStoL(c)) /\ row' # row =>
            pc'[c] \in {"select", "delete"} /\ call' = call
  BY <1>0, MoveFlow
<1>2. \A s \in SNs : row'[s].here => row[s].here
  BY <1>0, ColumnEffect DEF Columns
\* No date of anything but a pet changes.
<1>3. ASSUME NEW s \in SNs PROVE Fixed(s, row'[s])
  <2>1. Fixed(s, row[s])
    BY DEF FollowInv, Following
  <2>2. \/ row'[s].expired <=> row[s].expired
        \/ SetPetLife(c) /\ s = call[c].pet
        \/ Reset(c) /\ s = call[c].sn
    BY <1>0, RowEffect
  <2>3. SetPetLife(c) => Kind[call[c].pet] = "pet"
    BY <1>0 DEF SetPetLife, At, KindsFit
  <2>4. Reset(c) => Kind[call[c].sn] = "pet"
    BY <1>0 DEF Reset, At, KindsFit
  <2> QED  BY <2>1, <2>2, <2>3, <2>4 DEF Fixed
<1>4. KindsFit(c)'
  <2>1. CASE pc'[c] \in {"reset", "remove"}
    <3>1. Fixed(call[c].sn, row[call[c].sn]) /\ row[call[c].sn].expired /\ call' = call
      BY <1>0, <1>1, <2>1 DEF FollowInv, Following, Expired
    <3> QED  BY <1>1, <2>1, <3>1 DEF KindsFit, Fixed
  <2>2. CASE pc'[c] \notin {"reset", "remove"}
    BY <1>1, <2>2 DEF KindsFit
  <2> QED  BY <2>1, <2>2
<1>5. MoverFits(c)'
  <2>1. pc'[c] = "select" => row'[call'[c].sn].char # 0
    BY <1>0, <1>1 DEF MoveCashItemLtoS, At, KindsFit
  <2>2. pc'[c] = "insert" => row'[call'[c].sn].char # 0
    BY <1>0, <1>1 DEF SelectBundle, At, MoverFits
  <2> QED  BY <1>1, <2>1, <2>2 DEF MoverFits
<1>6. SweeperFits(c)'
  <2> SUFFICES ASSUME pc'[c] = "sweep", NEW s \in SNs, s = call[c].sn
               PROVE  ~row'[s].here /\ \A d \in Connections \ {c} : lock'[d][s] = "none"
    BY <1>0, <1>1 DEF SweeperFits
  <2>1. Remove(c) /\ row[s] \in Row
    BY <1>0, <1>1 DEF TypeOK
  <2>2. \A d \in Connections \ {c} : lock'[d][s] = "none"
    BY <1>0, <2>1 DEF Remove, At, Blockers, Target, OthersStay
  <2>3. CASE row[s].here
    <3>1. row[s].expired
      <4>1. Fixed(s, row[s]) /\ Kind[s] # "pet" /\ s \in Old
        BY <1>0, <2>1 DEF FollowInv, Following, Remove, At, KindsFit
      <4> QED  BY <4>1 DEF Fixed
    <3>2. Write(c, s, [row[s] EXCEPT !.here = FALSE])
      BY <2>1, <2>3, <3>1 DEF Remove
    <3>3. row'[s] = [row[s] EXCEPT !.here = FALSE]
      BY <1>0, <3>2 DEF Write, TypeOK
    <3>4. ~row'[s].here
      BY <2>1, <3>3 DEF Row
    <3> QED  BY <2>2, <3>4
  <2> QED  BY <1>2, <2>2, <2>3
<1>7. ASSUME NEW d \in Connections \ {c} PROVE KindsFit(d)' /\ MoverFits(d)' /\ SweeperFits(d)'
  <2>1. /\ KindsFit(d) /\ MoverFits(d) /\ SweeperFits(d)
        /\ pc'[d] = pc[d] /\ call'[d] = call[d] /\ lock'[d] = lock[d]
    BY <1>0 DEF FollowInv, OthersStay
  <2>2. KindsFit(d)'
    BY <2>1 DEF KindsFit
  <2>3. MoverFits(d)'
    <3>1. CASE pc[d] \in {"select", "insert", "delete"}
      <4>1. lock[d][call[d].sn] # "none" /\ row[call[d].sn] \in Row
        BY <1>0, <3>1 DEF LockInv, MoverHolds, TypeOK
      <4>2. row'[call[d].sn] = row[call[d].sn] \/ row'[call[d].sn] = [row[call[d].sn] EXCEPT !.bundles = 0]
        BY <1>0, <4>1, LockedRowStays
      <4>3. row'[call[d].sn].char = row[call[d].sn].char
        BY <4>1, <4>2 DEF Row
      <4> QED  BY <2>1, <4>3 DEF MoverFits
    <3>2. CASE pc[d] \notin {"select", "insert", "delete"}
      BY <2>1, <3>2 DEF MoverFits
    <3> QED  BY <3>1, <3>2
  <2>4. SweeperFits(d)'
    <3> SUFFICES ASSUME pc[d] = "sweep", NEW s \in SNs, s = call[d].sn
                 PROVE  /\ ~row'[s].here
                        /\ \A e \in Connections \ {d} : lock'[e][s] # "none" => ~Restored(e, s)'.here
      BY <1>0, <2>1 DEF SweeperFits
    <3>1. ~row[s].here /\ \A e \in Connections \ {d} : lock[e][s] # "none" => ~Restored(e, s).here
      BY <2>1 DEF SweeperFits
    <3>2. ASSUME NEW e \in Connections \ {d}, lock'[e][s] # "none" PROVE ~Restored(e, s)'.here
      <4>1. /\ Restored(e, s)' = Restored(e, s) \/ Restored(e, s)' = row'[s]
            /\ lock[e][s] = "none" => Restored(e, s)' = row[s]
        BY <3>2, RestoredEffect
      <4>2. PICK r : r = Restored(e, s)'
        OBVIOUS
      <4>3. ~r.here
        BY <1>2, <3>1, <4>1, <4>2
      <4> QED  BY <4>2, <4>3
    <3> QED  BY <1>2, <3>1, <3>2
  <2> QED  BY <2>2, <2>3, <2>4
<1>8. ASSUME NEW s \in SNs PROVE Following(s)'
  <2> SUFFICES ASSUME ~\E e \in Connections : Moving(e, s)', NEW r, r = row'[s] PROVE Fits(s, r)
    BY <1>3 DEF Following
  <2>1. \A e \in Connections \ {c} : ~Moving(e, s)
    BY <1>0, OthersMove
  <2>2. row[s] \in Row /\ row[s].bundles <= Cap(s)
    BY <1>0 DEF BundleInv, TypeOK
  <2>3. CASE Moving(c, s)
    <3>1. call[c].sn = s /\ (SelectBundle(c) \/ InsertBundle(c) \/ DeleteBundle(c))
      BY <1>0, <2>3 DEF Moving, Execute, At, MoveCashItemLtoS, MoveCashItemStoL, Commit, Decrement, Read, Purge,
                        SetPetLife, Look, Reset, Remove, Sweep
    <3>2. CASE SelectBundle(c)
      <4>1. row' = row /\ ~NeedsBundle(s) /\ row[s].char # 0
        BY <1>0, <3>1, <3>2 DEF SelectBundle, Goto, Moving, TypeOK, At, MoverFits
      <4> QED  BY <2>2, <4>1 DEF NeedsBundle, Fits, Cap, Row
    <3>3. CASE InsertBundle(c)
      <4>1. row[s].bundles = 0 /\ row[s].char # 0
        BY <1>0, <3>1, <3>3 DEF InsertBundle, At, BundleInv, MoverFits
      <4>2. row'[s] = [row[s] EXCEPT !.bundles = row[s].bundles + 1]
        BY <1>0, <3>1, <3>3 DEF InsertBundle, SetBundles, Write, TypeOK
      <4>3. r.bundles = 1 /\ r.char # 0
        BY <2>2, <4>1, <4>2 DEF Row
      <4> QED  BY <4>3 DEF Fits
    <3>4. CASE DeleteBundle(c)
      <4>1. row[s].char = 0
        BY <1>0, <3>1, <3>4 DEF DeleteBundle, At, MoverFits
      <4>2. row'[s] = [row[s] EXCEPT !.bundles = 0]
        BY <1>0, <3>1, <3>4 DEF DeleteBundle, SetBundles, Write, TypeOK
      <4>3. r.bundles = 0 /\ r.char = 0
        BY <2>2, <4>1, <4>2 DEF Row
      <4> QED  BY <4>3 DEF Fits
    <3> QED  BY <3>1, <3>2, <3>3, <3>4
  <2>4. CASE ~Moving(c, s)
    <3>1. Fits(s, row[s])
      BY <2>1, <2>4 DEF FollowInv, Following
    <3>2. CASE row'[s] = row[s]
      BY <3>1, <3>2
    <3>3. CASE Columns(s, row[s].here, row[s].char, row'[s].number, row[s].bundles)
      BY <3>1, <3>3 DEF Columns, Fits
    <3>4. ~(/\ MoveCashItemLtoS(c) \/ MoveCashItemStoL(c)
            /\ s = call[c].sn /\ row'[s] # row[s])
      <4> SUFFICES ASSUME MoveCashItemLtoS(c) \/ MoveCashItemStoL(c), s = call[c].sn, row'[s] # row[s]
                   PROVE  Moving(c, s)'
        OBVIOUS
      <4>1. pc'[c] \in {"select", "delete"} /\ call' = call
        BY <1>1
      <4> QED  BY <4>1 DEF Moving
    <3>5. CASE ~row'[s].here
      BY <3>5 DEF Fits
    <3>6. ~((InsertBundle(c) \/ DeleteBundle(c)) /\ s = call[c].sn)
      BY <2>4 DEF InsertBundle, DeleteBundle, At, Moving
    <3>7. CASE Sweep(c) /\ s = call[c].sn
      <4>1. ~row[s].here
        BY <1>0, <3>7 DEF Sweep, At, SweeperFits
      <4> QED  BY <1>2, <4>1 DEF Fits
    <3>8. CASE Reset(c) /\ s = call[c].sn
      BY <1>0, <3>8 DEF Reset, At, KindsFit, Fits
    <3> QED  BY <1>0, <3>2, <3>3, <3>4, <3>5, <3>6, <3>7, <3>8, ColumnEffect DEF Columns
  <2> QED  BY <2>3, <2>4
<1>9. ASSUME NEW d \in Connections, NEW s \in SNs PROVE Lasting(d, s)'
  <2> SUFFICES ASSUME lock'[d][s] # "none", NEW r, r = Restored(d, s)' PROVE Fixed(s, r) /\ Fits(s, r)
    BY DEF Lasting
  <2>1. /\ \/ Restored(d, s)' = Restored(d, s)
           \/ Sweeps(c) /\ s = call[c].sn /\ Restored(d, s) = row[s] /\ Restored(d, s)' = row'[s]
        /\ lock[d][s] = "none" =>
              /\ d = c /\ s = Target(c) /\ depth'[c] > 0 /\ Restored(d, s)' = row[s]
              /\ \A e \in Connections \ {c} : lock[e][s] = "none"
    BY RestoredEffect
  <2>2. CASE lock[d][s] = "none"
    <3>1. \A e \in Connections : lock[e][s] = "none"
      BY <2>1, <2>2
    <3>2. \A e \in Connections : ~Moving(e, s)
      BY <3>1 DEF Moving, LockInv, MoverHolds
    <3> QED  BY <2>1, <2>2, <3>2 DEF FollowInv, Following
  <2>3. CASE lock[d][s] # "none" /\ r = Restored(d, s)
    BY <2>3 DEF FollowInv, Lasting
  <2>4. CASE Sweeps(c) /\ s = call[c].sn /\ r = row'[s]
    <3>1. ~row'[s].here
      BY <1>0, <1>2, <2>4 DEF Sweeps, SweeperFits
    <3> QED  BY <1>3, <2>4, <3>1 DEF Fits
  <2> QED  BY <2>1, <2>2, <2>3, <2>4
<1> QED  BY <1>4, <1>5, <1>6, <1>7, <1>8, <1>9 DEF FollowInv

LEMMA ItemsInit == Init => UseInv /\ FollowInv
<1> SUFFICES ASSUME Init PROVE UseInv /\ FollowInv
  OBVIOUS
<1>1. /\ \A c \in Connections : pc[c] = "idle" /\ \A s \in SNs : lock[c][s] = "none"
      /\ \A s \in SNs : row[s] = [here |-> TRUE, char |-> 0, number |-> Number[s],
                                 expired |-> (s \in Old), bundles |-> 0]
  BY DEF Init, Unlocked
<1>2. ASSUME NEW s \in SNs, NEW r, r = row[s]
      PROVE  ~Dead(r) /\ Fixed(s, r) /\ Fits(s, r)
  <2>1. r.number \in Nat \ {0} /\ (r.expired <=> s \in Old) /\ r.char = 0 /\ r.bundles = 0
    <3>1. Number[s] \in Nat \ {0}
      BY NumberAssumption
    <3>2. r = [here |-> TRUE, char |-> 0, number |-> Number[s], expired |-> (s \in Old), bundles |-> 0]
      BY <1>1, <1>2
    <3>3. (r.expired <=> s \in Old) /\ r.number = Number[s] /\ r.char = 0 /\ r.bundles = 0
      BY <3>2
    <3> QED  BY <3>1, <3>3
  <2>2. ~(r.number <= 0)
    BY <2>1
  <2> QED  BY <2>1, <2>2 DEF Dead, Fixed, Fits
<1>3. UseInv
  BY <1>1, <1>2 DEF UseInv, UsersHold, Cleaned, Reserved
<1>4. FollowInv
  BY <1>1, <1>2 DEF FollowInv, KindsFit, MoverFits, SweeperFits, Following, Lasting
<1> QED  BY <1>3, <1>4

\* ItemLocker and CashItemBundle after any calls, undone or not (7-GameWorld.sql:3327-3400 and the
\* procedures that use, renew and expire items): bundles come and go with the moves, and whoever
\* uses an item up deletes it.
THEOREM ItemsStayConsistent == Spec => []ItemsConsistent
<1> DEFINE Inv == LockInv /\ BundleInv /\ UseInv /\ FollowInv
<1>1. Init => Inv
  <2>1. Init => BundleInv
    BY DEF Init, BundleInv, Cap, Unwritten, NoRow
  <2> QED  BY <2>1, LockInvInit, ItemsInit
<1>2. Inv /\ [Next]_vars => Inv'
  <2> SUFFICES ASSUME Inv, [Next]_vars PROVE Inv'
    OBVIOUS
  <2>1. LockInv'
    BY LockInvStep
  <2>2. ASSUME NEW c \in Connections, StepOf(c) PROVE BundleInv' /\ UseInv' /\ FollowInv'
    <3>1. BundleInv'
      BY <2>1, <2>2, BundleStep DEF LockInv
    <3>2. UseInv'
      BY <2>1, <2>2, UseStep
    <3>3. FollowInv'
      BY <2>2, FollowRequest, FollowUndo, FollowExecute DEF StepOf
    <3> QED  BY <3>1, <3>2, <3>3
  <2>3. CASE UNCHANGED vars
    <3>1. UNCHANGED <<row, lock, image, depth, pc, call, stranded>>
      BY <2>3 DEF vars, tables, history
    <3>2. \A d, s : Restored(d, s)' = Restored(d, s)
      BY <3>1 DEF Restored
    <3>3. \A e, s : Moving(e, s)' = Moving(e, s) /\ \A r : Cleans(e, s, r)' = Cleans(e, s, r)
      BY <3>1 DEF Moving, Cleans
    <3>4. BundleInv'
      BY <3>1 DEF BundleInv
    <3>5. UseInv'
      BY <3>1, <3>2, <3>3 DEF UseInv, UsersHold, Cleaned, Reserved
    <3>6. FollowInv'
      BY <3>1, <3>2, <3>3 DEF FollowInv, KindsFit, MoverFits, SweeperFits, Following, Lasting
    <3> QED  BY <2>1, <3>4, <3>5, <3>6
  <2> QED  BY <2>1, <2>2, <2>3, NextIsStepOf
<1>3. Inv => ItemsConsistent
  <2>1. BundleInv => BundlesBounded
    BY DEF BundleInv, BundlesBounded, Cap
  <2>2. FollowInv => BundlesFollowMoves
    BY DEF FollowInv, Following, Fits, Moving, BundlesFollowMoves
  <2>3. UseInv => UsedUpItemsGo
    BY DEF UseInv, Cleaned, Cleans, Dead, InUse, UsedUpItemsGo
  <2> QED  BY <2>1, <2>2, <2>3 DEF ItemsConsistent
<1> QED  BY <1>1, <1>2, <1>3, PTL DEF Spec
=============================================================================
