-------------------------- MODULE GameServerProofs --------------------------
(***************************************************************************)
(* Safety of GameServer for any users, fields, typed arguments and bytes   *)
(* of unwritten memory.  The argument follows the command of an            *)
(* administrator from the line to the broadcast: it keeps the number that  *)
(* was typed, and only where two commands of a kind meet, or one throws,   *)
(* can the broadcast rate differ from the one in force.                    *)
(***************************************************************************)
EXTENDS GameServer, TLAPS

\* The statements of a rate command behind its parser.
Rating == {"set", "send", "broadcast"}

\* The number of a rate command is the digit that was typed, if one was.
NumberInv ==
    \A u \in Users :
        pc[u] \in Rating => /\ u \in Admins /\ line[u].text \in Kinds /\ number[u] \in 1 .. 5
                            /\ line[u].argument \in {number[u], 0, NoArgument}

\* What happened to a line so far.
FateInv ==
    \A u \in Users : /\ pc[u] \in {"chat", "set"} => fate[u] = {}
                     /\ pc[u] \in {"send", "broadcast"} => fate[u] = {"executed"}

\* A command that met no other one is alone between setting the rate and announcing it.
RateInv ==
    \A u \in Users, k \in Kinds :
        Underway(u, k) /\ k \notin upset =>
            rate[k] = number[u] /\ \A v \in Users : Underway(v, k) => v = u

Inv == TypeOK /\ NumberInv /\ FateInv

StepOf(u) ==
    \/ \E l \in Lines : Chat(u, l)
    \/ AskUpgrade(u)
    \/ AskBanMap(u)
    \/ UseRoom(u)
    \/ Handle(u)

\* What a step of u leaves alone.
OthersStay(u) ==
    \A v \in Users \ {u} :
        /\ pc'[v] = pc[v] /\ line'[v] = line[v] /\ number'[v] = number[v]
        /\ fate'[v] = fate[v] /\ field'[v] = field[v]

-----------------------------------------------------------------------------
(* Data *)

LEMMA ShiftType == \A n \in Nat, g \in Characters : Shift(n, g) \in Nat
  BY DEF Shift, Characters

LEMMA ShiftSmall ==
    ASSUME NEW n \in Nat, NEW g \in Characters, n # 0, Shift(n, g) <= 5
    PROVE  Shift(n, g) = n
  BY DEF Shift, Characters

\* DecodeInt (ParamDecoder.cpp:37-47): whatever bytes atoi finds behind the number, a result
\* that is a legal rate is the typed digit, unless that was zero.
LEMMA DecodeIntIsTyped ==
    ASSUME NEW l \in Line, NEW g \in Characters, InRange(DecodeInt(l, g))
    PROVE  DecodeInt(l, g) \in 1 .. 5 /\ l.argument \in {DecodeInt(l, g), 0, NoArgument}
<1>0. /\ l.argument \in Digits \cup {NoArgument} /\ l.garbage \in Characters
      /\ Digits \subseteq Nat
  BY DEF Line, Digits
<1>a. l.argument # NoArgument => l.argument \in Nat
  BY <1>0
<1>1. CASE l.argument = NoArgument
  <2>1. DecodeInt(l, g) = Shift(0, g)
    BY <1>1 DEF DecodeInt
  <2> QED
    BY <1>1, <2>1, ShiftType DEF InRange
<1>2. CASE l.argument # NoArgument /\ l.garbage \in {0, 32}
  <2>1. DecodeInt(l, g) = Shift(l.argument, g)
    BY <1>2 DEF DecodeInt
  <2>2. CASE l.argument = 0
    BY <1>0, <2>1, <2>2, ShiftType DEF InRange
  <2>3. CASE l.argument # 0
    <3>1. Shift(l.argument, g) \in Nat /\ Shift(l.argument, g) <= 5
      BY <1>a, <1>2, <2>1, ShiftType DEF InRange
    <3>2. Shift(l.argument, g) = l.argument
      BY <1>a, <1>2, <2>3, <3>1, ShiftSmall
    <3> QED
      BY <2>1, <3>1, <3>2 DEF InRange
  <2> QED
    BY <2>2, <2>3
<1>3. CASE l.argument # NoArgument /\ l.garbage \notin {0, 32}
  <2>1. DecodeInt(l, g) = IF l.garbage \in 48 .. 57 THEN Shift(Shift(l.argument, l.garbage), g)
                                                    ELSE l.argument
    BY <1>3 DEF DecodeInt
  <2>2. CASE l.garbage \notin 48 .. 57
    <3>1. DecodeInt(l, g) = l.argument
      BY <2>1, <2>2
    <3> QED
      BY <1>a, <1>3, <3>1 DEF InRange
  <2>3. CASE l.garbage \in 48 .. 57 /\ l.argument # 0
    <3>1. Shift(l.argument, l.garbage) > 5 /\ Shift(l.argument, l.garbage) \in Nat
      <4>1. Shift(l.argument, l.garbage) = 10 * l.argument + (l.garbage - 48)
        BY <2>3 DEF Shift
      <4> QED
        BY <1>a, <1>3, <2>3, <4>1
    <3>2. Shift(Shift(l.argument, l.garbage), g) > 5
      BY <3>1, ShiftType, ShiftSmall
    <3> QED
      BY <2>1, <2>3, <3>2, <3>1, ShiftType DEF InRange
  <2>4. CASE l.garbage \in 48 .. 57 /\ l.argument = 0
    BY <1>0, <2>1, <2>4, ShiftType DEF InRange
  <2> QED
    BY <2>2, <2>3, <2>4
<1> QED
  BY <1>1, <1>2, <1>3

LEMMA Lookups ==
    ASSUME TypeOK, NEW u \in Users
    PROVE  line[u] \in Line /\ number[u] \in Int /\ field[u] \in Fields /\ NoLine \in Line
  BY ArgumentsAssumption DEF TypeOK, Line, NoLine, Characters

-----------------------------------------------------------------------------
(* Types *)

LEMMA FinishTypes ==
    ASSUME TypeOK, NEW u \in Users, Finish(u)
    PROVE  /\ pc' \in [Users -> {"idle", "chat", "set", "send", "broadcast", "upgrade", "banmap"}]
           /\ line' \in [Users -> Line]
           /\ number' \in [Users -> Int]
  BY Lookups DEF TypeOK, Finish, Goto

LEMMA CaughtTypes ==
    ASSUME TypeOK, NEW u \in Users, Caught(u)
    PROVE  Finish(u) /\ waiting' \in [Users -> BOOLEAN]
  BY DEF TypeOK, Caught, Enable

LEMMA MarkTypes ==
    ASSUME TypeOK, NEW u \in Users, NEW e \in {"said", "executed", "refused", "threw"}, Mark(u, e)
    PROVE  fate' \in [Users -> SUBSET {"said", "executed", "refused", "threw"}]
  BY DEF TypeOK, Mark

LEMMA TransferTypes ==
    ASSUME TypeOK, NEW u \in Users, NEW target \in Fields, Transfer(u, target)
    PROVE  /\ Finish(u) /\ waiting' \in [Users -> BOOLEAN]
           /\ field' \in [Users -> Fields]
  BY CaughtTypes DEF TypeOK, Transfer, PostTransferField

LEMMA TypeStep ==
    ASSUME Inv, NEW u \in Users, StepOf(u)
    PROVE  TypeOK'
<1> USE DEF Inv
<1>0. line[u] \in Line /\ number[u] \in Int /\ field[u] \in Fields
  BY Lookups
<1>1. ASSUME NEW l \in Lines, Chat(u, l) PROVE TypeOK'
  <2>1. l \in Line
    BY ArgumentsAssumption, GarbageAssumption DEF Lines, Line, Digits
  <2> QED
    BY <1>1, <2>1 DEF Chat, Ask, Goto, TypeOK
<1>2. CASE AskUpgrade(u) \/ AskBanMap(u) \/ UseRoom(u)
  <2>1. CASE AskUpgrade(u)
    BY <2>1 DEF AskUpgrade, Ask, Goto, TypeOK
  <2>2. CASE AskBanMap(u)
    BY <2>2 DEF AskBanMap, Ask, Goto, TypeOK
  <2>3. CASE UseRoom(u)
    <3>1. room' \in [Users -> BOOLEAN]
      BY <2>3 DEF UseRoom, TypeOK
    <3> QED
      BY <2>3, <3>1 DEF UseRoom, Ask, TypeOK
  <2> QED
    BY <1>2, <2>1, <2>2, <2>3
<1>3. CASE OnChat(u)
  <2>1. CASE Original(u) \/ DecodingThrows(u)
    BY <1>3, <2>1, FinishTypes, MarkTypes, CaughtTypes DEF OnChat, Original, DecodingThrows, TypeOK
  <2>2. CASE MapCommand(u)
    <3>1. "market" \in Fields /\ "gmap" \in Fields
      BY DEF Fields
    <3> QED
      BY <1>3, <2>2, <3>1, FinishTypes, MarkTypes, TransferTypes DEF OnChat, MapCommand, TypeOK
  <2>3. CASE ReloadScripts(u) \/ RefuseArgument(u)
    BY <1>3, <2>3, FinishTypes, MarkTypes, CaughtTypes
       DEF OnChat, ReloadScripts, RefuseArgument, TypeOK
  <2>4. ASSUME NEW g \in Garbage, ParseRate(u, g) PROVE TypeOK'
    <3> DEFINE n == DecodeInt(line[u], g)
    <3>1. CASE InRange(n)
      <4>1. n \in Int
        BY <1>0, <3>1, DecodeIntIsTyped, GarbageAssumption
      <4> QED
        BY <1>3, <2>4, <3>1, <4>1 DEF OnChat, ParseRate, Goto, TypeOK
    <3>2. CASE ~InRange(n)
      BY <1>3, <2>4, <3>2, FinishTypes, MarkTypes, CaughtTypes DEF OnChat, ParseRate, TypeOK
    <3> QED
      BY <3>1, <3>2
  <2> QED
    BY <1>3, <2>1, <2>2, <2>3, <2>4 DEF OnChat
<1>4. CASE SetRate(u)
  <2>1. number[u] \in 1 .. 5 /\ line[u].text \in Kinds
    BY <1>4 DEF SetRate, NumberInv, Rating
  <2> QED
    BY <1>4, <2>1, MarkTypes DEF SetRate, Goto, TypeOK
<1>5. CASE SendText(u)
  BY <1>5 DEF SendText, Goto, TypeOK
<1>6. CASE Broadcast(u)
  <2>1. number[u] \in 0 .. 5 /\ line[u].text \in Kinds
    BY <1>6 DEF Broadcast, NumberInv, Rating
  <2> QED
    BY <1>6, <2>1, FinishTypes DEF Broadcast, TypeOK
<1>7. CASE RateCommandThrows(u)
  <2>1. line[u].text \in Kinds
    BY <1>7 DEF RateCommandThrows, NumberInv, Rating
  <2> QED
    BY <1>7, <2>1, FinishTypes, MarkTypes, CaughtTypes DEF RateCommandThrows, TypeOK
<1>8. CASE OnUpgradeItemRequest(u)
  BY <1>8, FinishTypes, CaughtTypes DEF OnUpgradeItemRequest, Enable, TypeOK
<1>9. CASE OnBanMapByMob(u)
  <2>1. GetForcedReturnFieldId(field[u]) \in Fields
    BY <1>0 DEF GetForcedReturnFieldId, ForcedReturn, ReturnMap, Fields, NoField
  <2> QED
    BY <1>9, <2>1, FinishTypes, TransferTypes DEF OnBanMapByMob, TypeOK
<1> QED
  BY <1>1, <1>2, <1>3, <1>4, <1>5, <1>6, <1>7, <1>8, <1>9 DEF StepOf, Handle

-----------------------------------------------------------------------------
(* Commands *)

LEMMA FinishEffect ==
    ASSUME TypeOK, NEW u \in Users, Finish(u)
    PROVE  /\ pc'[u] = "idle"
           /\ \A v \in Users \ {u} : pc'[v] = pc[v] /\ line'[v] = line[v] /\ number'[v] = number[v]
  BY DEF TypeOK, Finish, Goto

LEMMA MarkEffect ==
    ASSUME TypeOK, NEW u \in Users, NEW e, Mark(u, e)
    PROVE  fate'[u] = fate[u] \cup {e} /\ \A v \in Users \ {u} : fate'[v] = fate[v]
  BY DEF TypeOK, Mark

\* A transfer moves nobody but u, and nobody out of a mini room.
LEMMA TransferEffect ==
    ASSUME TypeOK, NEW u \in Users, NEW target \in Fields, Transfer(u, target)
    PROVE  /\ Finish(u)
           /\ \A v \in Users \ {u} : field'[v] = field[v]
           /\ room[u] => field' = field
  BY DEF TypeOK, Transfer, PostTransferField, Caught

\* How OnChat ends: the line goes to the handler, is lost, is taken and over, or its number
\* is found.
Said(u) ==
    /\ Original(u)
    /\ \/ u \notin Admins
       \/ /\ line[u].text \notin Kinds
          /\ \A text \in Whole : ~IsCommand(line[u], text)

Taken(u) ==
    /\ u \in Admins /\ line[u].text # "talk"
    /\ Finish(u)
    /\ Mark(u, "executed") \/ Mark(u, "refused")
    /\ \A v \in Users \ {u} : field'[v] = field[v]
    /\ room[u] => field' = field
    /\ UNCHANGED <<rate, announced, upset>>

Parsed(u) ==
    /\ u \in Admins /\ line[u].text \in Kinds
    /\ pc' = [pc EXCEPT ![u] = "set"]
    /\ \E n \in 1 .. 5 : /\ number' = [number EXCEPT ![u] = n]
                         /\ line[u].argument \in {n, 0, NoArgument}
    /\ UNCHANGED <<line, fate, rate, announced, upset, field>>

LEMMA ChatEnds ==
    ASSUME TypeOK, NEW u \in Users, OnChat(u)
    PROVE  Said(u) \/ DecodingThrows(u) \/ Taken(u) \/ Parsed(u)
<1>0. line[u] \in Line /\ "talk" \notin Kinds /\ "talk" \notin Whole
  BY Lookups DEF Kinds, Whole
<1>1. CASE Original(u) /\ ~(u \in Admins /\ ((\E text \in Whole : IsCommand(line[u], text))
                                              \/ line[u].text \in Kinds))
  BY <1>1 DEF Said
<1>2. ASSUME u \in Admins, MapCommand(u) PROVE Taken(u)
  <2>1. "market" \in Fields /\ "gmap" \in Fields /\ line[u].text # "talk"
    BY <1>2 DEF Fields, MapCommand, IsCommand
  <2>2. \E target \in Fields : Transfer(u, target)
    BY <1>2, <2>1 DEF MapCommand
  <2> QED
    BY <1>2, <2>1, <2>2, TransferEffect DEF MapCommand, Taken
<1>3. ASSUME u \in Admins, ReloadScripts(u) PROVE Taken(u)
  BY <1>3 DEF ReloadScripts, IsCommand, Caught, Taken
<1>4. ASSUME u \in Admins, line[u].text \in Kinds, RefuseArgument(u) PROVE Taken(u)
  BY <1>0, <1>4 DEF RefuseArgument, Caught, Taken
<1>5. ASSUME u \in Admins, line[u].text \in Kinds, NEW g \in Garbage, ParseRate(u, g)
      PROVE  Taken(u) \/ Parsed(u)
  <2> DEFINE n == DecodeInt(line[u], g)
  <2>1. CASE InRange(n)
    <3>1. n \in 1 .. 5 /\ line[u].argument \in {n, 0, NoArgument}
      BY <1>0, <2>1, DecodeIntIsTyped, GarbageAssumption
    <3> QED
      BY <1>5, <2>1, <3>1 DEF ParseRate, Goto, Parsed
  <2>2. CASE ~InRange(n)
    BY <1>0, <1>5, <2>2 DEF ParseRate, Caught, Taken
  <2> QED
    BY <2>1, <2>2
<1> QED
  BY <1>1, <1>2, <1>3, <1>4, <1>5 DEF OnChat

LEMMA StepOthersStay ==
    ASSUME TypeOK, NEW u \in Users, StepOf(u)
    PROVE  OthersStay(u)
<1> USE DEF OthersStay
<1>0. field[u] \in Fields
  BY Lookups
<1>1. CASE (\E l \in Lines : Chat(u, l)) \/ AskUpgrade(u) \/ AskBanMap(u) \/ UseRoom(u)
  BY <1>1 DEF Chat, AskUpgrade, AskBanMap, UseRoom, Ask, Goto, TypeOK
<1>2. CASE OnChat(u)
  BY <1>2, ChatEnds, FinishEffect, MarkEffect
     DEF Said, Original, DecodingThrows, Caught, Taken, Parsed, TypeOK
<1>3. CASE SetRate(u)
  BY <1>3, MarkEffect DEF SetRate, Goto, TypeOK
<1>4. CASE SendText(u)
  BY <1>4 DEF SendText, Goto, TypeOK
<1>5. CASE Broadcast(u)
  BY <1>5, FinishEffect DEF Broadcast
<1>6. CASE RateCommandThrows(u)
  BY <1>6, FinishEffect, MarkEffect DEF RateCommandThrows, Caught
<1>7. CASE OnUpgradeItemRequest(u)
  BY <1>7, FinishEffect DEF OnUpgradeItemRequest, Caught
<1>8. CASE OnBanMapByMob(u)
  <2>1. GetForcedReturnFieldId(field[u]) \in Fields
    BY <1>0 DEF GetForcedReturnFieldId, ForcedReturn, ReturnMap, Fields, NoField
  <2> QED
    BY <1>8, <2>1, FinishEffect, TransferEffect DEF OnBanMapByMob
<1> QED
  BY <1>1, <1>2, <1>3, <1>4, <1>5, <1>6, <1>7, <1>8 DEF StepOf, Handle

\* The number and the fate of a line, as far as its command has come.
LEMMA CommandStep ==
    ASSUME Inv, NEW u \in Users, StepOf(u)
    PROVE  (NumberInv /\ FateInv)'
<1> USE DEF Inv
<1> DEFINE At == /\ pc'[u] \in Rating => /\ u \in Admins /\ line'[u].text \in Kinds /\ number'[u] \in 1 .. 5
                                         /\ line'[u].argument \in {number'[u], 0, NoArgument}
                 /\ pc'[u] \in {"chat", "set"} => fate'[u] = {}
                 /\ pc'[u] \in {"send", "broadcast"} => fate'[u] = {"executed"}
<1>0. /\ OthersStay(u)
      /\ pc[u] \in Rating => /\ u \in Admins /\ line[u].text \in Kinds /\ number[u] \in 1 .. 5
                             /\ line[u].argument \in {number[u], 0, NoArgument}
      /\ pc[u] \in {"chat", "set"} => fate[u] = {}
      /\ pc[u] \in {"send", "broadcast"} => fate[u] = {"executed"}
  BY StepOthersStay DEF NumberInv, FateInv
<1> SUFFICES At
  BY <1>0 DEF OthersStay, NumberInv, FateInv
<1>1. CASE pc'[u] \notin {"chat", "set", "send", "broadcast"}
  BY <1>1 DEF Rating
<1>2. ASSUME NEW l \in Lines, Chat(u, l) PROVE At
  BY <1>2 DEF Chat, Goto, Rating, TypeOK
<1>3. CASE AskUpgrade(u) \/ AskBanMap(u)
  BY <1>1, <1>3 DEF AskUpgrade, AskBanMap, Goto, TypeOK
<1>4. CASE UseRoom(u)
  BY <1>1, <1>4 DEF UseRoom, Ask, TypeOK
<1>5. CASE OnChat(u)
  <2>1. CASE Said(u) \/ DecodingThrows(u) \/ Taken(u)
    BY <1>1, <2>1, FinishEffect DEF Said, Original, DecodingThrows, Caught, Taken
  <2>2. CASE Parsed(u)
    BY <1>0, <1>5, <2>2 DEF Parsed, OnChat, Rating, TypeOK
  <2> QED
    BY <1>5, <2>1, <2>2, ChatEnds
<1>6. CASE SetRate(u)
  <2>1. fate'[u] = {"executed"}
    BY <1>0, <1>6, MarkEffect DEF SetRate
  <2> QED
    BY <1>0, <1>6, <2>1 DEF SetRate, Goto, Rating, TypeOK
<1>7. CASE SendText(u)
  BY <1>0, <1>7 DEF SendText, Goto, Rating, TypeOK
<1>8. CASE Broadcast(u) \/ RateCommandThrows(u) \/ OnUpgradeItemRequest(u)
  BY <1>1, <1>8, FinishEffect DEF Broadcast, RateCommandThrows, OnUpgradeItemRequest, Caught
<1>9. CASE OnBanMapByMob(u)
  BY <1>1, <1>9, FinishEffect DEF OnBanMapByMob, Transfer, Caught
<1> QED
  BY <1>2, <1>3, <1>4, <1>5, <1>6, <1>7, <1>8, <1>9 DEF StepOf, Handle

LEMMA InvInit == Init => Inv
<1> SUFFICES ASSUME Init PROVE Inv
  OBVIOUS
<1>1. NoLine \in Line
  BY ArgumentsAssumption DEF NoLine, Line, Characters
<1>2. TypeOK
  BY <1>1, RatesAssumption, StartAssumption DEF Init, TypeOK
<1> QED
  BY <1>2 DEF Init, Inv, NumberInv, FateInv, Rating

LEMMA InvStep == Inv /\ [Next]_vars => Inv'
<1>1. ASSUME Inv, NEW u \in Users, StepOf(u) PROVE Inv'
  BY <1>1, TypeStep, CommandStep DEF Inv
<1>2. Inv /\ UNCHANGED vars => Inv'
  BY DEF vars, Inv, TypeOK, NumberInv, FateInv, Rating
<1> QED
  BY <1>1, <1>2 DEF Next, StepOf

THEOREM CommandInvariant == Spec => []Inv
  BY InvInit, InvStep, PTL DEF Spec

\* All types hold; among them, that no rate in force leaves 1 .. 5.
THEOREM TypeCorrect == Spec => []TypeOK
<1>1. Inv => TypeOK
  BY DEF Inv
<1> QED
  BY <1>1, CommandInvariant, PTL

-----------------------------------------------------------------------------
(* LinesHandledOnce *)

\* OnChat (CUser.cpp:82-95): a line is handed to the original handler or taken as a command,
\* never both, whatever garbage follows it and whatever throws; a user's is handed on in any
\* case, and an administrator's is lost only to an exception.
THEOREM EveryLineHandledOnce == Spec => LinesHandledOnce
<1> DEFINE Once(u) ==
      pc[u] \in {"chat", "set", "send", "broadcast"} /\ pc'[u] = "idle" =>
          /\ fate'[u] # {}
          /\ "said" \in fate'[u] => fate'[u] = {"said"}
          /\ u \notin Admins => fate'[u] = {"said"}
          /\ line[u].text = "talk" => fate'[u] \in {{"said"}, {"threw"}}
          /\ line[u].text # "talk" /\ u \in Admins /\ "said" \in fate'[u]
                 => line[u].garbage # 0 /\ line[u].text \in Whole
<1>1. ASSUME Inv, NEW v \in Users, StepOf(v), NEW u \in Users PROVE Once(u)
  <2> SUFFICES ASSUME pc[u] \in {"chat", "set", "send", "broadcast"}, pc'[u] = "idle"
               PROVE  Once(u)
    OBVIOUS
  <2>0. /\ OthersStay(v) /\ line[u] \in Line
        /\ pc[u] \in Rating => u \in Admins /\ line[u].text \in Kinds
        /\ pc[u] \in {"chat", "set"} => fate[u] = {}
        /\ pc[u] \in {"send", "broadcast"} => fate[u] = {"executed"}
    BY <1>1, StepOthersStay, Lookups DEF Inv, NumberInv, FateInv
  <2>1. u = v
    BY <2>0 DEF OthersStay
  <2>2. ~((\E l \in Lines : Chat(v, l)) \/ AskUpgrade(v) \/ AskBanMap(v) \/ UseRoom(v))
    BY <2>1 DEF Chat, AskUpgrade, AskBanMap, UseRoom, Ask
  <2>3. CASE OnChat(v)
    <3>1. fate[u] = {}
      BY <2>0, <2>1, <2>3 DEF OnChat
    <3>2. CASE Said(v)
      <4>1. fate'[u] = {"said"}
        BY <1>1, <2>1, <3>1, <3>2, MarkEffect DEF Said, Original, Inv
      <4>2. line[u].text \in {"talk"} \cup Whole \cup Kinds /\ line[u].garbage \in Characters
        BY <2>0 DEF Line
      <4> QED
        BY <2>1, <3>2, <4>1, <4>2 DEF Said, IsCommand
    <3>3. CASE Taken(v)
      <4>1. fate'[u] \in {{"executed"}, {"refused"}}
        BY <1>1, <2>1, <3>1, <3>3, MarkEffect DEF Taken, Inv
      <4> QED
        BY <2>1, <3>3, <4>1 DEF Taken
    <3>4. CASE Parsed(v)
      BY <1>1, <2>1, <3>4 DEF Parsed, Inv, TypeOK
    <3>5. CASE DecodingThrows(v)
      <4>1. fate'[u] = {"threw"} /\ u \in Admins
        BY <1>1, <2>1, <3>1, <3>5, MarkEffect DEF DecodingThrows, Inv
      <4> QED
        BY <4>1
    <3> QED
      BY <1>1, <2>3, <3>2, <3>3, <3>4, <3>5, ChatEnds DEF Inv
  <2>4. CASE SetRate(v) \/ SendText(v)
    BY <1>1, <2>1, <2>4 DEF SetRate, SendText, Goto, Inv, TypeOK
  <2>5. CASE Broadcast(v)
    <3>1. fate'[u] = {"executed"} /\ u \in Admins /\ line[u].text # "talk"
      BY <2>0, <2>1, <2>5 DEF Broadcast, Rating, Kinds
    <3> QED
      BY <3>1
  <2>6. CASE RateCommandThrows(v)
    <3>1. fate'[u] \in {{"threw"}, {"executed", "threw"}} /\ u \in Admins /\ line[u].text # "talk"
      BY <1>1, <2>0, <2>1, <2>6, MarkEffect DEF RateCommandThrows, Rating, Kinds, Inv
    <3> QED
      BY <3>1
  <2>7. ~(OnUpgradeItemRequest(v) \/ OnBanMapByMob(v))
    BY <2>1 DEF OnUpgradeItemRequest, OnBanMapByMob
  <2> QED
    BY <1>1, <2>2, <2>3, <2>4, <2>5, <2>6, <2>7 DEF StepOf, Handle
<1>2. Inv /\ [Next]_vars => [\A u \in Users : Once(u)]_vars
  BY <1>1 DEF Next, StepOf
<1> QED
  BY <1>2, CommandInvariant, PTL DEF Spec, LinesHandledOnce

-----------------------------------------------------------------------------
(* ChangesAllowed *)

\* onAdminCommand and PostTransferField (CommandParser.cpp:55-69, CUser.cpp:68-75): a rate
\* changes to the digit an administrator typed, and nobody is taken out of a mini room or to
\* the field 999999999, whatever is read from unwritten memory.
THEOREM OnlyAllowedChanges == Spec => ChangesAllowed
<1>1. ASSUME Inv, NEW v \in Users, StepOf(v) PROVE RateIsTyped
  <2>1. CASE SetRate(v)
    <3>1. /\ v \in Admins /\ line[v].text \in Kinds /\ number[v] \in 1 .. 5
          /\ line[v].argument \in {number[v], 0, NoArgument}
      BY <1>1, <2>1 DEF SetRate, Inv, NumberInv, Rating
    <3>2. \A k \in Kinds : rate'[k] = IF k = line[v].text THEN number[v] ELSE rate[k]
      BY <1>1, <2>1, <3>1 DEF SetRate, Inv, TypeOK
    <3> QED
      BY <3>1, <3>2 DEF RateIsTyped
  <2>2. CASE ~SetRate(v)
    <3>1. OnChat(v) => rate' = rate
      BY <1>1, ChatEnds DEF Said, Original, DecodingThrows, Taken, Parsed, Inv
    <3>2. rate' = rate
      BY <1>1, <2>2, <3>1
         DEF StepOf, Handle, Chat, AskUpgrade, AskBanMap, UseRoom, SendText, Broadcast,
             RateCommandThrows, OnUpgradeItemRequest, OnBanMapByMob
    <3> QED
      BY <3>2 DEF RateIsTyped
  <2> QED
    BY <2>1, <2>2
<1>2. ASSUME Inv, NEW v \in Users, StepOf(v) PROVE TransferAllowed
  <2>0. OthersStay(v) /\ TypeOK'
    BY <1>1, <1>2, StepOthersStay, TypeStep DEF Inv
  <2>1. room[v] => field'[v] = field[v]
    <3>1. OnChat(v) => (room[v] => field'[v] = field[v])
      BY <1>2, ChatEnds DEF Said, Original, DecodingThrows, Taken, Parsed, Inv
    <3>2. OnBanMapByMob(v) => (room[v] => field'[v] = field[v])
      <4>1. GetForcedReturnFieldId(field[v]) \in Fields
        BY <1>2, Lookups DEF GetForcedReturnFieldId, ForcedReturn, ReturnMap, Fields, NoField, Inv
      <4> QED
        BY <1>2, <4>1, TransferEffect DEF OnBanMapByMob, Inv
    <3> QED
      BY <1>2, <3>1, <3>2
         DEF StepOf, Handle, Chat, AskUpgrade, AskBanMap, UseRoom, SetRate, SendText, Broadcast,
             RateCommandThrows, OnUpgradeItemRequest
  <2> QED
    BY <2>0, <2>1 DEF OthersStay, TransferAllowed, TypeOK
<1>3. Inv /\ [Next]_vars => [RateIsTyped /\ TransferAllowed]_vars
  BY <1>1, <1>2 DEF Next, StepOf
<1> QED
  BY <1>3, CommandInvariant, PTL DEF Spec, ChangesAllowed

-----------------------------------------------------------------------------
(* AnnouncedRateInForce *)

LEMMA RateStep ==
    ASSUME Inv, RateInv, AnnouncedRateInForce, NEW u \in Users, StepOf(u)
    PROVE  (RateInv /\ AnnouncedRateInForce)'
<1> USE DEF Inv
<1>0. /\ OthersStay(u)
      /\ pc[u] \in Rating => line[u].text \in Kinds /\ number[u] \in 1 .. 5
      /\ rate \in [Kinds -> 1 .. 5] /\ announced \in [Kinds -> 0 .. 5]
      /\ pc \in [Users -> {"idle", "chat", "set", "send", "broadcast", "upgrade", "banmap"}]
      /\ upset \subseteq Kinds
  BY StepOthersStay DEF NumberInv, TypeOK
<1>1. \A v \in Users \ {u}, k \in Kinds : Underway(v, k)' <=> Underway(v, k)
  BY <1>0 DEF OthersStay, Underway
<1>2. CASE UNCHANGED <<rate, announced, upset>> /\ (\A k \in Kinds : Underway(u, k)' <=> Underway(u, k))
           /\ number'[u] = number[u]
  BY <1>0, <1>1, <1>2 DEF OthersStay, RateInv, AnnouncedRateInForce
<1>3. CASE UNCHANGED <<rate, announced, upset>> /\ (\A k \in Kinds : ~Underway(u, k)' /\ ~Underway(u, k))
  BY <1>0, <1>1, <1>3 DEF OthersStay, RateInv, AnnouncedRateInForce
<1>4. ASSUME NEW l \in Lines, Chat(u, l) PROVE (RateInv /\ AnnouncedRateInForce)'
  BY <1>0, <1>3, <1>4 DEF Chat, Ask, Goto, Underway
<1>5. CASE AskUpgrade(u) \/ AskBanMap(u)
  BY <1>0, <1>3, <1>5 DEF AskUpgrade, AskBanMap, Ask, Goto, Underway
<1>6. CASE UseRoom(u)
  BY <1>2, <1>6 DEF UseRoom, Ask, Underway
<1>7. CASE OnChat(u)
  <2>1. pc[u] = "chat"
    BY <1>7 DEF OnChat
  <2>2. Said(u) \/ DecodingThrows(u) \/ Taken(u)
           => pc'[u] = "idle" /\ UNCHANGED <<rate, announced, upset>>
    BY FinishEffect DEF Said, Original, DecodingThrows, Caught, Taken
  <2>3. Parsed(u) => pc'[u] = "set" /\ UNCHANGED <<rate, announced, upset>>
    BY <1>0 DEF Parsed
  <2> QED
    BY <1>3, <1>7, <2>1, <2>2, <2>3, ChatEnds DEF Underway
<1>8. CASE SetRate(u)
  <2> DEFINE k == line[u].text
  <2>1. k \in Kinds /\ pc[u] = "set" /\ pc'[u] = "send" /\ UNCHANGED <<line, number, announced>>
    BY <1>0, <1>8 DEF SetRate, Goto, Rating
  <2>2. \A j \in Kinds : Underway(u, j)' <=> j = k
    BY <2>1 DEF Underway
  <2>3. \A j \in Kinds : ~Underway(u, j)
    BY <2>1 DEF Underway
  <2>4. \A j \in Kinds : rate'[j] = IF j = k THEN number[u] ELSE rate[j]
    BY <1>0, <1>8, <2>1 DEF SetRate
  <2>5. /\ upset \subseteq upset'
        /\ k \notin upset' => \A v \in Users : ~Underway(v, k)
        /\ \A j \in Kinds \ {k} : j \in upset' => j \in upset
    BY <1>8, <2>1 DEF SetRate
  <2>6. RateInv'
    BY <1>1, <2>1, <2>2, <2>3, <2>4, <2>5 DEF RateInv
  <2>7. AnnouncedRateInForce'
    BY <1>1, <2>1, <2>2, <2>3, <2>4, <2>5 DEF AnnouncedRateInForce
  <2> QED
    BY <2>6, <2>7
<1>9. CASE SendText(u)
  <2>1. \A k \in Kinds : Underway(u, k)' <=> Underway(u, k)
    BY <1>0, <1>9 DEF SendText, Goto, Underway
  <2> QED
    BY <1>2, <1>9, <2>1 DEF SendText
<1>10. CASE Broadcast(u)
  <2> DEFINE k == line[u].text
  <2>1. k \in Kinds /\ pc'[u] = "idle" /\ UNCHANGED <<rate, upset>> /\ Underway(u, k)
    BY <1>0, <1>10, FinishEffect DEF Broadcast, Rating, Underway
  <2>2. \A j \in Kinds : ~Underway(u, j)' /\ (Underway(u, j) <=> j = k)
    BY <2>1, <1>10 DEF Underway, Broadcast
  <2>3. \A j \in Kinds : announced'[j] = IF j = k THEN number[u] ELSE announced[j]
    BY <1>0, <1>10, <2>1 DEF Broadcast
  <2>4. RateInv'
    BY <1>0, <1>1, <2>1, <2>2 DEF RateInv, OthersStay
  <2>5. AnnouncedRateInForce'
    BY <1>1, <2>1, <2>2, <2>3 DEF RateInv, AnnouncedRateInForce
  <2> QED
    BY <2>4, <2>5
<1>11. CASE RateCommandThrows(u)
  <2> DEFINE k == line[u].text
  <2>1. k \in Kinds /\ pc'[u] = "idle" /\ UNCHANGED <<rate, announced>> /\ upset \subseteq upset'
    BY <1>0, <1>11, FinishEffect DEF RateCommandThrows, Caught, Rating
  <2>2. \A j \in Kinds : ~Underway(u, j)' /\ (Underway(u, j) => j \in upset')
    BY <1>11, <2>1 DEF Underway, RateCommandThrows
  <2>3. RateInv'
    BY <1>0, <1>1, <2>1, <2>2 DEF RateInv, OthersStay
  <2>4. AnnouncedRateInForce'
    BY <1>1, <2>1, <2>2 DEF AnnouncedRateInForce
  <2> QED
    BY <2>3, <2>4
<1>12. CASE OnUpgradeItemRequest(u) \/ OnBanMapByMob(u)
  <2>1. Finish(u) /\ UNCHANGED <<rate, announced, upset>> /\ pc[u] \in {"upgrade", "banmap"}
    BY <1>12 DEF OnUpgradeItemRequest, OnBanMapByMob, Transfer, Caught
  <2> QED
    BY <1>3, <2>1, FinishEffect DEF Underway
<1> QED
  BY <1>4, <1>5, <1>6, <1>7, <1>8, <1>9, <1>10, <1>11, <1>12 DEF StepOf, Handle

\* The rate commands (CommandParser.cpp:64-78) set, send and broadcast without a lock: it
\* takes two of a kind at a time, or one that throws, to announce a rate that is not in force.
THEOREM AnnouncedRateAlwaysInForce == Spec => []AnnouncedRateInForce
<1>1. Init => RateInv /\ AnnouncedRateInForce
  BY DEF Init, RateInv, AnnouncedRateInForce, Underway
<1>2. Inv /\ RateInv /\ AnnouncedRateInForce /\ [Next]_vars => (RateInv /\ AnnouncedRateInForce)'
  <2>1. Inv /\ RateInv /\ AnnouncedRateInForce /\ UNCHANGED vars => (RateInv /\ AnnouncedRateInForce)'
    BY DEF vars, RateInv, AnnouncedRateInForce, Underway
  <2> QED
    BY <2>1, RateStep DEF Next, StepOf
<1> QED
  BY <1>1, <1>2, CommandInvariant, PTL DEF Spec
=============================================================================
