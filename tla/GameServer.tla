----------------------------- MODULE GameServer -----------------------------
(***************************************************************************)
(* The hooks of WvsGame: a user's packet runs through ProcessUserPacket,   *)
(* which catches what its handler throws, into OnChat with the commands of *)
(* administrators, OnUpgradeItemRequest or OnBanMapByMob.                  *)
(*                                                                         *)
(* Users are served by different threads, a user by one at a time.  The    *)
(* handlers use memory that nobody wrote: the constructor of a ZXString    *)
(* deletes the pointer it finds, a ZXString passed by value is deleted     *)
(* twice, DecodeStr writes behind the block it allocated, atoi reads on    *)
(* behind the number.  Each of these may go well, throw, or yield another  *)
(* number.  That the damage to the heap ends the process, at once or later *)
(* in the original code, is not modelled.                                  *)
(***************************************************************************)
EXTENDS Integers

CONSTANTS
    Users,
    Admins,     \* the users whose m_nGradeCode is odd
    Arguments,  \* what an administrator types behind !exp or !drop
    Garbage,    \* the characters that an unwritten byte may hold
    MaxRequests,  \* bound on the packets of all users
    Start,      \* user -> the field the user is in at first
    EXP_RATE, DROP_RATE,
    NoArgument    \* nothing was typed behind the command

Digits == 0 .. 9
Kinds == {"exp", "drop"}
Characters == 0 .. 255

ASSUME UsersAssumption == Admins \subseteq Users
ASSUME ArgumentsAssumption == Arguments \subseteq Digits /\ NoArgument = -1
ASSUME GarbageAssumption == Garbage \subseteq Characters
ASSUME RatesAssumption == EXP_RATE \in 1 .. 5 /\ DROP_RATE \in 1 .. 5 /\ MaxRequests \in Nat

VARIABLES
    rate,       \* kind -> the rate in force
    announced,  \* kind -> the rate that was broadcast last, 0 for none
    upset,      \* history: the kinds of which a command threw, or ran beside another one
    pc,         \* user -> what the user's thread is about to do
    line,       \* user -> the last chat line
    number,     \* user -> the rate the line asks for
    fate,       \* user -> what happened to the last line; said: the original handler got it
    requests,   \* number of packets so far
    room,       \* user -> whether m_pMiniRoom is set
    field,      \* user -> the field the user is in
    waiting     \* user -> whether the client waits to be enabled again

vars == <<rate, announced, upset, pc, line, number, fate, requests, room, field, waiting>>

-----------------------------------------------------------------------------
(* Data *)

\* A dungeon sends its users to the town by force; the other fields have no forced return but
\* a return map, which is the town again.
Fields == {"market", "gmap", "dungeon", "town"}
NoField == "999999999"

ForcedReturn(f) == IF f = "dungeon" THEN "town" ELSE NoField
ReturnMap(f) == IF f = "dungeon" THEN "market" ELSE "town"

\* Mutant of GetForcedReturnFieldId: 999999999 is taken for a field.
ForcedReturnOnly(f) == ForcedReturn(f)

GetForcedReturnFieldId(f) == IF ForcedReturn(f) = NoField THEN ReturnMap(f) ELSE ForcedReturn(f)

\* A line of chat: talk, a command that is compared as a whole, or one with an argument.
\* Its garbage is what DecodeStr left where the terminator belongs.
Whole == {"!fm", "!gmap", "!rs"}
ASSUME StartAssumption == Start \in [Users -> Fields]

Line == [text : {"talk"} \cup Whole \cup Kinds, argument : Digits \cup {NoArgument},
         garbage : Characters]

Lines == [text : {"talk"} \cup Whole, argument : {NoArgument}, garbage : Garbage]
         \cup [text : Kinds, argument : Arguments \cup {NoArgument}, garbage : Garbage]

NoLine == [text |-> "talk", argument |-> NoArgument, garbage |-> 0]

\* strcmp finds the command only if the string ends where it should.
IsCommand(l, text) == l.text = text /\ l.garbage = 0

\* Mutant of Shift: a further digit replaces the number.
ShiftOver(n, char) == IF char \in 48 .. 57 THEN char - 48 ELSE n

\* atoi goes on while there are digits.
Shift(n, char) == IF char \in 48 .. 57 THEN 10 * n + (char - 48) ELSE n

\* DecodeInt: behind the characters copied up to a space or to the end there is no
\* terminator, but g.  Without an argument what is read is garbage altogether.
DecodeInt(l, g) ==
    CASE l.argument = NoArgument                       -> Shift(0, g)
      [] l.argument # NoArgument /\ l.garbage \in {0, 32} -> Shift(l.argument, g)
      [] OTHER -> IF l.garbage \in 48 .. 57 THEN Shift(Shift(l.argument, l.garbage), g)
                                            ELSE l.argument

TypeOK ==
    /\ rate \in [Kinds -> 1 .. 5]
    /\ announced \in [Kinds -> 0 .. 5]
    /\ upset \subseteq Kinds
    /\ pc \in [Users -> {"idle", "chat", "set", "send", "broadcast", "upgrade", "banmap"}]
    /\ line \in [Users -> Line]
    /\ number \in [Users -> Int]
    /\ fate \in [Users -> SUBSET {"said", "executed", "refused", "threw"}]
    /\ requests \in Nat
    /\ room \in [Users -> BOOLEAN]
    /\ field \in [Users -> Fields]
    /\ waiting \in [Users -> BOOLEAN]

Init ==
    /\ rate = [k \in Kinds |-> IF k = "exp" THEN EXP_RATE ELSE DROP_RATE]
    /\ announced = [k \in Kinds |-> 0]
    /\ upset = {}
    /\ pc = [u \in Users |-> "idle"]
    /\ line = [u \in Users |-> NoLine]
    /\ number = [u \in Users |-> 0]
    /\ fate = [u \in Users |-> {}]
    /\ requests = 0
    /\ room = [u \in Users |-> FALSE]
    /\ field = Start
    /\ waiting = [u \in Users |-> FALSE]

Goto(u, where) == pc' = [pc EXCEPT ![u] = where]

\* The handler returns, and its locals are gone.
Finish(u) ==
    /\ Goto(u, "idle")
    /\ line' = [line EXCEPT ![u] = NoLine]
    /\ number' = [number EXCEPT ![u] = 0]

Mark(u, event) == fate' = [fate EXCEPT ![u] = @ \cup {event}]

-----------------------------------------------------------------------------
(* Clients *)

Ask(u) ==
    /\ pc[u] = "idle"
    /\ requests < MaxRequests
    /\ requests' = requests + 1

Chat(u, l) ==
    /\ Ask(u)
    /\ Goto(u, "chat")
    /\ line' = [line EXCEPT ![u] = l]
    /\ fate' = [fate EXCEPT ![u] = {}]
    /\ UNCHANGED <<rate, announced, upset, number, room, field, waiting>>

\* A request after which the client locks itself until it is enabled again.
AskUpgrade(u) ==
    /\ Ask(u)
    /\ Goto(u, "upgrade")
    /\ waiting' = [waiting EXCEPT ![u] = TRUE]
    /\ UNCHANGED <<rate, announced, upset, line, number, fate, room, field>>

AskBanMap(u) ==
    /\ Ask(u)
    /\ Goto(u, "banmap")
    /\ UNCHANGED <<rate, announced, upset, line, number, fate, room, field, waiting>>

\* A trade, shop or game that the user opens or leaves, handled by the original code.
UseRoom(u) ==
    /\ Ask(u)
    /\ room' = [room EXCEPT ![u] = ~@]
    /\ UNCHANGED <<rate, announced, upset, pc, line, number, fate, field, waiting>>

-----------------------------------------------------------------------------
(* ProcessUserPacket *)

Enable(u) == waiting' = [waiting EXCEPT ![u] = FALSE]

\* Mutant of Caught: the exception is logged only.
CaughtSilently(u) == Finish(u) /\ UNCHANGED waiting

\* The exception handler of ProcessUserPacket: SendCharacterStat enables the client.
Caught(u) == Finish(u) /\ Enable(u)

-----------------------------------------------------------------------------
(* OnChat *)

\* The original handler (external) gets the packet; it may throw as well.
Original(u) ==
    /\ Mark(u, "said")
    /\ Caught(u) \/ (Finish(u) /\ UNCHANGED waiting)
    /\ UNCHANGED <<rate, announced, upset, field>>

\* An administrator's packet is copied and its line decoded before anybody looks at it: the
\* copy into the block, the string behind it, or the first character of an empty string may
\* fail.
DecodingThrows(u) ==
    /\ u \in Admins
    /\ Mark(u, "threw")
    /\ Caught(u)
    /\ UNCHANGED <<rate, announced, upset, field>>

\* Mutant of PostTransferField: nobody looks at m_pMiniRoom.
PostTransferFieldAnyway(u, target) == field' = [field EXCEPT ![u] = target]

\* In a mini room the client only hears that the transfer is ignored.
PostTransferField(u, target) ==
    field' = IF room[u] THEN field ELSE [field EXCEPT ![u] = target]

\* A transfer, with the name of the portal constructed before and deleted twice after it.
Transfer(u, target) ==
    \/ UNCHANGED field /\ Caught(u)
    \/ PostTransferField(u, target) /\ Caught(u)
    \/ PostTransferField(u, target) /\ Finish(u) /\ UNCHANGED waiting

MapCommand(u) ==
    /\ \/ IsCommand(line[u], "!fm") /\ Transfer(u, "market")
       \/ IsCommand(line[u], "!gmap") /\ Transfer(u, "gmap")
    /\ Mark(u, "executed")
    /\ UNCHANGED <<rate, announced, upset>>

\* Every script is parsed, and one that throws is passed over; the texts may throw.
ReloadScripts(u) ==
    /\ IsCommand(line[u], "!rs")
    /\ Mark(u, "executed")
    /\ Caught(u) \/ (Finish(u) /\ UNCHANGED waiting)
    /\ UNCHANGED <<rate, announced, upset, field>>

\* Without an argument, the space that hasMoreCommand looks for may still be found in what
\* an earlier command left in memory.
RefuseArgument(u) ==
    /\ line[u].argument = NoArgument
    /\ Mark(u, "refused")
    /\ Caught(u) \/ (Finish(u) /\ UNCHANGED waiting)
    /\ UNCHANGED <<rate, announced, upset, field>>

\* Mutant of InRange: zero is a rate.
InRangeFromZero(n) == n >= 0 /\ n <= 5

InRange(n) == n > 0 /\ n <= 5

ParseRate(u, g) ==
    LET n == DecodeInt(line[u], g)
    IN  /\ \/ /\ InRange(n)
              /\ number' = [number EXCEPT ![u] = n]
              /\ Goto(u, "set")
              /\ UNCHANGED <<line, fate, waiting>>
           \/ /\ ~InRange(n)
              /\ Mark(u, "refused")
              /\ Caught(u) \/ (Finish(u) /\ UNCHANGED waiting)
        /\ UNCHANGED <<rate, announced, upset, field>>

\* Mutant of OnChat: the handler of the original runs in any case.
OnChatAndOriginal(u) ==
    /\ pc[u] = "chat"
    /\ \/ Original(u)
       \/ DecodingThrows(u)
       \/ u \in Admins /\ MapCommand(u)
       \/ u \in Admins /\ ReloadScripts(u)
       \/ u \in Admins /\ line[u].text \in Kinds /\ RefuseArgument(u)
       \/ u \in Admins /\ line[u].text \in Kinds /\ \E g \in Garbage : ParseRate(u, g)
    /\ UNCHANGED <<requests, room>>

\* What happens to the line: onAdminCommand, and the original handler if it did not take it.
OnChat(u) ==
    LET taken == /\ u \in Admins
                 /\ \/ \E text \in Whole : IsCommand(line[u], text)
                    \/ line[u].text \in Kinds
    IN  /\ pc[u] = "chat"
        /\ \/ DecodingThrows(u)
           \/ ~taken /\ Original(u)
           \/ /\ taken
              /\ \/ MapCommand(u)
                 \/ ReloadScripts(u)
                 \/ line[u].text \in Kinds /\ RefuseArgument(u)
                 \/ line[u].text \in Kinds /\ \E g \in Garbage : ParseRate(u, g)
        /\ UNCHANGED <<requests, room>>

\* The rate command has set a rate that it has not announced yet.
Underway(u, k) == line[u].text = k /\ pc[u] \in {"send", "broadcast"}

\* Mutant of SetRate: both commands set the rate of experience.
SetRateOfExp(u) ==
    /\ pc[u] = "set"
    /\ rate' = [rate EXCEPT !["exp"] = number[u]]
    /\ Mark(u, "executed")
    /\ Goto(u, "send")
    /\ UNCHANGED <<announced, upset, line, number, requests, room, field, waiting>>

SetRate(u) ==
    LET k == line[u].text
    IN  /\ pc[u] = "set"
        /\ rate' = [rate EXCEPT ![k] = number[u]]
        /\ upset' = IF \E v \in Users : Underway(v, k) THEN upset \cup {k} ELSE upset
        /\ Mark(u, "executed")
        /\ Goto(u, "send")
        /\ UNCHANGED <<announced, line, number, requests, room, field, waiting>>

\* SendText to the administrator, which the broadcast follows.
SendText(u) ==
    /\ pc[u] = "send"
    /\ Goto(u, "broadcast")
    /\ UNCHANGED <<rate, announced, upset, line, number, fate, requests, room, field, waiting>>

Broadcast(u) ==
    /\ pc[u] = "broadcast"
    /\ announced' = [announced EXCEPT ![line[u].text] = number[u]]
    /\ Finish(u)
    /\ UNCHANGED <<rate, upset, fate, requests, room, field, waiting>>

\* One of the strings of the command throws, before or after the rate is set.
RateCommandThrows(u) ==
    /\ pc[u] \in {"set", "send", "broadcast"}
    /\ upset' = IF pc[u] = "set" THEN upset ELSE upset \cup {line[u].text}
    /\ Mark(u, "threw")
    /\ Caught(u)
    /\ UNCHANGED <<rate, announced, requests, room, field>>

-----------------------------------------------------------------------------
(* OnUpgradeItemRequest and OnBanMapByMob *)

\* In a mini room and in Happy Ville a text and SendCharacterStat answer, otherwise the
\* original code does (external); either may throw.
OnUpgradeItemRequest(u) ==
    /\ pc[u] = "upgrade"
    /\ \/ Finish(u) /\ Enable(u)
       \/ Caught(u)
    /\ UNCHANGED <<rate, announced, upset, fate, requests, room, field>>

OnBanMapByMob(u) ==
    LET target == GetForcedReturnFieldId(field[u])
    IN  /\ pc[u] = "banmap"
        /\ \/ field[u] = target /\ Finish(u) /\ UNCHANGED <<field, waiting>>
           \/ field[u] # target /\ Transfer(u, target)
        /\ UNCHANGED <<rate, announced, upset, fate, requests, room>>

Handle(u) ==
    \/ OnChat(u)
    \/ SetRate(u)
    \/ SendText(u)
    \/ Broadcast(u)
    \/ RateCommandThrows(u)
    \/ OnUpgradeItemRequest(u)
    \/ OnBanMapByMob(u)

Next ==
    \E u \in Users :
        \/ \E l \in Lines : Chat(u, l)
        \/ AskUpgrade(u)
        \/ AskBanMap(u)
        \/ UseRoom(u)
        \/ Handle(u)

\* The threads that serve sockets keep running.
Fairness == \A u \in Users : WF_vars(Handle(u))

Spec == Init /\ [][Next]_vars /\ Fairness

-----------------------------------------------------------------------------
(* Properties *)

\* Once no command of a kind is under way, the rate that was broadcast last is the rate in
\* force, unless two administrators changed it at a time or a string threw in between: the
\* rate is set, sent and broadcast without a lock.
AnnouncedRateInForce ==
    \A k \in Kinds :
        announced[k] # 0 /\ k \notin upset /\ (\A u \in Users : ~Underway(u, k))
            => announced[k] = rate[k]

\* A line of chat goes to the original handler or is taken as a command, never both; only an
\* administrator's may get neither, when an exception ends it.  A user's line always reaches
\* the handler, and is never executed.  An administrator's talk is never taken as a command,
\* and his command reaches the handler only if garbage hides it from strcmp.
LinesHandledOnce ==
    [][\A u \in Users :
          pc[u] \in {"chat", "set", "send", "broadcast"} /\ pc'[u] = "idle" =>
              /\ fate'[u] # {}
              /\ "said" \in fate'[u] => fate'[u] = {"said"}
              /\ u \notin Admins => fate'[u] = {"said"}
              /\ line[u].text = "talk" => fate'[u] \in {{"said"}, {"threw"}}
              /\ line[u].text # "talk" /\ u \in Admins /\ "said" \in fate'[u]
                     => line[u].garbage # 0 /\ line[u].text \in Whole]_vars

\* A rate that takes effect is the digit that was typed, whatever atoi read behind it: a
\* second digit makes it too large.  Garbage decides only if nothing or zero was typed.
RateIsTyped ==
    \A k \in Kinds :
        rate'[k] # rate[k] =>
            /\ rate'[k] \in 1 .. 5
            /\ \E u \in Admins : /\ line[u].text = k
                                 /\ line[u].argument \in {rate'[k], 0, NoArgument}

\* Neither a command nor a mob takes a user out of a mini room or to the field 999999999.
TransferAllowed ==
    \A u \in Users : field'[u] # field[u] => ~room[u] /\ field'[u] \in Fields

\* What memory that nobody wrote may never lead to.
ChangesAllowed == [][RateIsTyped /\ TransferAllowed]_vars

\* A client that locked itself is enabled again, if a handler throws as well.
NobodyStaysBlocked == \A u \in Users : waiting[u] ~> ~waiting[u]
=============================================================================
