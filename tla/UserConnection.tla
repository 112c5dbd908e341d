--------------------------- MODULE UserConnection ---------------------------
(***************************************************************************)
(* The session lock of the server: table UserConnection.dbo.Connections,   *)
(* the procedures that read and write it, and GlobalAccount.CheckPassword, *)
(* which refuses a login while the account has a row there.                *)
(*                                                                         *)
(* Connections has neither a key nor a unique index, and TrySetUserConnect *)
(* counts the account's rows BEFORE it opens its transaction.  A call is   *)
(* therefore two steps here (CountConnections, then one of Refuse and      *)
(* Connect), and the calls of several clients interleave between them.     *)
(* The transaction itself is one step: under READ COMMITTED its rows are   *)
(* locked until COMMIT, so nobody sees half of it.                         *)
(*                                                                         *)
(* The servers that call these procedures are binaries outside the         *)
(* repository.  A "client" is one login session held by such a server: it  *)
(* runs CheckPassword, then TrySetUserConnect, and SetUserDisconnect when  *)
(* it ends in an orderly way.                                              *)
(***************************************************************************)
EXTENDS Naturals, Sequences, FiniteSets

CONSTANTS
    AccountIDs,   \* keys of GlobalAccount.dbo.Account
    Clients,      \* login sessions the servers can hold at a time
    WorldIDs,     \* what the servers pass as @WorldID
    IPs,          \* what the servers pass as @IPInt
    WideIPs,      \* the members of IPs that do not fit the INT of ipIntToString
    None          \* SQL's NULL, and the absence of a call

ASSUME ClientsAssumption == IsFiniteSet(Clients) /\ Cardinality(Clients) <= 255
ASSUME IPsAssumption == WideIPs \subseteq IPs
ASSUME NoneAssumption ==
    /\ None \notin AccountIDs
    /\ None \notin WorldIDs
    /\ None \notin IPs
    /\ None \notin Nat

VARIABLES
    connections,  \* account -> its rows of Connections, in the order of insertion
    currentIP,    \* Account.CurrentIP
    isBanned,     \* Account.IsBanned > 0
    pc,           \* where the client's session stands
    call,         \* the client's parameters and the locals of its procedure
    overlapped    \* history: accounts for which two TrySetUserConnect calls overlapped

tables == <<connections, currentIP, isBanned>>
vars == <<connections, currentIP, isBanned, pc, call, overlapped>>

-----------------------------------------------------------------------------
(* Types *)

PCs == {"offline", "account_read", "authenticated", "counted", "online"}

TinyInt == 0 .. 255

Row == [world : WorldIDs, ip : IPs \ WideIPs]

Call == [account : AccountIDs \cup {None},
         banned  : BOOLEAN,
         world   : WorldIDs \cup {None},
         ip      : IPs \cup {None},
         already : TinyInt \cup {None}]

NoCall == [account |-> None, banned |-> FALSE, world |-> None, ip |-> None,
           already |-> None]

TypeOK ==
    /\ connections \in [AccountIDs -> Seq(Row)]
    /\ currentIP \in [AccountIDs -> (IPs \ WideIPs) \cup {None}]
    /\ isBanned \in [AccountIDs -> BOOLEAN]
    /\ pc \in [Clients -> PCs]
    /\ call \in [Clients -> Call]
    /\ overlapped \subseteq AccountIDs

-----------------------------------------------------------------------------
(* Helpers *)

\* COUNT(*) assigned to a tinyint: past 255 the assignment fails and the variable
\* stays NULL.
CountRows(a) ==
    IF Len(connections[a]) \in TinyInt THEN Len(connections[a]) ELSE None

\* IF (@AlreadyConnected >= 1): unknown, hence not taken, when it is NULL.
AtLeastOne(count) == count # None /\ count >= 1

CheckUserConnected(a) == IF AtLeastOne(CountRows(a)) THEN 1 ELSE 0

\* SELECT @World = ChannelID ...: NULL without a row, the last row's with several.
\* The character list of an account is the list of its characters in this world.
CharacterListWorld(a) ==
    IF connections[a] = <<>> THEN None ELSE connections[a][Len(connections[a])].world

Calling(a) == {c \in Clients : pc[c] = "counted" /\ call[c].account = a}

\* The calls on a that counted no row and are about to insert one.
Racing(a) == {c \in Calling(a) : ~AtLeastOne(call[c].already)}

\* The clients that may still add a row for a: CheckPassword let them in, or they race.
Entering(a) ==
    {c \in Clients : pc[c] = "authenticated" /\ call[c].account = a} \cup Racing(a)

Online(a) == {c \in Clients : pc[c] = "online" /\ call[c].account = a}

HangUp(c) ==
    /\ pc' = [pc EXCEPT ![c] = "offline"]
    /\ call' = [call EXCEPT ![c] = NoCall]

-----------------------------------------------------------------------------
(* Actions *)

Init ==
    /\ connections = [a \in AccountIDs |-> <<>>]
    /\ currentIP = [a \in AccountIDs |-> None]
    /\ isBanned = [a \in AccountIDs |-> FALSE]
    /\ pc = [c \in Clients |-> "offline"]
    /\ call = [c \in Clients |-> NoCall]
    /\ overlapped = {}

\* CheckPassword up to its SELECT from Account.  An unknown name is answered 5 and
\* changes nothing.
CheckPasswordReadAccount(c, a) ==
    /\ pc[c] = "offline"
    /\ pc' = [pc EXCEPT ![c] = "account_read"]
    /\ call' = [call EXCEPT ![c] = [NoCall EXCEPT !.account = a, !.banned = isBanned[a]]]
    /\ UNCHANGED <<tables, overlapped>>

\* Mutant of CheckPasswordAnswer: the early test of @Banned is dropped; the later one
\* compares with a value the SELECT never produced.
AnswerIgnoringBan(c, passwordMatches) ==
    IF connections[call[c].account] # <<>> THEN 7
    ELSE IF ~passwordMatches THEN 4
    ELSE 0

\* Mutant of CheckPasswordAnswer: the rows of Connections are not looked at.
AnswerIgnoringConnections(c, passwordMatches) ==
    IF call[c].banned THEN 2
    ELSE IF ~passwordMatches THEN 4
    ELSE 0

\* The answer of CheckPassword, from the row it read and the rows of Connections now.
CheckPasswordAnswer(c, passwordMatches) ==
    IF call[c].banned THEN 2
    ELSE IF connections[call[c].account] # <<>> THEN 7
    ELSE IF ~passwordMatches THEN 4
    ELSE 0

CheckPasswordFinish(c, passwordMatches) ==
    /\ pc[c] = "account_read"
    /\ IF CheckPasswordAnswer(c, passwordMatches) = 0
       THEN /\ pc' = [pc EXCEPT ![c] = "authenticated"]
            /\ call' = [call EXCEPT ![c] = [NoCall EXCEPT !.account = call[c].account]]
       ELSE HangUp(c)
    /\ UNCHANGED <<tables, overlapped>>

\* Mutant of CountConnections: the count is restricted to the rows of @WorldID.
CountConnectionsOfWorld(c, w, ip) ==
    LET a == call[c].account
        rows == SelectSeq(connections[a], LAMBDA r : r.world = w)
    IN  /\ pc[c] = "authenticated"
        /\ pc' = [pc EXCEPT ![c] = "counted"]
        /\ call' = [call EXCEPT ![c].world = w, ![c].ip = ip, ![c].already = Len(rows)]
        /\ overlapped' = IF Calling(a) # {} THEN overlapped \cup {a} ELSE overlapped
        /\ UNCHANGED tables

\* TrySetUserConnect: the SELECT COUNT, outside the transaction.
CountConnections(c, w, ip) ==
    LET a == call[c].account
    IN  /\ pc[c] = "authenticated"
        /\ pc' = [pc EXCEPT ![c] = "counted"]
        /\ call' = [call EXCEPT ![c] = [@ EXCEPT !.world = w, !.ip = ip,
                                                !.already = CountRows(a)]]
        /\ overlapped' = IF Calling(a) # {} THEN overlapped \cup {a} ELSE overlapped
        /\ UNCHANGED tables

\* TrySetUserConnect: the branch that returns 1.
Refuse(c) ==
    /\ pc[c] = "counted"
    /\ AtLeastOne(call[c].already)
    /\ HangUp(c)
    /\ UNCHANGED <<tables, overlapped>>

\* Mutant of Connect: @@ERROR is not looked at, so the failed statements count as done.
ConnectIgnoringErrors(c) ==
    LET a == call[c].account
        ip == call[c].ip
    IN  /\ pc[c] = "counted"
        /\ ~AtLeastOne(call[c].already)
        /\ currentIP' = [currentIP EXCEPT ![a] = ip]
        /\ connections' = [connections EXCEPT
                             ![a] = Append(@, [world |-> call[c].world, ip |-> ip])]
        /\ pc' = [pc EXCEPT ![c] = "online"]
        /\ call' = [call EXCEPT ![c] = [@ EXCEPT !.ip = None, !.already = None]]
        /\ UNCHANGED <<isBanned, overlapped>>

\* Mutant of Connect: the branch for a connected account prints and does not return.
ConnectAfterPrint(c) ==
    LET a == call[c].account
        ip == call[c].ip
    IN  /\ pc[c] = "counted"
        /\ IF ip \in WideIPs
           THEN /\ HangUp(c)
                /\ UNCHANGED <<connections, currentIP>>
           ELSE /\ currentIP' = [currentIP EXCEPT ![a] = ip]
                /\ connections' = [connections EXCEPT
                                     ![a] = Append(@, [world |-> call[c].world, ip |-> ip])]
                /\ pc' = [pc EXCEPT ![c] = "online"]
                /\ call' = [call EXCEPT ![c] = [@ EXCEPT !.ip = None, !.already = None]]
        /\ UNCHANGED <<isBanned, overlapped>>

\* TrySetUserConnect: the transaction.  For an address that does not fit, @IPStr is
\* NULL, the INSERT violates NOT NULL, and everything is rolled back.  It also resets
\* Character.CheckSum, which nothing reads.
Connect(c) ==
    LET a == call[c].account
        ip == call[c].ip
    IN  /\ pc[c] = "counted"
        /\ ~AtLeastOne(call[c].already)
        /\ IF ip \in WideIPs
           THEN /\ HangUp(c)
                /\ UNCHANGED <<connections, currentIP>>
           ELSE /\ currentIP' = [currentIP EXCEPT ![a] = ip]
                /\ connections' = [connections EXCEPT
                                     ![a] = Append(@, [world |-> call[c].world, ip |-> ip])]
                /\ pc' = [pc EXCEPT ![c] = "online"]
                /\ call' = [call EXCEPT ![c] = [@ EXCEPT !.ip = None, !.already = None]]
        /\ UNCHANGED <<isBanned, overlapped>>

\* Mutant of SetUserDisconnect: only one row, the newest, is deleted.
SetUserDisconnectTopOne(c) ==
    LET a == call[c].account
    IN  /\ pc[c] = "online"
        /\ connections' = [connections EXCEPT
                             ![a] = IF @ = <<>> THEN @ ELSE SubSeq(@, 1, Len(@) - 1)]
        /\ HangUp(c)
        /\ UNCHANGED <<currentIP, isBanned, overlapped>>

\* The session ends and its server calls SetUserDisconnect, which deletes every row
\* of the account, whoever inserted it.
SetUserDisconnect(c) ==
    /\ pc[c] = "online"
    /\ connections' = [connections EXCEPT ![call[c].account] = <<>>]
    /\ HangUp(c)
    /\ UNCHANGED <<currentIP, isBanned, overlapped>>

\* The server that holds the session dies: nobody calls SetUserDisconnect.
ServerLosesClient(c) ==
    /\ pc[c] # "offline"
    /\ HangUp(c)
    /\ UNCHANGED <<tables, overlapped>>

\* ClearWorldConnect deletes the rows of every world whatever its argument.  It runs
\* when the world starts, before it holds any session.
ClearWorldConnect ==
    /\ \A c \in Clients : pc[c] # "online"
    /\ connections' = [a \in AccountIDs |-> <<>>]
    /\ UNCHANGED <<currentIP, isBanned, pc, call, overlapped>>

\* The ban by character name of a game master: it sets IsBanned and appends to a log
\* nothing reads; the sessions of the account stay.
SetUserBlockedByCharacterName(a) ==
    /\ isBanned' = [isBanned EXCEPT ![a] = TRUE]
    /\ UNCHANGED <<connections, currentIP, pc, call, overlapped>>

Next ==
    \/ \E c \in Clients :
        \/ \E a \in AccountIDs : CheckPasswordReadAccount(c, a)
        \/ \E passwordMatches \in BOOLEAN : CheckPasswordFinish(c, passwordMatches)
        \/ \E w \in WorldIDs, ip \in IPs : CountConnections(c, w, ip)
        \/ Refuse(c)
        \/ Connect(c)
        \/ SetUserDisconnect(c)
        \/ ServerLosesClient(c)
    \/ ClearWorldConnect
    \/ \E a \in AccountIDs : SetUserBlockedByCharacterName(a)

Spec == Init /\ [][Next]_vars

-----------------------------------------------------------------------------
(* Properties *)

\* The clients that may still bring a to life although it is banned now: they read
\* its row before the ban, or CheckPassword has let them in already.
InFlight(a) ==
    {c \in Clients : /\ call[c].account = a
                     /\ \/ pc[c] = "account_read" /\ ~call[c].banned
                        \/ pc[c] \in {"authenticated", "counted"}}

\* The missing key lets duplicate rows in, but no more of them than there are clients:
\* every row, and every client that may still add one, is backed by a client of its own.
\* Hence COUNT(*) fits the tinyint @AlreadyConnected and never reads as NULL.
RowsBoundedByClients ==
    \A a \in AccountIDs :
        Len(connections[a]) + Cardinality(Entering(a)) <= Cardinality(Clients)

\* The table with all its columns: no row has a NULL address (TypeOK), and there are no more
\* rows than a tinyint can count.
TableSound == TypeOK /\ RowsBoundedByClients

\* TrySetUserConnect writes CurrentIP and the row in one transaction: while an account
\* has rows, CurrentIP is the address of the newest.
CurrentIPOfNewestRow ==
    \A a \in AccountIDs :
        connections[a] # <<>> => currentIP[a] = connections[a][Len(connections[a])].ip

\* The session lock, under the condition the code leaves to its callers.  As long as no
\* two TrySetUserConnect calls for an account have overlapped, the account has at most
\* one live session, CheckUserConnected sees it, and GetCharacterIdList lists the
\* characters of the world that session chose.
SessionLock ==
    \A a \in AccountIDs \ overlapped :
        \A c \in Online(a) :
            /\ Online(a) = {c}
            /\ Len(connections[a]) = 1
            /\ CheckUserConnected(a) = 1
            /\ CharacterListWorld(a) = call[c].world

\* A step of an account with a row for which no call is racing.
HeldLockStep(a) ==
    connections[a] # <<>> /\ Racing(a) = {} =>
        /\ connections'[a] \in {connections[a], <<>>}
        /\ Online(a)' \subseteq Online(a)

\* Once an account has a row, and no call that counted before it was inserted is still
\* under way, no step adds a row or a session: the lock holds even when the session that
\* took it has died, until a disconnect or ClearWorldConnect deletes it.
HeldLockAdmitsNobody == [][\A a \in AccountIDs : HeldLockStep(a)]_vars

\* A step of a banned account for which no login that read it before the ban is under way.
BannedStep(a) ==
    isBanned[a] /\ InFlight(a) = {} =>
        /\ isBanned'[a]
        /\ InFlight(a)' = {}
        /\ Online(a)' \subseteq Online(a)

\* A ban takes effect on every login that starts after it: when no login that read the
\* account before the ban is under way, none ever gets under way again and the account's
\* sessions only end.
BanClosesAccount == [][\A a \in AccountIDs : BannedStep(a)]_vars

\* What the documentation calls the "lock de sessao" of UserConnection: an account has
\* at most one live session.  The code does not ensure it.
SingleSession == \A a \in AccountIDs : Cardinality(Online(a)) <= 1
=============================================================================
