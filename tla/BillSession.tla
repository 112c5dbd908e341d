---------------------------- MODULE BillSession -----------------------------
(***************************************************************************)
(* The wire of the cash daemon: how WvsCashDeamon cuts the byte stream of  *)
(* a shop into BillPacks (Session.cs) and answers them (OnBillPack).       *)
(*                                                                         *)
(* TCP hands the bytes over in pieces of any size.  EndReceive adds every  *)
(* piece to _offset but takes the buffer for a BillPack only when the      *)
(* piece it has just got is a whole one, so a BillPack that comes in two   *)
(* pieces is never handled, and the receive that follows asks for zero     *)
(* bytes.  A byte is only counted: the i-th BillPack of a shop is the      *)
(* bytes (i - 1) * SIZE to i * SIZE - 1 of its stream.                     *)
(*                                                                         *)
(* The sessions' callbacks run on the threads of the pool and share two    *)
(* objects without a lock: the one SqlConnection of DatabaseConnection,    *)
(* which is opened at the start and never again, and the list              *)
(* Program.ConnectedShops.  Two callbacks that use one of them at the same *)
(* time leave it in no defined state, and an exception in a callback ends  *)
(* the process.  What the list holds is not modelled: it is only counted,  *)
(* for the title of the window.                                            *)
(*                                                                         *)
(* CashDaemon models what the answers do to the balances and assumes       *)
(* whole BillPacks; here the balances are left out.                        *)
(***************************************************************************)
EXTENDS Naturals, Sequences

CONSTANTS
    Sessions,   \* connections of shops, each used once
    SIZE,       \* BillPack.SIZE
    MaxSent     \* bound: session -> BillPacks its shop sends

ASSUME SIZEAssumption == SIZE \in Nat \ {0}
ASSUME MaxSentAssumption == MaxSent \in [Sessions -> Nat]

VARIABLES
    sent,      \* session -> what its shop has sent, in order
    taken,     \* session -> bytes EndReceive has got
    offset,    \* Session._offset
    loop,      \* where the session's receive loop stands
    served,    \* session -> where in the stream the BillPacks it handled began
    shop,      \* session -> what its shop has done with it
    cutOff,    \* history: sessions closed while the daemon had bytes of theirs to deal with
    broken,    \* the shared objects that may fail whoever uses them
    daemonUp

vars == <<sent, taken, offset, loop, served, shop, cutOff, broken, daemonUp>>

-----------------------------------------------------------------------------
(* Types *)

\* database: 0x0A for an account that exists, or 0x14.  no_account: 0x0A for an account that
\* does not exist, or either without a UserID.  plain: the database is not asked, for a
\* heartbeat, 0x1E, 0x28, and any other ReqType, which is only logged.
Requests == {"database", "no_account", "plain"}

\* none: not accepted yet.  querying: OnBillPack asks the database.  resuming: it answers, if
\* there is something to answer, and the next BeginReceive comes.  leaving: in OnDisconnect.
\* over: no receive is pending, and none will be.
Loops == {"none", "receiving", "querying", "resuming", "leaving", "over"}

\* closed: the shop closed its socket when it had read all that came.  reset: it died with
\* answers unread, an answer reached it after it closed, or the network gave up.
Shops == {"up", "closed", "reset"}

\* DatabaseConnection.INSTANCE and Program.ConnectedShops.
Shared == {"connection", "list"}

TypeOK ==
    /\ sent \in [Sessions -> Seq(Requests)]
    /\ taken \in [Sessions -> Nat]
    /\ offset \in [Sessions -> 0 .. SIZE]
    /\ loop \in [Sessions -> Loops]
    /\ served \in [Sessions -> Seq(Nat)]
    /\ shop \in [Sessions -> Shops]
    /\ cutOff \subseteq Sessions
    /\ broken \subseteq Shared
    /\ daemonUp \in BOOLEAN

-----------------------------------------------------------------------------
(* Helpers *)

Available(s) == SIZE * Len(sent[s]) - taken[s]

\* The BillPack being handled; its bytes are the last SIZE that were taken.
Current(s) == sent[s][taken[s] \div SIZE]

AsksDatabase(request) == request \in {"database", "no_account"}

\* A callback has bytes of the session in hand.
InHand(s) == loop[s] \in {"querying", "resuming"}

\* Something the shop sent is not dealt with yet.
Waiting(s) == InHand(s) \/ Available(s) > 0

\* Another session stands at the same place.
Meets(s, place) == \E t \in Sessions \ {s} : loop[t] = place

Goto(s, place) == loop' = [loop EXCEPT ![s] = place]

\* An exception in a callback ends the process, and every session with it.
DaemonDies ==
    /\ daemonUp' = FALSE
    /\ loop' = [s \in Sessions |-> "over"]
    /\ UNCHANGED <<sent, taken, offset, served, shop, cutOff, broken>>

-----------------------------------------------------------------------------
(* Actions *)

Init ==
    /\ sent = [s \in Sessions |-> <<>>]
    /\ taken = [s \in Sessions |-> 0]
    /\ offset = [s \in Sessions |-> 0]
    /\ loop = [s \in Sessions |-> "none"]
    /\ served = [s \in Sessions |-> <<>>]
    /\ shop = [s \in Sessions |-> "up"]
    /\ cutOff = {}
    /\ broken = {}
    /\ daemonUp = TRUE

\* AcceptSocket: the constructor lists the session and begins to receive.  On a socket
\* that is reset already it throws after it listed the session; AcceptSocket goes on.
\* Its Add may come in the middle of another session's Remove.
AcceptSocket(s) ==
    /\ daemonUp
    /\ loop[s] = "none"
    /\ \/ Goto(s, "receiving")
       \/ shop[s] = "reset" /\ Goto(s, "over")
    /\ broken' = IF Meets(s, "leaving") THEN broken \cup {"list"} ELSE broken
    /\ UNCHANGED <<sent, taken, offset, served, shop, cutOff, daemonUp>>

\* The shop sends a BillPack.
Send(s, request) ==
    /\ daemonUp
    /\ shop[s] = "up"
    /\ Len(sent[s]) < MaxSent[s]
    /\ sent' = [sent EXCEPT ![s] = Append(@, request)]
    /\ UNCHANGED <<taken, offset, loop, served, shop, cutOff, broken, daemonUp>>

ShopCloses(s) ==
    /\ daemonUp
    /\ shop[s] = "up"
    /\ shop' = [shop EXCEPT ![s] = "closed"]
    /\ cutOff' = IF Waiting(s) THEN cutOff \cup {s} ELSE cutOff
    /\ UNCHANGED <<sent, taken, offset, loop, served, broken, daemonUp>>

ConnectionResets(s) ==
    /\ daemonUp
    /\ shop[s] = "up"
    /\ shop' = [shop EXCEPT ![s] = "reset"]
    /\ UNCHANGED <<sent, taken, offset, loop, served, cutOff, broken, daemonUp>>

\* The database closes the connection, which nobody opens again, or fails a command on it: a
\* timeout, a deadlock, a balance that does not fit.
ConnectionLost ==
    /\ daemonUp
    /\ broken' = broken \cup {"connection"}
    /\ UNCHANGED <<sent, taken, offset, loop, served, shop, cutOff, daemonUp>>

\* Mutant of OnBillPack: a request that is not one for the database ends the loop.
OnBillPackStops(s, request) ==
    /\ Goto(s, IF AsksDatabase(request) THEN "querying" ELSE "over")
    /\ broken' = IF AsksDatabase(request) /\ Meets(s, "querying") THEN broken \cup {"connection"}
                                                                 ELSE broken

\* OnBillPack is called with a whole BillPack; a ReqType it does not know is only logged.
\* Its command may come while that of another session is under way on the same connection.
OnBillPack(s, request) ==
    /\ Goto(s, IF AsksDatabase(request) THEN "querying" ELSE "resuming")
    /\ broken' = IF AsksDatabase(request) /\ Meets(s, "querying") THEN broken \cup {"connection"}
                                                                 ELSE broken

\* Mutant of EndReceive: _offset is reset after every piece.
EndReceiveForgetful(s, n) ==
    /\ loop[s] = "receiving"
    /\ n <= SIZE - offset[s]
    /\ taken' = [taken EXCEPT ![s] = @ + n]
    /\ offset' = [offset EXCEPT ![s] = 0]
    /\ \/ /\ n = SIZE
          /\ served' = [served EXCEPT ![s] = Append(@, taken[s])]
          /\ OnBillPack(s, sent[s][taken'[s] \div SIZE])
       \/ n # SIZE /\ Goto(s, "resuming") /\ UNCHANGED <<served, broken>>
    /\ UNCHANGED <<sent, shop, cutOff, daemonUp>>

\* Mutant of EndReceive: a whole BillPack is asked for whatever the buffer holds.
EndReceiveUnbounded(s, n) ==
    /\ loop[s] = "receiving"
    /\ taken' = [taken EXCEPT ![s] = @ + n]
    /\ \/ /\ n = SIZE
          /\ offset' = [offset EXCEPT ![s] = 0]
          /\ served' = [served EXCEPT ![s] = Append(@, taken[s])]
          /\ OnBillPack(s, sent[s][taken'[s] \div SIZE])
       \/ /\ n # SIZE
          /\ offset' = [offset EXCEPT ![s] = @ + n]
          /\ Goto(s, "resuming")
          /\ UNCHANGED <<served, broken>>
    /\ UNCHANGED <<sent, shop, cutOff, daemonUp>>

\* EndReceive gets a piece of n bytes of what BeginReceive asked for.
EndReceive(s, n) ==
    /\ loop[s] = "receiving"
    /\ n <= SIZE - offset[s]
    /\ taken' = [taken EXCEPT ![s] = @ + n]
    /\ \/ /\ n = SIZE
          /\ offset' = [offset EXCEPT ![s] = 0]
          /\ served' = [served EXCEPT ![s] = Append(@, taken[s])]
          /\ OnBillPack(s, sent[s][taken'[s] \div SIZE])
       \/ /\ n # SIZE
          /\ offset' = [offset EXCEPT ![s] = @ + n]
          /\ Goto(s, "resuming")
          /\ UNCHANGED <<served, broken>>
    /\ UNCHANGED <<sent, shop, cutOff, daemonUp>>

\* Mutant of EndReceiveNothing: without the return, BeginReceive follows OnDisconnect.
EndReceiveNothingFallsThrough(s) ==
    /\ loop[s] = "receiving"
    /\ shop[s] # "up" \/ offset[s] = SIZE
    /\ DaemonDies

\* EndReceive gets zero bytes or an error: the shop has closed, or the buffer is full and
\* zero bytes were asked for.  OnDisconnect is called, maybe while another session is in it.
EndReceiveNothing(s) ==
    /\ loop[s] = "receiving"
    /\ shop[s] # "up" \/ offset[s] = SIZE
    /\ Goto(s, "leaving")
    /\ broken' = IF Meets(s, "leaving") THEN broken \cup {"list"} ELSE broken
    /\ UNCHANGED <<sent, taken, offset, served, shop, cutOff, daemonUp>>

\* OnDisconnect: the session leaves the list and has no socket any more.
OnDisconnect(s) ==
    /\ loop[s] = "leaving"
    /\ Goto(s, "over")
    /\ UNCHANGED <<sent, taken, offset, served, shop, cutOff, broken, daemonUp>>

\* The list was changed between the steps of its Remove; or the address of a shop whose
\* socket is reset, which ToString asks for, is not there (Mono keeps no copy of it).
OnDisconnectThrows(s) ==
    /\ loop[s] = "leaving"
    /\ "list" \in broken \/ shop[s] = "reset"
    /\ DaemonDies

\* The commands of CashRepository are done.
Query(s) ==
    /\ loop[s] = "querying"
    /\ Current(s) # "no_account"
    /\ Goto(s, "resuming")
    /\ UNCHANGED <<sent, taken, offset, served, shop, cutOff, broken, daemonUp>>

\* A command fails, on a connection that is lost or in use as well; the balance of an account that
\* does not exist is read from a null Cash; a command without its @ID fails.
QueryThrows(s) ==
    /\ loop[s] = "querying"
    /\ "connection" \in broken \/ Current(s) = "no_account"
    /\ DaemonDies

\* SendBillPack, if there is an answer, and the end of EndReceive.  That the shop has closed
\* may go unnoticed until the next receive; the answer then draws a reset.
BeginReceive(s) ==
    /\ loop[s] = "resuming"
    /\ Goto(s, "receiving")
    /\ shop' = [shop EXCEPT ![s] = IF @ = "closed" THEN "reset" ELSE @]
    /\ UNCHANGED <<sent, taken, offset, served, cutOff, broken, daemonUp>>

\* The answer could not be sent, so that SendBillPack has cleared _socket, or the socket is
\* reset: nobody catches what BeginReceive throws.
BeginReceiveThrows(s) ==
    /\ loop[s] = "resuming"
    /\ shop[s] # "up"
    /\ DaemonDies

Receive(s) == \E n \in 1 .. SIZE : n <= Available(s) /\ EndReceive(s, n)

Serve(s) ==
    \/ AcceptSocket(s)
    \/ Receive(s)
    \/ Query(s) \/ QueryThrows(s)
    \/ BeginReceive(s) \/ BeginReceiveThrows(s)
    \/ OnDisconnect(s) \/ OnDisconnectThrows(s)

Next ==
    \/ \E s \in Sessions :
        \/ Serve(s)
        \/ EndReceiveNothing(s)
        \/ \E request \in Requests : Send(s, request)
        \/ ShopCloses(s) \/ ConnectionResets(s)
    \/ ConnectionLost

Spec == Init /\ [][Next]_vars

\* The daemon accepts and reads what there is and runs its callbacks.  Nothing makes TCP
\* report a close, or complete a receive of zero bytes.
FairSpec == Spec /\ \A s \in Sessions : WF_vars(Serve(s))

-----------------------------------------------------------------------------
(* Properties *)

\* Whatever pieces TCP cuts the stream into, every BillPack the daemon decodes is one the
\* shop sent: its first byte is the first of a BillPack, it is complete, and none is
\* decoded twice or after a later one.  No piece goes past the end of the buffer (TypeOK).
FramesAligned ==
    /\ TypeOK
    /\ \A s \in Sessions : \A i \in DOMAIN served[s] :
           /\ served[s][i] = SIZE * (i - 1)
           /\ i <= Len(sent[s])

\* A shop that closes its session when the daemon has dealt with all it sent leaves the
\* daemon alone, whatever the other sessions do: the daemon goes down only of a shop that
\* closed earlier, of a connection that was reset, of a request it handled for an account
\* that does not exist, or of the database, or of a shared object that two callbacks used at once.
OrderlyCloseIsHarmless ==
    ~daemonUp =>
        \/ cutOff # {}
        \/ \E s \in Sessions : shop[s] = "reset"
        \/ \E s \in Sessions : \E i \in DOMAIN served[s] : sent[s][i] = "no_account"
        \/ broken # {}

Fragmented(s) == offset[s] > 0

\* A BillPack is handled unless a piece of one came alone, the shop closed, or the daemon
\* died: no ReqType and no other session holds it up.
WholeBillPacksHandled ==
    \A s \in Sessions : \A i \in 1 .. MaxSent[s] :
        Len(sent[s]) >= i ~>
            Len(served[s]) >= i \/ Fragmented(s) \/ shop[s] # "up" \/ ~daemonUp

\* What the documentation says of the daemon: it serves the requests it gets.  The code
\* serves only those that arrive in one piece.
RequestsServed ==
    \A s \in Sessions : \A i \in 1 .. MaxSent[s] :
        Len(sent[s]) >= i ~> Len(served[s]) >= i \/ shop[s] # "up" \/ ~daemonUp
=============================================================================
