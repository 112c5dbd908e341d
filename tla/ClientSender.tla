---------------------------- MODULE ClientSender ----------------------------
(***************************************************************************)
(* CClientSocket::SendPacket of the client: several threads encrypt their  *)
(* packets with a sequence number that every packet moves on, under one    *)
(* mutex.  The server moves its own number on with every packet it gets.   *)
(* The connection may break and be made again at any moment (external),    *)
(* with numbers that both sides agree on.                                  *)
(***************************************************************************)
EXTENDS Naturals, Sequences, SequencesExt

CONSTANTS
    Threads,
    MaxPackets,     \* bound on the packets sent
    MaxConnections  \* bound on the connections made

ASSUME SenderBoundsAssumption == MaxPackets \in Nat /\ MaxConnections \in Nat \ {0}

Nobody == "nobody"
ASSUME ThreadsAssumption == Nobody \notin Threads

VARIABLES
    mtx,        \* who holds the mutex
    at,         \* thread -> the statement of SendPacket it is about to execute
    connected,  \* whether the socket is valid and no connection is being made
    seqSnd,     \* m_uSeqSnd: how often innoHash was applied since the connection was made
    sendBuff,   \* m_lpSendBuff: the number that each waiting packet was encrypted with
    wire,       \* the packets of this connection that were flushed
    torn,       \* history: whether this connection was made between a MakeBufferList and its hash
    packets,    \* number of packets so far
    connections \* number of connections so far

senderVars == <<mtx, at, connected, seqSnd, sendBuff, wire, torn, packets, connections>>

SenderTypeOK ==
    /\ mtx \in Threads \cup {Nobody}
    /\ at \in [Threads -> {"out", "lock", "check", "make", "hash", "flush", "unlock"}]
    /\ connected \in BOOLEAN
    /\ seqSnd \in Nat
    /\ sendBuff \in Seq(Nat)
    /\ wire \in Seq(Nat)
    /\ torn \in BOOLEAN
    /\ packets \in Nat
    /\ connections \in Nat

SenderInit ==
    /\ mtx = Nobody
    /\ at = [t \in Threads |-> "out"]
    /\ connected = TRUE
    /\ seqSnd = 0
    /\ sendBuff = <<>>
    /\ wire = <<>>
    /\ torn = FALSE
    /\ packets = 0
    /\ connections = 1

Step(t, from, to) == at[t] = from /\ at' = [at EXCEPT ![t] = to]

CallSendPacket(t) ==
    /\ packets < MaxPackets
    /\ packets' = packets + 1
    /\ Step(t, "out", "lock")
    /\ UNCHANGED <<mtx, connected, seqSnd, sendBuff, wire, torn, connections>>

\* Mutant of Lock: without the lock_guard.
LockNothing(t) ==
    /\ Step(t, "lock", "check")
    /\ UNCHANGED <<mtx, connected, seqSnd, sendBuff, wire, torn, packets, connections>>

Lock(t) ==
    /\ mtx = Nobody
    /\ mtx' = t
    /\ Step(t, "lock", "check")
    /\ UNCHANGED <<connected, seqSnd, sendBuff, wire, torn, packets, connections>>

\* A packet for a socket that is closed, or is being connected, is dropped.
Check(t) ==
    /\ Step(t, "check", IF connected THEN "make" ELSE "unlock")
    /\ UNCHANGED <<mtx, connected, seqSnd, sendBuff, wire, torn, packets, connections>>

MakeBufferList(t) ==
    /\ Step(t, "make", "hash")
    /\ sendBuff' = Append(sendBuff, seqSnd)
    /\ UNCHANGED <<mtx, connected, seqSnd, wire, torn, packets, connections>>

InnoHash(t) ==
    /\ Step(t, "hash", "flush")
    /\ seqSnd' = seqSnd + 1
    /\ UNCHANGED <<mtx, connected, sendBuff, wire, torn, packets, connections>>

\* All buffers are sent, if the socket still is one.
Flush(t) ==
    /\ Step(t, "flush", "unlock")
    /\ IF connected THEN wire' = wire \o sendBuff /\ sendBuff' = <<>>
                    ELSE UNCHANGED <<wire, sendBuff>>
    /\ UNCHANGED <<mtx, connected, seqSnd, torn, packets, connections>>

Unlock(t) ==
    /\ Step(t, "unlock", "out")
    /\ mtx' = IF mtx = t THEN Nobody ELSE mtx
    /\ UNCHANGED <<connected, seqSnd, sendBuff, wire, torn, packets, connections>>

Disconnect ==
    /\ connected
    /\ connected' = FALSE
    /\ UNCHANGED <<mtx, at, seqSnd, sendBuff, wire, torn, packets, connections>>

\* The binary takes new numbers from the server's first packet and drops what waits.  It knows
\* nothing of the mutex.
Reconnect ==
    /\ ~connected
    /\ connections < MaxConnections
    /\ torn' = \E t \in Threads : at[t] = "hash"
    /\ connections' = connections + 1
    /\ connected' = TRUE
    /\ seqSnd' = 0
    /\ sendBuff' = <<>>
    /\ wire' = <<>>
    /\ UNCHANGED <<mtx, at, packets>>

SendPacket(t) ==
    \/ Lock(t)
    \/ Check(t)
    \/ MakeBufferList(t)
    \/ InnoHash(t)
    \/ Flush(t)
    \/ Unlock(t)

SenderNext ==
    \/ \E t \in Threads : CallSendPacket(t) \/ SendPacket(t)
    \/ Disconnect
    \/ Reconnect

SenderSpec == SenderInit /\ [][SenderNext]_senderVars

-----------------------------------------------------------------------------
(* Properties *)

\* The server can decrypt every packet: the i-th packet of a connection was encrypted with the
\* i-th number, whichever thread it comes from, and what waits is next.  Only the binary
\* can spoil it, which sets the number without the mutex.
SequenceInStep ==
    LET sent == wire \o sendBuff
    IN  ~torn => \A i \in DOMAIN sent : sent[i] = i - 1
=============================================================================
