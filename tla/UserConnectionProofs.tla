------------------------ MODULE UserConnectionProofs ------------------------
(* Proofs about UserConnection, for every set of accounts, worlds and addresses and *)
(* every number of clients up to 255.                                              *)
EXTENDS UserConnection, FiniteSetTheorems, TLAPS

LEMMA ConstantFacts ==
    /\ None \notin AccountIDs
    /\ None \notin WorldIDs
    /\ None \notin IPs
    /\ None \notin Nat
    /\ WideIPs \subseteq IPs
    /\ IsFiniteSet(Clients)
    /\ Cardinality(Clients) <= 255
    /\ Cardinality(Clients) \in Nat
  BY ClientsAssumption, IPsAssumption, NoneAssumption, FS_CardinalityType

-----------------------------------------------------------------------------
(* A procedure has the parameters its next step uses. *)
CallFilled ==
    \A c \in Clients :
        /\ pc[c] # "offline" => call[c].account # None
        /\ pc[c] = "counted" => call[c].world # None /\ call[c].ip # None
        /\ pc[c] = "online" => call[c].world # None

TypeInv == TypeOK /\ CallFilled

(* The variables keep their types: in particular no row ever holds an address that the
   INT conversion rejected. *)
LEMMA TypeInvInit == Init => TypeInv
  BY ConstantFacts DEF Init, TypeInv, TypeOK, CallFilled, PCs, Call, NoCall, TinyInt

(* Ending a session disturbs nothing but its own record. *)
LEMMA HangUpKeepsTypes ==
    ASSUME TypeInv, NEW c \in Clients, HangUp(c)
    PROVE  /\ pc' \in [Clients -> PCs]
           /\ call' \in [Clients -> Call]
           /\ CallFilled'
  <1>1. NoCall \in Call
    BY DEF NoCall, Call, TinyInt
  <1>2. /\ pc' \in [Clients -> PCs]
        /\ call' \in [Clients -> Call]
    BY <1>1 DEF TypeInv, TypeOK, HangUp, PCs
  <1>3. CallFilled'
    BY DEF TypeInv, TypeOK, CallFilled, HangUp
  <1>4. QED
    BY <1>2, <1>3

LEMMA TypeInvNext == TypeInv /\ [Next]_vars => TypeInv'
  <1> SUFFICES ASSUME TypeInv, [Next]_vars PROVE TypeInv'
    OBVIOUS
  <1> USE ConstantFacts DEF TypeInv, TypeOK, tables
  <1>1. ASSUME NEW c \in Clients, NEW a \in AccountIDs, CheckPasswordReadAccount(c, a)
        PROVE  TypeInv'
    <2>1. [NoCall EXCEPT !.account = a, !.banned = isBanned[a]] \in Call
      BY DEF NoCall, Call, TinyInt
    <2>2. TypeOK'
      BY <1>1, <2>1 DEF CheckPasswordReadAccount, PCs
    <2>3. CallFilled'
      BY <1>1 DEF CheckPasswordReadAccount, CallFilled, NoCall
    <2>4. QED
      BY <2>2, <2>3
  <1>2. ASSUME NEW c \in Clients, NEW p \in BOOLEAN, CheckPasswordFinish(c, p)
        PROVE  TypeInv'
    <2>1. CASE CheckPasswordAnswer(c, p) = 0
      <3>1. [NoCall EXCEPT !.account = call[c].account] \in Call
        BY DEF NoCall, Call, TinyInt
      <3>2. TypeOK'
        BY <1>2, <2>1, <3>1 DEF CheckPasswordFinish, PCs
      <3>3. CallFilled'
        BY <1>2, <2>1 DEF CheckPasswordFinish, CallFilled, NoCall
      <3>4. QED
        BY <3>2, <3>3
    <2>2. CASE CheckPasswordAnswer(c, p) # 0
      <3>1. HangUp(c) /\ UNCHANGED <<tables, overlapped>>
        BY <1>2, <2>2 DEF CheckPasswordFinish
      <3>2. QED
        BY <3>1, HangUpKeepsTypes
    <2>3. QED
      BY <2>1, <2>2
  <1>3. ASSUME NEW c \in Clients, NEW w \in WorldIDs, NEW ip \in IPs,
               CountConnections(c, w, ip)
        PROVE  TypeInv'
    <2>1. CountRows(call[c].account) \in TinyInt \cup {None}
      BY DEF CountRows
    <2>6. [call[c] EXCEPT !.world = w, !.ip = ip,
                          !.already = CountRows(call[c].account)] \in Call
      BY <2>1 DEF Call
    <2>2. call' \in [Clients -> Call]
      BY <1>3, <2>6 DEF CountConnections
    <2>3. overlapped' \subseteq AccountIDs
      BY <1>3 DEF CountConnections, CallFilled, Call
    <2>4. CallFilled'
      BY <1>3 DEF CountConnections, CallFilled, Call
    <2>5. QED
      BY <1>3, <2>2, <2>3, <2>4 DEF CountConnections, PCs
  <1>4. ASSUME NEW c \in Clients, Refuse(c)
        PROVE  TypeInv'
    BY <1>4, HangUpKeepsTypes DEF Refuse
  <1>5. ASSUME NEW c \in Clients, Connect(c)
        PROVE  TypeInv'
    <2>1. CASE call[c].ip \in WideIPs
      BY <1>5, <2>1, HangUpKeepsTypes DEF Connect
    <2>2. CASE call[c].ip \notin WideIPs
      <3> DEFINE a == call[c].account
                 row == [world |-> call[c].world, ip |-> call[c].ip]
      <3>1. a \in AccountIDs /\ row \in Row
        BY <1>5, <2>2 DEF Connect, CallFilled, Call, Row
      <3>2. connections' = [connections EXCEPT ![a] = Append(connections[a], row)]
        BY <1>5, <2>2, <3>1 DEF Connect
      <3>3. connections' \in [AccountIDs -> Seq(Row)]
        BY <3>1, <3>2
      <3>4. /\ currentIP' \in [AccountIDs -> (IPs \ WideIPs) \cup {None}]
            /\ pc' \in [Clients -> PCs]
            /\ UNCHANGED <<isBanned, overlapped>>
        BY <1>5, <2>2, <3>1 DEF Connect, PCs, Row
      <3>8. [call[c] EXCEPT !.ip = None, !.already = None] \in Call
        BY DEF Call
      <3>5. call' \in [Clients -> Call]
        BY <1>5, <2>2, <3>8 DEF Connect
      <3>6. CallFilled'
        <4>1. /\ pc' = [pc EXCEPT ![c] = "online"]
              /\ call' = [call EXCEPT ![c] = [call[c] EXCEPT !.ip = None, !.already = None]]
          BY <1>5, <2>2 DEF Connect
        <4>2. /\ call'[c].account = call[c].account
              /\ call'[c].world = call[c].world
          BY <4>1 DEF Call
        <4>3. call[c].account # None /\ call[c].world # None
          BY <1>5 DEF Connect, CallFilled
        <4>4. \A d \in Clients \ {c} : pc'[d] = pc[d] /\ call'[d] = call[d]
          BY <4>1
        <4>5. pc'[c] = "online"
          BY <4>1
        <4>6. QED
          BY <4>2, <4>3, <4>4, <4>5 DEF CallFilled
      <3>7. QED
        BY <3>3, <3>4, <3>5, <3>6
    <2>3. QED
      BY <2>1, <2>2
  <1>6. ASSUME NEW c \in Clients, SetUserDisconnect(c)
        PROVE  TypeInv'
    <2>1. connections' \in [AccountIDs -> Seq(Row)]
      <3>1. <<>> \in Seq(Row)
        OBVIOUS
      <3>2. QED
        BY <1>6, <3>1 DEF SetUserDisconnect
    <2>2. QED
      BY <1>6, <2>1, HangUpKeepsTypes DEF SetUserDisconnect
  <1>7. ASSUME NEW c \in Clients, ServerLosesClient(c)
        PROVE  TypeInv'
    BY <1>7, HangUpKeepsTypes DEF ServerLosesClient
  <1>8. CASE ClearWorldConnect
    BY <1>8 DEF ClearWorldConnect, CallFilled
  <1>9. ASSUME NEW a \in AccountIDs, SetUserBlockedByCharacterName(a)
        PROVE  TypeInv'
    BY <1>9 DEF SetUserBlockedByCharacterName, CallFilled
  <1>10. CASE UNCHANGED vars
    BY <1>10 DEF vars, CallFilled
  <1>11. QED
    BY <1>1, <1>2, <1>3, <1>4, <1>5, <1>6, <1>7, <1>8, <1>9, <1>10 DEF Next

LEMMA TypeInvariant == Spec => []TypeInv
  BY TypeInvInit, TypeInvNext, PTL DEF Spec

THEOREM TypeCorrect == Spec => []TypeOK
  <1>1. TypeInv => TypeOK
    BY DEF TypeInv
  <1>2. QED
    BY <1>1, TypeInvariant, PTL

-----------------------------------------------------------------------------
(* What each step does to the sets of clients of an account.  A client leaves a set by  *)
(* a step of its own only, and enters one by the step named here.                       *)

(* The calls and sessions of an account when client c hangs up. *)
LEMMA HangUpShrinks ==
    ASSUME TypeInv, NEW c \in Clients, HangUp(c), NEW a \in AccountIDs
    PROVE  /\ Calling(a)' = Calling(a) \ {c}
           /\ Racing(a)' = Racing(a) \ {c}
           /\ Entering(a)' = Entering(a) \ {c}
           /\ Online(a)' = Online(a) \ {c}
           /\ InFlight(a)' = InFlight(a) \ {c}
           /\ \A d \in Clients \ {c} : call'[d] = call[d]
  <1>1. /\ pc'[c] = "offline"
        /\ \A d \in Clients \ {c} : pc'[d] = pc[d] /\ call'[d] = call[d]
    BY DEF HangUp, TypeInv, TypeOK
  <1>2. Calling(a)' = Calling(a) \ {c} /\ Online(a)' = Online(a) \ {c}
    BY <1>1 DEF Calling, Online
  <1>3. Racing(a)' = Racing(a) \ {c}
    BY <1>1, <1>2 DEF Racing, Calling, AtLeastOne
  <1>4. InFlight(a)' = InFlight(a) \ {c}
    BY <1>1 DEF InFlight
  <1>5. Entering(a)' = Entering(a) \ {c}
    BY <1>1, <1>3 DEF Entering
  <1>6. QED
    BY <1>1, <1>2, <1>3, <1>4, <1>5

(* Reading the account in CheckPassword, or passing it, starts no call. *)
LEMMA CheckPasswordStartsNoCall ==
    ASSUME TypeInv, NEW c \in Clients, NEW a \in AccountIDs,
           \/ \E b \in AccountIDs : CheckPasswordReadAccount(c, b)
           \/ \E p \in BOOLEAN : CheckPasswordFinish(c, p)
    PROVE  /\ UNCHANGED <<tables, overlapped>>
           /\ Calling(a)' = Calling(a)
           /\ Racing(a)' = Racing(a)
           /\ Online(a)' = Online(a)
           /\ \A d \in Clients \ {c} : call'[d] = call[d]
           /\ c \notin Online(a)
  <1>1. /\ UNCHANGED <<tables, overlapped>>
        /\ pc[c] \notin {"counted", "online"}
        /\ pc'[c] \notin {"counted", "online"}
        /\ \A d \in Clients \ {c} : pc'[d] = pc[d] /\ call'[d] = call[d]
    BY DEF CheckPasswordReadAccount, CheckPasswordFinish, HangUp, TypeInv, TypeOK, tables
  <1>2. /\ Calling(a)' = Calling(a)
        /\ Online(a)' = Online(a)
    BY <1>1 DEF Calling, Online
  <1>3. Racing(a)' = Racing(a)
    BY <1>1, <1>2 DEF Racing, Calling, AtLeastOne
  <1>4. QED
    BY <1>1, <1>2, <1>3 DEF Online

(* The count of a call puts its client, and nobody else, among the account's calls. *)
LEMMA CountAddsOneCall ==
    ASSUME TypeInv, NEW c \in Clients, NEW w \in WorldIDs, NEW ip \in IPs,
           CountConnections(c, w, ip), NEW a \in AccountIDs
    PROVE  /\ UNCHANGED connections
           /\ call[c].account \in AccountIDs
           /\ a # call[c].account => Calling(a)' = Calling(a) /\ Racing(a)' = Racing(a)
           /\ a = call[c].account =>
                /\ Calling(a)' = Calling(a) \cup {c}
                /\ Racing(a)' = IF AtLeastOne(CountRows(a)) THEN Racing(a)
                                                            ELSE Racing(a) \cup {c}
           /\ Online(a)' = Online(a)
           /\ \A d \in Online(a) : call'[d] = call[d]
  <1>1. /\ pc[c] = "authenticated"
        /\ pc'[c] = "counted"
        /\ call'[c].account = call[c].account
        /\ call'[c].already = CountRows(call[c].account)
        /\ call[c].account \in AccountIDs
    BY DEF CountConnections, TypeInv, TypeOK, CallFilled, Call
  <1>2. /\ \A d \in Clients \ {c} : pc'[d] = pc[d] /\ call'[d] = call[d]
        /\ UNCHANGED connections
    BY DEF CountConnections, TypeInv, TypeOK, tables
  <1>3. /\ Calling(a)' = IF a = call[c].account THEN Calling(a) \cup {c} ELSE Calling(a)
        /\ Online(a)' = Online(a)
        /\ c \notin Calling(a) /\ c \notin Online(a)
    BY <1>1, <1>2 DEF Calling, Online
  <1>4. Racing(a)' = IF a = call[c].account /\ ~AtLeastOne(CountRows(a))
                     THEN Racing(a) \cup {c} ELSE Racing(a)
    BY <1>1, <1>2, <1>3 DEF Racing, Calling, AtLeastOne
  <1>5. QED
    BY <1>1, <1>2, <1>3, <1>4 DEF Online

(* A successful transaction turns a racing call into a session and adds its row. *)
LEMMA ConnectMovesClient ==
    ASSUME TypeInv, NEW c \in Clients, Connect(c), call[c].ip \notin WideIPs,
           NEW a \in AccountIDs
    PROVE  /\ call[c].account \in AccountIDs
           /\ c \in Racing(call[c].account)
           /\ Calling(a)' = Calling(a) \ {c}
           /\ Racing(a)' = Racing(a) \ {c}
           /\ Online(a)' = IF a = call[c].account THEN Online(a) \cup {c} ELSE Online(a)
           /\ connections'[a] =
                IF a = call[c].account
                THEN Append(connections[a], [world |-> call[c].world, ip |-> call[c].ip])
                ELSE connections[a]
           /\ call'[c].world = call[c].world
           /\ \A d \in Clients \ {c} : call'[d] = call[d]
           /\ overlapped' = overlapped
  <1>1. /\ pc[c] = "counted"
        /\ pc'[c] = "online"
        /\ ~AtLeastOne(call[c].already)
        /\ overlapped' = overlapped
        /\ \A d \in Clients \ {c} : pc'[d] = pc[d] /\ call'[d] = call[d]
    BY DEF Connect, TypeInv, TypeOK
  <1>2. /\ call[c].account \in AccountIDs
        /\ call'[c].account = call[c].account
        /\ call'[c].world = call[c].world
    <2>1. call'[c] = [call[c] EXCEPT !.ip = None, !.already = None]
      BY DEF Connect, TypeInv, TypeOK
    <2>2. call[c] \in Call
      BY DEF TypeInv, TypeOK
    <2>3. call[c].account # None
      BY <1>1 DEF TypeInv, CallFilled
    <2>4. QED
      BY <2>1, <2>2, <2>3 DEF Call
  <1>3. /\ Calling(a)' = Calling(a) \ {c}
        /\ Online(a)' = IF a = call[c].account THEN Online(a) \cup {c} ELSE Online(a)
        /\ c \in Racing(call[c].account)
    BY <1>1, <1>2 DEF Calling, Online, Racing
  <1>4. Racing(a)' = Racing(a) \ {c}
    BY <1>1, <1>3 DEF Racing, Calling, AtLeastOne
  <1>5. connections'[a] =
            IF a = call[c].account
            THEN Append(connections[a], [world |-> call[c].world, ip |-> call[c].ip])
            ELSE connections[a]
    BY <1>2 DEF Connect, TypeInv, TypeOK
  <1>6. QED
    BY <1>1, <1>2, <1>3, <1>4, <1>5

(* The steps of nobody's call: a world start and a ban. *)
LEMMA OtherStepsKeepClients ==
    ASSUME NEW a \in AccountIDs,
           \/ ClearWorldConnect
           \/ \E b \in AccountIDs : SetUserBlockedByCharacterName(b)
           \/ UNCHANGED vars
    PROVE  /\ Calling(a)' = Calling(a)
           /\ Racing(a)' = Racing(a)
           /\ Online(a)' = Online(a)
           /\ UNCHANGED <<call, pc, overlapped>>
  <1>1. UNCHANGED <<call, pc, overlapped>>
    BY DEF ClearWorldConnect, SetUserBlockedByCharacterName, vars
  <1>2. QED
    BY <1>1 DEF Calling, Racing, Online, AtLeastOne

-----------------------------------------------------------------------------
(* The bound on duplicate rows. *)

Bounded(a) == Len(connections[a]) + Cardinality(Entering(a)) <= Cardinality(Clients)

LEMMA LenIsNat ==
    ASSUME TypeInv, NEW a \in AccountIDs
    PROVE  Len(connections[a]) \in Nat
  BY DEF TypeInv, TypeOK

LEMMA EnteringIsFinite ==
    ASSUME NEW a \in AccountIDs
    PROVE  /\ IsFiniteSet(Entering(a))
           /\ Cardinality(Entering(a)) \in Nat
           /\ Cardinality(Entering(a)) <= Cardinality(Clients)
  <1>1. Entering(a) \subseteq Clients
    BY DEF Entering, Racing, Calling
  <1>2. QED
    BY <1>1, ConstantFacts, FS_Subset, FS_CardinalityType

(* While the bound holds the count is exact: it fits the tinyint. *)
LEMMA CountIsExact ==
    ASSUME TypeInv, NEW a \in AccountIDs, Bounded(a)
    PROVE  /\ CountRows(a) = Len(connections[a])
           /\ AtLeastOne(CountRows(a)) <=> connections[a] # <<>>
  <1>1. Len(connections[a]) \in TinyInt
    <2>1. Len(connections[a]) \in Nat /\ Cardinality(Entering(a)) \in Nat
      BY LenIsNat, EnteringIsFinite
    <2>2. /\ Len(connections[a]) + Cardinality(Entering(a)) <= Cardinality(Clients)
          /\ Cardinality(Clients) \in Nat
          /\ Cardinality(Clients) <= 255
      BY ConstantFacts DEF Bounded
    <2>3. \A n, m, k \in Nat : n + m <= k /\ k <= 255 => n \in 0 .. 255
      OBVIOUS
    <2>4. QED
      BY <2>1, <2>2, <2>3 DEF TinyInt
  <1>2. Len(connections[a]) >= 1 <=> connections[a] # <<>>
    BY DEF TypeInv, TypeOK
  <1>3. QED
    BY <1>1, <1>2, ConstantFacts, LenIsNat DEF CountRows, AtLeastOne

(* A step that adds neither a row nor a racing call keeps the bound. *)
LEMMA FewerKeepsBound ==
    ASSUME TypeInv, TypeInv', NEW a \in AccountIDs, Bounded(a),
           Entering(a)' \subseteq Entering(a),
           Len(connections'[a]) <= Len(connections[a])
    PROVE  Bounded(a)'
  <1>1. /\ Cardinality(Entering(a)') <= Cardinality(Entering(a))
        /\ Cardinality(Entering(a)') \in Nat
    BY EnteringIsFinite, FS_Subset, FS_CardinalityType
  <1>2. Len(connections[a]) \in Nat /\ Len(connections'[a]) \in Nat
    BY DEF TypeInv, TypeOK
  <1>3. QED
    BY <1>1, <1>2, EnteringIsFinite, ConstantFacts DEF Bounded

(* A session that starts has left those that may start one. *)
LEMMA ConnectLeaves ==
    ASSUME TypeInv, NEW c \in Clients, Connect(c), call[c].ip \notin WideIPs,
           NEW a \in AccountIDs
    PROVE  Entering(a)' = Entering(a) \ {c}
  <1>1. /\ pc[c] = "counted" /\ pc'[c] = "online"
        /\ \A d \in Clients \ {c} : pc'[d] = pc[d] /\ call'[d] = call[d]
    BY DEF Connect, TypeInv, TypeOK
  <1>2. Racing(a)' = Racing(a) \ {c}
    BY ConnectMovesClient
  <1>3. QED
    BY <1>1, <1>2 DEF Entering

LEMMA BoundedNext ==
    ASSUME TypeInv, TypeInv', [Next]_vars, NEW a \in AccountIDs, Bounded(a)
    PROVE  Bounded(a)'
  <1> USE DEF tables
  <1>1. ASSUME NEW c \in Clients, HangUp(c), connections' = connections
        PROVE  Bounded(a)'
    BY <1>1, HangUpShrinks, FewerKeepsBound, LenIsNat
  <1>2. ASSUME NEW c \in Clients, NEW b \in AccountIDs, CheckPasswordReadAccount(c, b)
        PROVE  Bounded(a)'
    <2>1. Entering(a)' = Entering(a)
      <3>1. /\ pc[c] = "offline" /\ pc'[c] = "account_read"
            /\ \A d \in Clients \ {c} : pc'[d] = pc[d] /\ call'[d] = call[d]
        BY <1>2 DEF CheckPasswordReadAccount, TypeInv, TypeOK
      <3>2. QED
        BY <1>2, <3>1, CheckPasswordStartsNoCall DEF Entering
    <2>2. QED
      BY <1>2, <2>1, CheckPasswordStartsNoCall DEF Bounded
  <1>12. ASSUME NEW c \in Clients, NEW p \in BOOLEAN, CheckPasswordFinish(c, p)
        PROVE  Bounded(a)'
    <2>1. CASE CheckPasswordAnswer(c, p) # 0
      BY <1>1, <1>12, <2>1 DEF CheckPasswordFinish
    <2>2. CASE CheckPasswordAnswer(c, p) = 0
      <3>1. /\ connections' = connections
            /\ pc[c] = "account_read" /\ pc'[c] = "authenticated"
            /\ call'[c] = [NoCall EXCEPT !.account = call[c].account]
            /\ \A d \in Clients \ {c} : pc'[d] = pc[d] /\ call'[d] = call[d]
            /\ connections[call[c].account] = <<>>
        BY <1>12, <2>2 DEF CheckPasswordFinish, CheckPasswordAnswer, TypeInv, TypeOK
      <3>2. Racing(a)' = Racing(a)
        BY <1>12, CheckPasswordStartsNoCall
      <3>3. CASE a = call[c].account
        <4>1. Len(connections'[a]) = 0
          BY <3>1, <3>3
        <4>2. /\ Cardinality(Entering(a)') \in Nat
              /\ Cardinality(Entering(a)') <= Cardinality(Clients)
          <5>1. Entering(a)' \subseteq Clients
            BY DEF Entering, Racing, Calling
          <5>2. QED
            BY <5>1, ConstantFacts, FS_Subset, FS_CardinalityType
        <4>3. QED
          BY <4>1, <4>2, ConstantFacts DEF Bounded
      <3>4. CASE a # call[c].account
        <4>1. Entering(a)' = Entering(a)
          BY <3>1, <3>2, <3>4 DEF Entering, NoCall
        <4>2. QED
          BY <3>1, <4>1 DEF Bounded
      <3>5. QED
        BY <3>3, <3>4
    <2>3. QED
      BY <2>1, <2>2
  <1>3. ASSUME NEW c \in Clients, NEW w \in WorldIDs, NEW ip \in IPs,
               CountConnections(c, w, ip)
        PROVE  Bounded(a)'
    <2>1. /\ pc[c] = "authenticated" /\ pc'[c] = "counted"
          /\ \A d \in Clients \ {c} : pc'[d] = pc[d] /\ call'[d] = call[d]
      BY <1>3 DEF CountConnections, TypeInv, TypeOK
    <2>2. Racing(a)' \subseteq Entering(a)
      BY <1>3, <2>1, CountAddsOneCall DEF Entering
    <2>3. Entering(a)' \subseteq Entering(a)
      BY <2>1, <2>2 DEF Entering
    <2>4. QED
      BY <1>3, <2>3, CountAddsOneCall, FewerKeepsBound, LenIsNat
  <1>4. ASSUME NEW c \in Clients, Refuse(c)
        PROVE  Bounded(a)'
    BY <1>1, <1>4 DEF Refuse
  <1>5. ASSUME NEW c \in Clients, Connect(c)
        PROVE  Bounded(a)'
    <2>1. CASE call[c].ip \in WideIPs
      BY <1>1, <1>5, <2>1 DEF Connect
    <2>2. CASE call[c].ip \notin WideIPs /\ a = call[c].account
      <3>1. /\ c \in Entering(a)
            /\ Entering(a)' = Entering(a) \ {c}
            /\ \E row : connections'[a] = Append(connections[a], row)
        BY <1>5, <2>2, ConnectMovesClient, ConnectLeaves DEF Entering
      <3>2. Cardinality(Entering(a)') = Cardinality(Entering(a)) - 1
        BY <3>1, EnteringIsFinite, FS_RemoveElement
      <3>3. Len(connections'[a]) = Len(connections[a]) + 1
        BY <3>1 DEF TypeInv, TypeOK
      <3>4. QED
        BY <3>2, <3>3, LenIsNat, EnteringIsFinite, ConstantFacts DEF Bounded
    <2>3. CASE call[c].ip \notin WideIPs /\ a # call[c].account
      <3>1. /\ Entering(a)' \subseteq Entering(a)
            /\ connections'[a] = connections[a]
        BY <1>5, <2>3, ConnectMovesClient, ConnectLeaves
      <3>2. QED
        BY <3>1, FewerKeepsBound, LenIsNat
    <2>4. QED
      BY <2>1, <2>2, <2>3
  <1>6. ASSUME NEW c \in Clients, SetUserDisconnect(c)
        PROVE  Bounded(a)'
    <2>1. connections'[a] \in {connections[a], <<>>}
      BY <1>6 DEF SetUserDisconnect, TypeInv, TypeOK
    <2>2. Entering(a)' \subseteq Entering(a)
      BY <1>6, HangUpShrinks DEF SetUserDisconnect
    <2>3. QED
      BY <2>1, <2>2, FewerKeepsBound, LenIsNat
  <1>7. ASSUME NEW c \in Clients, ServerLosesClient(c)
        PROVE  Bounded(a)'
    BY <1>1, <1>7 DEF ServerLosesClient
  <1>8. CASE ClearWorldConnect
    <2>1. connections'[a] = <<>> /\ Entering(a)' = Entering(a)
      BY <1>8, OtherStepsKeepClients DEF Entering, ClearWorldConnect
    <2>2. QED
      BY <2>1, FewerKeepsBound, LenIsNat
  <1>9. ASSUME \/ \E b \in AccountIDs : SetUserBlockedByCharacterName(b)
               \/ UNCHANGED vars
        PROVE  Bounded(a)'
    <2>1. connections' = connections /\ Entering(a)' = Entering(a)
      BY <1>9, OtherStepsKeepClients DEF Entering, SetUserBlockedByCharacterName, vars
    <2>2. QED
      BY <2>1 DEF Bounded
  <1>10. QED
    BY <1>2, <1>12, <1>3, <1>4, <1>5, <1>6, <1>7, <1>8, <1>9 DEF Next

(* The rows of an account and the clients that may still add one never outnumber the
   clients. *)
THEOREM DuplicatesAreBounded == Spec => []RowsBoundedByClients
  <1>1. RowsBoundedByClients <=> \A a \in AccountIDs : Bounded(a)
    BY DEF RowsBoundedByClients, Bounded
  <1>2. Init => RowsBoundedByClients
    <2> SUFFICES ASSUME Init, NEW a \in AccountIDs PROVE Bounded(a)
      BY <1>1
    <2>1. Entering(a) = {} /\ Len(connections[a]) = 0
      BY DEF Init, Entering, Racing, Calling
    <2>2. QED
      BY <2>1, ConstantFacts, FS_EmptySet DEF Bounded
  <1>3. TypeInv /\ TypeInv' /\ [Next]_vars /\ RowsBoundedByClients => RowsBoundedByClients'
    BY BoundedNext DEF RowsBoundedByClients, Bounded
  <1>4. QED
    BY <1>2, <1>3, TypeInvariant, PTL DEF Spec

(* The tinyint never overflows: whoever counts the rows of an account sees whether there
   are any. *)
CountNeverNull == \A a \in AccountIDs : CheckUserConnected(a) = 1 <=> connections[a] # <<>>

THEOREM CountIsReliable == Spec => []CountNeverNull
  <1>1. TypeInv /\ RowsBoundedByClients => CountNeverNull
    BY CountIsExact DEF RowsBoundedByClients, Bounded, CountNeverNull, CheckUserConnected
  <1>2. QED
    BY <1>1, TypeInvariant, DuplicatesAreBounded, PTL

-----------------------------------------------------------------------------
(* The session lock. *)

(* CurrentIP is the address of the newest row. *)
THEOREM CurrentIPFollowsRows == Spec => []CurrentIPOfNewestRow
  <1>1. Init => CurrentIPOfNewestRow
    BY DEF Init, CurrentIPOfNewestRow
  <1>2. TypeInv /\ CurrentIPOfNewestRow /\ [Next]_vars => CurrentIPOfNewestRow'
    <2> SUFFICES ASSUME TypeInv, CurrentIPOfNewestRow, [Next]_vars,
                        NEW a \in AccountIDs, connections'[a] # <<>>
                 PROVE  currentIP'[a] = connections'[a][Len(connections'[a])].ip
      BY DEF CurrentIPOfNewestRow
    <2>1. ASSUME NEW c \in Clients, Connect(c), call[c].ip \notin WideIPs,
                 a = call[c].account
          PROVE  currentIP'[a] = connections'[a][Len(connections'[a])].ip
      <3> DEFINE row == [world |-> call[c].world, ip |-> call[c].ip]
      <3>1. connections'[a] = Append(connections[a], row)
        BY <2>1, ConnectMovesClient
      <3>2. connections[a] \in Seq(Row)
        BY DEF TypeInv, TypeOK
      <3>3. connections'[a][Len(connections'[a])] = row
        BY <3>1, <3>2
      <3>4. currentIP'[a] = call[c].ip
        BY <2>1 DEF Connect, TypeInv, TypeOK
      <3>5. QED
        BY <3>3, <3>4
    <2>2. \/ /\ connections'[a] = connections[a]
             /\ currentIP'[a] = currentIP[a]
          \/ connections'[a] = <<>>
          \/ \E c \in Clients :
                Connect(c) /\ call[c].ip \notin WideIPs /\ a = call[c].account
      BY DEF Next, vars, tables, TypeInv, TypeOK, CheckPasswordReadAccount,
             CheckPasswordFinish, CountConnections, Refuse, Connect, SetUserDisconnect,
             ServerLosesClient, ClearWorldConnect, SetUserBlockedByCharacterName
    <2>3. QED
      BY <2>1, <2>2 DEF CurrentIPOfNewestRow
  <1>3. QED
    BY <1>1, <1>2, TypeInvariant, PTL DEF Spec

(* What keeps the lock while no two calls for the account have overlapped: one call at a
   time, and a call that counted no row still sees none when it inserts. *)
Serial(a) ==
    /\ \A c, d \in Calling(a) : c = d
    /\ Racing(a) # {} => connections[a] = <<>>
    /\ Len(connections[a]) <= 1
    /\ \A c \in Online(a) :
         /\ Online(a) = {c}
         /\ Len(connections[a]) = 1
         /\ connections[a][1].world = call[c].world

SerialInv == \A a \in AccountIDs \ overlapped : Serial(a)

LEMMA SerialNext ==
    ASSUME TypeInv, [Next]_vars, RowsBoundedByClients, SerialInv,
           NEW a \in AccountIDs \ overlapped'
    PROVE  Serial(a)'
  <1> USE DEF tables
  <1>0. /\ a \in AccountIDs /\ a \notin overlapped
        /\ Serial(a) /\ connections[a] \in Seq(Row)
    <2>1. overlapped \subseteq overlapped'
      BY DEF Next, vars, CheckPasswordReadAccount, CheckPasswordFinish, CountConnections,
             Refuse, Connect, SetUserDisconnect, ServerLosesClient, ClearWorldConnect,
             SetUserBlockedByCharacterName
    <2>2. QED
      BY <2>1 DEF SerialInv, TypeInv, TypeOK
  <1>1. ASSUME NEW c \in Clients, HangUp(c), connections' = connections
        PROVE  Serial(a)'
    <2>1. /\ Calling(a)' = Calling(a) \ {c} /\ Racing(a)' = Racing(a) \ {c}
          /\ Online(a)' = Online(a) \ {c}
          /\ \A d \in Online(a)' : call'[d] = call[d]
      BY <1>0, <1>1, HangUpShrinks DEF Online
    <2>2. QED
      BY <1>0, <1>1, <2>1 DEF Serial
  <1>2. ASSUME NEW c \in Clients,
               \/ \E b \in AccountIDs : CheckPasswordReadAccount(c, b)
               \/ \E p \in BOOLEAN : CheckPasswordFinish(c, p)
        PROVE  Serial(a)'
    <2>1. /\ connections' = connections
          /\ Calling(a)' = Calling(a) /\ Racing(a)' = Racing(a) /\ Online(a)' = Online(a)
          /\ \A d \in Online(a) : call'[d] = call[d]
      BY <1>2, CheckPasswordStartsNoCall DEF Online
    <2>2. QED
      BY <1>0, <2>1 DEF Serial
  <1>3. ASSUME NEW c \in Clients, NEW w \in WorldIDs, NEW ip \in IPs,
               CountConnections(c, w, ip)
        PROVE  Serial(a)'
    <2>1. a = call[c].account => Calling(a) = {}
      BY <1>3 DEF CountConnections
    <2>2. \A d, e \in Calling(a)' : d = e
      BY <1>0, <1>3, <2>1, CountAddsOneCall DEF Serial
    <2>3. Racing(a)' # {} => connections[a] = <<>>
      BY <1>0, <1>3, CountAddsOneCall, CountIsExact
         DEF Serial, RowsBoundedByClients, Bounded
    <2>4. /\ connections' = connections
          /\ Online(a)' = Online(a)
          /\ \A d \in Online(a) : call'[d] = call[d]
      BY <1>3, CountAddsOneCall
    <2>5. QED
      BY <1>0, <2>2, <2>3, <2>4 DEF Serial
  <1>4. ASSUME NEW c \in Clients, Refuse(c)
        PROVE  Serial(a)'
    BY <1>1, <1>4 DEF Refuse
  <1>5. ASSUME NEW c \in Clients, Connect(c)
        PROVE  Serial(a)'
    <2>1. CASE call[c].ip \in WideIPs
      BY <1>1, <1>5, <2>1 DEF Connect
    <2>2. CASE call[c].ip \notin WideIPs /\ a = call[c].account
      <3> DEFINE row == [world |-> call[c].world, ip |-> call[c].ip]
      <3>1. /\ c \in Racing(a) /\ c \in Calling(a)
            /\ Calling(a)' = Calling(a) \ {c} /\ Racing(a)' = Racing(a) \ {c}
            /\ Online(a)' = Online(a) \cup {c}
            /\ connections'[a] = Append(connections[a], row)
            /\ call'[c].world = call[c].world
        BY <1>5, <2>2, ConnectMovesClient DEF Racing
      <3>2. connections[a] = <<>> /\ Online(a) = {}
        BY <1>0, <3>1 DEF Serial
      <3>3. Calling(a)' = {} /\ Racing(a)' = {}
        BY <1>0, <3>1 DEF Serial, Racing
      <3>4. Len(connections'[a]) = 1 /\ connections'[a][1] = row
        BY <3>1, <3>2
      <3>5. QED
        BY <3>1, <3>2, <3>3, <3>4 DEF Serial
    <2>3. CASE call[c].ip \notin WideIPs /\ a # call[c].account
      <3>1. /\ Calling(a)' = Calling(a) \ {c} /\ Racing(a)' = Racing(a) \ {c}
            /\ Online(a)' = Online(a)
            /\ connections'[a] = connections[a]
            /\ \A d \in Online(a) : call'[d] = call[d]
        <4>1. c \notin Online(a)
          BY <1>5 DEF Connect, Online
        <4>2. Online(a) \subseteq Clients
          BY DEF Online
        <4>3. QED
          BY <1>0, <1>5, <2>3, <4>1, <4>2, ConnectMovesClient
      <3>2. QED
        BY <1>0, <3>1 DEF Serial
    <2>4. QED
      BY <2>1, <2>2, <2>3
  <1>6. ASSUME NEW c \in Clients, SetUserDisconnect(c)
        PROVE  Serial(a)'
    <2>1. /\ pc[c] = "online" /\ HangUp(c)
          /\ connections'[a] = IF a = call[c].account THEN <<>> ELSE connections[a]
      BY <1>6 DEF SetUserDisconnect, TypeInv, TypeOK
    <2>2. CASE a = call[c].account
      <3>1. Online(a) = {c}
        BY <1>0, <2>1, <2>2 DEF Online, Serial
      <3>2. Online(a)' = {} /\ connections'[a] = <<>>
        BY <2>1, <2>2, <3>1, HangUpShrinks
      <3>3. QED
        BY <1>0, <2>1, <3>2, HangUpShrinks DEF Serial
    <2>3. CASE a # call[c].account
      <3>1. /\ connections'[a] = connections[a]
            /\ Calling(a)' \subseteq Calling(a) /\ Racing(a)' \subseteq Racing(a)
            /\ Online(a)' = Online(a)
            /\ \A d \in Online(a) : call'[d] = call[d]
        BY <2>1, <2>3, HangUpShrinks DEF Online
      <3>2. QED
        BY <1>0, <3>1 DEF Serial
    <2>4. QED
      BY <2>2, <2>3
  <1>7. ASSUME NEW c \in Clients, ServerLosesClient(c)
        PROVE  Serial(a)'
    BY <1>1, <1>7 DEF ServerLosesClient
  <1>8. CASE ClearWorldConnect
    <2>1. Online(a) = {} /\ connections'[a] = <<>>
      BY <1>8 DEF ClearWorldConnect, Online
    <2>2. QED
      BY <1>0, <1>8, <2>1, OtherStepsKeepClients DEF Serial
  <1>9. ASSUME \/ \E b \in AccountIDs : SetUserBlockedByCharacterName(b)
               \/ UNCHANGED vars
        PROVE  Serial(a)'
    <2>1. connections' = connections
      BY <1>9 DEF SetUserBlockedByCharacterName, vars
    <2>2. QED
      BY <1>0, <1>9, <2>1, OtherStepsKeepClients DEF Serial
  <1>10. QED
    BY <1>2, <1>3, <1>4, <1>5, <1>6, <1>7, <1>8, <1>9 DEF Next

(* An account whose TrySetUserConnect calls never overlapped has at most one session, and
   that session's row is the one every procedure sees. *)
THEOREM LockHoldsWithoutOverlap == Spec => []SessionLock
  <1>1. Init => SerialInv
    <2> SUFFICES ASSUME Init, NEW a \in AccountIDs PROVE Serial(a)
      BY DEF SerialInv
    <2>1. Calling(a) = {} /\ Racing(a) = {} /\ Online(a) = {} /\ connections[a] = <<>>
      BY DEF Init, Calling, Racing, Online
    <2>2. QED
      BY <2>1 DEF Serial
  <1>2. TypeInv /\ RowsBoundedByClients /\ SerialInv /\ [Next]_vars => SerialInv'
    BY SerialNext DEF SerialInv
  <1>3. TypeInv /\ RowsBoundedByClients /\ SerialInv => SessionLock
    <2> SUFFICES ASSUME TypeInv, RowsBoundedByClients, SerialInv,
                        NEW a \in AccountIDs \ overlapped, NEW c \in Online(a)
                 PROVE  /\ Online(a) = {c}
                        /\ Len(connections[a]) = 1
                        /\ CheckUserConnected(a) = 1
                        /\ CharacterListWorld(a) = call[c].world
      BY DEF SessionLock
    <2>1. Serial(a) /\ Bounded(a) /\ connections[a] \in Seq(Row)
      BY DEF SerialInv, RowsBoundedByClients, Bounded, TypeInv, TypeOK
    <2>2. connections[a] # <<>>
      BY <2>1 DEF Serial
    <2>3. CheckUserConnected(a) = 1
      BY <2>1, <2>2, CountIsExact DEF CheckUserConnected
    <2>4. CharacterListWorld(a) = call[c].world
      BY <2>1, <2>2 DEF Serial, CharacterListWorld
    <2>5. QED
      BY <2>1, <2>3, <2>4 DEF Serial
  <1>4. QED
    BY <1>1, <1>2, <1>3, TypeInvariant, DuplicatesAreBounded, PTL DEF Spec

-----------------------------------------------------------------------------
(* What no step does. *)

LEMMA HeldLockNext ==
    ASSUME TypeInv, RowsBoundedByClients, [Next]_vars, NEW a \in AccountIDs
    PROVE  HeldLockStep(a)
  <1> SUFFICES ASSUME connections[a] # <<>>, Racing(a) = {}
               PROVE  /\ connections'[a] \in {connections[a], <<>>}
                      /\ Online(a)' \subseteq Online(a)
    BY DEF HeldLockStep
  <1>1. ASSUME NEW c \in Clients, HangUp(c)
        PROVE  Online(a)' \subseteq Online(a)
    BY <1>1, HangUpShrinks
  <1>2. ASSUME NEW c \in Clients,
               \/ \E b \in AccountIDs : CheckPasswordReadAccount(c, b)
               \/ \E p \in BOOLEAN : CheckPasswordFinish(c, p)
        PROVE  connections' = connections /\ Online(a)' = Online(a)
    BY <1>2, CheckPasswordStartsNoCall DEF tables
  <1>3. ASSUME NEW c \in Clients, NEW w \in WorldIDs, NEW ip \in IPs,
               CountConnections(c, w, ip)
        PROVE  connections' = connections /\ Online(a)' = Online(a)
    BY <1>3, CountAddsOneCall
  <1>4. ASSUME NEW c \in Clients, Connect(c), call[c].ip \notin WideIPs
        PROVE  connections'[a] = connections[a] /\ Online(a)' = Online(a)
    BY <1>4, ConnectMovesClient
  <1>5. ASSUME NEW c \in Clients,
               \/ Refuse(c)
               \/ Connect(c) /\ call[c].ip \in WideIPs
               \/ ServerLosesClient(c)
        PROVE  connections' = connections /\ HangUp(c)
    BY <1>5 DEF Refuse, Connect, ServerLosesClient, tables
  <1>6. ASSUME NEW c \in Clients, SetUserDisconnect(c)
        PROVE  connections'[a] \in {connections[a], <<>>} /\ HangUp(c)
    BY <1>6 DEF SetUserDisconnect, TypeInv, TypeOK
  <1>7. ASSUME \/ ClearWorldConnect
               \/ \E b \in AccountIDs : SetUserBlockedByCharacterName(b)
               \/ UNCHANGED vars
        PROVE  connections'[a] \in {connections[a], <<>>} /\ Online(a)' = Online(a)
    BY <1>7, OtherStepsKeepClients
       DEF ClearWorldConnect, SetUserBlockedByCharacterName, vars
  <1>8. QED
    BY <1>1, <1>2, <1>3, <1>4, <1>5, <1>6, <1>7 DEF Next

(* A held lock admits no session until a step deletes it. *)
THEOREM HeldLockIsExclusive == Spec => HeldLockAdmitsNobody
  <1>1. TypeInv /\ RowsBoundedByClients /\ [Next]_vars
            => [\A a \in AccountIDs : HeldLockStep(a)]_vars
    BY HeldLockNext
  <1>2. QED
    BY <1>1, TypeInvariant, DuplicatesAreBounded, PTL DEF Spec, HeldLockAdmitsNobody

LEMMA BannedNext ==
    ASSUME TypeInv, [Next]_vars, NEW a \in AccountIDs
    PROVE  BannedStep(a)
  <1> SUFFICES ASSUME isBanned[a], InFlight(a) = {}
               PROVE  isBanned'[a] /\ InFlight(a)' = {} /\ Online(a)' \subseteq Online(a)
    BY DEF BannedStep
  <1>1. isBanned'[a]
    BY DEF Next, vars, tables, CheckPasswordReadAccount, CheckPasswordFinish,
           CountConnections, Refuse, Connect, SetUserDisconnect, ServerLosesClient,
           ClearWorldConnect, SetUserBlockedByCharacterName, TypeInv, TypeOK
  <1>2. ASSUME NEW c \in Clients, HangUp(c)
        PROVE  InFlight(a)' = {} /\ Online(a)' \subseteq Online(a)
    BY <1>2, HangUpShrinks
  <1>3. ASSUME NEW c \in Clients, NEW b \in AccountIDs, CheckPasswordReadAccount(c, b)
        PROVE  InFlight(a)' = {} /\ Online(a)' = Online(a)
    <2>1. /\ pc'[c] = "account_read"
          /\ call'[c].account = b /\ call'[c].banned = isBanned[b]
          /\ \A d \in Clients \ {c} : pc'[d] = pc[d] /\ call'[d] = call[d]
      BY <1>3 DEF CheckPasswordReadAccount, TypeInv, TypeOK, NoCall
    <2>2. InFlight(a)' = {}
      BY <2>1 DEF InFlight
    <2>3. QED
      BY <1>3, <2>2, CheckPasswordStartsNoCall
  <1>4. ASSUME NEW c \in Clients, NEW p \in BOOLEAN, CheckPasswordFinish(c, p),
               CheckPasswordAnswer(c, p) = 0
        PROVE  InFlight(a)' = {} /\ Online(a)' = Online(a)
    <2>1. pc[c] = "account_read" /\ ~call[c].banned
      BY <1>4 DEF CheckPasswordFinish, CheckPasswordAnswer
    <2>2. call[c].account # a
      BY <2>1 DEF InFlight
    <2>3. /\ call'[c].account = call[c].account
          /\ \A d \in Clients \ {c} : pc'[d] = pc[d] /\ call'[d] = call[d]
      BY <1>4 DEF CheckPasswordFinish, TypeInv, TypeOK, NoCall
    <2>4. InFlight(a)' = {}
      BY <2>2, <2>3 DEF InFlight
    <2>5. QED
      BY <1>4, <2>4, CheckPasswordStartsNoCall
  <1>5. ASSUME NEW c \in Clients, NEW w \in WorldIDs, NEW ip \in IPs,
               CountConnections(c, w, ip)
        PROVE  InFlight(a)' = {} /\ Online(a)' = Online(a)
    <2>1. /\ pc[c] = "authenticated"
          /\ call'[c].account = call[c].account
          /\ \A d \in Clients \ {c} : pc'[d] = pc[d] /\ call'[d] = call[d]
      BY <1>5 DEF CountConnections, TypeInv, TypeOK, Call
    <2>2. call[c].account # a
      BY <2>1 DEF InFlight
    <2>3. InFlight(a)' = {}
      BY <2>1, <2>2 DEF InFlight
    <2>4. QED
      BY <1>5, <2>3, CountAddsOneCall
  <1>6. ASSUME NEW c \in Clients, Connect(c), call[c].ip \notin WideIPs
        PROVE  InFlight(a)' = {} /\ Online(a)' = Online(a)
    <2>1. pc[c] = "counted"
      BY <1>6 DEF Connect
    <2>2. call[c].account # a
      BY <2>1 DEF InFlight
    <2>3. /\ pc'[c] = "online"
          /\ \A d \in Clients \ {c} : pc'[d] = pc[d] /\ call'[d] = call[d]
      BY <1>6 DEF Connect, TypeInv, TypeOK
    <2>4. InFlight(a)' = {}
      BY <2>3 DEF InFlight
    <2>5. QED
      BY <1>6, <2>2, <2>4, ConnectMovesClient
  <1>7. ASSUME NEW c \in Clients,
               \/ Refuse(c)
               \/ Connect(c) /\ call[c].ip \in WideIPs
               \/ SetUserDisconnect(c)
               \/ ServerLosesClient(c)
               \/ \E p \in BOOLEAN :
                    CheckPasswordFinish(c, p) /\ CheckPasswordAnswer(c, p) # 0
        PROVE  HangUp(c)
    BY <1>7 DEF Refuse, Connect, SetUserDisconnect, ServerLosesClient, CheckPasswordFinish
  <1>8. ASSUME \/ ClearWorldConnect
               \/ \E b \in AccountIDs : SetUserBlockedByCharacterName(b)
               \/ UNCHANGED vars
        PROVE  InFlight(a)' = {} /\ Online(a)' = Online(a)
    <2>1. UNCHANGED <<pc, call>>
      BY <1>8, OtherStepsKeepClients
    <2>2. InFlight(a)' = InFlight(a)
      BY <2>1 DEF InFlight
    <2>3. QED
      BY <1>8, <2>2, OtherStepsKeepClients
  <1>9. QED
    BY <1>1, <1>2, <1>3, <1>4, <1>5, <1>6, <1>7, <1>8 DEF Next

(* A ban closes the account to every login that had not read it before. *)
THEOREM BanIsEffective == Spec => BanClosesAccount
  <1>1. TypeInv /\ [Next]_vars => [\A a \in AccountIDs : BannedStep(a)]_vars
    BY BannedNext
  <1>2. QED
    BY <1>1, TypeInvariant, PTL DEF Spec, BanClosesAccount

(* The table with all its columns: no row has a NULL address, and TrySetUserConnect's count
   does not overflow. *)
THEOREM TableStaysSound == Spec => []TableSound
  BY TypeCorrect, DuplicatesAreBounded, PTL DEF TableSound
=============================================================================
