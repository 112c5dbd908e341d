------------------------- MODULE BillSessionProofs --------------------------
(***************************************************************************)
(* Proofs about BillSession: BillPacks are decoded where the shop cut      *)
(* them, and a shop that closes with everything dealt with leaves the      *)
(* daemon alone.  The invariant counts bytes: what a session has taken is  *)
(* what it has handled, in whole BillPacks, and what lies in its buffer.   *)
(***************************************************************************)
EXTENDS BillSession, SequenceTheorems, TLAPS

\* The buffer holds what was taken after the last BillPack that was handled.
Counted(s) ==
    /\ taken[s] = SIZE * Len(served[s]) + offset[s]
    /\ taken[s] <= SIZE * Len(sent[s])

\* The BillPacks handled began one after the other, at the front of the stream.
Aligned(s) == \A i \in DOMAIN served[s] : served[s][i] = SIZE * (i - 1)

\* While the database is asked the buffer is empty.
HandledWhole(s) == loop[s] = "querying" => offset[s] = 0 /\ Len(served[s]) > 0

Framing == \A s \in Sessions : Counted(s) /\ Aligned(s) /\ HandledWhole(s)

\* A shop that closed with everything dealt with has nothing left to deal with.
ClosedQuietly ==
    \A s \in Sessions : shop[s] = "closed" /\ s \notin cutOff => ~InHand(s) /\ Available(s) = 0

\* With the daemon every session ends.
Stopped == ~daemonUp => \A s \in Sessions : loop[s] = "over"

Inv == TypeOK /\ Framing /\ ClosedQuietly /\ Stopped /\ OrderlyCloseIsHarmless

-----------------------------------------------------------------------------
(* Arithmetic *)

LEMMA TimesNat ==
    ASSUME NEW k \in Nat
    PROVE  SIZE * k \in Nat
  BY SIZEAssumption

\* One BillPack more is SIZE bytes more.
LEMMA OneMore ==
    ASSUME NEW k \in Nat
    PROVE  SIZE * (k + 1) = SIZE * k + SIZE
  BY SIZEAssumption

\* As many bytes hold as many BillPacks.
LEMMA TimesMonotone ==
    ASSUME NEW k \in Nat, NEW m \in Nat, SIZE * k <= SIZE * m
    PROVE  k <= m
  BY SIZEAssumption

LEMMA WholeDivision ==
    ASSUME NEW k \in Nat
    PROVE  (SIZE * k) \div SIZE = k
  BY SIZEAssumption
-----------------------------------------------------------------------------
(* What the invariant says of one session *)

\* No more BillPacks are handled than were sent, and the one in hand is the last of them.
LEMMA HandledWereSent ==
    ASSUME Inv, NEW s \in Sessions
    PROVE  /\ Len(served[s]) <= Len(sent[s])
           /\ loop[s] = "querying" => /\ Len(served[s]) \in DOMAIN sent[s]
                                      /\ Current(s) = sent[s][Len(served[s])]
  <1>1. sent[s] \in Seq(Requests) /\ served[s] \in Seq(Nat) /\ offset[s] \in Nat /\ taken[s] \in Nat
    BY SIZEAssumption DEF Inv, TypeOK
  <1>2. Len(served[s]) \in Nat /\ Len(sent[s]) \in Nat /\ DOMAIN sent[s] = 1 .. Len(sent[s])
    BY <1>1, LenProperties
  <1>3. SIZE * Len(served[s]) \in Nat /\ SIZE * Len(sent[s]) \in Nat
    BY <1>2, TimesNat
  <1>4. Counted(s) /\ HandledWhole(s)
    BY DEF Inv, Framing
  <1>5. SIZE * Len(served[s]) <= SIZE * Len(sent[s])
    BY <1>1, <1>3, <1>4 DEF Counted
  <1>6. Len(served[s]) <= Len(sent[s])
    BY <1>2, <1>5, TimesMonotone
  <1>7. ASSUME loop[s] = "querying"
        PROVE  Len(served[s]) \in DOMAIN sent[s] /\ Current(s) = sent[s][Len(served[s])]
    <2>1. offset[s] = 0 /\ Len(served[s]) > 0
      BY <1>4, <1>7 DEF HandledWhole
    <2>2. taken[s] = SIZE * Len(served[s])
      BY <1>3, <1>4, <2>1 DEF Counted
    <2>3. taken[s] \div SIZE = Len(served[s])
      BY <1>2, <2>2, WholeDivision
    <2> QED  BY <1>2, <1>6, <2>1, <2>3 DEF Current
  <1> QED  BY <1>6, <1>7

\* A session that looks the same to the framing still satisfies it.
LEMMA FramingUntouched ==
    ASSUME Framing, NEW s \in Sessions,
           taken'[s] = taken[s], offset'[s] = offset[s], served'[s] = served[s], sent'[s] = sent[s],
           loop'[s] = "querying" => loop[s] = "querying"
    PROVE  Counted(s)' /\ Aligned(s)' /\ HandledWhole(s)'
  BY DEF Framing, Counted, Aligned, HandledWhole

\* A session the step leaves alone still has nothing unanswered.
LEMMA QuietUntouched ==
    ASSUME ClosedQuietly, NEW s \in Sessions,
           taken'[s] = taken[s], sent'[s] = sent[s], cutOff \subseteq cutOff',
           shop'[s] = "closed" => shop[s] = "closed",
           InHand(s)' => InHand(s)
    PROVE  shop'[s] = "closed" /\ s \notin cutOff' => ~InHand(s)' /\ Available(s)' = 0
  BY DEF ClosedQuietly, Available

-----------------------------------------------------------------------------
(* The actions preserve the invariant *)

LEMMA InitEstablishesInv == Init => Inv
  <1> SUFFICES ASSUME Init PROVE Inv
    OBVIOUS
  <1>1. TypeOK
    BY SIZEAssumption, EmptySeq DEF Init, TypeOK, Loops, Shops
  <1>2. Len(<<>>) = 0 /\ DOMAIN <<>> = {} /\ SIZE * 0 = 0
    BY SIZEAssumption
  <1>3. ASSUME NEW s \in Sessions PROVE Counted(s) /\ Aligned(s) /\ HandledWhole(s)
    <2>1. sent[s] = <<>> /\ served[s] = <<>> /\ taken[s] = 0 /\ offset[s] = 0 /\ loop[s] = "none"
      BY <1>3 DEF Init
    <2>2. SIZE * Len(sent[s]) = 0 /\ SIZE * Len(served[s]) = 0
      BY <1>2, <2>1
    <2> QED  BY <1>2, <2>1, <2>2 DEF Counted, Aligned, HandledWhole
  <1>4. Framing
    BY <1>3 DEF Framing
  <1>5. ClosedQuietly /\ Stopped /\ OrderlyCloseIsHarmless
    BY DEF Init, ClosedQuietly, Stopped, OrderlyCloseIsHarmless
  <1> QED  BY <1>1, <1>4, <1>5 DEF Inv

\* A step of a daemon that is up, and stays up, breaks no promise about its end.
LEMMA StaysUp ==
    ASSUME daemonUp, daemonUp' = daemonUp
    PROVE  Stopped' /\ OrderlyCloseIsHarmless'
  BY DEF Stopped, OrderlyCloseIsHarmless

\* A session only leaves its place while the daemon is up.
LEMMA PlacedIsUp ==
    ASSUME Inv, NEW s \in Sessions, loop[s] # "over"
    PROVE  daemonUp
  BY DEF Inv, Stopped

\* A step that takes no bytes, and takes none in hand, disturbs no framing.
LEMMA NothingTaken ==
    ASSUME Inv, UNCHANGED <<sent, taken, offset, served>>, cutOff \subseteq cutOff',
           \A t \in Sessions : shop'[t] = "closed" => shop[t] = "closed",
           \A t \in Sessions : loop'[t] = "querying" => loop[t] = "querying",
           \A t \in Sessions : loop'[t] = "resuming" => InHand(t)
    PROVE  Framing' /\ ClosedQuietly'
  <1>1. Framing'
    BY FramingUntouched DEF Framing, Inv
  <1>2. \A t \in Sessions : InHand(t)' => InHand(t)
    BY DEF InHand
  <1>3. ClosedQuietly'
    BY <1>2, QuietUntouched DEF ClosedQuietly, Inv
  <1> QED  BY <1>1, <1>3

LEMMA AcceptSocketStep ==
    ASSUME Inv, NEW s \in Sessions, AcceptSocket(s)
    PROVE  Inv'
  <1>1. TypeOK'
    BY DEF Inv, TypeOK, AcceptSocket, Goto, Loops, Shared
  <1>2. \A t \in Sessions : loop'[t] \in {"querying", "resuming"} => loop'[t] = loop[t]
    BY DEF Inv, TypeOK, AcceptSocket, Goto
  <1>3. Framing' /\ ClosedQuietly'
    BY <1>2, NothingTaken DEF InHand, AcceptSocket
  <1>4. Stopped' /\ OrderlyCloseIsHarmless'
    BY StaysUp DEF AcceptSocket
  <1> QED  BY <1>1, <1>3, <1>4 DEF Inv

LEMMA SendStep ==
    ASSUME Inv, NEW s \in Sessions, NEW request \in Requests, Send(s, request)
    PROVE  Inv'
  <1>1. sent[s] \in Seq(Requests) /\ Len(sent[s]) \in Nat
    BY LenProperties DEF Inv, TypeOK
  <1>2. sent'[s] = Append(sent[s], request)
    BY DEF Inv, TypeOK, Send
  <1>3. /\ sent'[s] \in Seq(Requests)
        /\ Len(sent'[s]) = Len(sent[s]) + 1
        /\ \A i \in DOMAIN sent[s] : i \in DOMAIN sent'[s] /\ sent'[s][i] = sent[s][i]
    BY <1>1, <1>2, AppendProperties
  <1>4. \A t \in Sessions : t # s => sent'[t] = sent[t]
    BY DEF Inv, TypeOK, Send
  <1>5. TypeOK'
    <2>1. sent' \in [Sessions -> Seq(Requests)]
      BY <1>2, <1>3 DEF Inv, TypeOK, Send
    <2> QED  BY <2>1 DEF Inv, TypeOK, Send
  <1>6. Framing'
    <2>1. ASSUME NEW t \in Sessions PROVE Counted(t)' /\ Aligned(t)' /\ HandledWhole(t)'
      <3>1. CASE t # s
        BY <1>4, <3>1, FramingUntouched DEF Inv, Send
      <3>2. CASE t = s
        <4>1. SIZE * Len(sent'[s]) = SIZE * Len(sent[s]) + SIZE
          BY <1>1, <1>3, OneMore
        <4>2. SIZE * Len(sent[s]) \in Nat /\ SIZE \in Nat /\ taken[s] \in Nat
          BY <1>1, TimesNat, SIZEAssumption DEF Inv, TypeOK
        <4>3. Counted(s)'
          BY <4>1, <4>2 DEF Inv, Framing, Counted, Send
        <4> QED  BY <3>2, <4>3 DEF Inv, Framing, Aligned, HandledWhole, Send
      <3> QED  BY <3>1, <3>2
    <2> QED  BY <2>1 DEF Framing
  <1>7. ClosedQuietly'
    <2>1. ASSUME NEW t \in Sessions, shop'[t] = "closed", t \notin cutOff'
          PROVE  ~InHand(t)' /\ Available(t)' = 0
      <3>1. t # s
        BY <2>1 DEF Send
      <3> QED  BY <1>4, <2>1, <3>1, QuietUntouched DEF Inv, InHand, Send
    <2> QED  BY <2>1 DEF ClosedQuietly
  <1>8. Stopped' /\ OrderlyCloseIsHarmless'
    BY StaysUp DEF Send
  <1> QED  BY <1>5, <1>6, <1>7, <1>8 DEF Inv

LEMMA ShopClosesStep ==
    ASSUME Inv, NEW s \in Sessions, ShopCloses(s)
    PROVE  Inv'
  <1>1. TypeOK'
    BY DEF Inv, TypeOK, Shops, ShopCloses
  <1>2. Framing'
    BY FramingUntouched DEF Framing, Inv, ShopCloses
  <1>3. cutOff \subseteq cutOff'
    BY DEF ShopCloses
  <1>4. ClosedQuietly'
    <2>1. ASSUME NEW t \in Sessions, shop'[t] = "closed", t \notin cutOff'
          PROVE  ~InHand(t)' /\ Available(t)' = 0
      <3>1. CASE t # s
        BY <1>3, <2>1, <3>1, QuietUntouched DEF Inv, TypeOK, InHand, ShopCloses
      <3>2. CASE t = s
        <4>1. ~Waiting(s)
          BY <2>1, <3>2 DEF ShopCloses
        <4>2. taken[s] \in Nat /\ Len(sent[s]) \in Nat /\ taken[s] <= SIZE * Len(sent[s])
          BY LenProperties DEF Inv, TypeOK, Framing, Counted
        <4>3. Available(s) = 0
          BY <4>1, <4>2, TimesNat DEF Waiting, Available
        <4> QED  BY <3>2, <4>1, <4>3 DEF Waiting, InHand, Available, ShopCloses
      <3> QED  BY <3>1, <3>2
    <2> QED  BY <2>1 DEF ClosedQuietly
  <1>5. Stopped' /\ OrderlyCloseIsHarmless'
    BY StaysUp DEF ShopCloses
  <1> QED  BY <1>1, <1>2, <1>4, <1>5 DEF Inv

LEMMA ConnectionResetsStep ==
    ASSUME Inv, NEW s \in Sessions, ConnectionResets(s)
    PROVE  Inv'
  <1>1. TypeOK'
    BY DEF Inv, TypeOK, Shops, ConnectionResets
  <1>2. \A t \in Sessions : shop'[t] = "closed" => shop[t] = "closed"
    BY DEF Inv, TypeOK, ConnectionResets
  <1>3. Framing' /\ ClosedQuietly'
    BY <1>2, NothingTaken DEF InHand, ConnectionResets
  <1>4. Stopped' /\ OrderlyCloseIsHarmless'
    BY StaysUp DEF ConnectionResets
  <1> QED  BY <1>1, <1>3, <1>4 DEF Inv

LEMMA ConnectionLostStep ==
    ASSUME Inv, ConnectionLost
    PROVE  Inv'
  <1>1. TypeOK'
    BY DEF Inv, TypeOK, Shared, ConnectionLost
  <1>2. Framing' /\ ClosedQuietly'
    BY NothingTaken DEF InHand, ConnectionLost
  <1>3. Stopped' /\ OrderlyCloseIsHarmless'
    BY StaysUp DEF ConnectionLost
  <1> QED  BY <1>1, <1>2, <1>3 DEF Inv

\* A piece of a BillPack keeps the count; a piece that is a whole one ends one BillPack.
LEMMA EndReceiveFrames ==
    ASSUME Inv, NEW s \in Sessions, NEW n \in 1 .. SIZE, n <= Available(s), EndReceive(s, n)
    PROVE  /\ offset'[s] \in 0 .. SIZE
           /\ taken'[s] = taken[s] + n
           /\ served'[s] \in Seq(Nat)
           /\ Counted(s)' /\ Aligned(s)' /\ HandledWhole(s)'
  <1>1. /\ sent[s] \in Seq(Requests) /\ served[s] \in Seq(Nat)
        /\ offset[s] \in 0 .. SIZE /\ taken[s] \in Nat
    BY DEF Inv, TypeOK
  <1>2. Len(served[s]) \in Nat /\ Len(sent[s]) \in Nat /\ DOMAIN served[s] = 1 .. Len(served[s])
    BY <1>1, LenProperties
  <1>3. SIZE * Len(served[s]) \in Nat /\ SIZE * Len(sent[s]) \in Nat /\ SIZE \in Nat \ {0} /\ n \in Nat
    BY <1>2, TimesNat, SIZEAssumption
  <1>4. Counted(s) /\ Aligned(s) /\ HandledWhole(s)
    BY DEF Inv, Framing
  <1>5. loop[s] = "receiving" /\ n <= SIZE - offset[s]
    BY DEF EndReceive
  <1>6. taken'[s] = taken[s] + n
    BY DEF Inv, TypeOK, EndReceive
  <1>7. taken'[s] <= SIZE * Len(sent'[s]) /\ sent' = sent
    BY <1>1, <1>3, <1>6 DEF Available, EndReceive
  <1>8. CASE n = SIZE
    <2>1. offset[s] = 0 /\ offset'[s] = 0
      BY <1>1, <1>3, <1>5, <1>8 DEF Inv, TypeOK, EndReceive
    <2>2. served'[s] = Append(served[s], taken[s])
      BY <1>8 DEF Inv, TypeOK, EndReceive
    <2>3. /\ served'[s] \in Seq(Nat)
          /\ Len(served'[s]) = Len(served[s]) + 1
          /\ \A i \in 1 .. Len(served[s]) : served'[s][i] = served[s][i]
          /\ served'[s][Len(served[s]) + 1] = taken[s]
          /\ DOMAIN served'[s] = 1 .. Len(served[s]) + 1
      BY <1>1, <1>2, <2>2, AppendProperties, LenProperties
    <2>4. taken[s] = SIZE * Len(served[s])
      BY <1>3, <1>4, <2>1 DEF Counted
    <2>5. SIZE * Len(served'[s]) = SIZE * Len(served[s]) + SIZE
      BY <1>2, <2>3, OneMore
    <2>6. Counted(s)'
      BY <1>1, <1>3, <1>6, <1>7, <1>8, <2>1, <2>4, <2>5 DEF Counted
    <2>7. ASSUME NEW i \in DOMAIN served'[s] PROVE served'[s][i] = SIZE * (i - 1)
      <3>1. CASE i \in 1 .. Len(served[s])
        BY <1>2, <1>4, <2>3, <3>1 DEF Aligned
      <3>2. CASE i = Len(served[s]) + 1
        <4>1. i - 1 = Len(served[s])
          BY <1>2, <3>2
        <4> QED  BY <2>3, <2>4, <3>2, <4>1
      <3> QED  BY <1>2, <2>3, <3>1, <3>2
    <2>8. HandledWhole(s)'
      BY <1>2, <2>1, <2>3 DEF HandledWhole
    <2> QED  BY <1>3, <1>6, <2>1, <2>3, <2>6, <2>7, <2>8 DEF Aligned
  <1>9. CASE n # SIZE
    <2>1. offset'[s] = offset[s] + n /\ served' = served /\ loop'[s] = "resuming"
      BY <1>9 DEF Inv, TypeOK, EndReceive, Goto
    <2>2. Counted(s)'
      BY <1>1, <1>3, <1>4, <1>6, <1>7, <2>1 DEF Counted
    <2>3. Aligned(s)' /\ HandledWhole(s)'
      BY <1>4, <1>5, <2>1 DEF Aligned, HandledWhole
    <2> QED  BY <1>1, <1>3, <1>5, <1>6, <2>1, <2>2, <2>3
  <1> QED  BY <1>8, <1>9

LEMMA EndReceiveStep ==
    ASSUME Inv, NEW s \in Sessions, NEW n \in 1 .. SIZE, n <= Available(s), EndReceive(s, n)
    PROVE  Inv'
  <1>1. /\ offset'[s] \in 0 .. SIZE /\ taken'[s] = taken[s] + n /\ served'[s] \in Seq(Nat)
        /\ Counted(s)' /\ Aligned(s)' /\ HandledWhole(s)'
    BY EndReceiveFrames
  <1>2. taken'[s] \in Nat
    BY <1>1, SIZEAssumption DEF Inv, TypeOK
  <1>3. ASSUME NEW t \in Sessions, t # s
        PROVE  /\ taken'[t] = taken[t] /\ offset'[t] = offset[t] /\ served'[t] = served[t]
               /\ sent'[t] = sent[t] /\ loop'[t] = loop[t] /\ shop'[t] = shop[t]
    BY <1>3 DEF Inv, TypeOK, EndReceive, OnBillPack, Goto
  <1>4. TypeOK'
    <2>1. taken' \in [Sessions -> Nat]
      BY <1>2 DEF Inv, TypeOK, EndReceive
    <2>2. offset' \in [Sessions -> 0 .. SIZE]
      BY <1>1 DEF Inv, TypeOK, EndReceive
    <2>3. served' \in [Sessions -> Seq(Nat)]
      BY <1>1 DEF Inv, TypeOK, EndReceive
    <2>4. loop' \in [Sessions -> Loops] /\ broken' \subseteq Shared
      BY DEF Inv, TypeOK, EndReceive, OnBillPack, Goto, Loops, Shared
    <2> QED  BY <2>1, <2>2, <2>3, <2>4 DEF Inv, TypeOK, EndReceive
  <1>5. Framing'
    BY <1>1, <1>3, FramingUntouched DEF Framing, Inv
  <1>6. ClosedQuietly'
    <2>1. ASSUME NEW t \in Sessions, shop'[t] = "closed", t \notin cutOff'
          PROVE  ~InHand(t)' /\ Available(t)' = 0
      <3>1. cutOff' = cutOff /\ shop' = shop
        BY DEF EndReceive
      <3>2. t # s
        <4>1. n > 0 /\ Available(s) # 0
          BY SIZEAssumption
        <4> QED  BY <2>1, <3>1, <4>1 DEF Inv, ClosedQuietly
      <3> QED  BY <1>3, <2>1, <3>1, <3>2, QuietUntouched DEF Inv, InHand
    <2> QED  BY <2>1 DEF ClosedQuietly
  <1>7. Stopped' /\ OrderlyCloseIsHarmless'
    BY PlacedIsUp, StaysUp DEF EndReceive
  <1> QED  BY <1>4, <1>5, <1>6, <1>7 DEF Inv

LEMMA EndReceiveNothingStep ==
    ASSUME Inv, NEW s \in Sessions, EndReceiveNothing(s)
    PROVE  Inv'
  <1>1. TypeOK'
    BY DEF Inv, TypeOK, EndReceiveNothing, Goto, Loops, Shared
  <1>2. /\ \A t \in Sessions : loop'[t] = "querying" => loop[t] = "querying"
        /\ \A t \in Sessions : loop'[t] = "resuming" => InHand(t)
        /\ \A t \in Sessions : shop'[t] = "closed" => shop[t] = "closed"
    BY DEF Inv, TypeOK, InHand, EndReceiveNothing, Goto
  <1>3. Framing' /\ ClosedQuietly'
    BY <1>2, NothingTaken DEF EndReceiveNothing
  <1>4. Stopped' /\ OrderlyCloseIsHarmless'
    BY PlacedIsUp, StaysUp DEF EndReceiveNothing
  <1> QED  BY <1>1, <1>3, <1>4 DEF Inv

LEMMA OnDisconnectStep ==
    ASSUME Inv, NEW s \in Sessions, OnDisconnect(s)
    PROVE  Inv'
  <1>1. TypeOK'
    BY DEF Inv, TypeOK, OnDisconnect, Goto, Loops
  <1>2. /\ \A t \in Sessions : loop'[t] = "querying" => loop[t] = "querying"
        /\ \A t \in Sessions : loop'[t] = "resuming" => InHand(t)
        /\ \A t \in Sessions : shop'[t] = "closed" => shop[t] = "closed"
    BY DEF Inv, TypeOK, InHand, OnDisconnect, Goto
  <1>3. Framing' /\ ClosedQuietly'
    BY <1>2, NothingTaken DEF OnDisconnect
  <1>4. Stopped' /\ OrderlyCloseIsHarmless'
    BY PlacedIsUp, StaysUp DEF OnDisconnect
  <1> QED  BY <1>1, <1>3, <1>4 DEF Inv

LEMMA QueryStep ==
    ASSUME Inv, NEW s \in Sessions, Query(s)
    PROVE  Inv'
  <1>1. TypeOK'
    BY DEF Inv, TypeOK, Query, Goto, Loops
  <1>2. /\ \A t \in Sessions : loop'[t] = "querying" => loop[t] = "querying"
        /\ \A t \in Sessions : loop'[t] = "resuming" => InHand(t)
        /\ \A t \in Sessions : shop'[t] = "closed" => shop[t] = "closed"
    BY DEF Inv, TypeOK, InHand, Query, Goto
  <1>3. Framing' /\ ClosedQuietly'
    BY <1>2, NothingTaken DEF Query
  <1>4. Stopped' /\ OrderlyCloseIsHarmless'
    BY PlacedIsUp, StaysUp DEF Query
  <1> QED  BY <1>1, <1>3, <1>4 DEF Inv

LEMMA BeginReceiveStep ==
    ASSUME Inv, NEW s \in Sessions, BeginReceive(s)
    PROVE  Inv'
  <1>1. TypeOK'
    BY DEF Inv, TypeOK, BeginReceive, Goto, Loops, Shops
  <1>2. /\ \A t \in Sessions : loop'[t] = "querying" => loop[t] = "querying"
        /\ \A t \in Sessions : loop'[t] = "resuming" => InHand(t)
        /\ \A t \in Sessions : shop'[t] = "closed" => shop[t] = "closed"
    BY DEF Inv, TypeOK, InHand, BeginReceive, Goto
  <1>3. Framing' /\ ClosedQuietly'
    BY <1>2, NothingTaken DEF BeginReceive
  <1>4. Stopped' /\ OrderlyCloseIsHarmless'
    BY PlacedIsUp, StaysUp DEF BeginReceive
  <1> QED  BY <1>1, <1>3, <1>4 DEF Inv

\* The daemon may die where one of the named causes is there already.
LEMMA DaemonDiesStep ==
    ASSUME Inv, DaemonDies,
           \/ cutOff # {}
           \/ \E s \in Sessions : shop[s] = "reset"
           \/ \E s \in Sessions : \E i \in DOMAIN served[s] : sent[s][i] = "no_account"
           \/ broken # {}
    PROVE  Inv'
  <1>1. TypeOK' /\ Stopped'
    BY DEF Inv, TypeOK, Loops, Stopped, DaemonDies
  <1>2. \A t \in Sessions : loop'[t] = "over"
    BY DEF DaemonDies
  <1>3. Framing' /\ ClosedQuietly'
    BY <1>2, NothingTaken DEF DaemonDies
  <1>4. OrderlyCloseIsHarmless'
    BY DEF OrderlyCloseIsHarmless, DaemonDies
  <1> QED  BY <1>1, <1>3, <1>4 DEF Inv

\* Its command failed on a broken connection, or the BillPack in hand, the last one that was
\* handled, names no account.
LEMMA QueryThrowsStep ==
    ASSUME Inv, NEW s \in Sessions, QueryThrows(s)
    PROVE  Inv'
  <1>1. CASE "connection" \in broken
    BY <1>1, DaemonDiesStep DEF QueryThrows
  <1>2. CASE Current(s) = "no_account"
    <2>1. loop[s] = "querying" /\ DaemonDies
      BY DEF QueryThrows
    <2>2. Len(served[s]) \in DOMAIN sent[s] /\ sent[s][Len(served[s])] = "no_account"
      BY <1>2, <2>1, HandledWereSent
    <2>3. Len(served[s]) \in DOMAIN served[s]
      BY <2>1, LenProperties DEF Inv, TypeOK, Framing, HandledWhole
    <2> QED  BY <2>1, <2>2, <2>3, DaemonDiesStep
  <1> QED  BY <1>1, <1>2 DEF QueryThrows

LEMMA OnDisconnectThrowsStep ==
    ASSUME Inv, NEW s \in Sessions, OnDisconnectThrows(s)
    PROVE  Inv'
  BY DaemonDiesStep DEF OnDisconnectThrows

\* A shop that closed while its bytes were in hand is one that was cut off.
LEMMA BeginReceiveThrowsStep ==
    ASSUME Inv, NEW s \in Sessions, BeginReceiveThrows(s)
    PROVE  Inv'
  <1>1. DaemonDies /\ InHand(s) /\ shop[s] \in {"closed", "reset"}
    BY DEF Inv, TypeOK, Shops, InHand, BeginReceiveThrows
  <1>2. shop[s] = "reset" \/ s \in cutOff
    BY <1>1 DEF Inv, ClosedQuietly
  <1> QED  BY <1>1, <1>2, DaemonDiesStep

LEMMA NextPreservesInv == Inv /\ [Next]_vars => Inv'
  <1> SUFFICES ASSUME Inv, [Next]_vars PROVE Inv'
    OBVIOUS
  <1>1. CASE UNCHANGED vars
    BY <1>1 DEF vars, Inv, TypeOK, Framing, Counted, Aligned, HandledWhole, ClosedQuietly, InHand,
                Available, Stopped, OrderlyCloseIsHarmless
  <1>2. CASE ConnectionLost
    BY <1>2, ConnectionLostStep
  <1>3. ASSUME NEW s \in Sessions, Serve(s)
        PROVE  Inv'
    BY <1>3, AcceptSocketStep, EndReceiveStep, QueryStep, QueryThrowsStep, BeginReceiveStep,
       BeginReceiveThrowsStep, OnDisconnectStep, OnDisconnectThrowsStep DEF Serve, Receive
  <1>4. ASSUME NEW s \in Sessions, NEW request \in Requests, Send(s, request)
        PROVE  Inv'
    BY <1>4, SendStep
  <1>5. ASSUME NEW s \in Sessions, EndReceiveNothing(s) \/ ShopCloses(s) \/ ConnectionResets(s)
        PROVE  Inv'
    BY <1>5, EndReceiveNothingStep, ShopClosesStep, ConnectionResetsStep
  <1> QED  BY <1>1, <1>2, <1>3, <1>4, <1>5 DEF Next

-----------------------------------------------------------------------------
(* Theorems *)

LEMMA Invariance == Spec => []Inv
  <1>1. Init => Inv
    BY InitEstablishesInv
  <1>2. Inv /\ [Next]_vars => Inv'
    BY NextPreservesInv
  <1> QED  BY <1>1, <1>2, PTL DEF Spec

\* EndReceive (Session.cs): however TCP cuts the stream, the BillPacks decoded are the
\* first ones the shop sent, in order, each from its first byte.
THEOREM FramesStayAligned == Spec => []FramesAligned
  <1>1. Inv => FramesAligned
    <2> SUFFICES ASSUME Inv PROVE FramesAligned
      OBVIOUS
    <2>1. ASSUME NEW s \in Sessions, NEW i \in DOMAIN served[s]
          PROVE  served[s][i] = SIZE * (i - 1) /\ i <= Len(sent[s])
      <3>1. served[s] \in Seq(Nat) /\ sent[s] \in Seq(Requests)
        BY DEF Inv, TypeOK
      <3>2. i \in 1 .. Len(served[s]) /\ Len(served[s]) \in Nat /\ Len(sent[s]) \in Nat
        BY <3>1, LenProperties
      <3> QED  BY <3>2, HandledWereSent DEF Inv, Framing, Aligned
    <2> QED  BY <2>1 DEF Inv, FramesAligned
  <1> QED  BY <1>1, Invariance, PTL

\* The callbacks of Session.cs and Program.cs: a shop that closes when everything it sent is
\* dealt with never takes the daemon down.  What does is named: a shop that closed earlier, a
\* reset, a request for an account that does not exist, an SqlConnection that was lost or
\* used by two callbacks at once, or two changes of ConnectedShops at once.
THEOREM OrderlyClosesAreHarmless == Spec => []OrderlyCloseIsHarmless
  <1>1. Inv => OrderlyCloseIsHarmless
    BY DEF Inv
  <1> QED  BY <1>1, Invariance, PTL
=============================================================================
