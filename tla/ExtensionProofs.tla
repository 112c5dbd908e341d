-------------------------- MODULE ExtensionProofs ---------------------------
(***************************************************************************)
(* Safety of the extensions' parts.                                        *)
(*                                                                         *)
(* PacketBuffer: memory safety for any fields, any length of a packet, any *)
(* width of m_uLength and any order of evaluation; and that what is read   *)
(* is what was written, for strings that are C strings and a build that    *)
(* evaluates from left to right.  The fields of a packet lie one behind    *)
(* the other, and the reader stands at the start of one.                   *)
(*                                                                         *)
(* ClientStart: for any handles and any number of calls, however the       *)
(* launcher, DllMain and the main thread interleave.                       *)
(*                                                                         *)
(* ClientSender: for any number of threads, packets and connections.  The  *)
(* mutex gives the number and the buffer list to one thread at a time, so  *)
(* the list is one packet ahead of the number exactly while some thread is *)
(* between MakeBufferList and its hash.                                    *)
(*                                                                         *)
(* ZMap: for any keys, hash and sizes of the table, whatever the binary    *)
(* inserts, removes and grows.  Every link leads forward, within its       *)
(* bucket or to a later one, so no chain closes a ring, and a link that    *)
(* get_next made skips only pairs that came later; until it has made one,  *)
(* no link leads out of its bucket, and nothing breaks the map.            *)
(*                                                                         *)
(* AvatarLook: for any looks and any bytes lost on the way.  The encoder   *)
(* stands behind the slots it has listed, the reader stands at the next    *)
(* listed slot, and the decoding loop has a round for every one of them.   *)
(***************************************************************************)
EXTENDS PacketBuffer, ClientStart, ClientSender, ZMap, AvatarLook, FiniteSetTheorems,
        SequenceTheorems, WellFoundedInduction, TLAPS

-----------------------------------------------------------------------------
(* PacketBuffer *)

OutPacket == [bytes : Seq(Bytes), allocated : Nat]

\* What is received, and what is copied, claims no more bytes than there are.
LengthInv ==
    /\ status = "received" => packet.length <= Len(packet.data) /\ packet.offset = 2
    /\ status = "reading" => copy.length <= Len(copy.data)

PacketInv == PacketTypeOK /\ RegionHoldsPacket /\ LengthInv /\ OverreadIsBounded

-----------------------------------------------------------------------------
(* Arithmetic *)

\* A set of numbers has a least one.
LEMMA LeastExists ==
    ASSUME NEW T \in SUBSET Nat, T # {}
    PROVE  \E n \in T : \A m \in T : n <= m
  <1>1. PICK R : R = OpToRel(<, Nat)
    OBVIOUS
  <1>2. \A i, j \in Nat : i < j => <<i, j>> \in R
    BY <1>1 DEF OpToRel
  <1>3. IsWellFoundedOn(R, Nat)
    BY <1>1, NatLessThanWellFounded
  <1>4. PICK n \in T : \A m \in T : ~(<<m, n>> \in R)
    BY <1>3, WFMin, Zenon
  <1>5. ASSUME NEW m \in T PROVE n <= m
    <2>1. n \in Nat /\ m \in Nat /\ ~(m < n)
      BY <1>2, <1>4
    <2> QED  BY <2>1
  <1> QED  BY <1>5

LEMMA SlackOfString ==
    ASSUME NEW allocated \in Nat, NEW used \in Nat, NEW size \in Nat, NEW n \in Nat, n = size + 4
    PROVE  (allocated + n + 2) - (used + 2 + size) = allocated - used + 4
  OBVIOUS

LEMMA SlackOfBinaryString ==
    ASSUME NEW allocated \in Nat, NEW used \in Nat, NEW size \in Nat
    PROVE  (allocated + 2 + size) - (used + 2 + size) = allocated - used + 0
  OBVIOUS

LEMMA SlackAddsUp ==
    ASSUME NEW a \in Nat, NEW b \in Nat, NEW c \in Nat, NEW d \in Nat, NEW k \in Nat,
           NEW more \in {0, 1}, a - b = c - d + 4 * more, c = d + 4 * k
    PROVE  a = b + 4 * (k + more)
  OBVIOUS

-----------------------------------------------------------------------------
(* The encoders *)

LEMMA WordIsTyped == ASSUME NEW n \in Nat PROVE Word(n) \in Seq(Bytes) /\ Len(Word(n)) = 2
<1>1. n % 256 \in Bytes /\ (n \div 256) % 256 \in Bytes
  BY DEF Bytes
<1> QED
  BY <1>1 DEF Word

LEMMA StoreIsTyped ==
    ASSUME NEW o \in OutPacket, NEW b \in Seq(Bytes)
    PROVE  /\ Store(o, b) \in OutPacket
           /\ Store(o, b).allocated = o.allocated
           /\ Len(Store(o, b).bytes) = Len(o.bytes) + Len(b)
<1> DEFINE new == o.bytes \o b
<1>1. o.bytes \in Seq(Bytes)
  BY DEF OutPacket
<1>2. new \in Seq(Bytes) /\ Len(new) = Len(o.bytes) + Len(b)
  BY <1>1
<1>3. Store(o, b) = [o EXCEPT !.bytes = new]
  BY DEF Store
<1> HIDE DEF new
<1> QED
  BY <1>2, <1>3 DEF OutPacket

LEMMA EnlargeBufferIsTyped ==
    ASSUME NEW o \in OutPacket, NEW n \in Nat
    PROVE  /\ EnlargeBuffer(o, n) \in OutPacket
           /\ EnlargeBuffer(o, n).allocated = o.allocated + n
           /\ EnlargeBuffer(o, n).bytes = o.bytes
  BY DEF OutPacket, EnlargeBuffer

\* A number and a buffer take the room they are given.
LEMMA EncodeNumberFits ==
    ASSUME NEW o \in OutPacket, NEW b \in Seq(Bytes)
    PROVE  /\ EncodeNumber(o, b) \in OutPacket
           /\ EncodeNumber(o, b).allocated = o.allocated + Len(b)
           /\ Len(EncodeNumber(o, b).bytes) = Len(o.bytes) + Len(b)
<1> DEFINE e == EnlargeBuffer(o, Len(b))
<1>1. Len(b) \in Nat
  OBVIOUS
<1>2. e \in OutPacket /\ e.allocated = o.allocated + Len(b) /\ e.bytes = o.bytes
  BY <1>1, EnlargeBufferIsTyped
<1>3. EncodeNumber(o, b) = Store(e, b)
  BY DEF EncodeNumber
<1> HIDE DEF e
<1>4. /\ Store(e, b) \in OutPacket /\ Store(e, b).allocated = e.allocated
      /\ Len(Store(e, b).bytes) = Len(e.bytes) + Len(b)
  BY <1>2, StoreIsTyped
<1> QED
  BY <1>2, <1>3, <1>4

\* EncodeStr takes four bytes more than it stores.
LEMMA EncodeStrFits ==
    ASSUME NEW o \in OutPacket, NEW chars \in Seq(Bytes)
    PROVE  /\ EncodeStr(o, chars) \in OutPacket
           /\ EncodeStr(o, chars).allocated - Len(EncodeStr(o, chars).bytes)
                  = o.allocated - Len(o.bytes) + 4
<1> DEFINE s == Assign(chars)
           n == Len(s) + 4
           o1 == EnlargeBuffer(o, n)
           o2 == EncodeNumber(o1, Word(Len(s)))
<1>1. s \in Seq(Bytes) /\ Len(s) \in Nat
  BY DEF Assign, Bytes
<1> HIDE DEF s
<1>a. n \in Nat /\ n = Len(s) + 4 /\ o.allocated \in Nat
  BY <1>1 DEF OutPacket
<1> HIDE DEF n
<1>2. o1 \in OutPacket /\ o1.allocated = o.allocated + n /\ o1.bytes = o.bytes
  BY <1>a, EnlargeBufferIsTyped
<1> HIDE DEF o1
<1>3. /\ o2 \in OutPacket
      /\ o2.allocated = o1.allocated + 2
      /\ Len(o2.bytes) = Len(o1.bytes) + 2
  <2> DEFINE w == Word(Len(s))
  <2>1. w \in Seq(Bytes) /\ Len(w) = 2
    BY <1>1, WordIsTyped
  <2> HIDE DEF w
  <2>2. /\ EncodeNumber(o1, w) \in OutPacket
        /\ EncodeNumber(o1, w).allocated = o1.allocated + 2
        /\ Len(EncodeNumber(o1, w).bytes) = Len(o1.bytes) + 2
    BY <1>2, <2>1, EncodeNumberFits
  <2> QED
    BY <2>2 DEF w
<1>4. EncodeStr(o, chars) = Store(o2, s)
  BY DEF EncodeStr, s, o1, n
<1> HIDE DEF o2
<1>5. /\ Store(o2, s) \in OutPacket
      /\ Store(o2, s).allocated = o2.allocated
      /\ Len(Store(o2, s).bytes) = Len(o2.bytes) + Len(s)
  BY <1>1, <1>3, StoreIsTyped
<1>6. Len(o.bytes) \in Nat /\ o.allocated \in Nat
  BY DEF OutPacket
<1>7. /\ EncodeStr(o, chars).allocated = o.allocated + n + 2
      /\ Len(EncodeStr(o, chars).bytes) = Len(o.bytes) + 2 + Len(s)
  BY <1>2, <1>3, <1>4, <1>5
<1>8. (o.allocated + n + 2) - (Len(o.bytes) + 2 + Len(s)) = o.allocated - Len(o.bytes) + 4
  BY <1>1, <1>a, <1>6, SlackOfString
<1> QED
  BY <1>3, <1>4, <1>5, <1>7, <1>8

\* Every field but a string of the extension takes the room it is given.
LEMMA WrittenFits ==
    ASSUME NEW f \in Field, out \in OutPacket, origin \in {"extension", "binary"}
    PROVE  /\ Written(f) \in OutPacket
           /\ Written(f).allocated - Len(Written(f).bytes)
                  = out.allocated - Len(out.bytes)
                    + (IF f.op = "string" /\ origin = "extension" THEN 4 ELSE 0)
<1>0. f.bytes \in Seq(Bytes) /\ f.op \in Ops /\ Len(f.bytes) \in Nat
  BY DEF Field
<1>a. Len(out.bytes) \in Nat /\ out.allocated \in Nat
  BY DEF OutPacket
<1>b. EncodeBuffer(out, f.bytes) = EncodeNumber(out, f.bytes)
  BY DEF EncodeBuffer, EncodeNumber
<1>1. CASE f.op \in {"number", "buffer"}
  <2>1. Written(f) = EncodeNumber(out, f.bytes)
    BY <1>1, <1>b DEF Written
  <2> QED
    BY <1>0, <1>1, <1>a, <2>1, EncodeNumberFits
<1>2. CASE f.op = "null"
  <2>1. Written(f) = out
    BY <1>2 DEF Written
  <2> QED
    BY <1>2, <1>a, <2>1
<1>3. CASE f.op = "string" /\ origin = "extension"
  <2>1. Written(f) = EncodeStr(out, f.bytes)
    BY <1>3 DEF Written
  <2> QED
    BY <1>0, <1>3, <2>1, EncodeStrFits
<1>4. CASE f.op = "string" /\ origin = "binary"
  <2> DEFINE o == EncodeNumber(out, Word(Len(f.bytes)))
  <2>1. Written(f) = EncodeNumber(o, f.bytes)
    BY <1>4 DEF Written, EncodeStrOfBinary, EncodeBuffer, EncodeNumber
  <2>2. o \in OutPacket /\ o.allocated = out.allocated + 2 /\ Len(o.bytes) = Len(out.bytes) + 2
    BY <1>0, WordIsTyped, EncodeNumberFits
  <2> HIDE DEF o
  <2>3. /\ Written(f) \in OutPacket
        /\ Written(f).allocated = o.allocated + Len(f.bytes)
        /\ Len(Written(f).bytes) = Len(o.bytes) + Len(f.bytes)
    BY <1>0, <2>1, <2>2, EncodeNumberFits
  <2>4. /\ Written(f).allocated = out.allocated + 2 + Len(f.bytes)
        /\ Len(Written(f).bytes) = Len(out.bytes) + 2 + Len(f.bytes)
    BY <2>2, <2>3
  <2>5. Written(f).allocated - Len(Written(f).bytes) = out.allocated - Len(out.bytes) + 0
    <3> DEFINE a == out.allocated
               b == Len(out.bytes)
               size == Len(f.bytes)
    <3>1. a \in Nat /\ b \in Nat /\ size \in Nat
      BY <1>0, <1>a
    <3>2. Written(f).allocated = a + 2 + size /\ Len(Written(f).bytes) = b + 2 + size
      BY <2>4
    <3> HIDE DEF a, b, size
    <3>3. (a + 2 + size) - (b + 2 + size) = a - b + 0
      BY <3>1, SlackOfBinaryString
    <3> QED
      BY <3>2, <3>3 DEF a, b
  <2> QED
    BY <1>4, <2>3, <2>5
<1> QED
  BY <1>0, <1>1, <1>2, <1>3, <1>4 DEF Ops

-----------------------------------------------------------------------------
(* The decoders *)

LEMMA RemainderIsBounded ==
    ASSUME NEW x \in Nat, NEW m \in Nat \ {0} PROVE x % m \in Nat /\ x % m <= x
  OBVIOUS

LEMMA AsShortIsBounded ==
    ASSUME NEW n \in Nat PROVE AsShort(n) \in Int /\ AsShort(n) <= n
<1> DEFINE m == 2 * (ShortMax + 1)
           x == n + ShortMax + 1
<1>1. m \in Nat \ {0} /\ x \in Nat /\ ShortMax \in Nat
  BY BoundsAssumption
<1>2. AsShort(n) = (x % m) - (ShortMax + 1) /\ x = n + (ShortMax + 1)
  BY <1>1 DEF AsShort
<1> HIDE DEF m, x
<1>3. x % m \in Nat /\ x % m <= x
  BY <1>1, RemainderIsBounded
<1> DEFINE r == x % m
<1>4. r \in Nat /\ r <= x /\ AsShort(n) = r - (ShortMax + 1)
  BY <1>2, <1>3
<1> HIDE DEF r
<1> QED
  BY <1>1, <1>2, <1>4

LEMMA PacketInvInit == PacketInit => PacketInv
<1> SUFFICES ASSUME PacketInit PROVE PacketInv
  OBVIOUS
<1> DEFINE type == <<24, 0>>
           empty == [bytes |-> <<>>, allocated |-> 0]
<1>1. type \in Seq(Bytes) /\ Len(type) = 2 /\ empty \in OutPacket
  BY DEF Bytes, OutPacket
<1>2. /\ out = EncodeNumber(empty, type)
      /\ origin \in {"extension", "binary"} /\ written = <<>> /\ strings = 0 /\ cut = FALSE
      /\ packet = NoPacket /\ copy = NoPacket /\ read = <<>> /\ status = "sending"
  BY DEF PacketInit, Constructed
<1>a. empty.allocated = 0 /\ Len(empty.bytes) = 0
  OBVIOUS
<1> HIDE DEF type, empty
<1>3. out \in OutPacket /\ out.allocated = 2 /\ Len(out.bytes) = 2
  <2>1. /\ EncodeNumber(empty, type) \in OutPacket
        /\ EncodeNumber(empty, type).allocated = 0 + Len(type)
        /\ Len(EncodeNumber(empty, type).bytes) = 0 + Len(type)
    BY <1>1, <1>a, EncodeNumberFits
  <2> QED
    BY <1>1, <1>2, <2>1
<1>b. NoPacket \in InPacket
  BY DEF NoPacket, InPacket
<1>4. PacketTypeOK
  <2>1. written \in Seq(Field) /\ read \in Seq(Seq(Bytes))
    BY <1>2
  <2>2. /\ strings \in Nat /\ cut \in BOOLEAN
        /\ packet \in InPacket /\ copy \in InPacket
        /\ status \in {"sending", "received", "reading", "thrown"}
        /\ origin \in {"extension", "binary"}
    BY <1>2, <1>b
  <2> QED
    BY <1>3, <2>1, <2>2 DEF PacketTypeOK, OutPacket
<1>5. RegionHoldsPacket /\ LengthInv /\ OverreadIsBounded
  BY <1>2, <1>3 DEF RegionHoldsPacket, LengthInv, OverreadIsBounded
<1> QED
  BY <1>4, <1>5 DEF PacketInv

LEMMA EncodeStep == ASSUME NEW f \in Fields, PacketInv, Encode(f) PROVE PacketInv'
<1>1. f \in Field /\ out \in OutPacket /\ origin \in {"extension", "binary"} /\ strings \in Nat
  BY FieldsAssumption DEF PacketInv, PacketTypeOK, OutPacket
<1>2. /\ out' = Written(f) /\ written' = Append(written, f) /\ status = "sending"
      /\ strings' = strings + (IF f.op = "string" /\ origin = "extension" THEN 1 ELSE 0)
      /\ UNCHANGED <<origin, cut, packet, copy, status>>
  BY DEF Encode
<1>3. out' \in OutPacket
  BY <1>1, <1>2, WrittenFits
<1>4. PacketTypeOK'
  <2>1. strings' \in Nat
    BY <1>1, <1>2
  <2>2. written' \in Seq(Field)
    BY <1>1, <1>2 DEF PacketInv, PacketTypeOK
  <2>3. read' = read
    BY DEF Encode
  <2> QED
    BY <1>2, <1>3, <2>1, <2>2, <2>3 DEF PacketInv, PacketTypeOK, OutPacket
<1>5. RegionHoldsPacket'
  <2>1. out.allocated \in Nat /\ Len(out.bytes) \in Nat /\ out'.allocated \in Nat
        /\ Len(out'.bytes) \in Nat
    BY <1>1, <1>3 DEF OutPacket
  <2>2. out'.allocated - Len(out'.bytes) = out.allocated - Len(out.bytes)
            + (IF f.op = "string" /\ origin = "extension" THEN 4 ELSE 0)
    BY <1>1, <1>2, WrittenFits
  <2>3. out.allocated = Len(out.bytes) + 4 * strings
    BY DEF PacketInv, RegionHoldsPacket
  <2> DEFINE a == out'.allocated
             b == Len(out'.bytes)
             c == out.allocated
             d == Len(out.bytes)
  <2>a. a \in Nat /\ b \in Nat /\ c \in Nat /\ d \in Nat /\ c = d + 4 * strings
    BY <2>1, <2>3
  <2>4. CASE f.op = "string" /\ origin = "extension"
    <3>1. strings' = strings + 1 /\ a - b = c - d + 4 * 1
      BY <1>2, <2>2, <2>4
    <3> HIDE DEF a, b, c, d
    <3>2. a = b + 4 * (strings + 1)
      BY <1>1, <2>a, <3>1, SlackAddsUp
    <3>3. a = b + 4 * strings'
      BY <3>1, <3>2
    <3> QED
      BY <3>3 DEF RegionHoldsPacket, a, b
  <2>5. CASE ~(f.op = "string" /\ origin = "extension")
    <3>1. strings' = strings + 0 /\ a - b = c - d + 4 * 0
      BY <1>2, <2>2, <2>5
    <3> HIDE DEF a, b, c, d
    <3>2. a = b + 4 * (strings + 0)
      BY <1>1, <2>a, <3>1, SlackAddsUp
    <3>3. a = b + 4 * strings'
      BY <3>1, <3>2
    <3> QED
      BY <3>3 DEF RegionHoldsPacket, a, b
  <2> QED
    BY <2>4, <2>5
<1>6. LengthInv' /\ OverreadIsBounded'
  BY <1>2 DEF LengthInv, OverreadIsBounded
<1> QED
  BY <1>4, <1>5, <1>6 DEF PacketInv

LEMMA DeliverStep == ASSUME NEW n \in 2 .. Len(out.bytes), PacketInv, Deliver(n) PROVE PacketInv'
<1>1. out.bytes \in Seq(Bytes) /\ n \in Nat
  BY DEF PacketInv, PacketTypeOK
<1>2. SubSeq(out.bytes, 1, n) \in Seq(Bytes)
  BY <1>1
<1>3. packet' \in InPacket
  BY <1>1, <1>2, AsShortIsBounded DEF Deliver, InPacket
<1>4. PacketTypeOK'
  BY <1>3 DEF Deliver, PacketInv, PacketTypeOK
<1>5. packet'.length <= Len(packet'.data) /\ packet'.offset = 2
  <2>1. packet'.data = SubSeq(out.bytes, 1, n) /\ packet'.length = AsShort(n)
        /\ packet'.offset = 2
    BY DEF Deliver
  <2>2. Len(SubSeq(out.bytes, 1, n)) = n
    BY <1>1
  <2> QED
    BY <1>1, <2>1, <2>2, AsShortIsBounded
<1>6. status' = "received" /\ UNCHANGED <<out, strings>>
  BY DEF Deliver
<1>7. RegionHoldsPacket' /\ LengthInv' /\ OverreadIsBounded'
  BY <1>5, <1>6 DEF PacketInv, RegionHoldsPacket, LengthInv, OverreadIsBounded
<1> QED
  BY <1>4, <1>7 DEF PacketInv

LEMMA CopyStep == ASSUME PacketInv, CopyFrom PROVE PacketInv'
<1>1. PacketTypeOK'
  BY DEF CopyFrom, Throw, PacketInv, PacketTypeOK
<1>2. RegionHoldsPacket'
  BY DEF CopyFrom, PacketInv, RegionHoldsPacket
<1>3. LengthInv' /\ OverreadIsBounded'
  BY DEF CopyFrom, Throw, PacketInv, PacketTypeOK, LengthInv, OverreadIsBounded,
         InPacket
<1> QED
  BY <1>1, <1>2, <1>3 DEF PacketInv

\* What a C string holds before its zero.
LEMMA CStringIsTyped ==
    ASSUME NEW b \in Seq(Bytes), NEW z \in 1 .. Len(b), b[z] = 0
    PROVE  CString(b) \in Seq(Bytes)
<1> DEFINE zeros == {i \in 1 .. Len(b) : b[i] = 0}
           end == CHOOSE i \in 1 .. Len(b) : b[i] = 0 /\ \A j \in 1 .. i - 1 : b[j] # 0
<1>1. zeros \subseteq Nat /\ zeros # {}
  OBVIOUS
<1>2. PICK n \in zeros : \A m \in zeros : n <= m
  <2> HIDE DEF zeros
  <2> QED
    BY <1>1, LeastExists
<1>3. \E i \in 1 .. Len(b) : b[i] = 0 /\ \A j \in 1 .. i - 1 : b[j] # 0
  <2>1. n \in 1 .. Len(b) /\ b[n] = 0
    OBVIOUS
  <2>2. ASSUME NEW j \in 1 .. n - 1 PROVE b[j] # 0
    BY <1>2, <2>1
  <2> QED
    BY <2>1, <2>2
<1>4. end \in 1 .. Len(b)
  BY <1>3
<1>5. CString(b) = SubSeq(b, 1, end - 1)
  BY DEF CString
<1> HIDE DEF end
<1> QED
  BY <1>4, <1>5

\* Whatever is decoded is bytes, and moves the offset by as many as were left, or by two more.
Moved ==
    \E decoded \in Seq(Bytes), n \in Nat : n <= GetBytesLeft + 2 /\ Took(decoded, n)

LEMMA DecodeMoves ==
    ASSUME NEW g \in Garbage, PacketInv, Decode(g)
    PROVE  Throw \/ Moved
<1>1. /\ copy \in InPacket /\ status = "reading" /\ written \in Seq(Field)
      /\ read \in Seq(Seq(Bytes)) /\ Len(read) < Len(written)
  BY DEF PacketInv, PacketTypeOK, Decode
<1>2. /\ copy.data \in Seq(Bytes) /\ copy.length \in Int /\ copy.offset \in Nat
      /\ copy.length <= Len(copy.data)
  BY <1>1 DEF InPacket, PacketInv, LengthInv
<1> DEFINE f == written[Len(read) + 1]
<1>3. f \in Field
  BY <1>1
<1>4. Len(f.bytes) \in Nat
  BY <1>3 DEF Field
<1>5. \/ DecodeNumber(Len(f.bytes)) \/ DecodeBuffer(Len(f.bytes)) \/ DecodeStr(g)
  BY DEF Decode
<1> HIDE DEF f
<1>6. ASSUME NEW n \in Nat, DecodeNumber(n) PROVE Throw \/ Moved
  <2> SUFFICES ASSUME ~Throw PROVE Moved
    OBVIOUS
  <2> DEFINE decoded == [k \in 1 .. n |->
                         copy.data[copy.offset + (IF n = 4 THEN Decode4Order[k] ELSE k)]]
  <2>1. n <= GetBytesLeft /\ Took(decoded, n)
    BY <1>6 DEF DecodeNumber
  <2>2. ASSUME NEW k \in 1 .. n PROVE decoded[k] \in Bytes
    <3> DEFINE j == IF n = 4 THEN Decode4Order[k] ELSE k
    <3>1. j \in 1 .. n
      BY OrderAssumption
    <3> HIDE DEF j
    <3>2. copy.offset + j \in 1 .. Len(copy.data)
      BY <1>2, <2>1, <3>1 DEF GetBytesLeft
    <3>3. copy.data[copy.offset + j] \in Bytes
      BY <1>2, <3>2
    <3> QED
      BY <3>3 DEF j
  <2>3. decoded \in [1 .. n -> Bytes]
    BY <2>2
  <2>4. decoded \in Seq(Bytes)
    <3> HIDE DEF decoded
    <3> QED
      BY <2>3
  <2> HIDE DEF decoded
  <2> QED
    BY <1>2, <2>1, <2>4 DEF Moved, GetBytesLeft
<1>7. ASSUME NEW n \in Nat, DecodeBuffer(n) PROVE Throw \/ Moved
  <2> SUFFICES ASSUME ~Throw PROVE Moved
    OBVIOUS
  <2> DEFINE decoded == SubSeq(copy.data, copy.offset + 1, copy.offset + n)
  <2>1. n <= GetBytesLeft /\ Took(decoded, n)
    BY <1>7 DEF DecodeBuffer
  <2>2. decoded \in Seq(Bytes)
    BY <1>2, <2>1 DEF GetBytesLeft
  <2> HIDE DEF decoded
  <2> QED
    BY <1>2, <2>1, <2>2 DEF Moved, GetBytesLeft
<1>8. ASSUME DecodeStr(g) PROVE Throw \/ Moved
  <2> SUFFICES ASSUME ~Throw PROVE Moved
    OBVIOUS
  <2> DEFINE wLen == copy.data[copy.offset + 1] + 256 * copy.data[copy.offset + 2]
             chars == [i \in 1 .. wLen |-> ByteAt(copy.offset + 1 + i, g)]
             b == chars \o <<g, 0>>
  <2>1. /\ GetBytesLeft >= 2 /\ wLen <= GetBytesLeft
        /\ Took(CString(b), 2 + wLen)
    BY <1>8 DEF DecodeStr
  <2>2. copy.offset + 1 \in 1 .. Len(copy.data) /\ copy.offset + 2 \in 1 .. Len(copy.data)
    BY <1>2, <2>1 DEF GetBytesLeft
  <2>3. copy.data[copy.offset + 1] \in Bytes /\ copy.data[copy.offset + 2] \in Bytes
    BY <1>2, <2>2
  <2>4. wLen \in Nat
    <3> DEFINE low == copy.data[copy.offset + 1]
               high == copy.data[copy.offset + 2]
    <3>1. low \in Nat /\ high \in Nat
      BY <2>3 DEF Bytes
    <3> HIDE DEF low, high
    <3>2. low + 256 * high \in Nat
      BY <3>1
    <3> QED
      BY <3>2 DEF low, high
  <2>5. g \in Bytes
    BY GarbageAssumption
  <2>6. ASSUME NEW i \in Nat PROVE ByteAt(i, g) \in Bytes
    BY <1>2, <2>5 DEF ByteAt
  <2> HIDE DEF wLen
  <2>7. chars \in Seq(Bytes) /\ Len(chars) = wLen
    <3>1. \A i \in 1 .. wLen : ByteAt(copy.offset + 1 + i, g) \in Bytes
      BY <1>2, <2>4, <2>6
    <3>2. chars \in [1 .. wLen -> Bytes]
      BY <3>1
    <3> HIDE DEF chars
    <3> QED
      BY <2>4, <3>2
  <2> HIDE DEF chars
  <2>8. b \in Seq(Bytes) /\ wLen + 2 \in 1 .. Len(b) /\ b[wLen + 2] = 0
    <3>1. <<g, 0>> \in Seq(Bytes)
      BY <2>5 DEF Bytes
    <3> QED
      BY <2>4, <2>7, <3>1
  <2> HIDE DEF b
  <2>9. CString(b) \in Seq(Bytes)
    BY <2>8, CStringIsTyped
  <2> QED
    BY <1>2, <2>1, <2>4, <2>9 DEF Moved, GetBytesLeft
<1> QED
  BY <1>4, <1>5, <1>6, <1>7, <1>8

LEMMA DecodeStep == ASSUME NEW g \in Garbage, PacketInv, Decode(g) PROVE PacketInv'
<1>1. UNCHANGED <<origin, written, out, strings, cut, packet>> /\ status = "reading"
  BY DEF Decode
<1>2. CASE Throw
  BY <1>1, <1>2 DEF Throw, PacketInv, PacketTypeOK, RegionHoldsPacket, LengthInv,
                    OverreadIsBounded
<1>3. CASE Moved
  <2>1. PICK decoded \in Seq(Bytes), n \in Nat : n <= GetBytesLeft + 2 /\ Took(decoded, n)
    BY <1>3 DEF Moved
  <2>2. /\ copy \in InPacket /\ read \in Seq(Seq(Bytes)) /\ copy' = [copy EXCEPT !.offset = @ + n]
        /\ read' = Append(read, decoded) /\ status' = status
    BY <2>1 DEF Took, PacketInv, PacketTypeOK
  <2>3. /\ copy' \in InPacket /\ copy'.data = copy.data /\ copy'.length = copy.length
        /\ copy'.offset = copy.offset + n
    <3>1. n \in Nat /\ copy \in InPacket /\ copy' = [copy EXCEPT !.offset = @ + n]
      BY <2>2
    <3> QED
      BY ONLY <3>1 DEF InPacket
  <2>4. PacketTypeOK'
    BY <1>1, <2>2, <2>3 DEF PacketInv, PacketTypeOK
  <2>5. RegionHoldsPacket' /\ LengthInv'
    BY <1>1, <2>2, <2>3 DEF PacketInv, RegionHoldsPacket, LengthInv
  <2>6. OverreadIsBounded'
    BY <2>1, <2>2, <2>3 DEF OverreadIsBounded, GetBytesLeft, InPacket
  <2> QED
    BY <2>4, <2>5, <2>6 DEF PacketInv
<1> QED
  BY <1>2, <1>3, DecodeMoves

LEMMA PacketInvStep == PacketInv /\ [PacketNext]_packetVars => PacketInv'
<1>1. PacketInv /\ UNCHANGED packetVars => PacketInv'
  BY DEF packetVars, PacketInv, PacketTypeOK, RegionHoldsPacket, LengthInv, OverreadIsBounded
<1> QED
  BY <1>1, EncodeStep, DeliverStep, CopyStep, DecodeStep DEF PacketNext

-----------------------------------------------------------------------------

THEOREM PacketInvariant == PacketSpec => []PacketInv
  BY PacketInvInit, PacketInvStep, PTL DEF PacketSpec

\* The state of a packet keeps its types: no byte is read that is none, whatever garbage and
\* whatever order of evaluation Decode4 (CInPacket.cpp:54-59) meets.
THEOREM TypeCorrect == PacketSpec => []PacketTypeOK
<1>1. PacketInv => PacketTypeOK
  BY DEF PacketInv
<1> QED
  BY <1>1, PacketInvariant, PTL

\* EnlargeBuffer (COutPacket.cpp:64-78) has always made room for what was stored, and four
\* bytes more for every string.
THEOREM RegionAlwaysHoldsPacket == PacketSpec => []RegionHoldsPacket
<1>1. PacketInv => RegionHoldsPacket
  BY DEF PacketInv
<1> QED
  BY <1>1, PacketInvariant, PTL

\* DecodeStr (CInPacket.cpp:61-79) reads two bytes at most behind a packet, for any content.
THEOREM OverreadAlwaysBounded == PacketSpec => []OverreadIsBounded
<1>1. PacketInv => OverreadIsBounded
  BY DEF PacketInv
<1> QED
  BY <1>1, PacketInvariant, PTL

-----------------------------------------------------------------------------
(* PacketBuffer: where the fields lie in a packet *)

\* The bytes of a string, and what a field adds to a packet.
Characters(f) == IF origin = "binary" THEN f.bytes ELSE Append(f.bytes, 0)
Added(f) ==
    CASE f.op \in {"number", "buffer"} -> f.bytes
      [] f.op = "null"                 -> <<>>
      [] OTHER                         -> Word(Len(Characters(f))) \o Characters(f)

\* start[i] bytes lie before field i.
FieldLaid(start, i) ==
    /\ start[i + 1] = start[i] + Len(Added(written[i]))
    /\ start[i + 1] <= Len(out.bytes)
    /\ \A j \in 1 .. Len(Added(written[i])) : out.bytes[start[i] + j] = Added(written[i])[j]

Laid(start) ==
    /\ start \in [1 .. Len(written) + 1 -> Nat]
    /\ start[1] = 2
    /\ start[Len(written) + 1] = Len(out.bytes)
    /\ \A i \in 1 .. Len(written) : FieldLaid(start, i)

\* p is what arrived of the packet.
Carries(p) ==
    \E n \in 2 .. Len(out.bytes) :
        /\ p.data = SubSeq(out.bytes, 1, n)
        /\ p.length = AsShort(n)
        /\ ~cut => n = Len(out.bytes)

\* The reader stands at the start of a field, as long as there was no null string.
Follows(start) ==
    /\ status = "sending" => read = <<>>
    /\ status = "received" => read = <<>> /\ \A p \in {packet} : p.offset = 2 /\ Carries(p)
    /\ status = "reading" =>
           /\ \A p \in {copy} : Carries(p)
           /\ Len(read) <= Len(written)
           /\ Sound(Len(read)) => copy.offset = start[Len(read) + 1]

ReadInv ==
    /\ PacketInv
    /\ \A i \in DOMAIN written : written[i] \in Fields
    /\ \E start : Laid(start) /\ Follows(start)
    /\ WholePacketsDecode
    /\ ReadsWhatWasWritten

\* What a ZXString may hold: the characters of a C string, no more than a length of 16 bits counts.
CStrings ==
    \A f \in Fields : f.op = "string" =>
        Len(f.bytes) < 65535 /\ \A i \in DOMAIN f.bytes : f.bytes[i] # 0

\* A build whose Decode4 evaluates its sum from left to right.
LeftToRightSums == \A k \in 1 .. 4 : Decode4Order[k] = k

-----------------------------------------------------------------------------
(* PacketBuffer: what the encoders append *)

\* The bytes that are there already stay, and the new ones come behind them.
LEMMA AppendsBehind ==
    ASSUME NEW b \in Seq(Bytes), NEW e \in Seq(Bytes)
    PROVE  /\ b \o e \in Seq(Bytes) /\ Len(b \o e) = Len(b) + Len(e)
           /\ Len(b) \in Nat /\ Len(e) \in Nat
           /\ \A k \in 1 .. Len(b) : (b \o e)[k] = b[k]
           /\ \A k \in 1 .. Len(e) : (b \o e)[Len(b) + k] = e[k]
  <1>1. Len(b) \in Nat /\ Len(e) \in Nat
    BY LenProperties
  <1>2. \A k \in 1 .. Len(b) + Len(e) : (b \o e)[k] = IF k <= Len(b) THEN b[k] ELSE e[k - Len(b)]
    BY ConcatProperties
  <1>3. ASSUME NEW k \in 1 .. Len(e) PROVE (b \o e)[Len(b) + k] = e[k]
    BY <1>1, <1>2
  <1> QED  BY <1>1, <1>2, <1>3, ConcatProperties

LEMMA BytesAssociate ==
    ASSUME NEW b \in Seq(Bytes), NEW c \in Seq(Bytes), NEW d \in Seq(Bytes)
    PROVE  (b \o c) \o d = b \o (c \o d)
  BY ConcatAssociative

LEMMA StoreAppends ==
    ASSUME NEW o \in OutPacket, NEW b \in Seq(Bytes)
    PROVE  Store(o, b).bytes = o.bytes \o b
  <1>1. PICK c : c = o.bytes \o b
    OBVIOUS
  <1>2. Store(o, b) = [o EXCEPT !.bytes = c]
    BY <1>1 DEF Store
  <1> QED  BY <1>1, <1>2 DEF OutPacket

LEMMA EncodeNumberAppends ==
    ASSUME NEW o \in OutPacket, NEW b \in Seq(Bytes)
    PROVE  EncodeNumber(o, b) \in OutPacket /\ EncodeNumber(o, b).bytes = o.bytes \o b
  <1>1. PICK e : e = EnlargeBuffer(o, Len(b))
    OBVIOUS
  <1>2. e \in OutPacket /\ e.bytes = o.bytes
    BY <1>1, EnlargeBufferIsTyped, LenProperties
  <1>3. EncodeNumber(o, b) = Store(e, b)
    BY <1>1 DEF EncodeNumber
  <1> QED  BY <1>2, <1>3, StoreAppends, StoreIsTyped

LEMMA CharactersAreBytes ==
    ASSUME NEW f \in Field
    PROVE  /\ f.bytes \in Seq(Bytes) /\ Len(f.bytes) \in Nat
           /\ Characters(f) \in Seq(Bytes) /\ Len(Characters(f)) \in Nat
           /\ Len(Characters(f)) = IF origin = "binary" THEN Len(f.bytes) ELSE Len(f.bytes) + 1
  <1>1. f.bytes \in Seq(Bytes) /\ 0 \in Bytes
    BY DEF Field, Bytes
  <1>2. CASE origin = "binary"
    BY <1>1, <1>2 DEF Characters
  <1>3. CASE origin # "binary"
    BY <1>1, <1>3 DEF Characters
  <1> QED  BY <1>1, <1>2, <1>3

LEMMA AddedAreBytes ==
    ASSUME NEW f \in Field
    PROVE  /\ Added(f) \in Seq(Bytes) /\ Len(Added(f)) \in Nat
           /\ f.op \in {"number", "buffer"} => Added(f) = f.bytes
           /\ f.op = "string" => /\ Added(f) = Word(Len(Characters(f))) \o Characters(f)
                                 /\ Len(Added(f)) = 2 + Len(Characters(f))
  <1>1. f.op \in Ops /\ f.bytes \in Seq(Bytes)
    BY DEF Field
  <1>2. CASE f.op \in {"number", "buffer"}
    BY <1>1, <1>2 DEF Added
  <1>3. CASE f.op = "null"
    <2>1. Added(f) = <<>>
      BY <1>3 DEF Added
    <2> QED  BY <1>3, <2>1, EmptySeq
  <1>4. CASE f.op = "string"
    <2>1. PICK s, w : s = Characters(f) /\ w = Word(Len(s))
      OBVIOUS
    <2>2. Added(f) = w \o s
      BY <1>4, <2>1 DEF Added
    <2>3. s \in Seq(Bytes) /\ w \in Seq(Bytes) /\ Len(w) = 2 /\ Len(s) \in Nat
      BY <2>1, CharactersAreBytes, WordIsTyped
    <2>4. w \o s \in Seq(Bytes) /\ Len(w \o s) = 2 + Len(s)
      <3>1. w \o s \in Seq(Bytes) /\ Len(w \o s) = Len(w) + Len(s)
        BY <2>3, AppendsBehind
      <3> QED  BY <2>3, <3>1
    <2>5. 2 + Len(s) \in Nat
      BY <2>3
    <2> QED  BY <1>4, <2>1, <2>2, <2>4, <2>5
  <1> QED  BY <1>1, <1>2, <1>3, <1>4 DEF Ops

LEMMA WrittenAppends ==
    ASSUME NEW f \in Field, out \in OutPacket, origin \in {"extension", "binary"}
    PROVE  Written(f).bytes = out.bytes \o Added(f)
  <1>1. f.op \in Ops /\ f.bytes \in Seq(Bytes) /\ out.bytes \in Seq(Bytes)
    BY DEF Field, OutPacket
  <1>2. CASE f.op \in {"number", "buffer"}
    <2>1. Written(f) = EncodeNumber(out, f.bytes)
      BY <1>2 DEF Written, EncodeBuffer, EncodeNumber
    <2> QED  BY <1>1, <1>2, <2>1, EncodeNumberAppends, AddedAreBytes
  <1>3. CASE f.op = "null"
    <2>1. Written(f) = out /\ Added(f) = <<>>
      BY <1>3 DEF Written, Added
    <2> QED  BY <1>1, <2>1, ConcatEmptySeq
  <1>4. CASE f.op = "string"
    <2>1. PICK s, w : s = Characters(f) /\ w = Word(Len(s))
      OBVIOUS
    <2>2. s \in Seq(Bytes) /\ w \in Seq(Bytes) /\ Added(f) = w \o s
      BY <1>4, <2>1, CharactersAreBytes, AddedAreBytes, WordIsTyped
    <2>3. \E o \in OutPacket : Written(f).bytes = EncodeNumber(o, w).bytes \o s
              /\ o.bytes = out.bytes
      <3>1. CASE origin = "extension"
        <4>1. s = Assign(f.bytes) /\ Len(s) + 4 \in Nat
          BY <3>1, <2>1, <2>2, LenProperties DEF Characters, Assign
        <4>2. PICK o : o = EnlargeBuffer(out, Len(s) + 4)
          OBVIOUS
        <4>3. o \in OutPacket /\ o.bytes = out.bytes
          BY <4>1, <4>2, EnlargeBufferIsTyped
        <4>4. Written(f) = Store(EncodeNumber(o, w), s)
          BY <1>4, <3>1, <2>1, <4>1, <4>2 DEF Written, EncodeStr
        <4> QED  BY <2>2, <4>3, <4>4, EncodeNumberAppends, StoreAppends
      <3>2. CASE origin = "binary"
        <4>1. s = f.bytes
          BY <3>2, <2>1 DEF Characters
        <4>2. Written(f) = EncodeNumber(EncodeNumber(out, w), s)
          BY <1>4, <3>2, <2>1, <4>1 DEF Written, EncodeStrOfBinary, EncodeBuffer, EncodeNumber
        <4> QED  BY <2>2, <4>2, EncodeNumberAppends
      <3> QED  BY <3>1, <3>2
    <2>4. Written(f).bytes = (out.bytes \o w) \o s
      BY <2>2, <2>3, EncodeNumberAppends
    <2>5. (out.bytes \o w) \o s = out.bytes \o (w \o s)
      BY <1>1, <2>2, BytesAssociate
    <2> QED  BY <2>2, <2>4, <2>5
  <1> QED  BY <1>1, <1>2, <1>3, <1>4 DEF Ops

-----------------------------------------------------------------------------
(* PacketBuffer: a packet is laid out field by field *)

LEMMA EncodeLaid ==
    ASSUME ReadInv, NEW f \in Fields, Encode(f)
    PROVE  \E start : Laid(start)' /\ Follows(start)'
  <1>1. /\ f \in Field /\ out \in OutPacket /\ origin \in {"extension", "binary"}
        /\ written \in Seq(Field) /\ out.bytes \in Seq(Bytes)
    BY FieldsAssumption DEF ReadInv, PacketInv, PacketTypeOK, OutPacket
  <1>2. /\ written' = Append(written, f) /\ origin' = origin /\ status = "sending"
        /\ status' = status
        /\ read' = read
    BY DEF Encode
  <1>3. PICK e : e = Added(f)
    OBVIOUS
  <1>4. e \in Seq(Bytes) /\ out'.bytes = out.bytes \o e
    BY <1>1, <1>3, AddedAreBytes, WrittenAppends DEF Encode
  <1>5. PICK m \in Nat, l \in Nat, k \in Nat : m = Len(written) /\ l = Len(out.bytes) /\ k = Len(e)
    BY <1>1, <1>4, LenProperties
  <1>6. /\ Len(out'.bytes) = l + k
        /\ \A j \in 1 .. l : out'.bytes[j] = out.bytes[j]
        /\ \A j \in 1 .. k : out'.bytes[l + j] = e[j]
    BY <1>1, <1>4, <1>5, AppendsBehind
  <1>7. /\ Len(written') = m + 1 /\ \A i \in 1 .. m : written'[i] = written[i]
        /\ written'[m + 1] = f
    BY <1>1, <1>2, <1>5, AppendProperties
  <1>8. \A x : Added(x)' = Added(x)
    BY <1>2 DEF Added, Characters
  <1>9. PICK start : Laid(start) /\ Follows(start)
    BY DEF ReadInv
  <1>10. PICK new : new = [i \in 1 .. m + 2 |-> IF i = m + 2 THEN l + k ELSE start[i]]
    OBVIOUS
  <1>11. /\ start \in [1 .. m + 1 -> Nat] /\ start[1] = 2 /\ start[m + 1] = l
         /\ \A i \in 1 .. m : FieldLaid(start, i)
    BY <1>5, <1>9 DEF Laid
  <1>12. /\ new \in [1 .. m + 2 -> Nat] /\ new[m + 2] = l + k
         /\ \A i \in 1 .. m + 1 : new[i] = start[i] /\ start[i] \in Nat
    <2>1. \A i \in 1 .. m + 1 : start[i] \in Nat /\ i \in 1 .. m + 2 /\ i # m + 2
      BY <1>5, <1>11
    <2>2. m + 2 \in 1 .. m + 2 /\ l + k \in Nat
      BY <1>5
    <2>3. \A i \in 1 .. m + 1 : new[i] = start[i]
      BY <1>10, <2>1
    <2>4. \A i \in 1 .. m + 2 : i = m + 2 \/ i \in 1 .. m + 1
      BY <1>5
    <2>5. new \in [1 .. m + 2 -> Nat]
      BY <1>10, <2>1, <2>2, <2>4
    <2> QED  BY <1>10, <2>1, <2>2, <2>3, <2>5
  <1>13. ASSUME NEW i \in 1 .. m PROVE FieldLaid(new, i)'
    <2>1. PICK x, y : x = written[i] /\ y = Added(x)
      OBVIOUS
    <2>2. x \in Field /\ Len(y) \in Nat
      BY <1>1, <1>5, <2>1, ElementOfSeq, AddedAreBytes
    <2>3. /\ start[i + 1] = start[i] + Len(y) /\ start[i + 1] <= l
          /\ \A j \in 1 .. Len(y) : out.bytes[start[i] + j] = y[j]
      BY <1>5, <1>11, <2>1 DEF FieldLaid
    <2>4. written'[i] = x /\ Added(x)' = y /\ new[i] = start[i] /\ new[i + 1] = start[i + 1]
          /\ start[i] \in Nat
      BY <1>5, <1>7, <1>8, <1>12, <2>1
    <2>5. \A j \in 1 .. Len(y) : start[i] + j \in 1 .. l
      BY <1>5, <2>2, <2>3, <2>4
    <2>6. /\ new[i + 1] = new[i] + Len(y) /\ new[i + 1] <= Len(out'.bytes)
          /\ \A j \in 1 .. Len(y) : out'.bytes[new[i] + j] = y[j]
      <3>1. \A j \in 1 .. Len(y) : out'.bytes[start[i] + j] = out.bytes[start[i] + j]
        BY <1>6, <2>5
      <3>2. start[i + 1] <= Len(out'.bytes)
        BY <1>5, <1>6, <1>12, <2>3
      <3> QED  BY <2>3, <2>4, <3>1, <3>2
    <2>7. \A z \in {written'[i]} : Added(z)' = y
      BY <2>4
    <2> QED  BY <2>4, <2>6, <2>7 DEF FieldLaid
  <1>14. FieldLaid(new, m + 1)'
    <2>1. new[m + 1] = l /\ new[m + 1 + 1] = l + k /\ written'[m + 1] = f /\ Added(f)' = e
      BY <1>3, <1>5, <1>7, <1>8, <1>11, <1>12
    <2>2. /\ new[m + 1 + 1] = new[m + 1] + Len(e) /\ new[m + 1 + 1] <= Len(out'.bytes)
          /\ \A j \in 1 .. Len(e) : out'.bytes[new[m + 1] + j] = e[j]
      <3>1. k = Len(e) /\ Len(out'.bytes) = l + k /\ l + k <= l + k
        BY <1>5, <1>6
      <3> QED  BY <1>6, <2>1, <3>1
    <2> QED  BY <2>1, <2>2 DEF FieldLaid
  <1>15. Laid(new)'
    <2>1. \A i \in 1 .. m + 1 : FieldLaid(new, i)'
      BY <1>5, <1>13, <1>14
    <2>2. new[1] = 2 /\ new[m + 1 + 1] = Len(out'.bytes) /\ new \in [1 .. m + 1 + 1 -> Nat]
      BY <1>5, <1>6, <1>11, <1>12
    <2> QED  BY <1>7, <2>1, <2>2 DEF Laid
  <1>16. Follows(new)'
    BY <1>2, <1>9 DEF Follows
  <1> QED  BY <1>15, <1>16


LEMMA InitLaid == PacketInit => ReadInv
  <1> SUFFICES ASSUME PacketInit PROVE ReadInv
    OBVIOUS
  <1>1. PacketInv
    BY PacketInvInit
  <1>2. Len(out.bytes) = 2
    <2>1. PICK t, o : t = <<24, 0>> /\ o = [bytes |-> <<>>, allocated |-> 0]
      OBVIOUS
    <2>2. t \in Seq(Bytes) /\ Len(t) = 2 /\ o \in OutPacket /\ Len(o.bytes) = 0
      BY <2>1 DEF Bytes, OutPacket
    <2>3. out = EncodeNumber(o, t)
      BY <2>1 DEF PacketInit, Constructed
    <2>4. Len(out.bytes) = Len(o.bytes) + Len(t)
      BY <2>2, <2>3, EncodeNumberFits
    <2> QED  BY <2>2, <2>4
  <1>3. written = <<>> /\ read = <<>> /\ status = "sending" /\ Len(written) = 0 /\ Len(read) = 0
    BY DEF PacketInit
  <1>4. PICK start : start = [i \in 1 .. 1 |-> 2]
    OBVIOUS
  <1>5. Laid(start)
    BY <1>2, <1>3, <1>4 DEF Laid
  <1>6. Follows(start)
    BY <1>3 DEF Follows
  <1> QED  BY <1>1, <1>3, <1>5, <1>6 DEF ReadInv, WholePacketsDecode, ReadsWhatWasWritten

LEMMA EncodeReadInv == ASSUME ReadInv, NEW f \in Fields, Encode(f) PROVE ReadInv'
  <1>1. PacketInv'
    BY EncodeStep DEF ReadInv
  <1>2. \E start : Laid(start)' /\ Follows(start)'
    BY EncodeLaid
  <1>3. status' = "sending" /\ read' = <<>>
    BY DEF Encode, ReadInv, Follows
  <1>4. WholePacketsDecode' /\ ReadsWhatWasWritten'
    BY <1>3 DEF WholePacketsDecode, ReadsWhatWasWritten
  <1>5. \A i \in DOMAIN written' : written'[i] \in Fields
    <2>1. written \in Seq(Fields)
      BY DEF ReadInv, PacketInv, PacketTypeOK
    <2>2. written' \in Seq(Fields)
      BY <2>1 DEF Encode
    <2> QED  BY <2>2
  <1> QED  BY <1>1, <1>2, <1>4, <1>5 DEF ReadInv

-----------------------------------------------------------------------------
(* PacketBuffer: a packet arrives and is copied *)

\* A length that fits an __int16 is what m_uLength holds.
LEMMA ShortHolds ==
    ASSUME NEW n \in Nat, n <= ShortMax
    PROVE  AsShort(n) = n
  <1>1. PICK s \in Nat : s = ShortMax
    BY BoundsAssumption
  <1>2. (n + s + 1) % (2 * (s + 1)) = n + s + 1
    <2>1. PICK x, m : x = n + s + 1 /\ m = 2 * (s + 1)
      OBVIOUS
    <2>2. x \in Nat /\ m \in Nat /\ m > 0 /\ x < m
      BY <1>1, <2>1
    <2>3. x % m = x
      BY <2>2
    <2> QED  BY <2>1, <2>3
  <1> QED  BY <1>1, <1>2 DEF AsShort

LEMMA LaidStays ==
    ASSUME NEW start, Laid(start), out' = out, written' = written, origin' = origin
    PROVE  Laid(start)'
  <1>1. \A x : Added(x)' = Added(x)
    BY DEF Added, Characters
  <1>2. ASSUME NEW i \in 1 .. Len(written) PROVE FieldLaid(start, i)'
    <2>1. PICK x, a : x = written[i] /\ a = Added(x)
      OBVIOUS
    <2>2. /\ start[i + 1] = start[i] + Len(a) /\ start[i + 1] <= Len(out.bytes)
          /\ \A j \in 1 .. Len(a) : out.bytes[start[i] + j] = a[j]
      BY <2>1 DEF Laid, FieldLaid
    <2>3. \A z \in {written'[i]} : Added(z)' = a
      BY <1>1, <2>1
    <2> QED  BY <2>2, <2>3 DEF FieldLaid
  <1> QED  BY <1>2 DEF Laid

LEMMA DeliverReadInv == ASSUME ReadInv, NEW n \in 2 .. Len(out.bytes), Deliver(n) PROVE ReadInv'
  <1>1. PacketInv'
    BY DeliverStep DEF ReadInv
  <1>2. /\ status = "sending" /\ status' = "received" /\ out' = out /\ written' = written
        /\ origin' = origin /\ read' = read /\ read = <<>> /\ cut' = (n < Len(out.bytes))
        /\ packet'.data = SubSeq(out.bytes, 1, n) /\ packet'.length = AsShort(n)
        /\ packet'.offset = 2
    BY DEF Deliver, ReadInv, Follows
  <1>3. PICK start : Laid(start)
    BY DEF ReadInv
  <1>4. Laid(start)'
    BY <1>2, <1>3, LaidStays
  <1>5. \A p \in {packet'} : p.offset = 2 /\ Carries(p)'
    <2>1. Len(out.bytes) \in Nat /\ n \in Nat /\ n <= Len(out.bytes)
      BY DEF ReadInv, PacketInv, PacketTypeOK
    <2>2. ~cut' => n = Len(out.bytes)
      <3>1. ~(n < Len(out.bytes)) => n = Len(out.bytes)
        BY <2>1
      <3>2. cut' <=> n < Len(out.bytes)
        BY DEF Deliver
      <3> QED  BY <3>1, <3>2
    <2> QED  BY <1>2, <2>2 DEF Carries
  <1>6. Follows(start)'
    BY <1>2, <1>5 DEF Follows
  <1>7. WholePacketsDecode' /\ ReadsWhatWasWritten'
    BY <1>2 DEF WholePacketsDecode, ReadsWhatWasWritten
  <1> QED  BY <1>1, <1>2, <1>4, <1>6, <1>7 DEF ReadInv

LEMMA CopyReadInv == ASSUME ReadInv, CopyFrom PROVE ReadInv'
  <1>1. PacketInv'
    BY CopyStep DEF ReadInv
  <1>2. /\ status = "received" /\ out' = out /\ written' = written /\ cut' = cut /\ origin' = origin
        /\ read' = read /\ read = <<>> /\ packet' = packet
    BY DEF CopyFrom, Throw, ReadInv, Follows
  <1>3. PICK start : Laid(start) /\ Follows(start)
    BY DEF ReadInv
  <1>4. Laid(start)'
    BY <1>2, <1>3, LaidStays
  <1>5. PICK p : p = packet
    OBVIOUS
  <1>6. p.offset = 2 /\ Carries(p) /\ Carries(p)'
    BY <1>2, <1>3, <1>5 DEF Follows, Carries
  <1>7. CASE status' = "reading"
    <2>1. copy' = p
      BY <1>5, <1>7 DEF CopyFrom, Throw
    <2>2. \A q \in {copy'} : Carries(q)'
      BY <1>6, <2>1
    <2>3. Len(read') = 0 /\ copy'.offset = start[1] /\ Len(written') \in Nat
      BY <1>1, <1>2, <1>3, <1>6, <2>1 DEF Laid, PacketInv, PacketTypeOK
    <2>4. Follows(start)'
      BY <1>7, <2>2, <2>3 DEF Follows
    <2>5. WholePacketsDecode' /\ ReadsWhatWasWritten'
      BY <1>2, <1>7 DEF WholePacketsDecode, ReadsWhatWasWritten
    <2> QED  BY <1>1, <1>2, <1>4, <2>4, <2>5 DEF ReadInv
  <1>8. CASE status' = "thrown"
    <2>1. packet.length < 0
      BY <1>8 DEF CopyFrom
    <2>2. PICK n \in 2 .. Len(out.bytes) : p.length = AsShort(n) /\ (~cut => n = Len(out.bytes))
      BY <1>6 DEF Carries
    <2>3. n > ShortMax
      <3>1. n \in Nat /\ ShortMax \in Nat
        BY BoundsAssumption
      <3>2. n <= ShortMax => AsShort(n) = n
        BY <3>1, ShortHolds
      <3> QED  BY <1>5, <2>1, <2>2, <3>1, <3>2
    <2>4. WholePacketsDecode'
      BY <1>2, <2>2, <2>3 DEF WholePacketsDecode
    <2>5. Follows(start)'
      BY <1>8 DEF Follows
    <2>6. ReadsWhatWasWritten'
      BY <1>2 DEF ReadsWhatWasWritten
    <2> QED  BY <1>1, <1>2, <1>4, <2>4, <2>5, <2>6 DEF ReadInv
  <1> QED  BY <1>7, <1>8 DEF CopyFrom, Throw


-----------------------------------------------------------------------------
(* PacketBuffer: a field is decoded *)

\* The bytes a lie where the reader stands, as far as the packet reaches, and a whole packet
\* of a sound length reaches that far.
InFront(a) ==
    /\ \A j \in 1 .. Len(a) :
           copy.offset + j <= copy.length => copy.data[copy.offset + j] = a[j]
    /\ GetBytesLeft < Len(a) => cut \/ Len(out.bytes) > ShortMax

\* What decoding f may do: fail because it must, or take what f added.
Fails == Throw /\ (cut \/ Len(out.bytes) > ShortMax)
Yields(f) ==
    \E v : /\ Took(v, Len(Added(f)))
           /\ copy.offset <= copy.length
           /\ copy.offset + Len(Added(f)) <= copy.length => Matches(v, f)

LEMMA FieldIsAhead ==
    ASSUME ReadInv, status = "reading", NEW i \in 1 .. Len(written), i = Len(read) + 1,
           Sound(Len(read)), NEW start, Laid(start), Follows(start)
    PROVE  InFront(Added(written[i]))
  <1>1. PICK a : a = Added(written[i])
    OBVIOUS
  <1>2. written[i] \in Field /\ Len(a) \in Nat
    <2>1. written[i] \in Field
      BY DEF ReadInv, PacketInv, PacketTypeOK
    <2> QED  BY <1>1, <2>1, AddedAreBytes
  <1>3. /\ start[i + 1] = start[i] + Len(a) /\ start[i + 1] <= Len(out.bytes)
        /\ \A j \in 1 .. Len(a) : out.bytes[start[i] + j] = a[j]
    BY <1>1 DEF Laid, FieldLaid
  <1>4. PICK o, l, d : o = copy.offset /\ l = copy.length /\ d = copy.data
    OBVIOUS
  <1>5. PICK b : b = out.bytes
    OBVIOUS
  <1>6. b \in Seq(Bytes) /\ o \in Nat /\ l \in Int /\ Len(b) \in Nat
    BY <1>4, <1>5 DEF ReadInv, PacketInv, PacketTypeOK, InPacket
  <1>7. o = start[i]
    BY <1>4 DEF Follows
  <1>8. PICK n \in 2 .. Len(b) :
            d = SubSeq(b, 1, n) /\ l = AsShort(n) /\ (~cut => n = Len(b))
    <2>1. \A q \in {copy} : Carries(q)
      BY DEF Follows
    <2> QED  BY <1>4, <1>5, <2>1 DEF Carries
  <1>9. n \in Nat /\ n <= Len(b) /\ l <= n
    BY <1>6, <1>8, AsShortIsBounded
  <1>10. ASSUME NEW j \in 1 .. Len(a), o + j <= l PROVE d[o + j] = a[j]
    <2>1. o + j \in 1 .. n
      BY <1>2, <1>6, <1>9, <1>10
    <2>2. d[o + j] = b[o + j]
      BY <1>6, <1>8, <1>9, <2>1
    <2> QED  BY <1>3, <1>5, <1>7, <2>2
  <1>11. l - o < Len(a) => cut \/ Len(b) > ShortMax
    <2>1. SUFFICES ASSUME ~cut, ~(Len(b) > ShortMax) PROVE ~(l - o < Len(a))
      OBVIOUS
    <2>2. n = Len(b) /\ n <= ShortMax
      BY <1>6, <1>8, <2>1, BoundsAssumption
    <2>3. l = n
      BY <1>8, <1>9, <2>2, ShortHolds
    <2>4. o + Len(a) <= Len(b)
      BY <1>3, <1>5, <1>7
    <2> QED  BY <1>2, <1>6, <2>2, <2>3, <2>4
  <1>12. InFront(a)
    BY <1>4, <1>5, <1>10, <1>11 DEF InFront, GetBytesLeft
  <1> QED  BY <1>1, <1>12

\* A number of a build that reads its bytes in order.
LEMMA NumberDecodes ==
    ASSUME LeftToRightSums, PacketInv, NEW f \in Field, f.op = "number", InFront(Added(f)),
           DecodeNumber(Len(f.bytes))
    PROVE  Fails \/ Yields(f)
  <1>1. PICK b : b = f.bytes
    OBVIOUS
  <1>2. Added(f) = b /\ b \in Seq(Bytes) /\ Len(b) \in Nat
    BY <1>1, AddedAreBytes, LenProperties
  <1>3. PICK v : v = [k \in 1 .. Len(b) |->
                 copy.data[copy.offset + (IF Len(b) = 4 THEN Decode4Order[k] ELSE k)]]
    OBVIOUS
  <1>4. \/ GetBytesLeft < Len(b) /\ Throw
        \/ GetBytesLeft >= Len(b) /\ Took(v, Len(b))
    BY <1>1, <1>3 DEF DecodeNumber
  <1>5. CASE GetBytesLeft < Len(b) /\ Throw
    BY <1>2, <1>5 DEF Fails, InFront
  <1>6. CASE GetBytesLeft >= Len(b) /\ Took(v, Len(b))
    <2>1. copy.offset \in Nat /\ copy.length \in Int
      BY DEF PacketInv, PacketTypeOK, InPacket
    <2>2. copy.offset + Len(b) <= copy.length /\ copy.offset <= copy.length
      BY <1>2, <1>6, <2>1 DEF GetBytesLeft
    <2>3. ASSUME NEW k \in 1 .. Len(b) PROVE v[k] = b[k]
      <3>1. v[k] = copy.data[copy.offset + k]
        BY <1>3 DEF LeftToRightSums
      <3>2. copy.offset + k <= copy.length
        BY <1>2, <2>1, <2>2
      <3> QED  BY <1>2, <3>1, <3>2 DEF InFront
    <2>4. v = b
      <3>1. b = [k \in 1 .. Len(b) |-> b[k]]
        BY <1>2
      <3>2. v = [k \in 1 .. Len(b) |-> v[k]]
        BY <1>3
      <3> QED  BY <2>3, <3>1, <3>2
    <2>5. Matches(v, f)
      BY <1>1, <2>4 DEF Matches
    <2> QED  BY <1>2, <1>6, <2>2, <2>5 DEF Yields
  <1> QED  BY <1>4, <1>5, <1>6

LEMMA PieceOf ==
    ASSUME NEW d \in Seq(Bytes), NEW o \in Nat, NEW n \in Nat, o + n <= Len(d)
    PROVE  /\ SubSeq(d, o + 1, o + n) \in Seq(Bytes) /\ Len(SubSeq(d, o + 1, o + n)) = n
           /\ \A k \in 1 .. n : SubSeq(d, o + 1, o + n)[k] = d[o + k]
  <1>1. PICK x \in Int, y \in Int : x = o + 1 /\ y = o + n
    OBVIOUS
  <1>2. \A i \in x .. y : d[i] \in Bytes
    BY <1>1
  <1>3. PICK s : s = SubSeq(d, x, y)
    OBVIOUS
  <1>4. /\ s \in Seq(Bytes) /\ Len(s) = (IF x <= y THEN y - x + 1 ELSE 0)
        /\ \A i \in 1 .. y - x + 1 : s[i] = d[x + i - 1]
    BY <1>2, <1>3, SubSeqProperties
  <1>5. Len(s) = n /\ y - x + 1 = n
    BY <1>1, <1>4
  <1>6. \A i \in 1 .. n : x + i - 1 = o + i
    BY <1>1
  <1> QED  BY <1>1, <1>3, <1>4, <1>5, <1>6

LEMMA BufferDecodes ==
    ASSUME PacketInv, NEW f \in Field, f.op = "buffer", InFront(Added(f)), status = "reading",
           DecodeBuffer(Len(f.bytes))
    PROVE  Fails \/ Yields(f)
  <1>1. PICK b : b = f.bytes
    OBVIOUS
  <1>2. Added(f) = b /\ b \in Seq(Bytes) /\ Len(b) \in Nat
    BY <1>1, AddedAreBytes, LenProperties
  <1>3. PICK v : v = SubSeq(copy.data, copy.offset + 1, copy.offset + Len(b))
    OBVIOUS
  <1>4. \/ GetBytesLeft < Len(b) /\ Throw
        \/ GetBytesLeft >= Len(b) /\ Took(v, Len(b))
    BY <1>1, <1>3 DEF DecodeBuffer
  <1>5. CASE GetBytesLeft < Len(b) /\ Throw
    BY <1>2, <1>5 DEF Fails, InFront
  <1>6. CASE GetBytesLeft >= Len(b) /\ Took(v, Len(b))
    <2>1. PICK o, l, d : o = copy.offset /\ l = copy.length /\ d = copy.data
      OBVIOUS
    <2>a. o \in Nat /\ l \in Int /\ d \in Seq(Bytes) /\ l <= Len(d)
      BY <2>1 DEF PacketInv, PacketTypeOK, InPacket, LengthInv
    <2>2. o + Len(b) <= l /\ o <= l
      BY <1>2, <1>6, <2>1, <2>a DEF GetBytesLeft
    <2>3. v \in Seq(Bytes) /\ Len(v) = Len(b) /\ \A k \in 1 .. Len(b) : v[k] = d[o + k]
      <3>1. v = SubSeq(d, o + 1, o + Len(b)) /\ o + Len(b) <= Len(d)
        BY <1>2, <1>3, <2>1, <2>a, <2>2
      <3> QED  BY <1>2, <2>a, <3>1, PieceOf
    <2>4. ASSUME NEW k \in 1 .. Len(b) PROVE v[k] = b[k]
      <3>1. o + k <= l
        BY <1>2, <2>a, <2>2
      <3> QED  BY <1>2, <2>1, <2>3, <3>1 DEF InFront
    <2>5. v = b
      BY <1>2, <2>3, <2>4, SeqEqual
    <2>6. Matches(v, f)
      BY <1>1, <2>5 DEF Matches
    <2> QED  BY <1>2, <1>6, <2>1, <2>2, <2>6 DEF Yields
  <1> QED  BY <1>4, <1>5, <1>6


\* A C string ends with its first zero.
LEMMA CStringStops ==
    ASSUME NEW b \in Seq(Bytes), NEW c \in Seq(Bytes), Len(c) < Len(b), b[Len(c) + 1] = 0,
           \A i \in 1 .. Len(c) : c[i] # 0 /\ b[i] = c[i]
    PROVE  CString(b) = c
  <1>1. PICK n \in Nat, m \in Nat : n = Len(c) /\ m = Len(b)
    BY LenProperties
  <1>2. PICK end : end = CHOOSE i \in 1 .. Len(b) : b[i] = 0 /\ \A j \in 1 .. i - 1 : b[j] # 0
    OBVIOUS
  <1>3. CString(b) = SubSeq(b, 1, end - 1)
    BY <1>2 DEF CString
  <1>4. n + 1 \in 1 .. m /\ b[n + 1] = 0 /\ \A j \in 1 .. (n + 1) - 1 : b[j] # 0
    BY <1>1
  <1>5. end \in 1 .. m /\ b[end] = 0 /\ \A j \in 1 .. end - 1 : b[j] # 0
    BY <1>1, <1>2, <1>4
  <1>6. end = n + 1
    BY <1>1, <1>4, <1>5
  <1>7. SubSeq(b, 1, n) \in Seq(Bytes) /\ Len(SubSeq(b, 1, n)) = n
        /\ \A k \in 1 .. n : SubSeq(b, 1, n)[k] = b[k]
    BY <1>1
  <1>8. SubSeq(b, 1, n) = c
    BY <1>1, <1>7, SeqEqual
  <1>9. end - 1 = n
    BY <1>1, <1>6
  <1> QED  BY <1>3, <1>8, <1>9

\* What the reader makes of the characters of a string, and of the byte behind them.
LEMMA CharactersDecode ==
    ASSUME CStrings, NEW f \in Fields, f.op = "string", NEW g \in Garbage,
           origin \in {"extension", "binary"}
    PROVE  Matches(CString(Characters(f) \o <<g, 0>>), f)
  <1>1. PICK c : c = f.bytes
    OBVIOUS
  <1>2. f \in Field /\ c \in Seq(Bytes) /\ Len(c) \in Nat /\ g \in Bytes /\ 0 \in Bytes
        /\ \A i \in 1 .. Len(c) : c[i] # 0
    <2>1. f \in Field /\ g \in Bytes
      BY FieldsAssumption, GarbageAssumption
    <2>2. c \in Seq(Bytes) /\ Len(c) \in Nat
      BY <1>1, <2>1, CharactersAreBytes
    <2>3. DOMAIN c = 1 .. Len(c) /\ \A i \in DOMAIN c : c[i] # 0
      BY <1>1, <2>2 DEF CStrings
    <2> QED  BY <2>1, <2>2, <2>3 DEF Bytes
  <1>3. PICK t : t = <<g, 0>>
    OBVIOUS
  <1>4. t \in Seq(Bytes) /\ Len(t) = 2 /\ t[1] = g /\ t[2] = 0
    BY <1>2, <1>3
  <1>5. PICK s : s = Characters(f)
    OBVIOUS
  <1>6. s \in Seq(Bytes) /\ Len(s) \in Nat
    BY <1>2, <1>5, CharactersAreBytes
  <1>7. PICK b : b = s \o t
    OBVIOUS
  <1>8. /\ b \in Seq(Bytes) /\ Len(b) = Len(s) + 2
        /\ \A i \in 1 .. Len(s) : b[i] = s[i]
        /\ b[Len(s) + 1] = g /\ b[Len(s) + 2] = 0
    <2>1. /\ b \in Seq(Bytes) /\ Len(b) = Len(s) + Len(t)
          /\ \A i \in 1 .. Len(s) : b[i] = s[i]
          /\ \A i \in 1 .. Len(t) : b[Len(s) + i] = t[i]
      BY <1>4, <1>6, <1>7, AppendsBehind
    <2> QED  BY <1>4, <2>1
  <1>9. CASE origin = "extension"
    <2>1. s = Append(c, 0)
      BY <1>1, <1>5, <1>9 DEF Characters
    <2>2. Len(s) = Len(c) + 1 /\ s[Len(c) + 1] = 0 /\ \A i \in 1 .. Len(c) : s[i] = c[i]
      BY <1>2, <2>1
    <2>3. Len(c) < Len(b) /\ b[Len(c) + 1] = 0 /\ \A i \in 1 .. Len(c) : b[i] = c[i]
      BY <1>2, <1>8, <2>2
    <2>4. CString(b) = c
      BY <1>2, <1>8, <2>3, CStringStops
    <2> QED  BY <1>1, <1>3, <1>5, <1>7, <2>4 DEF Matches
  <1>10. CASE origin = "binary"
    <2>1. s = c
      BY <1>1, <1>5, <1>10 DEF Characters
    <2>2. CASE g = 0
      <3>1. Len(c) < Len(b) /\ b[Len(c) + 1] = 0 /\ \A i \in 1 .. Len(c) : b[i] = c[i]
        BY <1>2, <1>8, <2>1, <2>2
      <3>2. CString(b) = c
        BY <1>2, <1>8, <3>1, CStringStops
      <3> QED  BY <1>1, <1>3, <1>5, <1>7, <3>2 DEF Matches
    <2>3. CASE g # 0
      <3>1. PICK d : d = Append(c, g)
        OBVIOUS
      <3>2. /\ d \in Seq(Bytes) /\ Len(d) = Len(c) + 1 /\ d[Len(c) + 1] = g
            /\ \A i \in 1 .. Len(c) : d[i] = c[i]
        BY <1>2, <3>1
      <3>3. Len(d) < Len(b) /\ b[Len(d) + 1] = 0
        <4>1. Len(d) + 1 = Len(s) + 2 /\ Len(d) < Len(b)
          BY <1>2, <1>8, <2>1, <3>2
        <4> QED  BY <1>8, <4>1
      <3>4. ASSUME NEW i \in 1 .. Len(d) PROVE d[i] # 0 /\ b[i] = d[i]
        <4>1. i \in 1 .. Len(c) \/ i = Len(c) + 1
          BY <1>2, <3>2
        <4>2. CASE i \in 1 .. Len(c)
          BY <1>2, <1>8, <2>1, <3>2, <4>2
        <4>3. CASE i = Len(c) + 1
          BY <1>8, <2>1, <2>3, <3>2, <4>3
        <4> QED  BY <4>1, <4>2, <4>3
      <3>5. CString(b) = d
        BY <1>8, <3>2, <3>3, <3>4, CStringStops
      <3> QED  BY <1>1, <1>3, <1>5, <1>7, <1>10, <3>1, <3>5 DEF Matches
    <2> QED  BY <2>2, <2>3
  <1> QED  BY <1>9, <1>10

\* The two bytes of a length say what it is.
LEMMA WordSays ==
    ASSUME NEW n \in Nat, n < 65536
    PROVE  /\ Word(n)[1] + 256 * Word(n)[2] = n
           /\ Word(n)[1] \in Nat /\ Word(n)[2] \in Nat
  <1>1. Word(n)[1] = n % 256 /\ Word(n)[2] = (n \div 256) % 256
    BY DEF Word
  <1>2. (n \div 256) % 256 = n \div 256
    OBVIOUS
  <1>3. (n % 256) + 256 * (n \div 256) = n /\ n % 256 \in Nat /\ n \div 256 \in Nat
    OBVIOUS
  <1> QED  BY <1>1, <1>2, <1>3

LEMMA StringDecodes ==
    ASSUME CStrings, PacketInv, NEW f \in Fields, f.op = "string", InFront(Added(f)),
           status = "reading", NEW g \in Garbage, DecodeStr(g)
    PROVE  Fails \/ Yields(f)
  <1>1. PICK s, w, a : s = Characters(f) /\ w = Word(Len(s)) /\ a = Added(f)
    OBVIOUS
  <1>2. /\ f \in Field /\ origin \in {"extension", "binary"}
        /\ s \in Seq(Bytes) /\ w \in Seq(Bytes) /\ Len(w) = 2 /\ Len(s) \in Nat
        /\ a = w \o s /\ Len(a) = 2 + Len(s)
    <2>1. f \in Field /\ origin \in {"extension", "binary"}
      BY FieldsAssumption DEF PacketInv, PacketTypeOK
    <2>2. s \in Seq(Bytes) /\ Len(s) \in Nat
      BY <1>1, <2>1, CharactersAreBytes
    <2> QED  BY <1>1, <2>1, <2>2, AddedAreBytes, WordIsTyped
  <1>3. Len(s) < 65536 /\ w[1] + 256 * w[2] = Len(s)
    <2>1. Len(f.bytes) < 65535 /\ Len(f.bytes) \in Nat
      BY <1>2, CharactersAreBytes DEF CStrings
    <2>2. Len(s) = (IF origin = "binary" THEN Len(f.bytes) ELSE Len(f.bytes) + 1)
      BY <1>1, <1>2, CharactersAreBytes
    <2>3. Len(s) < 65536
      BY <2>1, <2>2
    <2> QED  BY <1>1, <1>2, <2>3, WordSays
  <1>4. \A k \in 1 .. Len(s) : a[2 + k] = s[k]
    BY <1>2, AppendsBehind
  <1>5. a[1] = w[1] /\ a[2] = w[2]
    BY <1>2, AppendsBehind
  <1>6. PICK o, l, d : o = copy.offset /\ l = copy.length /\ d = copy.data
    OBVIOUS
  <1>7. o \in Nat /\ l \in Int /\ d \in Seq(Bytes) /\ l <= Len(d) /\ Len(d) \in Nat
    BY <1>6 DEF PacketInv, PacketTypeOK, InPacket, LengthInv
  <1>8. /\ \A j \in 1 .. Len(a) : o + j <= l => d[o + j] = a[j]
        /\ l - o < Len(a) => cut \/ Len(out.bytes) > ShortMax
    BY <1>1, <1>6 DEF InFront, GetBytesLeft
  <1>9. PICK n : n = copy.data[copy.offset + 1] + 256 * copy.data[copy.offset + 2]
    OBVIOUS
  <1>10. PICK chars : chars = [i \in 1 .. n |-> ByteAt(copy.offset + 1 + i, g)]
    OBVIOUS
  <1>11. \/ l - o < 2 /\ Throw
         \/ l - o >= 2 /\ n > l - o /\ Throw
         \/ l - o >= 2 /\ n <= l - o /\ Took(CString(chars \o <<g, 0>>), 2 + n)
    BY <1>6, <1>9, <1>10 DEF DecodeStr, GetBytesLeft
  <1>12. l - o >= 2 => n = Len(s)
    <2>1. SUFFICES ASSUME l - o >= 2 PROVE n = Len(s)
      OBVIOUS
    <2>2. o + 1 <= l /\ o + 2 <= l /\ 1 \in 1 .. Len(a) /\ 2 \in 1 .. Len(a)
      BY <1>2, <1>7, <2>1
    <2>3. d[o + 1] = a[1] /\ d[o + 2] = a[2]
      BY <1>8, <2>2
    <2> QED  BY <1>3, <1>5, <1>6, <1>9, <2>3
  <1>13. CASE l - o < 2 /\ Throw
    <2>1. l - o < Len(a)
      BY <1>2, <1>7, <1>13
    <2> QED  BY <1>8, <1>13, <2>1 DEF Fails
  <1>14. CASE l - o >= 2 /\ n > l - o /\ Throw
    <2>1. l - o < Len(a)
      BY <1>2, <1>7, <1>12, <1>14
    <2> QED  BY <1>8, <1>14, <2>1 DEF Fails
  <1>15. CASE l - o >= 2 /\ n <= l - o /\ Took(CString(chars \o <<g, 0>>), 2 + n)
    <2>1. n = Len(s) /\ 2 + n = Len(a) /\ o <= l
      BY <1>2, <1>7, <1>12, <1>15
    <2>2. ASSUME o + Len(a) <= l PROVE Matches(CString(chars \o <<g, 0>>), f)
      <3>1. ASSUME NEW i \in 1 .. n PROVE chars[i] = s[i]
        <4>1. /\ o + 1 + i < Len(d) /\ o + 1 + i + 1 = o + (2 + i) /\ 2 + i \in 1 .. Len(a)
              /\ o + (2 + i) <= l
          BY <1>2, <1>7, <2>1, <2>2
        <4>2. chars[i] = d[o + 1 + i + 1]
          BY <1>6, <1>10, <4>1 DEF ByteAt
        <4>3. d[o + (2 + i)] = a[2 + i]
          BY <1>8, <4>1
        <4> QED  BY <1>4, <2>1, <4>1, <4>2, <4>3
      <3>2. chars = s
        <4>1. s = [i \in 1 .. n |-> s[i]]
          BY <1>2, <2>1
        <4>2. chars = [i \in 1 .. n |-> chars[i]]
          BY <1>10
        <4> QED  BY <3>1, <4>1, <4>2
      <3> QED  BY <1>1, <1>2, <3>2, CharactersDecode
    <2> QED  BY <1>1, <1>6, <1>15, <2>1, <2>2 DEF Yields
  <1> QED  BY <1>11, <1>13, <1>14, <1>15


LEMMA SoundDecodes ==
    ASSUME LeftToRightSums, CStrings, ReadInv, NEW g \in Garbage, Decode(g),
           NEW i, i = Len(read) + 1, Sound(i), NEW start, Laid(start), Follows(start)
    PROVE  Fails \/ Yields(written[i])
  <1>1. PICK f : f = written[i]
    OBVIOUS
  <1>2. PacketInv /\ status = "reading" /\ i \in 1 .. Len(written) /\ Len(read) \in Nat
        /\ Len(read) + 1 = i
    BY DEF ReadInv, PacketInv, PacketTypeOK, Decode
  <1>3. f \in Fields /\ f \in Field
    BY <1>1, <1>2, FieldsAssumption DEF ReadInv, PacketInv, PacketTypeOK
  <1>4. Sound(Len(read)) /\ f.op # "null"
    BY <1>1, <1>2 DEF Sound
  <1>5. InFront(Added(f))
    BY <1>1, <1>2, <1>4, FieldIsAhead
  <1>6. \/ f.op = "number" /\ DecodeNumber(Len(f.bytes))
        \/ f.op = "buffer" /\ DecodeBuffer(Len(f.bytes))
        \/ f.op = "string" /\ DecodeStr(g)
    BY <1>1, <1>4 DEF Decode
  <1> QED
    BY <1>1, <1>2, <1>3, <1>5, <1>6, NumberDecodes, BufferDecodes, StringDecodes

\* What is taken was in front of the end of the packet, whatever it was.
LEMMA TakenFromWithin ==
    ASSUME PacketInv, NEW g \in Garbage, Decode(g)
    PROVE  Throw \/ (copy.offset <= copy.length /\ \E v, n : Took(v, n))
  <1>1. PICK o, l : o = copy.offset /\ l = copy.length
    OBVIOUS
  <1>2. /\ o \in Nat /\ l \in Int /\ status = "reading" /\ written \in Seq(Field)
        /\ Len(read) + 1 \in 1 .. Len(written)
    BY <1>1 DEF PacketInv, PacketTypeOK, InPacket, Decode
  <1>3. PICK f : f = written[Len(read) + 1]
    OBVIOUS
  <1>4. PICK n \in Nat : n = Len(f.bytes)
    BY <1>2, <1>3, CharactersAreBytes
  <1>5. DecodeNumber(n) \/ DecodeBuffer(n) \/ DecodeStr(g)
    BY <1>3, <1>4 DEF Decode
  <1>6. (GetBytesLeft >= n \/ GetBytesLeft >= 2) => copy.offset <= copy.length
    <2>1. (l - o >= n \/ l - o >= 2) => o <= l
      BY <1>2, <1>4
    <2> QED  BY <1>1, <2>1 DEF GetBytesLeft
  <1>7. CASE DecodeNumber(n)
    <2>1. PICK v : v = [k \in 1 .. n |->
                 copy.data[copy.offset + (IF n = 4 THEN Decode4Order[k] ELSE k)]]
      OBVIOUS
    <2>2. \/ GetBytesLeft < n /\ Throw
          \/ GetBytesLeft >= n /\ Took(v, n)
      BY <1>7, <2>1 DEF DecodeNumber
    <2> QED  BY <1>6, <2>2
  <1>8. CASE DecodeBuffer(n)
    <2>1. PICK v : v = SubSeq(copy.data, copy.offset + 1, copy.offset + n)
      OBVIOUS
    <2>2. \/ GetBytesLeft < n /\ Throw
          \/ GetBytesLeft >= n /\ Took(v, n)
      BY <1>8, <2>1 DEF DecodeBuffer
    <2> QED  BY <1>6, <2>2
  <1>9. CASE DecodeStr(g)
    <2>1. PICK w : w = copy.data[copy.offset + 1] + 256 * copy.data[copy.offset + 2]
      OBVIOUS
    <2>2. PICK chars : chars = [k \in 1 .. w |-> ByteAt(copy.offset + 1 + k, g)]
      OBVIOUS
    <2>3. \/ GetBytesLeft < 2 /\ Throw
          \/ GetBytesLeft >= 2 /\ w > GetBytesLeft /\ Throw
          \/ GetBytesLeft >= 2 /\ w <= GetBytesLeft /\ Took(CString(chars \o <<g, 0>>), 2 + w)
      BY <1>9, <2>1, <2>2 DEF DecodeStr
    <2> QED  BY <1>6, <2>3
  <1> QED
    BY <1>5, <1>7, <1>8, <1>9

LEMMA DecodeReadInv ==
    ASSUME LeftToRightSums, CStrings, ReadInv, NEW g \in Garbage, Decode(g)
    PROVE  ReadInv'
  <1>1. PacketInv'
    BY DecodeStep DEF ReadInv
  <1>2. /\ status = "reading" /\ origin' = origin /\ written' = written /\ out' = out /\ cut' = cut
        /\ Len(read) < Len(written)
    BY DEF Decode
  <1>3. PICK start : Laid(start) /\ Follows(start)
    BY DEF ReadInv
  <1>4. Laid(start)'
    BY <1>2, <1>3, LaidStays
  <1>5. PICK m \in Nat, i \in Nat : m = Len(read) /\ i = m + 1
    BY DEF ReadInv, PacketInv, PacketTypeOK
  <1>6. i \in 1 .. Len(written) /\ Len(written) \in Nat /\ copy \in InPacket
        /\ read \in Seq(Seq(Bytes))
    BY <1>2, <1>5 DEF ReadInv, PacketInv, PacketTypeOK
  <1>7. \A j : Sound(j)' <=> Sound(j)
    BY <1>2 DEF Sound
  <1>8. \A v, f : Matches(v, f)' <=> Matches(v, f)
    BY <1>2 DEF Matches
  <1>9. \A p : Carries(p)' <=> Carries(p)
    BY <1>2 DEF Carries
  <1>10. CASE Throw
    <2>1. status' = "thrown" /\ copy' = copy /\ read' = read
      BY <1>10 DEF Throw
    <2>2. WholePacketsDecode'
      <3>1. Sound(Len(written)) => Sound(i)
        BY <1>6 DEF Sound
      <3>2. CASE Sound(i)
        <4>1. Fails \/ Yields(written[i])
          BY <1>3, <1>5, <3>2, SoundDecodes
        <4>2. ~Yields(written[i])
          BY <1>2, <2>1 DEF Yields, Took
        <4> QED  BY <1>2, <4>1, <4>2 DEF WholePacketsDecode, Fails
      <3> QED  BY <1>2, <1>7, <3>1, <3>2 DEF WholePacketsDecode
    <2>3. ReadsWhatWasWritten'
      BY <1>2, <1>7, <1>8, <2>1 DEF ReadInv, ReadsWhatWasWritten
    <2>4. Follows(start)'
      BY <2>1 DEF Follows
    <2> QED  BY <1>1, <1>2, <1>4, <2>2, <2>3, <2>4 DEF ReadInv
  <1>11. CASE ~Throw
    <2>1. copy.offset <= copy.length
      BY <1>11, TakenFromWithin DEF ReadInv
    <2>2. PICK v, n :
              /\ Took(v, n)
              /\ Sound(i) => /\ n = Len(Added(written[i]))
                             /\ copy.offset + n <= copy.length => Matches(v, written[i])
      <3>1. CASE Sound(i)
        <4>1. Yields(written[i])
          BY <1>3, <1>5, <1>11, <3>1, SoundDecodes DEF Fails
        <4> QED  BY <4>1 DEF Yields
      <3>2. CASE ~Sound(i)
        BY <1>11, <3>2, TakenFromWithin DEF ReadInv
      <3> QED  BY <3>1, <3>2
    <2>3. /\ read' = Append(read, v) /\ status' = "reading"
          /\ copy'.data = copy.data /\ copy'.length = copy.length
          /\ copy'.offset = copy.offset + n
      BY <1>2, <1>6, <2>2 DEF Took, InPacket
    <2>4. v \in Seq(Bytes)
      <3>1. Len(read') = m + 1 /\ read'[m + 1] = v /\ m + 1 \in 1 .. m + 1
        BY <1>5, <2>3
      <3>2. read' \in Seq(Seq(Bytes))
        BY <1>1 DEF PacketInv, PacketTypeOK
      <3> QED  BY <3>1, <3>2
    <2>5. /\ Len(read') = i /\ read'[i] = v /\ \A j \in 1 .. m : read'[j] = read[j]
      BY <1>5, <1>6, <2>3, <2>4
    <2>6. ReadsWhatWasWritten'
      <3>1. ASSUME NEW j \in 1 .. Len(read'), Sound(j),
                   j < Len(read') \/ copy'.offset <= copy'.length
            PROVE  Matches(read'[j], written[j])
        <4>1. CASE j = i
          BY <2>2, <2>3, <2>5, <3>1, <4>1
        <4>2. CASE j # i
          <5>1. j \in 1 .. m
            BY <1>5, <2>5, <4>2
          <5>2. Matches(read[j], written[j])
            BY <1>5, <2>1, <3>1, <5>1 DEF ReadInv, ReadsWhatWasWritten
          <5> QED  BY <2>5, <5>1, <5>2
        <4> QED  BY <4>1, <4>2
      <3> QED  BY <1>2, <1>7, <1>8, <3>1 DEF ReadsWhatWasWritten
    <2>7. Follows(start)'
      <3>1. \A p \in {copy} : Carries(p)
        BY <1>2, <1>3 DEF Follows
      <3>2. \A p \in {copy'} : Carries(p)'
        BY <1>2, <2>3, <3>1 DEF Carries
      <3>3. Sound(i) => copy'.offset = start[i + 1]
        <4>1. SUFFICES ASSUME Sound(i) PROVE copy'.offset = start[i + 1]
          OBVIOUS
        <4>2. Sound(m)
          BY <1>5, <4>1 DEF Sound
        <4>3. copy.offset = start[i]
          BY <1>2, <1>3, <1>5, <4>2 DEF Follows
        <4>4. start[i + 1] = start[i] + Len(Added(written[i]))
          BY <1>3, <1>6 DEF Laid, FieldLaid
        <4> QED  BY <2>2, <2>3, <4>1, <4>3, <4>4
      <3> QED  BY <1>2, <1>6, <1>7, <2>3, <2>5, <3>2, <3>3 DEF Follows
    <2>8. WholePacketsDecode'
      BY <2>3 DEF WholePacketsDecode
    <2> QED  BY <1>1, <1>2, <1>4, <2>6, <2>7, <2>8 DEF ReadInv
  <1> QED  BY <1>10, <1>11

LEMMA ReadInvStep ==
    ASSUME LeftToRightSums, CStrings, ReadInv, [PacketNext]_packetVars
    PROVE  ReadInv'
  <1>1. CASE UNCHANGED packetVars
    <2>1. PICK start : Laid(start) /\ Follows(start)
      BY DEF ReadInv
    <2>2. Laid(start)'
      BY <1>1, <2>1, LaidStays DEF packetVars
    <2>3. Follows(start)'
      BY <1>1, <2>1 DEF packetVars, Follows, Carries, Sound
    <2>4. PacketInv'
      BY <1>1, PacketInvStep DEF ReadInv
    <2>5. WholePacketsDecode' /\ ReadsWhatWasWritten'
      BY <1>1 DEF packetVars, ReadInv, WholePacketsDecode, ReadsWhatWasWritten, Sound, Matches
    <2> QED  BY <1>1, <2>2, <2>3, <2>4, <2>5 DEF ReadInv, packetVars
  <1> QED
    BY <1>1, EncodeReadInv, DeliverReadInv, CopyReadInv, DecodeReadInv DEF PacketNext

\* Whatever fields a packet is built of, wherever it is cut off and however often it is read
\* on: what CInPacket gives back behind CopyFrom is what was written, a whole packet of a
\* length m_uLength can hold is decoded to its end, and no decoder reads more than two bytes
\* behind it.
THEOREM PacketsStayReadable ==
    ASSUME LeftToRightSums, CStrings
    PROVE  PacketSpec => []PacketsRead
  <1>1. ReadInv /\ [PacketNext]_packetVars => ReadInv'
    BY ReadInvStep
  <1>2. ReadInv => PacketsRead
    BY DEF ReadInv, PacketInv, PacketsRead
  <1> QED
    BY InitLaid, <1>1, <1>2, PTL DEF PacketSpec

-----------------------------------------------------------------------------
(* ClientStart *)

StartTypeOK ==
    /\ dll \in {"none", "load", "ask", "mutex", "patch", "done"}
    /\ startUps \in Nat
    /\ open \in [Handles -> {"nothing", "mutex", "other"}]
    /\ hMutex \in Handles \cup {0}
    /\ xorKey \in [Entries -> Int]
    /\ admin \in BOOLEAN /\ mutexHook \in BOOLEAN /\ windowMode \in BOOLEAN
    /\ windowed \in BOOLEAN /\ keyInUse \in BOOLEAN /\ foreign \in BOOLEAN

\* The user answers before the hook of CreateMutexA is there, and only that hook gets a mutex.
HookInv ==
    /\ launcher \in {"check", "inject"} => dll = "none"
    /\ mutexHook => dll \in {"patch", "done"}
    /\ hMutex # 0 => mutexHook
    /\ WindowModeApplied

\* Until the first window is suppressed, hMutex stands for what the hook got.
HandleInv ==
    /\ startUps = 0 /\ hMutex # 0 => open[hMutex] = "mutex"
    /\ HandlesSpared

\* What the key becomes when it is turned over once more: no entry is 255 any longer.
OverTurned == [i \in Entries |-> IF i % 4 = 0 THEN 20 + 4 * i ELSE 1]

KeyInv ==
    /\ admin => \/ ~keyInUse /\ xorKey = aesKey_with_xor
                \/ keyInUse /\ xorKey = aesKey /\ dll = "done"
    /\ ~admin => \/ startUps = 0 /\ ~keyInUse /\ xorKey = aesKey_with_xor
                 \/ startUps % 2 = 1 /\ keyInUse /\ xorKey = aesKey
                 \/ startUps > 0 /\ startUps % 2 = 0 /\ keyInUse /\ xorKey = OverTurned

StartInv == StartTypeOK /\ HookInv /\ HandleInv /\ KeyInv

-----------------------------------------------------------------------------
(* The keys *)

\* initializeKey makes the key of the servers of the key the client is built with, spoils it
\* when it runs again, and mends it when it runs once more.
LEMMA KeyTurns ==
    ASSUME initializeKey
    PROVE  /\ xorKey = aesKey_with_xor => xorKey' = aesKey
           /\ xorKey = aesKey => xorKey' = OverTurned
           /\ xorKey = OverTurned => xorKey' = aesKey
<1> USE DEF initializeKey, Entries, XorOne
<1>1. ASSUME xorKey = aesKey_with_xor PROVE xorKey' = aesKey
  <2>1. ASSUME NEW i \in Entries PROVE xorKey'[i] = aesKey[i]
    <3>1. i \in Nat /\ i <= 31 /\ xorKey'[i] = IF xorKey[i] = 255 THEN 0 ELSE XorOne(xorKey[i])
      OBVIOUS
    <3>2. CASE i % 4 = 0
      <4>1. aesKey[i] = 21 + 4 * i
        BY <3>2 DEF aesKey
      <4>2. XorOne(21 + 4 * i) = 20 + 4 * i /\ XorOne(20 + 4 * i) = 21 + 4 * i
        BY <3>1
      <4>3. xorKey[i] = XorOne(aesKey[i])
        BY <1>1, <3>2 DEF aesKey_with_xor
      <4> HIDE DEF XorOne
      <4> QED
        BY <3>1, <4>1, <4>2, <4>3
    <3>3. CASE i % 4 # 0
      BY <1>1, <3>1, <3>3 DEF aesKey_with_xor, aesKey
    <3> QED
      BY <3>2, <3>3
  <2> QED
    BY <2>1 DEF aesKey
<1>2. ASSUME xorKey = aesKey PROVE xorKey' = OverTurned
  <2>1. \A i \in Entries : xorKey'[i] = OverTurned[i]
    BY <1>2 DEF aesKey, OverTurned
  <2> QED
    BY <2>1 DEF OverTurned
<1>3. ASSUME xorKey = OverTurned PROVE xorKey' = aesKey
  <2>1. \A i \in Entries : xorKey'[i] = aesKey[i]
    BY <1>3 DEF aesKey, OverTurned
  <2> QED
    BY <2>1 DEF aesKey
<1> QED
  BY <1>1, <1>2, <1>3

LEMMA KeysDiffer == aesKey # aesKey_with_xor /\ aesKey # OverTurned
<1>1. 1 \in Entries /\ 1 % 4 = 1
  BY DEF Entries
<1>2. aesKey[1] = 0 /\ aesKey_with_xor[1] = 255 /\ OverTurned[1] = 1
  BY <1>1 DEF aesKey, aesKey_with_xor, OverTurned
<1> QED
  BY <1>2

LEMMA KeyTypes ==
    /\ aesKey \in [Entries -> Int] /\ aesKey_with_xor \in [Entries -> Int]
    /\ OverTurned \in [Entries -> Int]
  BY DEF aesKey, aesKey_with_xor, OverTurned, Entries, XorOne

LEMMA KeyAgreesByInv == StartTypeOK /\ KeyInv => KeyAgrees
  BY KeysDiffer DEF StartTypeOK, KeyInv, KeyAgrees

-----------------------------------------------------------------------------

LEMMA StartInvInit == StartInit => StartInv
<1> SUFFICES ASSUME StartInit PROVE StartInv
  OBVIOUS
<1>1. StartTypeOK
  BY KeyTypes DEF StartInit, StartTypeOK
<1>2. HookInv /\ HandleInv
  BY DEF StartInit, HookInv, HandleInv, WindowModeApplied, HandlesSpared
<1>3. KeyInv
  BY DEF StartInit, KeyInv
<1> QED
  BY <1>1, <1>2, <1>3 DEF StartInv

LEMMA LaunchStep == StartInv /\ Launch => StartInv'
<1> SUFFICES ASSUME StartInv, Launch PROVE StartInv'
  OBVIOUS
<1>1. UNCHANGED <<admin, hookVars, keyVars, handleVars, startUps>>
  BY DEF Launch, GiveUp, CreateProcessSuspended, Inject, ResumeThread
<1>2. \/ dll' = dll /\ (launcher' \in {"check", "inject"} => launcher \in {"check", "inject"})
      \/ dll = "none" /\ dll' \in {"none", "load"} /\ launcher' = "resume"
  BY DEF Launch, GiveUp, CreateProcessSuspended, Inject, ResumeThread, StartInv, HookInv
<1>3. StartTypeOK'
  BY <1>1, <1>2 DEF StartInv, StartTypeOK, hookVars, keyVars, handleVars
<1>4. HookInv'
  BY <1>1, <1>2 DEF StartInv, HookInv, WindowModeApplied, hookVars, keyVars, handleVars
<1>5. HandleInv' /\ KeyInv'
  BY <1>1, <1>2 DEF StartInv, HandleInv, HandlesSpared, KeyInv, hookVars, keyVars, handleVars
<1> QED
  BY <1>3, <1>4, <1>5 DEF StartInv

LEMMA DllMainStep == StartInv /\ DllMain => StartInv'
<1> SUFFICES ASSUME StartInv, DllMain PROVE StartInv'
  OBVIOUS
<1> USE DEF StartInv, launcherVars, handleVars
<1>1. CASE HookCreateWindow
  BY <1>1 DEF HookCreateWindow, StartTypeOK, HookInv, WindowModeApplied,
              HandleInv, HandlesSpared, KeyInv, keyVars
<1>2. CASE AskWindowMode
  <2>1. hMutex = 0 /\ ~mutexHook
    BY <1>2 DEF AskWindowMode, HookInv, StartTypeOK
  <2> QED
    BY <1>2, <2>1 DEF AskWindowMode, StartTypeOK, HookInv, WindowModeApplied,
                      HandleInv, HandlesSpared, KeyInv, keyVars
<1>3. CASE HookCreateMutex
  <2>1. hMutex = 0 /\ ~mutexHook
    BY <1>3 DEF HookCreateMutex, HookInv, StartTypeOK
  <2> QED
    BY <1>3, <2>1 DEF HookCreateMutex, StartTypeOK, HookInv, WindowModeApplied,
                      HandleInv, HandlesSpared, KeyInv, keyVars
<1>4. CASE PatchAdminClient
  <2>1. HookInv' /\ HandleInv'
    BY <1>4 DEF PatchAdminClient, HookInv, WindowModeApplied, HandleInv, HandlesSpared, hookVars
  <2>2. KeyInv'
    BY <1>4, KeyTurns DEF PatchAdminClient, patchAesKey, KeyInv, keyVars
  <2>3. xorKey' \in [Entries -> Int] /\ keyInUse' \in BOOLEAN
    BY <1>4, <2>2, KeyTypes DEF PatchAdminClient, patchAesKey, KeyInv, keyVars, StartTypeOK
  <2>4. StartTypeOK'
    BY <1>4, <2>3 DEF PatchAdminClient, StartTypeOK, hookVars
  <2> QED
    BY <2>1, <2>2, <2>4
<1> QED
  BY <1>1, <1>2, <1>3, <1>4 DEF DllMain

LEMMA GameStep == StartInv /\ Game => StartInv'
<1> SUFFICES ASSUME StartInv, Game PROVE StartInv'
  OBVIOUS
<1> USE DEF StartInv, launcherVars, hookVars
<1>1. ASSUME NEW h \in Handles, OpenHandle(h) PROVE StartInv'
  BY <1>1 DEF OpenHandle, StartTypeOK, HookInv, WindowModeApplied,
              HandleInv, HandlesSpared, KeyInv, keyVars
<1>2. ASSUME NEW h \in Handles, CreateMutex(h) PROVE StartInv'
  <2>1. h # 0
    BY HandlesAssumption
  <2>2. StartTypeOK' /\ HandleInv'
    BY <1>2, <2>1 DEF CreateMutex, StartTypeOK, HandleInv, HandlesSpared, keyVars
  <2>3. HookInv'
    BY <1>2, <2>1 DEF CreateMutex, StartTypeOK, HookInv, WindowModeApplied
  <2>4. KeyInv'
    BY <1>2 DEF CreateMutex, KeyInv, keyVars
  <2> QED
    BY <2>2, <2>3, <2>4
<1>3. ASSUME NEW class \in Classes, CreateWindowEx(class) PROVE StartInv'
  <2>1. CASE UNCHANGED <<startUps, keyVars, handleVars>>
    BY <1>3, <2>1 DEF CreateWindowEx, StartTypeOK, HookInv, WindowModeApplied, HandleInv,
                      HandlesSpared, KeyInv, keyVars, handleVars
  <2>2. CASE /\ startUps' = startUps + 1
             /\ IF admin THEN UNCHANGED keyVars ELSE patchAesKey
             /\ CloseMutex
    <3>1. UNCHANGED <<dll, launcher, admin, windowHook, mutexHook, windowMode, windowed, hMutex>>
      BY <1>3, <2>2 DEF CreateWindowEx, CloseMutex
    <3>2. HookInv'
      BY <3>1 DEF HookInv, WindowModeApplied
    <3>3. KeyInv'
      <4>1. CASE admin
        BY <2>2, <3>1, <4>1 DEF KeyInv, keyVars
      <4>2. CASE ~admin
        <5>1. startUps \in Nat /\ keyInUse' = TRUE
          BY <2>2, <4>2 DEF StartTypeOK, patchAesKey
        <5>2. CASE startUps = 0
          <6>1. startUps' = 1 /\ xorKey' = aesKey
            BY <2>2, <4>2, <5>2, KeyTurns DEF KeyInv, patchAesKey
          <6> QED
            BY <3>1, <4>2, <5>1, <6>1 DEF KeyInv
        <5>3. CASE startUps % 2 = 1
          <6>1. xorKey' = OverTurned /\ startUps' % 2 = 0 /\ startUps' > 0
            BY <2>2, <4>2, <5>1, <5>3, KeyTurns DEF KeyInv, patchAesKey
          <6> QED
            BY <3>1, <4>2, <5>1, <6>1 DEF KeyInv
        <5>4. CASE startUps > 0 /\ startUps % 2 = 0
          <6>1. xorKey' = aesKey /\ startUps' % 2 = 1
            BY <2>2, <4>2, <5>1, <5>4, KeyTurns DEF KeyInv, patchAesKey
          <6> QED
            BY <3>1, <4>2, <5>1, <6>1 DEF KeyInv
        <5> QED
          BY <5>1, <5>2, <5>3, <5>4
      <4> QED
        BY <4>1, <4>2
    <3>4. HandleInv'
      <4>1. ASSUME startUps = 0 PROVE foreign' = foreign
        <5>1. \A h \in Handles : h = hMutex => open[h] = "mutex"
          BY <4>1, HandlesAssumption DEF HandleInv
        <5> QED
          BY <2>2, <5>1 DEF CloseMutex, StartTypeOK
      <4>2. startUps \in Nat /\ foreign' \in BOOLEAN /\ startUps' = startUps + 1
        BY <2>2 DEF StartTypeOK, CloseMutex
      <4> QED
        BY <4>1, <4>2 DEF HandleInv, HandlesSpared
    <3>5. StartTypeOK'
      <4>1. open' \in [Handles -> {"nothing", "mutex", "other"}] /\ foreign' \in BOOLEAN
        BY <2>2 DEF CloseMutex, StartTypeOK
      <4>2. xorKey' \in [Entries -> Int] /\ keyInUse' \in BOOLEAN
        BY <2>2, <3>3, KeyTypes DEF KeyInv, patchAesKey, keyVars, StartTypeOK
      <4> QED
        BY <2>2, <3>1, <4>1, <4>2 DEF StartTypeOK
    <3> QED
      BY <3>2, <3>3, <3>4, <3>5
  <2> QED
    BY <1>3, <2>1, <2>2 DEF CreateWindowEx
<1> QED
  BY <1>1, <1>2, <1>3 DEF Game

LEMMA StartInvStep == StartInv /\ [StartNext]_startVars => StartInv'
<1>1. StartInv /\ UNCHANGED startVars => StartInv'
  BY DEF startVars, launcherVars, hookVars, keyVars, handleVars, StartInv, StartTypeOK, HookInv,
         WindowModeApplied, HandleInv, HandlesSpared, KeyInv
<1> QED
  BY <1>1, LaunchStep, DllMainStep, GameStep DEF StartNext

-----------------------------------------------------------------------------

THEOREM StartInvariant == StartSpec => []StartInv
  BY StartInvInit, StartInvStep, PTL DEF StartSpec

\* initializeKey (AesKeyInitializer.cpp:37-45): the client ends up with the key of the servers
\* exactly as long as it ran an odd number of times.
THEOREM KeyAlwaysAgrees == StartSpec => []KeyAgrees
<1>1. StartInv => KeyAgrees
  BY KeyAgreesByInv DEF StartInv
<1> QED
  BY <1>1, StartInvariant, PTL

\* DllMain and the main thread (WvsClient/Entrypoint.cpp:59-71): whatever the game did before
\* the hook was there, the answer of the user takes effect with the first mutex it gets.
THEOREM WindowModeAlwaysApplied == StartSpec => []WindowModeApplied
<1>1. StartInv => WindowModeApplied
  BY DEF StartInv, HookInv
<1> QED
  BY <1>1, StartInvariant, PTL

\* Hook_CreateWindowExA (WvsClient/Entrypoint.cpp:88) closes a handle it was never given only
\* with the second window it suppresses.
THEOREM HandlesAlwaysSpared == StartSpec => []HandlesSpared
<1>1. StartInv => HandlesSpared
  BY DEF StartInv, HandleInv
<1> QED
  BY <1>1, StartInvariant, PTL

-----------------------------------------------------------------------------
(* ClientSender *)

\* The statements of SendPacket under the mutex.
Held == {"check", "make", "hash", "flush", "unlock"}

\* Who is inside SendPacket holds the mutex.
Exclusive == \A t \in Threads : at[t] \in Held => mtx = t

Hashing == \E t \in Threads : at[t] = "hash"

\* Every packet of the connection moved the number on, or is about to.
Counted == ~torn => Len(wire) + Len(sendBuff) = seqSnd + (IF Hashing THEN 1 ELSE 0)

\* SequenceInStep, said of the two lists apart.
InStep ==
    ~torn => /\ \A i \in 1 .. Len(wire) : wire[i] = i - 1
             /\ \A i \in 1 .. Len(sendBuff) : sendBuff[i] = Len(wire) + i - 1

SenderInv == SenderTypeOK /\ Exclusive /\ Counted /\ InStep

LEMMA SenderInvInit == SenderInit => SenderInv
<1> SUFFICES ASSUME SenderInit PROVE SenderInv
  OBVIOUS
<1>1. SenderTypeOK
  <2>1. <<>> \in Seq(Nat)
    OBVIOUS
  <2>2. mtx \in Threads \cup {Nobody} /\ torn \in BOOLEAN /\ connected \in BOOLEAN
    BY DEF SenderInit
  <2>3. at \in [Threads -> {"out", "lock", "check", "make", "hash", "flush", "unlock"}]
    BY DEF SenderInit
  <2> QED
    BY <2>1, <2>2, <2>3 DEF SenderInit, SenderTypeOK
<1>2. Exclusive /\ ~Hashing
  BY DEF SenderInit, Exclusive, Hashing, Held
<1>3. Len(wire) = 0 /\ Len(sendBuff) = 0 /\ seqSnd = 0
  BY DEF SenderInit
<1> QED
  BY <1>1, <1>2, <1>3 DEF SenderInv, Counted, InStep

\* The types are kept by every step.
LEMMA SenderTypeStep == SenderTypeOK /\ [SenderNext]_senderVars => SenderTypeOK'
<1> SUFFICES ASSUME SenderTypeOK, [SenderNext]_senderVars
             PROVE  SenderTypeOK'
  OBVIOUS
<1> USE DEF SenderTypeOK, Step
<1>1. ASSUME NEW t \in Threads, CallSendPacket(t) PROVE SenderTypeOK'
  BY <1>1 DEF CallSendPacket
<1>2. ASSUME NEW t \in Threads, Lock(t) PROVE SenderTypeOK'
  BY <1>2 DEF Lock
<1>3. ASSUME NEW t \in Threads, Check(t) PROVE SenderTypeOK'
  BY <1>3 DEF Check
<1>4. ASSUME NEW t \in Threads, MakeBufferList(t) PROVE SenderTypeOK'
  BY <1>4 DEF MakeBufferList
<1>5. ASSUME NEW t \in Threads, InnoHash(t) PROVE SenderTypeOK'
  BY <1>5 DEF InnoHash
<1>6. ASSUME NEW t \in Threads, Flush(t) PROVE SenderTypeOK'
  <2>1. wire \o sendBuff \in Seq(Nat) /\ <<>> \in Seq(Nat)
    OBVIOUS
  <2>2. at' \in [Threads -> {"out", "lock", "check", "make", "hash", "flush", "unlock"}]
    BY <1>6 DEF Flush
  <2> QED
    BY <1>6, <2>1, <2>2 DEF Flush
<1>7. ASSUME NEW t \in Threads, Unlock(t) PROVE SenderTypeOK'
  BY <1>7 DEF Unlock
<1>8. CASE Disconnect
  BY <1>8 DEF Disconnect
<1>9. CASE Reconnect
  BY <1>9 DEF Reconnect
<1>10. CASE UNCHANGED senderVars
  BY <1>10 DEF senderVars
<1> QED
  BY <1>1, <1>2, <1>3, <1>4, <1>5, <1>6, <1>7, <1>8, <1>9, <1>10 DEF SenderNext, SendPacket

\* A step of the thread that holds the mutex, or the one that takes a free one, leaves the
\* others outside.
LEMMA ExclusiveStep == SenderTypeOK /\ Exclusive /\ [SenderNext]_senderVars => Exclusive'
<1> SUFFICES ASSUME SenderTypeOK, Exclusive, [SenderNext]_senderVars
             PROVE  Exclusive'
  OBVIOUS
<1> USE ThreadsAssumption DEF SenderTypeOK, Exclusive, Held, Step
<1>1. ASSUME NEW t \in Threads, CallSendPacket(t) PROVE Exclusive'
  BY <1>1 DEF CallSendPacket
<1>2. ASSUME NEW t \in Threads, Lock(t) PROVE Exclusive'
  BY <1>2 DEF Lock
<1>3. ASSUME NEW t \in Threads, Check(t) PROVE Exclusive'
  BY <1>3 DEF Check
<1>4. ASSUME NEW t \in Threads, MakeBufferList(t) PROVE Exclusive'
  BY <1>4 DEF MakeBufferList
<1>5. ASSUME NEW t \in Threads, InnoHash(t) PROVE Exclusive'
  BY <1>5 DEF InnoHash
<1>6. ASSUME NEW t \in Threads, Flush(t) PROVE Exclusive'
  BY <1>6 DEF Flush
<1>7. ASSUME NEW t \in Threads, Unlock(t) PROVE Exclusive'
  BY <1>7 DEF Unlock
<1>8. CASE Disconnect
  BY <1>8 DEF Disconnect
<1>9. CASE Reconnect
  BY <1>9 DEF Reconnect
<1>10. CASE UNCHANGED senderVars
  BY <1>10 DEF senderVars
<1> QED
  BY <1>1, <1>2, <1>3, <1>4, <1>5, <1>6, <1>7, <1>8, <1>9, <1>10 DEF SenderNext, SendPacket

\* Only the thread under the mutex can be hashing.
LEMMA OneHashes ==
    ASSUME SenderTypeOK, Exclusive, NEW t \in Threads, at[t] \in Held
    PROVE  Hashing <=> at[t] = "hash"
  BY DEF SenderTypeOK, Exclusive, Hashing, Held

\* The lists and the number move on together.
LEMMA InStepStep ==
    ASSUME SenderInv, [SenderNext]_senderVars, ~torn'
    PROVE  (Counted /\ InStep)'
<1> USE DEF SenderInv
<1>0. SenderTypeOK' /\ Exclusive'
  BY SenderTypeStep, ExclusiveStep
<1>1. ASSUME NEW t \in Threads, CallSendPacket(t) PROVE (Counted /\ InStep)'
  <2>1. Hashing' <=> Hashing
    BY <1>1 DEF CallSendPacket, Step, Hashing, SenderTypeOK
  <2> QED
    BY <1>1, <2>1 DEF CallSendPacket, Counted, InStep
<1>2. ASSUME NEW t \in Threads, Lock(t) PROVE (Counted /\ InStep)'
  <2>1. Hashing' <=> Hashing
    BY <1>2 DEF Lock, Step, Hashing, SenderTypeOK
  <2> QED
    BY <1>2, <2>1 DEF Lock, Counted, InStep
<1>3. ASSUME NEW t \in Threads, Check(t) PROVE (Counted /\ InStep)'
  <2>1. Hashing' <=> Hashing
    BY <1>3 DEF Check, Step, Hashing, SenderTypeOK
  <2> QED
    BY <1>3, <2>1 DEF Check, Counted, InStep
<1>4. ASSUME NEW t \in Threads, MakeBufferList(t) PROVE (Counted /\ InStep)'
  <2>1. ~Hashing /\ Hashing'
    BY <1>4, OneHashes DEF MakeBufferList, Step, Hashing, SenderTypeOK, Held
  <2>2. /\ Len(sendBuff') = Len(sendBuff) + 1
        /\ \A i \in 1 .. Len(sendBuff) : sendBuff'[i] = sendBuff[i]
        /\ sendBuff'[Len(sendBuff) + 1] = seqSnd
    BY <1>4 DEF MakeBufferList, SenderTypeOK
  <2>3. Len(sendBuff) \in Nat /\ Len(wire) \in Nat /\ seqSnd \in Nat
    BY DEF SenderTypeOK
  <2>4. Counted'
    BY <1>4, <2>1, <2>2, <2>3 DEF MakeBufferList, Counted
  <2>5. Len(wire) + Len(sendBuff) = seqSnd
    BY <1>4, <2>1, <2>3 DEF MakeBufferList, Counted
  <2>6. InStep'
    <3>1. ~torn /\ wire' = wire
      BY <1>4 DEF MakeBufferList
    <3>2. ASSUME NEW i \in 1 .. Len(sendBuff')
          PROVE  sendBuff'[i] = Len(wire') + i - 1
      <4>1. CASE i = Len(sendBuff) + 1
        BY <2>2, <2>3, <2>5, <3>1, <4>1
      <4>2. CASE i \in 1 .. Len(sendBuff)
        BY <2>2, <3>1, <4>2 DEF InStep
      <4> QED
        BY <2>2, <2>3, <4>1, <4>2
    <3> QED
      BY <3>1, <3>2 DEF InStep
  <2> QED
    BY <2>4, <2>6
<1>5. ASSUME NEW t \in Threads, InnoHash(t) PROVE (Counted /\ InStep)'
  <2>1. Hashing /\ at'[t] = "flush"
    BY <1>5 DEF InnoHash, Step, Hashing, SenderTypeOK
  <2>2. ~Hashing'
    BY <1>0, <2>1 DEF SenderTypeOK, Exclusive, Hashing, Held
  <2> QED
    BY <1>5, <2>1, <2>2 DEF InnoHash, Counted, InStep, SenderTypeOK
<1>6. ASSUME NEW t \in Threads, Flush(t) PROVE (Counted /\ InStep)'
  <2>1. Hashing' <=> Hashing
    BY <1>6 DEF Flush, Step, Hashing, SenderTypeOK
  <2>2. CASE connected
    <3>1. Len(sendBuff') = 0 /\ Len(wire') = Len(wire) + Len(sendBuff)
      BY <1>6, <2>2 DEF Flush, SenderTypeOK
    <3>2. \A i \in 1 .. Len(wire') :
             wire'[i] = IF i <= Len(wire) THEN wire[i] ELSE sendBuff[i - Len(wire)]
      BY <1>6, <2>2 DEF Flush, SenderTypeOK
    <3>3. Len(sendBuff) \in Nat /\ Len(wire) \in Nat
      BY DEF SenderTypeOK
    <3>4. InStep'
      <4>1. ~torn
        BY <1>6 DEF Flush
      <4>2. ASSUME NEW i \in 1 .. Len(wire')
            PROVE  wire'[i] = i - 1
        <5>1. CASE i <= Len(wire)
          BY <3>2, <3>3, <4>1, <5>1, i \in 1 .. Len(wire) DEF InStep
        <5>2. CASE ~(i <= Len(wire))
          <6>1. i - Len(wire) \in 1 .. Len(sendBuff)
            BY <3>1, <3>3, <5>2
          <6> QED
            BY <3>2, <3>3, <4>1, <5>2, <6>1 DEF InStep
        <5> QED
          BY <5>1, <5>2
      <4> QED
        BY <3>1, <4>2 DEF InStep
    <3>5. Counted'
      BY <1>6, <2>1, <3>1, <3>3 DEF Flush, Counted, SenderTypeOK
    <3> QED
      BY <3>4, <3>5
  <2>3. CASE ~connected
    BY <1>6, <2>1, <2>3 DEF Flush, Counted, InStep
  <2> QED
    BY <2>2, <2>3
<1>7. ASSUME NEW t \in Threads, Unlock(t) PROVE (Counted /\ InStep)'
  <2>1. Hashing' <=> Hashing
    BY <1>7 DEF Unlock, Step, Hashing, SenderTypeOK
  <2> QED
    BY <1>7, <2>1 DEF Unlock, Counted, InStep
<1>8. CASE Disconnect
  BY <1>8 DEF Disconnect, Counted, InStep, Hashing
<1>9. CASE Reconnect
  <2>1. ~Hashing'
    BY <1>9 DEF Reconnect, Hashing
  <2> QED
    BY <1>9, <2>1 DEF Reconnect, Counted, InStep
<1>10. CASE UNCHANGED senderVars
  BY <1>10 DEF senderVars, Counted, InStep, Hashing
<1> QED
  BY <1>1, <1>2, <1>3, <1>4, <1>5, <1>6, <1>7, <1>8, <1>9, <1>10 DEF SenderNext, SendPacket

LEMMA SenderInvStep == SenderInv /\ [SenderNext]_senderVars => SenderInv'
<1> SUFFICES ASSUME SenderInv, [SenderNext]_senderVars PROVE SenderInv'
  OBVIOUS
<1>1. SenderTypeOK' /\ Exclusive'
  BY SenderTypeStep, ExclusiveStep DEF SenderInv
<1>2. CASE torn'
  BY <1>1, <1>2 DEF SenderInv, Counted, InStep
<1>3. CASE ~torn'
  BY <1>1, <1>3, InStepStep DEF SenderInv
<1> QED
  BY <1>2, <1>3

\* What the two lists say apart, they say as one.
LEMMA InStepIsSequenceInStep == SenderTypeOK /\ InStep => SequenceInStep
<1> SUFFICES ASSUME SenderTypeOK, InStep, ~torn,
                    NEW i \in DOMAIN (wire \o sendBuff)
             PROVE  (wire \o sendBuff)[i] = i - 1
  BY DEF SequenceInStep
<1>1. wire \in Seq(Nat) /\ sendBuff \in Seq(Nat)
  BY DEF SenderTypeOK
<1>2. /\ Len(wire) \in Nat /\ Len(sendBuff) \in Nat
      /\ i \in 1 .. Len(wire) + Len(sendBuff)
      /\ (wire \o sendBuff)[i] = IF i <= Len(wire) THEN wire[i] ELSE sendBuff[i - Len(wire)]
  BY <1>1
<1>3. CASE i <= Len(wire)
  BY <1>2, <1>3 DEF InStep
<1>4. CASE ~(i <= Len(wire))
  <2>1. i - Len(wire) \in 1 .. Len(sendBuff)
    BY <1>2, <1>4
  <2> QED
    BY <1>2, <1>4, <2>1 DEF InStep
<1> QED
  BY <1>3, <1>4

-----------------------------------------------------------------------------

\* The invariant holds in every reachable state.
THEOREM SenderInvariant == SenderSpec => []SenderInv
  BY SenderInvInit, SenderInvStep, PTL DEF SenderSpec

\* The lock_guard of SendPacket (WvsClient/CClientSocket.cpp:32): no two threads are between
\* its construction and its end.
THEOREM MutualExclusion ==
    SenderSpec => [](\A t, u \in Threads : at[t] \in Held /\ at[u] \in Held => t = u)
<1>1. SenderInv => \A t, u \in Threads : at[t] \in Held /\ at[u] \in Held => t = u
  BY DEF SenderInv, Exclusive
<1> QED
  BY <1>1, SenderInvariant, PTL

\* However many threads send, and however often the connection breaks: the packets of a
\* connection carry the numbers the server counts, in order.
THEOREM SequenceStaysInStep == SenderSpec => []SequenceInStep
<1>1. SenderInv => SequenceInStep
  BY InStepIsSequenceInStep DEF SenderInv
<1> QED
  BY <1>1, SenderInvariant, PTL

-----------------------------------------------------------------------------
(* ZMap: where the links f lead *)

Links == [Keys -> Keys \cup {Null}]

ClosedUnder(f, S) == \A p \in S : f[p] # Null => f[p] \in S
Leads(f, p) == {q \in Keys : \A S \in SUBSET Keys : p \in S /\ ClosedUnder(f, S) => q \in S}
Stops(f, p) == \E q \in Leads(f, p) : f[q] = Null

\* h is f with a link at k, where it had none.
Adds(f, k, g, h) == f \in Links /\ k \in Keys /\ f[k] = Null /\ g \in Keys \cup {Null}
                    /\ h = [f EXCEPT ![k] = g]

LEMMA ChainsLead ==
    /\ \A p : Chain(p) = Leads(next, p) /\ Chain(p)' = Leads(next', p)
    /\ \A p : (Ends(p) <=> Stops(next, p)) /\ (Ends(p)' <=> Stops(next', p))
  <1>1. \A p : Chain(p) = Leads(next, p) /\ Chain(p)' = Leads(next', p)
    BY DEF Chain, Closed, Leads, ClosedUnder
  <1> QED  BY <1>1 DEF Ends, Stops

LEMMA NullIsNoKey == Null \notin Keys
  BY ValuesAssumption

LEMMA BucketsAreNumbers ==
    ASSUME NEW n \in Nat \ {0}, NEW k \in Keys
    PROVE  Hash[k] % n \in 0 .. n - 1
  <1>1. Hash[k] \in Nat
    BY TableAssumption
  <1> QED  BY <1>1

LEMMA TableStays ==
    ASSUME tableSize' = tableSize
    PROVE  Bucket' = Bucket /\ Buckets' = Buckets
  BY DEF Bucket, Buckets

LEMMA LeadsToItself ==
    ASSUME NEW f, NEW p \in Keys
    PROVE  p \in Leads(f, p) /\ Leads(f, p) \subseteq Keys
  BY DEF Leads

LEMMA LeadsOn ==
    ASSUME NEW f \in Links, NEW p, NEW q \in Leads(f, p), f[q] # Null
    PROVE  f[q] \in Leads(f, p)
  <1>1. q \in Keys /\ f[q] \in Keys
    BY DEF Leads, Links
  <1>2. ASSUME NEW S \in SUBSET Keys, p \in S, ClosedUnder(f, S) PROVE f[q] \in S
    BY <1>2 DEF Leads, ClosedUnder
  <1> QED  BY <1>1, <1>2 DEF Leads

LEMMA LeadsNowhereElse ==
    ASSUME NEW f, NEW S \in SUBSET Keys, NEW p \in S, ClosedUnder(f, S)
    PROVE  Leads(f, p) \subseteq S
  BY DEF Leads

LEMMA LeadsThrough ==
    ASSUME NEW f \in Links, NEW p \in Keys, NEW q \in Leads(f, p)
    PROVE  Leads(f, q) \subseteq Leads(f, p)
  <1>1. Leads(f, p) \in SUBSET Keys
    BY DEF Leads
  <1>2. ClosedUnder(f, Leads(f, p))
    BY LeadsOn DEF ClosedUnder
  <1> QED  BY <1>1, <1>2, LeadsNowhereElse

\* A pair, and what its successor leads to.
LEMMA LeadsByStep ==
    ASSUME NEW f \in Links, NEW p \in Keys
    PROVE  /\ f[p] = Null => Leads(f, p) = {p}
           /\ f[p] # Null => Leads(f, p) = {p} \cup Leads(f, f[p])
  <1>1. ASSUME f[p] = Null PROVE Leads(f, p) = {p}
    <2>1. Leads(f, p) \subseteq {p}
      BY <1>1, LeadsNowhereElse DEF ClosedUnder
    <2> QED  BY <2>1, LeadsToItself
  <1>2. ASSUME f[p] # Null PROVE Leads(f, p) = {p} \cup Leads(f, f[p])
    <2>1. f[p] \in Keys
      BY <1>2 DEF Links
    <2>2. PICK S : S = {p} \cup Leads(f, f[p])
      OBVIOUS
    <2>3. S \in SUBSET Keys /\ p \in S
      BY <2>2 DEF Leads
    <2>4. ClosedUnder(f, S)
      BY <2>1, <2>2, LeadsOn, LeadsToItself DEF ClosedUnder
    <2>5. Leads(f, p) \subseteq S
      BY <2>3, <2>4, LeadsNowhereElse
    <2>6. p \in Leads(f, p) /\ f[p] \in Leads(f, p)
      BY <1>2, LeadsToItself, LeadsOn
    <2>7. Leads(f, f[p]) \subseteq Leads(f, p)
      BY <2>6, LeadsThrough
    <2> QED  BY <2>2, <2>5, <2>6, <2>7
  <1> QED  BY <1>1, <1>2

\* New links where there were none only lead further.
LEMMA LeadsFurther ==
    ASSUME NEW f, NEW k, NEW g, NEW h, Adds(f, k, g, h), NEW p
    PROVE  Leads(f, p) \subseteq Leads(h, p)
  <1>2. \A q \in Keys : f[q] # Null => h[q] = f[q]
    BY DEF Links, Adds
  <1>3. ASSUME NEW S \in SUBSET Keys, ClosedUnder(h, S) PROVE ClosedUnder(f, S)
    BY <1>2, <1>3 DEF ClosedUnder
  <1>4. Leads(f, p) \subseteq Leads(h, p)
    BY <1>3 DEF Leads
  <1> QED  BY <1>4

\* What does not reach k does not see its link.
LEMMA LeadsPast ==
    ASSUME NEW f, NEW k, NEW g, NEW h, Adds(f, k, g, h), NEW p \in Keys, k \notin Leads(f, p)
    PROVE  Leads(h, p) = Leads(f, p)
  <1>1. f \in Links
    BY DEF Adds
  <1>2. \A q \in Leads(f, p) : q # k /\ q \in Keys /\ h[q] = f[q]
    BY DEF Leads, Links, Adds
  <1>3. ClosedUnder(h, Leads(f, p))
    BY <1>1, <1>2, LeadsOn DEF ClosedUnder
  <1>4. Leads(f, p) \in SUBSET Keys /\ p \in Leads(f, p)
    BY LeadsToItself
  <1>5. Leads(h, p) \subseteq Leads(f, p)
    BY <1>3, <1>4, LeadsNowhereElse
  <1> QED  BY <1>5, LeadsFurther

\* What reaches k goes on where its link leads.
LEMMA LeadsAcross ==
    ASSUME NEW f, NEW k, NEW g \in Keys, NEW h, Adds(f, k, g, h), k \notin Leads(f, g),
           NEW p \in Keys, k \in Leads(f, p)
    PROVE  Leads(h, p) = Leads(f, p) \cup Leads(f, g)
  <1>1. f \in Links
    BY DEF Adds
  <1>2. h \in Links /\ h[k] = g /\ g # Null /\ \A q \in Keys : q # k => h[q] = f[q]
    BY NullIsNoKey DEF Links, Adds
  <1>3. PICK S : S = Leads(f, p) \cup Leads(f, g)
    OBVIOUS
  <1>4. S \in SUBSET Keys /\ p \in S /\ g \in S
    BY <1>3, LeadsToItself
  <1>5. ClosedUnder(h, S)
    <2> SUFFICES ASSUME NEW q \in S, h[q] # Null PROVE h[q] \in S
      BY DEF ClosedUnder
    <2>1. CASE q = k
      BY <2>1, <1>2, <1>4
    <2>2. CASE q # k
      BY <2>2, <1>1, <1>2, <1>3, <1>4, LeadsOn
    <2> QED  BY <2>1, <2>2
  <1>6. Leads(h, p) \subseteq S
    BY <1>4, <1>5, LeadsNowhereElse
  <1>8. Leads(f, p) \subseteq Leads(h, p)
    BY LeadsFurther
  <1>9. Leads(h, g) = Leads(f, g)
    BY LeadsPast
  <1>10. k \in Leads(h, p) /\ g \in Leads(h, p)
    BY <1>2, <1>8, LeadsOn
  <1>11. Leads(h, g) \subseteq Leads(h, p)
    BY <1>2, <1>10, LeadsThrough
  <1> QED  BY <1>1, <1>3, <1>6, <1>8, <1>9, <1>11


\* Without k, whose predecessors are given its successor, everything else leads on.
Drops(f, k, g) ==
    /\ f \in Links /\ k \in Keys /\ (f[k] # Null => k \notin Leads(f, f[k]))
    /\ g = [p \in Keys |-> IF p = k THEN Null ELSE IF f[p] = k THEN f[k] ELSE f[p]]

LEMMA LeadsWithout ==
    ASSUME NEW f, NEW k, NEW g, Drops(f, k, g), NEW p \in Keys \ {k}
    PROVE  /\ Leads(g, p) = Leads(f, p) \ {k}
           /\ k \in Leads(f, p) => \E q \in Leads(g, p) : f[q] = k
  <1>1. /\ f \in Links /\ k \in Keys /\ (f[k] # Null => k \notin Leads(f, f[k])) /\ g \in Links
        /\ \A q \in Keys : g[q] = IF q = k THEN Null ELSE IF f[q] = k THEN f[k] ELSE f[q]
    BY DEF Drops, Links
  <1>2. f[k] # k
    BY <1>1, LeadsToItself, NullIsNoKey
  <1>3. Leads(g, p) \subseteq Leads(f, p) \ {k}
    <2>1. PICK S : S = Leads(f, p) \ {k}
      OBVIOUS
    <2>2. S \in SUBSET Keys /\ p \in S
      BY <2>1, LeadsToItself
    <2>3. ASSUME NEW q \in S, g[q] # Null PROVE g[q] \in S
      <3>1. q \in Leads(f, p) /\ q \in Keys /\ q # k
        BY <2>1, <2>2
      <3>2. CASE f[q] = k
        <4>1. k \in Leads(f, p) /\ g[q] = f[k]
          BY <1>1, <3>1, <3>2, NullIsNoKey, LeadsOn
        <4> QED  BY <1>1, <1>2, <2>1, <2>3, <4>1, LeadsOn
      <3>3. CASE f[q] # k
        BY <1>1, <2>1, <2>3, <3>1, <3>3, LeadsOn
      <3> QED  BY <3>2, <3>3
    <2>4. Leads(g, p) \subseteq S
      BY <2>2, <2>3, LeadsNowhereElse DEF ClosedUnder
    <2> QED  BY <2>1, <2>4
  <1>4. p \in Leads(g, p) /\ Leads(g, p) \in SUBSET Keys
    BY LeadsToItself
  <1>5. ASSUME NEW q \in Leads(g, p), f[q] # k, f[q] # Null PROVE f[q] \in Leads(g, p)
    BY <1>1, <1>3, <1>4, <1>5, LeadsOn
  <1>6. CASE \A q \in Leads(g, p) : f[q] # k
    <2>1. ClosedUnder(f, Leads(g, p))
      BY <1>5, <1>6 DEF ClosedUnder
    <2>2. Leads(f, p) \subseteq Leads(g, p)
      BY <1>4, <2>1, LeadsNowhereElse
    <2> QED  BY <1>3, <2>2
  <1>7. CASE \E q \in Leads(g, p) : f[q] = k
    <2>1. PICK q \in Leads(g, p) : f[q] = k
      BY <1>7
    <2>2. f[k] # Null => f[k] \in Leads(g, p)
      BY <1>1, <1>3, <1>4, <2>1, LeadsOn
    <2>3. PICK S : S = Leads(g, p) \cup {k}
      OBVIOUS
    <2>4. S \in SUBSET Keys /\ p \in S
      BY <1>1, <1>4, <2>3
    <2>5. ClosedUnder(f, S)
      BY <1>5, <2>2, <2>3 DEF ClosedUnder
    <2>6. Leads(f, p) \subseteq S
      BY <2>4, <2>5, LeadsNowhereElse
    <2> QED  BY <1>3, <1>7, <2>3, <2>6
  <1> QED  BY <1>6, <1>7

-----------------------------------------------------------------------------
(* ZMap: its invariant *)

ZMapTypeOK ==
    /\ tableSize \in Nat \ {0}
    /\ table \in [Buckets -> here \cup {Null}]
    /\ next \in Links
    /\ here \subseteq Keys
    /\ late \subseteq here
    /\ seen \subseteq here
    /\ pos \in here \cup {Null}
    /\ linked \in BOOLEAN

\* Links stay in the map and in their bucket, or lead to a later one once get_next has made
\* some; a bucket may be left with such a link as its head.
LinksForward ==
    /\ \A b \in Buckets : table[b] # Null =>
           b <= Bucket[table[b]] /\ (~linked => b = Bucket[table[b]])
    /\ \A p \in Keys : next[p] # Null =>
           /\ p \in here /\ next[p] \in here
           /\ Bucket[p] <= Bucket[next[p]]
           /\ ~linked => Bucket[p] = Bucket[next[p]]

\* A bucket's head leads to all of its pairs, to an end, and never back.
PairsHeld == \A k \in here : table[Bucket[k]] # Null /\ k \in Chain(table[Bucket[k]])
PairsEnd == \A p \in here : Ends(p)
NeverBack == \A p \in here : next[p] # Null => p \notin Chain(next[p])

\* With links f and buckets u, what leads from bucket b to p passes over none of S.
Passes(S, f, u, b, p) == \A k \in S : b < u[k] => u[p] < u[k] \/ k \in Leads(f, p)

\* Links, and heads, pass over no pair but late ones.
NoneSkipped ==
    /\ \A p \in here : next[p] # Null =>
           Passes(here \ late, next, Bucket, Bucket[p], next[p])
    /\ \A b \in Buckets : table[b] # Null => Passes(here \ late, next, Bucket, b, table[b])

\* k is still to come when a for_each stands at p.
Ahead(k, p) == k \in Chain(p) \/ \E e \in Chain(p) : next[e] = Null /\ Bucket[e] < Bucket[k]

WalkGoesOn ==
    pos # Null =>
        /\ \A k \in seen : k \notin Chain(pos) /\ Bucket[k] <= Bucket[pos]
        /\ \A k \in here \ late : k \in seen \/ Ahead(k, pos)

WalkEnds == pos = Null /\ seen # {} => here \ late \subseteq seen

Structure == ZMapTypeOK /\ LinksForward /\ PairsHeld /\ PairsEnd /\ NeverBack /\ NoneSkipped
Walk == (nullRead => here = {}) /\ (~moved => ~twice /\ WalkGoesOn /\ WalkEnds)
Unbroken == Structure /\ Walk /\ LookupTruthful

ZMapInv == (~broken => Unbroken) /\ (broken => linked \/ pos \notin here \cup {Null})

-----------------------------------------------------------------------------
(* ZMap: what the invariant says of chains *)

LEMMA PairsAreFiled ==
    ASSUME ZMapTypeOK
    PROVE  /\ \A k \in Keys : Bucket[k] \in Buckets
           /\ \A b \in Buckets : b \in Nat
           /\ here \subseteq Keys /\ next \in Links
  BY BucketsAreNumbers DEF ZMapTypeOK, Bucket, Buckets

\* Chains stay in the map and run through the buckets in order.
LEMMA ChainsForward ==
    ASSUME Structure, NEW p \in here
    PROVE  \A q \in Leads(next, p) : q \in here /\ q \in Keys /\ Bucket[p] <= Bucket[q]
  <1> DEFINE S == {q \in here : Bucket[p] <= Bucket[q]}
  <1>1. here \subseteq Keys /\ \A k \in Keys : Bucket[k] \in Nat
    BY PairsAreFiled DEF Structure
  <1>2. \A q \in Keys : next[q] # Null => next[q] \in here /\ Bucket[q] <= Bucket[next[q]]
    BY DEF Structure, LinksForward
  <1>3. p \in S /\ S \in SUBSET Keys
    BY <1>1
  <1>4. ClosedUnder(next, S)
    BY <1>1, <1>2 DEF ClosedUnder
  <1>5. Leads(next, p) \subseteq S
    BY <1>3, <1>4, LeadsNowhereElse
  <1> QED  BY <1>1, <1>5

\* The head that begin and get_next find passes over no pair but late ones.
LEMMA HeadIsFirst ==
    ASSUME Structure, NEW b \in Int
    PROVE  /\ HeadFrom(b) = Null => \A k \in here : Bucket[k] < b
           /\ HeadFrom(b) # Null =>
                  /\ HeadFrom(b) \in here
                  /\ b <= Bucket[HeadFrom(b)]
                  /\ \A k \in here \ late : b <= Bucket[k] =>
                        Bucket[HeadFrom(b)] < Bucket[k] \/ k \in Leads(next, HeadFrom(b))
  <1>1. \A k \in here : Bucket[k] \in Buckets /\ Bucket[k] \in Nat /\ table[Bucket[k]] # Null
    BY PairsAreFiled DEF Structure, PairsHeld
  <1>2. \A k \in here : b <= Bucket[k] => Bucket[k] \in UsedFrom(b)
    BY <1>1 DEF UsedFrom
  <1>3. \A c \in UsedFrom(b) : c \in Buckets /\ c \in Nat /\ b <= c /\ table[c] # Null
    BY DEF UsedFrom, Buckets
  <1>4. CASE UsedFrom(b) = {}
    <2>1. HeadFrom(b) = Null
      BY <1>4 DEF HeadFrom
    <2>2. \A k \in here : ~(b <= Bucket[k])
      BY <1>2, <1>4
    <2> QED  BY <1>1, <2>1, <2>2
  <1>5. CASE UsedFrom(b) # {}
    <2>1. UsedFrom(b) \in SUBSET Nat
      BY <1>3
    <2>2. \E c \in UsedFrom(b) : \A d \in UsedFrom(b) : c <= d
      BY <1>5, <2>1, LeastExists
    <2>3. PICK c : c = CHOOSE x \in UsedFrom(b) : \A d \in UsedFrom(b) : x <= d
      OBVIOUS
    <2>4. c \in UsedFrom(b) /\ \A d \in UsedFrom(b) : c <= d
      BY <2>2, <2>3
    <2>5. HeadFrom(b) = table[c]
      BY <1>5, <2>3 DEF HeadFrom
    <2>6. c \in Buckets /\ c \in Nat /\ b <= c /\ table[c] # Null
      BY <1>3, <2>4
    <2>7. table[c] \in here /\ c <= Bucket[table[c]] /\ Bucket[table[c]] \in Nat
      BY <1>1, <2>6 DEF Structure, ZMapTypeOK, LinksForward
    <2>8. ASSUME NEW k \in here \ late, b <= Bucket[k]
          PROVE  Bucket[table[c]] < Bucket[k] \/ k \in Leads(next, table[c])
      <3>1. c <= Bucket[k] /\ Bucket[k] \in Nat
        BY <1>1, <1>2, <2>4, <2>8
      <3>2. CASE c = Bucket[k]
        BY <3>2, ChainsLead DEF Structure, PairsHeld
      <3>3. CASE c < Bucket[k]
        BY <2>6, <3>3 DEF Structure, NoneSkipped, Passes
      <3> QED  BY <2>6, <3>1, <3>2, <3>3
    <2> QED  BY <2>5, <2>6, <2>7, <2>8
  <1> QED  BY <1>4, <1>5

\* What a bucket holds is ahead of every pair of an earlier bucket, unless it came late.
LEMMA LaterIsAhead ==
    ASSUME Structure, NEW p \in here, NEW k \in here \ late, Bucket[p] < Bucket[k]
    PROVE  Ahead(k, p)
  <1>1. SUFFICES ASSUME k \notin Chain(p) PROVE Ahead(k, p)
    BY DEF Ahead
  <1>2. p \in Keys /\ k \in Keys /\ next \in Links /\ here \subseteq Keys
    BY DEF Structure, ZMapTypeOK
  <1>3. PICK S : S = {q \in Leads(next, p) : Bucket[q] < Bucket[k]}
    OBVIOUS
  <1>4. S \in SUBSET Keys /\ p \in S
    BY <1>2, <1>3, LeadsToItself
  <1>5. ClosedUnder(next, S)
    <2> SUFFICES ASSUME NEW q \in S, next[q] # Null PROVE next[q] \in S
      BY DEF ClosedUnder
    <2>1. q \in here /\ q \in Keys /\ q \in Leads(next, p) /\ Bucket[q] < Bucket[k]
      BY <1>3, ChainsForward
    <2>2. next[q] \in Leads(next, p) /\ next[q] \in Keys
      BY <1>2, <2>1, LeadsOn, ChainsForward
    <2>3. Bucket[next[q]] < Bucket[k] \/ k \in Leads(next, next[q])
      BY <2>1 DEF Structure, NoneSkipped, Passes
    <2>4. k \in Leads(next, next[q]) => k \in Chain(p)
      BY <1>2, <2>2, LeadsThrough, ChainsLead
    <2> QED  BY <1>1, <1>3, <2>2, <2>3, <2>4
  <1>6. Leads(next, p) \subseteq S
    BY <1>4, <1>5, LeadsNowhereElse
  <1>7. PICK e \in Leads(next, p) : next[e] = Null
    BY ChainsLead DEF Structure, PairsEnd, Stops
  <1> QED  BY <1>3, <1>6, <1>7, ChainsLead DEF Ahead
-----------------------------------------------------------------------------
(* ZMap: an insertion *)

\* The chain of a pair that is not new stays as it is.
LEMMA InsertedChains ==
    ASSUME Structure, NEW k \in Keys \ here, NEW v, Insert(k, v)
    PROVE  /\ next' \in Links /\ next[k] = Null
           /\ \A p \in Keys : next'[p] = IF p = k THEN table[Bucket[k]] ELSE next[p]
           /\ \A p \in here : Leads(next', p) = Leads(next, p)
           /\ Leads(next', k) = {k} \cup IF table[Bucket[k]] = Null THEN {}
                                         ELSE Leads(next, table[Bucket[k]])
  <1>1. /\ next \in Links /\ here \subseteq Keys /\ next[k] = Null
        /\ table[Bucket[k]] \in here \cup {Null}
    BY PairsAreFiled DEF Structure, ZMapTypeOK, LinksForward
  <1>2. PICK o : o = table[Bucket[k]]
    OBVIOUS
  <1>3. Adds(next, k, o, next')
    BY <1>1, <1>2 DEF Insert, Adds
  <1>4. next' \in Links /\ \A p \in Keys : next'[p] = IF p = k THEN o ELSE next[p]
    BY <1>3 DEF Links, Adds
  <1>5. ASSUME NEW p \in here PROVE Leads(next', p) = Leads(next, p)
    <2>1. p \in Keys /\ k \notin Leads(next, p)
      BY <1>1, ChainsForward
    <2> QED  BY <1>3, <2>1, LeadsPast
  <1>6. CASE o = Null
    BY <1>2, <1>4, <1>5, <1>6, <1>1, LeadsByStep
  <1>7. CASE o # Null
    <2>1. Leads(next', k) = {k} \cup Leads(next', o) /\ o \in here
      BY <1>1, <1>2, <1>4, <1>7, LeadsByStep
    <2> QED  BY <1>1, <1>2, <1>4, <1>5, <1>7, <2>1
  <1> QED  BY <1>6, <1>7

LEMMA InsertStructure ==
    ASSUME Structure, NEW k \in Keys, NEW v, Insert(k, v)
    PROVE  Structure'
  <1>1. /\ k \notin here /\ here' = here \cup {k} /\ linked' = linked /\ pos' = pos
        /\ late' = (IF linked \/ pos # Null THEN late \cup {k} ELSE late)
        /\ seen' = (IF pos = Null THEN {} ELSE seen)
        /\ table' = [table EXCEPT ![Bucket[k]] = k]
        /\ tableSize' = tableSize /\ Bucket' = Bucket /\ Buckets' = Buckets
    BY TableStays DEF Insert
  <1>2. /\ table \in [Buckets -> here \cup {Null}] /\ next \in Links /\ here \subseteq Keys
        /\ late \subseteq here /\ pos \in here \cup {Null} /\ seen \subseteq here
        /\ linked \in BOOLEAN /\ tableSize \in Nat \ {0}
        /\ \A p \in Keys : Bucket[p] \in Nat /\ Bucket[p] \in Buckets
    BY PairsAreFiled DEF Structure, ZMapTypeOK
  <1>3. /\ next' \in Links /\ next[k] = Null
        /\ \A p \in Keys : next'[p] = IF p = k THEN table[Bucket[k]] ELSE next[p]
        /\ \A p \in here : Leads(next', p) = Leads(next, p)
        /\ Leads(next', k) = {k} \cup IF table[Bucket[k]] = Null THEN {}
                                      ELSE Leads(next, table[Bucket[k]])
    BY <1>1, InsertedChains
  <1>4. PICK o : o = table[Bucket[k]]
    OBVIOUS
  <1>5. /\ o \in here \cup {Null}
        /\ o # Null => Bucket[k] <= Bucket[o] /\ (~linked => Bucket[k] = Bucket[o])
        /\ o # Null => Passes(here \ late, next, Bucket, Bucket[k], o)
    BY <1>2, <1>4 DEF Structure, LinksForward, NoneSkipped
  <1>6. \A b \in Buckets : table'[b] = IF b = Bucket[k] THEN k ELSE table[b]
    BY <1>1, <1>2
  <1>7. \A p \in here : p # k /\ next'[p] = next[p] /\ p \in Keys
    BY <1>1, <1>2, <1>3
  <1>8. \A p \in here : \A q \in Leads(next, p) : q \in here
    BY ChainsForward
  <1>9. ZMapTypeOK'
    <2>1. table' \in [Buckets -> here' \cup {Null}]
      BY <1>1, <1>2
    <2>2. late' \subseteq here' /\ seen' \subseteq here' /\ pos' \in here' \cup {Null}
      BY <1>1, <1>2
    <2> QED  BY <1>1, <1>2, <1>3, <2>1, <2>2 DEF ZMapTypeOK
  <1>10. LinksForward'
    <2>1. \A b \in Buckets : table'[b] # Null =>
              b <= Bucket[table'[b]] /\ (~linked' => b = Bucket[table'[b]])
      BY <1>1, <1>2, <1>6 DEF Structure, LinksForward
    <2>2. ASSUME NEW p \in Keys, next'[p] # Null
          PROVE  /\ p \in here' /\ next'[p] \in here' /\ Bucket[p] <= Bucket[next'[p]]
                 /\ ~linked' => Bucket[p] = Bucket[next'[p]]
      <3>1. CASE p = k
        BY <2>2, <3>1, <1>1, <1>3, <1>4, <1>5
      <3>2. CASE p # k
        BY <2>2, <3>2, <1>1, <1>3 DEF Structure, LinksForward
      <3> QED  BY <3>1, <3>2
    <2> QED  BY <1>1, <2>1, <2>2 DEF LinksForward
  <1>11. PairsHeld'
    <2> SUFFICES ASSUME NEW l \in here'
                 PROVE  table'[Bucket[l]] # Null /\ l \in Leads(next', table'[Bucket[l]])
      BY <1>1, ChainsLead DEF PairsHeld
    <2>1. l \in Keys /\ Bucket[l] \in Buckets
      BY <1>1, <1>2
    <2>2. CASE l = k
      BY <2>1, <2>2, <1>3, <1>6, NullIsNoKey
    <2>3. CASE l # k
      <3>1. l \in here /\ table[Bucket[l]] # Null /\ l \in Leads(next, table[Bucket[l]])
        BY <2>3, <1>1, ChainsLead DEF Structure, PairsHeld
      <3>2. table[Bucket[l]] \in here
        BY <1>2, <2>1, <3>1
      <3> QED  BY <1>3, <1>6, <2>1, <3>1, <3>2, NullIsNoKey
    <2> QED  BY <2>2, <2>3
  <1>12. PairsEnd'
    <2> SUFFICES ASSUME NEW p \in here' PROVE Stops(next', p)
      BY ChainsLead DEF PairsEnd
    <2>1. ASSUME NEW q \in here PROVE \E e \in Leads(next, q) : next'[e] = Null
      <3>1. PICK e \in Leads(next, q) : next[e] = Null
        BY ChainsLead DEF Structure, PairsEnd, Stops
      <3> QED  BY <1>7, <1>8, <3>1
    <2>2. CASE p \in here
      BY <2>1, <2>2, <1>3 DEF Stops
    <2>3. CASE p = k /\ o = Null
      BY <2>3, <1>3, <1>4 DEF Stops
    <2>4. CASE p = k /\ o # Null
      BY <2>1, <2>4, <1>3, <1>4, <1>5 DEF Stops
    <2> QED  BY <2>2, <2>3, <2>4, <1>1
  <1>13. NeverBack'
    <2> SUFFICES ASSUME NEW p \in here', next'[p] # Null PROVE p \notin Leads(next', next'[p])
      BY ChainsLead DEF NeverBack
    <2>1. CASE p = k
      BY <2>1, <1>1, <1>3, <1>4, <1>5, <1>8
    <2>2. CASE p # k
      <3>1. p \in here /\ next'[p] = next[p] /\ next[p] \in here
        BY <2>2, <1>1, <1>7 DEF Structure, LinksForward
      <3> QED  BY <3>1, <1>3, ChainsLead DEF Structure, NeverBack
    <2> QED  BY <2>1, <2>2
  <1>14. ASSUME NEW p \in here, NEW b \in Nat, linked \/ Bucket[p] = b,
                Passes(here \ late, next, Bucket, b, p)
         PROVE  Passes(here' \ late', next', Bucket, b, p)
    <2> SUFFICES ASSUME NEW l \in here' \ late', b < Bucket[l]
                 PROVE  Bucket[p] < Bucket[l] \/ l \in Leads(next', p)
      BY DEF Passes
    <2>1. CASE Bucket[p] = b
      BY <2>1
    <2>2. CASE linked
      <3>1. l \in here \ late
        BY <1>1, <2>2
      <3> QED  BY <3>1, <1>3, <1>14 DEF Passes
    <2> QED  BY <2>1, <2>2, <1>14
  <1>15. NoneSkipped'
    <2>1. ASSUME NEW p \in here', next'[p] # Null
          PROVE  Passes(here' \ late', next', Bucket, Bucket[p], next'[p])
      <3>1. CASE p = k
        <4>1. next'[p] = o /\ o \in here
          BY <2>1, <3>1, <1>3, <1>4, <1>5
        <4>2. Passes(here \ late, next, Bucket, Bucket[k], o) /\ (linked \/ Bucket[o] = Bucket[k])
          BY <4>1, <1>5, NullIsNoKey, <1>2
        <4>3. Passes(here' \ late', next', Bucket, Bucket[k], o)
          BY <4>1, <4>2, <1>2, <1>14
        <4> QED  BY <3>1, <4>1, <4>3
      <3>2. CASE p # k
        <4>1. p \in here /\ p \in Keys /\ next'[p] = next[p] /\ next[p] \in here
          BY <2>1, <3>2, <1>1, <1>7 DEF Structure, LinksForward
        <4>2. /\ Passes(here \ late, next, Bucket, Bucket[p], next[p])
              /\ linked \/ Bucket[next[p]] = Bucket[p]
              /\ Bucket[p] \in Nat
          BY <2>1, <4>1, <1>2 DEF Structure, LinksForward, NoneSkipped
        <4> QED  BY <4>1, <4>2, <1>14
      <3> QED  BY <3>1, <3>2
    <2>2. ASSUME NEW b \in Buckets, table'[b] # Null
          PROVE  Passes(here' \ late', next', Bucket, b, table'[b])
      <3>1. CASE b = Bucket[k]
        BY <3>1, <1>6 DEF Passes
      <3>2. CASE b # Bucket[k]
        <4>1. table'[b] = table[b] /\ table[b] \in here /\ b \in Nat
          BY <2>2, <3>2, <1>2, <1>6, PairsAreFiled DEF Structure
        <4>2. /\ Passes(here \ late, next, Bucket, b, table[b])
              /\ linked \/ Bucket[table[b]] = b
          BY <2>2, <4>1, <1>2 DEF Structure, LinksForward, NoneSkipped
        <4> QED  BY <4>1, <4>2, <1>14
      <3> QED  BY <3>1, <3>2
    <2> QED  BY <1>1, <2>1, <2>2 DEF NoneSkipped
  <1> QED  BY <1>9, <1>10, <1>11, <1>12, <1>13, <1>15 DEF Structure

-----------------------------------------------------------------------------
(* ZMap: a link of get_next *)

\* What a round of get_next does to the links: pos leads to a later bucket.
Link(f) ==
    /\ pos # Null /\ next[pos] = Null
    /\ f \in here /\ Bucket[pos] < Bucket[f]
    /\ Passes(here \ late, next, Bucket, Bucket[pos], f)
    /\ next' = [next EXCEPT ![pos] = f]

LEMMA LinkedChains ==
    ASSUME Structure, NEW f, Link(f)
    PROVE  /\ next' \in Links /\ pos \in here
           /\ \A p \in Keys : next'[p] = IF p = pos THEN f ELSE next[p]
           /\ Leads(next', f) = Leads(next, f) /\ pos \notin Leads(next, f)
           /\ \A p : Leads(next, p) \subseteq Leads(next', p)
           /\ \A p \in Keys : IF pos \in Leads(next, p)
                             THEN Leads(next', p) = Leads(next, p) \cup Leads(next, f)
                             ELSE Leads(next', p) = Leads(next, p)
  <1>1. /\ next \in Links /\ here \subseteq Keys /\ pos \in here /\ next[pos] = Null /\ f \in Keys
    BY DEF Structure, ZMapTypeOK, Link
  <1>2. Adds(next, pos, f, next')
    BY <1>1 DEF Link, Adds
  <1>3. next' \in Links /\ \A p \in Keys : next'[p] = IF p = pos THEN f ELSE next[p]
    BY <1>2 DEF Links, Adds
  <1>4. pos \notin Leads(next, f)
    <2>1. f \in here /\ Bucket[pos] < Bucket[f]
      BY DEF Link
    <2>2. Bucket[pos] \in Nat /\ Bucket[f] \in Nat
      BY <1>1, PairsAreFiled DEF Structure
    <2> QED  BY <1>1, <2>1, <2>2, ChainsForward
  <1>5. \A p : Leads(next, p) \subseteq Leads(next', p)
    BY <1>1, <1>2, LeadsFurther
  <1>6. Leads(next', f) = Leads(next, f)
    BY <1>1, <1>2, <1>4, LeadsPast
  <1>7. ASSUME NEW p \in Keys
        PROVE  IF pos \in Leads(next, p) THEN Leads(next', p) = Leads(next, p) \cup Leads(next, f)
                                         ELSE Leads(next', p) = Leads(next, p)
    <2>1. CASE pos \in Leads(next, p)
      BY <1>1, <1>2, <1>4, <2>1, LeadsAcross
    <2>2. CASE pos \notin Leads(next, p)
      BY <1>1, <1>2, <2>2, LeadsPast
    <2> QED  BY <2>1, <2>2
  <1> QED  BY <1>1, <1>3, <1>4, <1>5, <1>6, <1>7

LEMMA LinkStructure ==
    ASSUME Structure, NEW f, Link(f), ZMapTypeOK', linked',
           UNCHANGED <<tableSize, table, here, late>>
    PROVE  Structure'
  <1>1. /\ next' \in Links /\ pos \in here
        /\ \A p \in Keys : next'[p] = IF p = pos THEN f ELSE next[p]
        /\ Leads(next', f) = Leads(next, f) /\ pos \notin Leads(next, f)
        /\ \A p : Leads(next, p) \subseteq Leads(next', p)
    BY LinkedChains
  <1>2. \A p \in Keys : IF pos \in Leads(next, p)
                       THEN Leads(next', p) = Leads(next, p) \cup Leads(next, f)
                       ELSE Leads(next', p) = Leads(next, p)
    BY LinkedChains
  <1>3. /\ here \subseteq Keys /\ here' = here /\ late' = late /\ table' = table
        /\ pos # Null /\ next[pos] = Null /\ f \in here /\ f \in Keys
        /\ Bucket[pos] < Bucket[f] /\ Passes(here \ late, next, Bucket, Bucket[pos], f)
        /\ Bucket' = Bucket /\ Buckets' = Buckets
    BY TableStays DEF Structure, ZMapTypeOK, Link
  <1>4. \A p \in here : p \in Keys /\ Bucket[p] \in Nat
    BY <1>3, PairsAreFiled DEF Structure
  <1>5. LinksForward'
    <2>1. \A b \in Buckets : table'[b] # Null => b <= Bucket[table'[b]]
      BY <1>3 DEF Structure, LinksForward
    <2>2. ASSUME NEW p \in Keys, next'[p] # Null
          PROVE  p \in here' /\ next'[p] \in here' /\ Bucket[p] <= Bucket[next'[p]]
      <3>1. CASE p = pos
        BY <3>1, <1>1, <1>3, <1>4
      <3>2. CASE p # pos
        BY <2>2, <3>2, <1>1, <1>3 DEF Structure, LinksForward
      <3> QED  BY <3>1, <3>2
    <2> QED  BY <1>3, <2>1, <2>2 DEF LinksForward
  <1>6. PairsHeld'
    BY <1>1, <1>3, ChainsLead DEF Structure, PairsHeld
  <1>7. PairsEnd'
    <2> SUFFICES ASSUME NEW p \in here PROVE Stops(next', p)
      BY <1>3, ChainsLead DEF PairsEnd
    <2>1. ASSUME NEW q \in here, pos \notin Leads(next, q)
          PROVE  \E e \in Leads(next, q) : next'[e] = Null
      <3>1. PICK e \in Leads(next, q) : next[e] = Null
        BY ChainsLead DEF Structure, PairsEnd, Stops
      <3>2. e \in Keys /\ e # pos
        BY <2>1, <3>1 DEF Leads
      <3> QED  BY <1>1, <3>1, <3>2
    <2>2. CASE pos \in Leads(next, p)
      BY <2>1, <2>2, <1>1, <1>2, <1>3, <1>4 DEF Stops
    <2>3. CASE pos \notin Leads(next, p)
      BY <2>1, <2>3, <1>2, <1>4 DEF Stops
    <2> QED  BY <2>2, <2>3
  <1>8. NeverBack'
    <2> SUFFICES ASSUME NEW p \in here, next'[p] # Null PROVE p \notin Leads(next', next'[p])
      BY <1>3, ChainsLead DEF NeverBack
    <2>1. CASE p = pos
      BY <2>1, <1>1, <1>4
    <2>2. CASE p # pos
      <3>1. next'[p] = next[p] /\ next[p] # Null /\ next[p] \in here
            /\ p \notin Leads(next, next[p])
            /\ Bucket[p] <= Bucket[next[p]]
        BY <2>2, <1>1, <1>4, ChainsLead DEF Structure, NeverBack, LinksForward
      <3>2. CASE pos \in Leads(next, next[p])
        <4>1. Bucket[next[p]] <= Bucket[pos]
          BY <3>1, <3>2, ChainsForward
        <4>2. p \notin Leads(next, f)
          BY <1>1, <1>3, <1>4, <3>1, <4>1, ChainsForward
        <4> QED  BY <1>2, <1>4, <3>1, <3>2, <4>2
      <3>3. CASE pos \notin Leads(next, next[p])
        BY <1>2, <1>4, <3>1, <3>3
      <3> QED  BY <3>2, <3>3
    <2> QED  BY <2>1, <2>2
  <1>9. NoneSkipped'
    <2>1. ASSUME NEW b, NEW p, Passes(here \ late, next, Bucket, b, p)
          PROVE  Passes(here \ late, next', Bucket, b, p)
      BY <1>1, <2>1 DEF Passes
    <2>2. ASSUME NEW p \in here, next'[p] # Null
          PROVE  Passes(here \ late, next', Bucket, Bucket[p], next'[p])
      <3>1. Passes(here \ late, next, Bucket, Bucket[p], next'[p])
        BY <2>2, <1>1, <1>3, <1>4 DEF Structure, NoneSkipped
      <3> QED  BY <2>1, <3>1
    <2>3. ASSUME NEW b \in Buckets, table[b] # Null
          PROVE  Passes(here \ late, next', Bucket, b, table[b])
      BY <2>1, <2>3 DEF Structure, NoneSkipped
    <2> QED  BY <1>3, <2>2, <2>3 DEF NoneSkipped
  <1> QED  BY <1>5, <1>6, <1>7, <1>8, <1>9 DEF Structure

-----------------------------------------------------------------------------
(* ZMap: a removal *)

\* Unless the map breaks, nothing is left that leads to the pair that was removed.
LEMMA RemovedChains ==
    ASSUME Structure, NEW k \in here, RemoveKey(k), ~broken'
    PROVE  /\ Drops(next, k, next') /\ next' \in Links /\ pos # k
           /\ \A p \in Keys : next'[p] = IF p = k THEN Null
                                       ELSE IF next[p] = k THEN next[k] ELSE next[p]
           /\ \A b \in Buckets : table'[b] = IF table[b] = k THEN next[k] ELSE table[b]
           /\ table' \in [Buckets -> here \cup {Null}]
           /\ \A p \in here \ {k} :
                  /\ Leads(next', p) = Leads(next, p) \ {k}
                  /\ k \in Leads(next, p) => \E q \in Leads(next', p) : next[q] = k
  <1>1. /\ next \in Links /\ here \subseteq Keys /\ Bucket[k] \in Buckets /\ k \in Keys
        /\ table \in [Buckets -> here \cup {Null}]
    BY PairsAreFiled DEF Structure, ZMapTypeOK
  <1>2. /\ table' = [table EXCEPT ![Bucket[k]] = IF @ = k THEN next[k] ELSE @]
        /\ next' = [p \in Keys |-> IF p = k THEN Null
                                   ELSE IF p \in Before(k) THEN next[k] ELSE next[p]]
    BY DEF RemoveKey
  <1>3. /\ pos # k
        /\ \A p \in Keys \ {k} : next[p] = k => p \in Before(k)
        /\ \A b \in Buckets \ {Bucket[k]} : table[b] # k
    BY DEF RemoveKey
  <1>4. next[k] # Null => k \notin Leads(next, next[k])
    BY ChainsLead DEF Structure, NeverBack
  <1>5. \A p \in Keys : p \in Before(k) => next[p] = k
    BY DEF Before
  <1>6. next' = [p \in Keys |-> IF p = k THEN Null ELSE IF next[p] = k THEN next[k] ELSE next[p]]
    BY <1>2, <1>3, <1>5
  <1>7. Drops(next, k, next') /\ next' \in Links
    BY <1>1, <1>4, <1>6 DEF Drops, Links
  <1>8. \A b \in Buckets : table'[b] = IF table[b] = k THEN next[k] ELSE table[b]
    BY <1>1, <1>2, <1>3
  <1>9. next[k] \in here \cup {Null}
    BY <1>1 DEF Structure, LinksForward
  <1>10. table' \in [Buckets -> here \cup {Null}]
    BY <1>1, <1>2, <1>9
  <1>11. ASSUME NEW p \in here \ {k}
         PROVE  /\ Leads(next', p) = Leads(next, p) \ {k}
                /\ k \in Leads(next, p) => \E q \in Leads(next', p) : next[q] = k
    BY <1>1, <1>7, LeadsWithout
  <1> QED  BY <1>3, <1>6, <1>7, <1>8, <1>10, <1>11

LEMMA RemoveStructure ==
    ASSUME Structure, NEW k \in here, RemoveKey(k), ~broken'
    PROVE  Structure'
  <1>1. /\ here' = here \ {k} /\ late' = late \ {k} /\ seen' = seen \ {k} /\ tableSize' = tableSize
        /\ pos' = pos /\ linked' = linked /\ Bucket' = Bucket /\ Buckets' = Buckets
    BY TableStays DEF RemoveKey
  <1>2. /\ next' \in Links /\ pos # k
        /\ \A p \in Keys : next'[p] = IF p = k THEN Null
                                       ELSE IF next[p] = k THEN next[k] ELSE next[p]
        /\ \A b \in Buckets : table'[b] = IF table[b] = k THEN next[k] ELSE table[b]
        /\ table' \in [Buckets -> here \cup {Null}]
    BY RemovedChains
  <1>3. \A p \in here \ {k} : Leads(next', p) = Leads(next, p) \ {k}
    BY RemovedChains
  <1>3a. \A p \in here \ {k} : k \in Leads(next, p) => \E q \in Leads(next', p) : next[q] = k
    BY RemovedChains
  <1>4. /\ table \in [Buckets -> here \cup {Null}] /\ next \in Links /\ here \subseteq Keys
        /\ late \subseteq here /\ pos \in here \cup {Null} /\ seen \subseteq here /\ k \in Keys
        /\ linked \in BOOLEAN /\ tableSize \in Nat \ {0} /\ \A b \in Buckets : b \in Nat
        /\ \A p \in Keys : Bucket[p] \in Nat /\ Bucket[p] \in Buckets
    BY PairsAreFiled DEF Structure, ZMapTypeOK
  <1>5. next[k] # Null => /\ next[k] \in here \ {k} /\ k \notin Leads(next, next[k])
                          /\ Leads(next, k) = {k} \cup Leads(next, next[k])
    <2> SUFFICES ASSUME next[k] # Null
                 PROVE  /\ next[k] \in here \ {k} /\ k \notin Leads(next, next[k])
                        /\ Leads(next, k) = {k} \cup Leads(next, next[k])
      OBVIOUS
    <2>1. next[k] \in here /\ next[k] \in Keys /\ k \notin Leads(next, next[k])
      BY <1>4, ChainsLead DEF Structure, LinksForward, NeverBack
    <2> QED  BY <1>4, <2>1, LeadsToItself, LeadsByStep
  <1>6. next[k] = Null => Leads(next, k) = {k}
    BY <1>4, LeadsByStep
  <1>7. ZMapTypeOK'
    <2>1. table' \in [Buckets -> here' \cup {Null}]
      <3>1. \A b \in Buckets : table'[b] # k
        BY <1>2, <1>4, <1>5, NullIsNoKey
      <3> QED  BY <1>1, <1>2, <3>1
    <2> QED  BY <1>1, <1>2, <1>4, <2>1 DEF ZMapTypeOK
  <1>8. LinksForward'
    <2>1. ASSUME NEW b \in Buckets, table'[b] # Null
          PROVE  b <= Bucket[table'[b]] /\ (~linked => b = Bucket[table'[b]])
      <3>1. CASE table[b] = k
        <4>1. table'[b] = next[k] /\ next[k] # Null /\ next[k] \in here /\ b \in Nat
          BY <2>1, <3>1, <1>2, <1>4, <1>5
        <4>2. b <= Bucket[k] /\ (~linked => b = Bucket[k])
          BY <3>1, <1>4, NullIsNoKey DEF Structure, LinksForward
        <4>3. Bucket[k] <= Bucket[next[k]] /\ (~linked => Bucket[k] = Bucket[next[k]])
          BY <4>1, <1>4 DEF Structure, LinksForward
        <4> QED  BY <4>1, <4>2, <4>3, <1>4
      <3>2. CASE table[b] # k
        BY <2>1, <3>2, <1>2 DEF Structure, LinksForward
      <3> QED  BY <3>1, <3>2
    <2>2. ASSUME NEW p \in Keys, next'[p] # Null
          PROVE  /\ p \in here' /\ next'[p] \in here' /\ Bucket[p] <= Bucket[next'[p]]
                 /\ ~linked => Bucket[p] = Bucket[next'[p]]
      <3>1. p # k
        BY <2>2, <1>2
      <3>2. CASE next[p] = k
        <4>1. next'[p] = next[k] /\ next[k] # Null /\ next[k] \in here'
          BY <2>2, <3>1, <3>2, <1>1, <1>2, <1>5
        <4>2. p \in here' /\ Bucket[p] <= Bucket[k] /\ (~linked => Bucket[p] = Bucket[k])
          BY <3>1, <3>2, <1>1, <1>4, NullIsNoKey DEF Structure, LinksForward
        <4>3. Bucket[k] <= Bucket[next[k]] /\ (~linked => Bucket[k] = Bucket[next[k]])
          BY <4>1, <1>4 DEF Structure, LinksForward
        <4>4. next[k] \in Keys
          BY <4>1, <1>1, <1>4
        <4> QED  BY <4>1, <4>2, <4>3, <4>4, <1>4
      <3>3. CASE next[p] # k
        BY <2>2, <3>1, <3>3, <1>1, <1>2 DEF Structure, LinksForward
      <3> QED  BY <3>2, <3>3
    <2> QED  BY <1>1, <2>1, <2>2 DEF LinksForward
  <1>9. PairsHeld'
    <2> SUFFICES ASSUME NEW l \in here \ {k}
                 PROVE  table'[Bucket[l]] # Null /\ l \in Leads(next', table'[Bucket[l]])
      BY <1>1, ChainsLead DEF PairsHeld
    <2>1. /\ Bucket[l] \in Buckets /\ table[Bucket[l]] # Null
          /\ l \in Leads(next, table[Bucket[l]]) /\ table[Bucket[l]] \in here
      BY <1>4, ChainsLead DEF Structure, PairsHeld
    <2>2. CASE table[Bucket[l]] = k
      <3>1. next[k] # Null
        BY <2>1, <2>2, <1>6
      <3>2. l \in Leads(next', next[k])
        BY <2>1, <2>2, <3>1, <1>3, <1>5
      <3> QED  BY <2>1, <2>2, <3>1, <3>2, <1>2
    <2>3. CASE table[Bucket[l]] # k
      BY <2>1, <2>3, <1>2, <1>3
    <2> QED  BY <2>2, <2>3
  <1>10. PairsEnd'
    <2> SUFFICES ASSUME NEW p \in here \ {k} PROVE Stops(next', p)
      BY <1>1, ChainsLead DEF PairsEnd
    <2>1. PICK e \in Leads(next, p) : next[e] = Null
      BY ChainsLead DEF Structure, PairsEnd, Stops
    <2>2. CASE e = k
      <3>1. PICK q \in Leads(next', p) : next[q] = k
        BY <2>1, <2>2, <1>3a
      <3>2. q \in Keys
        BY DEF Leads
      <3> QED  BY <2>1, <2>2, <3>1, <3>2, <1>2 DEF Stops
    <2>3. CASE e # k
      <3>1. e \in Leads(next', p) /\ e \in Keys
        BY <2>1, <2>3, <1>3 DEF Leads
      <3>2. next'[e] = Null
        BY <2>1, <2>3, <3>1, <1>2, <1>4, NullIsNoKey
      <3> QED  BY <3>1, <3>2 DEF Stops
    <2> QED  BY <2>2, <2>3
  <1>11. NeverBack'
    <2> SUFFICES ASSUME NEW p \in here \ {k}, next'[p] # Null PROVE p \notin Leads(next', next'[p])
      BY <1>1, ChainsLead DEF NeverBack
    <2>1. CASE next[p] = k
      <3>1. next'[p] = next[k] /\ next[k] # Null
        BY <2>1, <1>2, <1>4
      <3>2. p \notin Leads(next, k)
        BY <2>1, <1>4, NullIsNoKey, ChainsLead DEF Structure, NeverBack
      <3> QED  BY <3>1, <3>2, <1>3, <1>5
    <2>2. CASE next[p] # k
      <3>1. next'[p] = next[p] /\ next[p] # Null /\ next[p] \in here \ {k}
        BY <2>2, <1>2, <1>4 DEF Structure, LinksForward
      <3>2. p \notin Leads(next, next[p])
        BY <3>1, ChainsLead DEF Structure, NeverBack
      <3> QED  BY <3>1, <3>2, <1>3
    <2> QED  BY <2>1, <2>2
  <1>12. ASSUME NEW b \in Nat, NEW p \in here, Passes(here \ late, next, Bucket, b, p),
                NEW q, q # Null, q = IF p = k THEN next[k] ELSE p
         PROVE  Passes(here' \ late', next', Bucket, b, q)
    <2> SUFFICES ASSUME NEW l \in here \ late, l # k, b < Bucket[l]
                 PROVE  Bucket[q] < Bucket[l] \/ l \in Leads(next', q)
      BY <1>1, <1>4 DEF Passes
    <2>1. Bucket[p] < Bucket[l] \/ l \in Leads(next, p)
      BY <1>12 DEF Passes
    <2>2. CASE p = k
      <3>1. q = next[k] /\ next[k] # Null
        BY <2>2, <1>12
      <3>2. Bucket[next[k]] < Bucket[l] \/ l \in Leads(next, next[k])
        <4>1. CASE Bucket[k] < Bucket[l]
          BY <3>1, <4>1 DEF Structure, NoneSkipped, Passes
        <4>2. CASE l \in Leads(next, k)
          BY <3>1, <4>2, <1>5
        <4> QED  BY <2>1, <2>2, <4>1, <4>2
      <3> QED  BY <3>1, <3>2, <1>3, <1>5
    <2>3. CASE p # k
      BY <2>1, <2>3, <1>3, <1>12
    <2> QED  BY <2>2, <2>3
  <1>13. NoneSkipped'
    <2>1. ASSUME NEW p \in here \ {k}, next'[p] # Null
          PROVE  Passes(here' \ late', next', Bucket, Bucket[p], next'[p])
      <3>1. /\ next'[p] = IF next[p] = k THEN next[k] ELSE next[p]
            /\ Bucket[p] \in Nat /\ next[p] # Null /\ next[p] \in here
        BY <2>1, <1>2, <1>4, NullIsNoKey DEF Structure, LinksForward
      <3>2. Passes(here \ late, next, Bucket, Bucket[p], next[p])
        BY <3>1 DEF Structure, NoneSkipped
      <3> QED  BY <2>1, <3>1, <3>2, <1>12
    <2>2. ASSUME NEW b \in Buckets, table'[b] # Null
          PROVE  Passes(here' \ late', next', Bucket, b, table'[b])
      <3>1. /\ table'[b] = IF table[b] = k THEN next[k] ELSE table[b]
            /\ b \in Nat /\ table[b] # Null /\ table[b] \in here
        BY <2>2, <1>2, <1>4, NullIsNoKey
      <3>2. Passes(here \ late, next, Bucket, b, table[b])
        BY <3>1 DEF Structure, NoneSkipped
      <3> QED  BY <2>2, <3>1, <3>2, <1>12
    <2> QED  BY <1>1, <2>1, <2>2 DEF NoneSkipped
  <1> QED  BY <1>7, <1>8, <1>9, <1>10, <1>11, <1>13 DEF Structure

-----------------------------------------------------------------------------
(* ZMap: a table that grows *)

\* Ranks are bounded, so some pairs are first and last.
LEMMA LowestIsFirst ==
    ASSUME NEW order \in Ranks, NEW S \in SUBSET Keys, S # {}
    PROVE  Lowest(order, S) \in S /\ \A q \in S : order[Lowest(order, S)] <= order[q]
  <1>1. PICK T : T = {order[q] : q \in S}
    OBVIOUS
  <1>2. T \in SUBSET Nat /\ T # {}
    BY <1>1 DEF Ranks
  <1>3. PICK m \in T : \A l \in T : m <= l
    BY <1>2, LeastExists
  <1>4. \E p \in S : \A q \in S : order[p] <= order[q]
    BY <1>1, <1>3
  <1> QED  BY <1>4 DEF Lowest

LEMMA HighestExists ==
    ASSUME NEW order \in Ranks, NEW S \in SUBSET Keys, S # {}
    PROVE  \E p \in S : \A q \in S : order[q] <= order[p]
  <1>1. PICK T : T = {LastRank - order[q] : q \in S}
    OBVIOUS
  <1>2. LastRank \in Nat /\ \A q \in S : order[q] \in 0 .. LastRank
    BY TableAssumption DEF Ranks
  <1>3. T \in SUBSET Nat /\ T # {}
    BY <1>1, <1>2
  <1>4. PICK m \in T : \A l \in T : m <= l
    BY <1>3, LeastExists
  <1>5. PICK p \in S : m = LastRank - order[p]
    BY <1>1, <1>4
  <1>6. ASSUME NEW q \in S PROVE order[q] <= order[p]
    <2>1. LastRank - order[p] <= LastRank - order[q]
      BY <1>1, <1>4, <1>5
    <2> QED  BY <2>1, <1>2
  <1> QED  BY <1>6

\* Every bucket lists its pairs by their rank.
Sorted(order, u, f, t) ==
    /\ f \in Links
    /\ \A p \in Keys : f[p] # Null => /\ p \in here /\ f[p] \in here
                                      /\ u[f[p]] = u[p] /\ order[p] < order[f[p]]
    /\ \A p, q \in here : u[q] = u[p] /\ order[p] < order[q] =>
           f[p] # Null /\ order[f[p]] <= order[q]
    /\ \A q \in here : t[u[q]] # Null /\ t[u[q]] \in here /\ u[t[u[q]]] = u[q]
                       /\ order[t[u[q]]] <= order[q]

LEMMA GrownLists ==
    ASSUME ZMapTypeOK, NEW n \in Sizes, NEW order \in Orders, Grow(n, order)
    PROVE  /\ Sorted(order, Bucket', next', table')
           /\ table' \in [Buckets' -> here \cup {Null}]
           /\ \A b \in Buckets' : table'[b] # Null => Bucket'[table'[b]] = b
           /\ n \in Nat \ {0} /\ order \in Ranks
           /\ \A p \in Keys : Bucket'[p] \in Buckets' /\ Bucket'[p] \in Nat
  <1>1. n \in Nat \ {0} /\ order \in Ranks /\ here \subseteq Keys
    BY TableAssumption DEF ZMapTypeOK
  <1>2. /\ table' = [b \in 0 .. n - 1 |-> Lowest(order, {p \in here : Hash[p] % n = b})]
        /\ next' = [p \in Keys |-> IF p \in here THEN Lowest(order, FiledAfter(order, p, n))
                                                  ELSE Null]
        /\ tableSize' = n
    BY DEF Grow
  <1>3. Buckets' = 0 .. n - 1 /\ \A p \in Keys : Bucket'[p] = Hash[p] % n
    BY <1>2 DEF Buckets, Bucket
  <1>4. \A p \in Keys : Bucket'[p] \in Buckets' /\ Bucket'[p] \in Nat
    BY <1>1, <1>3, BucketsAreNumbers
  <1>5. ASSUME NEW S \in SUBSET here
        PROVE  /\ S = {} => Lowest(order, S) = Null
               /\ S # {} => Lowest(order, S) \in S /\ Lowest(order, S) # Null
                            /\ \A q \in S : order[Lowest(order, S)] <= order[q]
    <2>1. S \in SUBSET Keys
      BY <1>1
    <2>2. S # {} => Lowest(order, S) \in S /\ \A q \in S : order[Lowest(order, S)] <= order[q]
      BY <2>1, <1>1, LowestIsFirst
    <2>3. S = {} => Lowest(order, S) = Null
      BY DEF Lowest
    <2> QED  BY <2>1, <2>2, <2>3, NullIsNoKey
  <1>6. ASSUME NEW p \in here
        PROVE  /\ next'[p] # Null => /\ next'[p] \in here /\ Bucket'[next'[p]] = Bucket'[p]
                                     /\ order[p] < order[next'[p]]
               /\ \A q \in here : Bucket'[q] = Bucket'[p] /\ order[p] < order[q] =>
                      next'[p] # Null /\ order[next'[p]] <= order[q]
    <2>1. PICK S : S = FiledAfter(order, p, n)
      OBVIOUS
    <2>2. /\ p \in Keys /\ next'[p] = Lowest(order, S) /\ S \in SUBSET here
          /\ \A q \in here : q \in S <=> Bucket'[q] = Bucket'[p] /\ order[p] < order[q]
      BY <2>1, <1>1, <1>2, <1>3 DEF FiledAfter
    <2> QED  BY <2>2, <1>5
  <1>7. ASSUME NEW b \in Buckets'
        PROVE  /\ table'[b] # Null => table'[b] \in here /\ Bucket'[table'[b]] = b
               /\ \A q \in here : Bucket'[q] = b =>
                      table'[b] # Null /\ order[table'[b]] <= order[q]
    <2>1. PICK S : S = {p \in here : Hash[p] % n = b}
      OBVIOUS
    <2>2. /\ table'[b] = Lowest(order, S) /\ S \in SUBSET here
          /\ \A q \in here : q \in S <=> Bucket'[q] = b
      BY <2>1, <1>1, <1>2, <1>3
    <2> QED  BY <2>2, <1>5
  <1>8. \A p \in Keys \ here : next'[p] = Null
    BY <1>2
  <1>9. next' \in Links
    <2>1. \A p \in Keys : next'[p] \in Keys \cup {Null}
      BY <1>1, <1>6, <1>8
    <2> QED  BY <2>1, <1>2 DEF Links
  <1>10. table' \in [Buckets' -> here \cup {Null}]
    BY <1>2, <1>3, <1>7
  <1>11. Sorted(order, Bucket', next', table')
    <2>1. ASSUME NEW p \in Keys, next'[p] # Null
          PROVE  /\ p \in here /\ next'[p] \in here
                 /\ Bucket'[next'[p]] = Bucket'[p] /\ order[p] < order[next'[p]]
      BY <2>1, <1>6, <1>8
    <2>2. ASSUME NEW q \in here
          PROVE  /\ table'[Bucket'[q]] # Null /\ table'[Bucket'[q]] \in here
                 /\ Bucket'[table'[Bucket'[q]]] = Bucket'[q]
                 /\ order[table'[Bucket'[q]]] <= order[q]
      BY <1>1, <1>4, <1>7
    <2> QED  BY <1>6, <1>9, <2>1, <2>2 DEF Sorted
  <1> QED  BY <1>1, <1>4, <1>7, <1>10, <1>11

\* A list runs through its bucket by rank, has all of the bucket's pairs, and ends.
LEMMA ListsLead ==
    ASSUME NEW order \in Ranks, NEW u, NEW f, NEW t, Sorted(order, u, f, t), here \subseteq Keys,
           NEW p \in here
    PROVE  /\ Leads(f, p) \subseteq {q \in here : u[q] = u[p] /\ order[p] <= order[q]}
           /\ f[p] # Null => p \notin Leads(f, f[p])
           /\ Stops(f, p)
           /\ p \in Leads(f, t[u[p]])
  <1>1. /\ f \in Links /\ p \in Keys /\ \A q \in here : q \in Keys /\ order[q] \in Nat
        /\ \A q, r \in here : order[q] = order[r] => q = r
    BY DEF Sorted, Ranks
  <1>2. \A q \in Keys : f[q] # Null => /\ q \in here /\ f[q] \in here
                                      /\ u[f[q]] = u[q] /\ order[q] < order[f[q]]
    BY DEF Sorted
  <1>3. ASSUME NEW q \in here
        PROVE  Leads(f, q) \subseteq {r \in here : u[r] = u[q] /\ order[q] <= order[r]}
    <2>1. PICK S : S = {r \in here : u[r] = u[q] /\ order[q] <= order[r]}
      OBVIOUS
    <2>2. S \in SUBSET Keys /\ q \in S
      BY <1>1, <2>1
    <2>3. ClosedUnder(f, S)
      BY <1>1, <1>2, <2>1 DEF ClosedUnder
    <2> QED  BY <2>1, <2>2, <2>3, LeadsNowhereElse
  <1>4. f[p] # Null => p \notin Leads(f, f[p])
    <2> SUFFICES ASSUME f[p] # Null, p \in Leads(f, f[p]) PROVE FALSE
      OBVIOUS
    <2>1. f[p] \in here /\ order[p] < order[f[p]]
      BY <1>1, <1>2
    <2>2. order[f[p]] <= order[p]
      BY <1>3, <2>1
    <2> QED  BY <1>1, <2>1, <2>2
  <1>5. Stops(f, p)
    <2>1. Leads(f, p) \in SUBSET Keys /\ Leads(f, p) # {}
      BY <1>1, LeadsToItself
    <2>2. PICK e \in Leads(f, p) : \A q \in Leads(f, p) : order[q] <= order[e]
      BY <2>1, HighestExists
    <2>3. e \in here
      BY <1>3
    <2>4. ASSUME f[e] # Null PROVE FALSE
      <3>1. f[e] \in Leads(f, p) /\ order[e] < order[f[e]] /\ f[e] \in here
        BY <1>1, <1>2, <2>3, <2>4, LeadsOn
      <3> QED  BY <1>1, <2>2, <2>3, <3>1
    <2> QED  BY <2>4 DEF Stops
  <1>6. p \in Leads(f, t[u[p]])
    <2>1. PICK g : g = t[u[p]]
      OBVIOUS
    <2>2. g \in here /\ u[g] = u[p] /\ order[g] <= order[p]
      BY <2>1 DEF Sorted
    <2>3. PICK S : S = {q \in Leads(f, g) : order[q] <= order[p]}
      OBVIOUS
    <2>4. S \in SUBSET Keys /\ g \in S
      BY <1>1, <2>2, <2>3, LeadsToItself
    <2>5. PICK e \in S : \A q \in S : order[q] <= order[e]
      BY <2>4, HighestExists
    <2>6. e \in Leads(f, g) /\ e \in here /\ u[e] = u[p] /\ order[e] <= order[p]
      BY <1>3, <2>2, <2>3, <2>5
    <2>7. CASE order[e] = order[p]
      BY <1>1, <2>1, <2>6, <2>7
    <2>8. CASE order[e] < order[p]
      <3>1. f[e] # Null /\ order[f[e]] <= order[p]
        BY <2>6, <2>8 DEF Sorted
      <3>2. f[e] \in Leads(f, g) /\ order[e] < order[f[e]] /\ f[e] \in here
        BY <1>1, <1>2, <2>6, <3>1, LeadsOn
      <3>3. f[e] \in S
        BY <2>3, <3>1, <3>2
      <3> QED  BY <1>1, <2>5, <2>6, <3>2, <3>3
    <2> QED  BY <1>1, <2>6, <2>7, <2>8
  <1> QED  BY <1>3, <1>4, <1>5, <1>6

LEMMA GrowStructure ==
    ASSUME Structure, NEW n \in Sizes, NEW order \in Orders, Grow(n, order)
    PROVE  Structure'
  <1>1. /\ tableSize' = n /\ here' = here /\ pos' = pos /\ seen' = seen /\ linked' = linked
        /\ late' = late
    BY DEF Grow
  <1>2. /\ here \subseteq Keys /\ late \subseteq here /\ seen \subseteq here
        /\ pos \in here \cup {Null} /\ linked \in BOOLEAN
    BY DEF Structure, ZMapTypeOK
  <1>3. /\ table' \in [Buckets' -> here \cup {Null}]
        /\ \A b \in Buckets' : table'[b] # Null => Bucket'[table'[b]] = b
        /\ n \in Nat \ {0} /\ order \in Ranks
        /\ \A p \in Keys : Bucket'[p] \in Buckets' /\ Bucket'[p] \in Nat
    BY GrownLists DEF Structure
  <1>4. Sorted(order, Bucket', next', table')
    BY GrownLists DEF Structure
  <1>5. /\ next' \in Links
        /\ \A p \in Keys : next'[p] # Null => /\ p \in here /\ next'[p] \in here
                                             /\ Bucket'[next'[p]] = Bucket'[p]
        /\ \A q \in here : table'[Bucket'[q]] # Null
    BY <1>4 DEF Sorted
  <1>6. ASSUME NEW p \in here
        PROVE  /\ next'[p] # Null => p \notin Leads(next', next'[p])
               /\ Stops(next', p)
               /\ p \in Leads(next', table'[Bucket'[p]])
    BY <1>2, <1>3, <1>4, ListsLead
  <1>7. ZMapTypeOK'
    BY <1>1, <1>2, <1>3, <1>5 DEF ZMapTypeOK
  <1>8. LinksForward'
    <2>1. \A b \in Buckets' : table'[b] # Null => b <= Bucket'[table'[b]]
      BY <1>2, <1>3
    <2>2. \A p \in Keys : next'[p] # Null => Bucket'[p] <= Bucket'[next'[p]]
      BY <1>3, <1>5
    <2> QED  BY <1>1, <1>3, <1>5, <2>1, <2>2 DEF LinksForward
  <1>9. PairsHeld' /\ PairsEnd' /\ NeverBack'
    BY <1>1, <1>5, <1>6, ChainsLead DEF PairsHeld, PairsEnd, NeverBack
  <1>10. NoneSkipped'
    <2>1. ASSUME NEW p \in here, next'[p] # Null
          PROVE  Passes(here' \ late', next', Bucket', Bucket'[p], next'[p])
      BY <2>1, <1>2, <1>5 DEF Passes
    <2>2. ASSUME NEW b \in Buckets', table'[b] # Null
          PROVE  Passes(here' \ late', next', Bucket', b, table'[b])
      BY <2>2, <1>3 DEF Passes
    <2> QED  BY <1>1, <2>1, <2>2 DEF NoneSkipped
  <1> QED  BY <1>7, <1>8, <1>9, <1>10 DEF Structure

-----------------------------------------------------------------------------
(* ZMap: the steps *)

\* What leaves the links alone.
LEMMA StructureStays ==
    ASSUME Structure, UNCHANGED <<tableSize, table, next, here, late, linked>>,
           pos' \in here \cup {Null}, seen' \subseteq here
    PROVE  Structure'
  <1>1. /\ table' = table /\ next' = next /\ here' = here /\ late' = late /\ linked' = linked
        /\ tableSize' = tableSize /\ Bucket' = Bucket /\ Buckets' = Buckets
    BY TableStays
  <1>2. \A p : Chain(p)' = Chain(p) /\ (Ends(p)' <=> Ends(p))
    BY <1>1, ChainsLead
  <1>3. ZMapTypeOK'
    BY <1>1 DEF Structure, ZMapTypeOK
  <1>4. LinksForward'
    BY <1>1 DEF Structure, LinksForward
  <1>5. PairsHeld' /\ PairsEnd' /\ NeverBack'
    BY <1>1, <1>2 DEF Structure, PairsHeld, PairsEnd, NeverBack
  <1>6. NoneSkipped'
    BY <1>1 DEF Structure, NoneSkipped
  <1> QED  BY <1>3, <1>4, <1>5, <1>6 DEF Structure

LEMMA InitEstablishesZMapInv == ZMapInit => ZMapInv
  <1> SUFFICES ASSUME ZMapInit PROVE ZMapInv
    OBVIOUS
  <1>1. /\ here = {} /\ late = {} /\ seen = {} /\ pos = Null /\ linked = FALSE /\ ~nullRead
        /\ table = [b \in Buckets |-> Null] /\ next = [k \in Keys |-> Null]
        /\ answer.key = Null /\ tableSize \in Nat \ {0} /\ ~twice /\ ~broken
    BY TableAssumption DEF ZMapInit, NoAnswer
  <1>2. Structure
    <2>1. table \in [Buckets -> here \cup {Null}] /\ next \in Links
      BY <1>1 DEF Links
    <2>2. ZMapTypeOK
      BY <1>1, <2>1 DEF ZMapTypeOK
    <2> QED  BY <1>1, <2>2 DEF Structure, LinksForward, PairsHeld, PairsEnd, NeverBack, NoneSkipped
  <1>3. Walk
    BY <1>1 DEF Walk, WalkGoesOn, WalkEnds
  <1> QED  BY <1>1, <1>2, <1>3 DEF ZMapInv, Unbroken, LookupTruthful

LEMMA InsertStep ==
    ASSUME Unbroken, NEW k \in Keys, NEW v, Insert(k, v)
    PROVE  Unbroken'
  <1>1. Structure /\ Structure' /\ LookupTruthful'
    BY InsertStructure DEF Unbroken, Insert, LookupTruthful, NoAnswer
  <1>2. /\ k \notin here /\ here' = here \cup {k} /\ pos' = pos /\ nullRead' = nullRead /\ ~nullRead
        /\ late' = (IF linked \/ pos # Null THEN late \cup {k} ELSE late)
        /\ seen' = (IF pos = Null THEN {} ELSE seen)
        /\ Bucket' = Bucket /\ twice' = twice /\ moved' = moved
    BY TableStays DEF Insert
  <1>3. CASE pos = Null
    BY <1>1, <1>2, <1>3 DEF Unbroken, Walk, WalkGoesOn, WalkEnds
  <1>4. CASE moved
    BY <1>1, <1>2, <1>4 DEF Unbroken, Walk
  <1>5. CASE pos # Null /\ ~moved
    <2>1. seen' = seen /\ pos \in here /\ here' \ late' = here \ late
      BY <1>1, <1>2, <1>5 DEF Structure, ZMapTypeOK
    <2>2. /\ Leads(next', pos) = Leads(next, pos)
          /\ \A e \in Leads(next, pos) : next'[e] = next[e]
      BY <1>1, <1>2, <2>1, InsertedChains, ChainsForward
    <2>3. \A l : Ahead(l, pos)' <=> Ahead(l, pos)
      BY <1>2, <2>2, ChainsLead DEF Ahead
    <2>4. WalkGoesOn'
      <3>1. \A l \in seen : l \notin Leads(next', pos) /\ Bucket[l] <= Bucket[pos]
        BY <1>5, <2>2, ChainsLead DEF Unbroken, Walk, WalkGoesOn
      <3>2. \A l \in here \ late : l \in seen \/ Ahead(l, pos)'
        BY <1>5, <2>3 DEF Unbroken, Walk, WalkGoesOn
      <3>3. \A l \in here' \ late' : l \in seen' \/ Ahead(l, pos)'
        BY <2>1, <3>2
      <3> QED  BY <1>2, <2>1, <3>1, <3>3, ChainsLead DEF WalkGoesOn, Ahead
    <2>5. ~twice' /\ WalkEnds' /\ ~nullRead'
      BY <1>2, <1>5 DEF Unbroken, Walk, WalkEnds
    <2> QED  BY <1>1, <2>4, <2>5 DEF Unbroken, Walk
  <1> QED  BY <1>3, <1>4, <1>5

LEMMA GetAtStep ==
    ASSUME Unbroken, NEW k \in Keys, GetAt(k)
    PROVE  Unbroken'
  <1>1. UNCHANGED <<tableSize, table, next, value, here, pos, seen, twice, moved, linked, late,
                    nullRead>>
    BY DEF GetAt
  <1>2. Structure'
    BY <1>1, StructureStays DEF Unbroken, Structure, ZMapTypeOK
  <1>3. Walk'
    BY <1>1 DEF Unbroken, Walk, WalkGoesOn, WalkEnds, Ahead, Chain, Closed, Bucket
  <1>4. answer'.key = k /\ k # Null
    BY NullIsNoKey DEF GetAt
  <1>5. CASE k \in here
    <2>1. table[Bucket[k]] # Null /\ Found(k) = k
      BY <1>5 DEF Unbroken, Structure, PairsHeld, Found
    <2> QED  BY <1>1, <1>2, <1>3, <1>4, <1>5, <2>1 DEF GetAt, Unbroken, LookupTruthful
  <1>6. CASE k \notin here
    <2>1. ASSUME table[Bucket[k]] # Null PROVE Found(k) = Null
      <3>1. table[Bucket[k]] \in here
        BY <2>1, PairsAreFiled DEF Unbroken, Structure, ZMapTypeOK
      <3> QED  BY <1>6, <3>1, ChainsForward, ChainsLead DEF Unbroken, Found
    <2>2. answer'.value \in {Null, Default}
      BY <2>1 DEF GetAt
    <2> QED  BY <1>1, <1>2, <1>3, <1>4, <1>6, <2>2 DEF Unbroken, LookupTruthful
  <1> QED  BY <1>5, <1>6

LEMMA BeginStep ==
    ASSUME Unbroken, Begin
    PROVE  Unbroken'
  <1>1. /\ UNCHANGED <<tableSize, table, next, here, linked, late>>
        /\ seen' = {} /\ answer' = NoAnswer
        /\ pos' = HeadFrom(0) /\ nullRead' = (HeadFrom(0) = Null) /\ Structure
        /\ twice' = FALSE /\ Bucket' = Bucket
    BY TableStays DEF Begin, Unbroken
  <1>2. pos' \in here \cup {Null}
    BY <1>1, HeadIsFirst
  <1>3. Structure'
    BY <1>1, <1>2, StructureStays
  <1>4. LookupTruthful'
    BY <1>1 DEF LookupTruthful, NoAnswer
  <1>5. \A k \in here : Bucket[k] \in Nat
    BY <1>1, PairsAreFiled DEF Structure
  <1>6. nullRead' => here' = {}
    <2>1. HeadFrom(0) = Null => here' = {}
      BY <1>1, <1>5, HeadIsFirst
    <2> QED  BY <1>1, <2>1, Zenon
  <1>7. ASSUME pos' # Null, NEW k \in here \ late PROVE Ahead(k, pos')
    <2>1. pos' \in here /\ (Bucket[pos'] < Bucket[k] \/ k \in Leads(next, pos'))
      BY <1>1, <1>5, <1>7, HeadIsFirst
    <2>2. CASE Bucket[pos'] < Bucket[k]
      BY <1>1, <2>1, <2>2, LaterIsAhead
    <2>3. CASE k \in Leads(next, pos')
      BY <2>3, ChainsLead DEF Ahead
    <2> QED  BY <2>1, <2>2, <2>3
  <1>8. WalkGoesOn'
    <2>1. \A k, p : Ahead(k, p) => \A q \in {p} : k \in Leads(next', q)
                        \/ \E e \in Leads(next', q) : next'[e] = Null /\ Bucket[e] < Bucket[k]
      BY <1>1, ChainsLead DEF Ahead
    <2> QED  BY <1>1, <1>7, <2>1, ChainsLead DEF WalkGoesOn, Ahead
  <1>9. WalkEnds'
    BY <1>1 DEF WalkEnds
  <1> QED  BY <1>1, <1>3, <1>4, <1>6, <1>8, <1>9 DEF Unbroken, Walk

LEMMA GetNextStep ==
    ASSUME Unbroken, GetNext
    PROVE  Unbroken'
  <1>1. /\ pos # Null /\ seen' = seen \cup {pos} /\ twice' = (twice \/ pos \in seen)
        /\ UNCHANGED <<tableSize, table, value, here, late, nullRead, moved>>
        /\ ~nullRead /\ answer' = NoAnswer /\ Structure
        /\ Bucket' = Bucket /\ Buckets' = Buckets
    BY TableStays DEF GetNext, Unbroken
  <1>2. /\ pos \in here /\ next \in Links /\ here \subseteq Keys /\ seen \subseteq here
        /\ linked \in BOOLEAN /\ seen' \subseteq here /\ late \subseteq here
        /\ \A k \in Keys : Bucket[k] \in Nat
    BY <1>1, PairsAreFiled DEF Structure, ZMapTypeOK
  <1>3. LookupTruthful'
    BY <1>1 DEF LookupTruthful, NoAnswer
  <1>4. ~moved =>
          /\ \A k \in seen : k \notin Leads(next, pos) /\ Bucket[k] <= Bucket[pos]
          /\ \A k \in here \ late : k \in seen \/ Ahead(k, pos)
          /\ ~twice
    BY <1>1, ChainsLead DEF Unbroken, Walk, WalkGoesOn
  <1>5. ~moved => ~twice'
    BY <1>1, <1>2, <1>4, LeadsToItself, Zenon
  <1>6. CASE next[pos] # Null
    <2>1. pos' = next[pos] /\ UNCHANGED <<next, linked>>
      BY <1>6 DEF GetNext
    <2>2. /\ pos' \in here /\ Bucket[pos] <= Bucket[pos'] /\ pos \notin Leads(next, pos')
          /\ Leads(next, pos) = {pos} \cup Leads(next, pos')
      BY <1>1, <1>2, <1>6, <2>1, LeadsByStep, ChainsLead
         DEF Structure, LinksForward, NeverBack
    <2>3. Structure'
      BY <1>1, <1>2, <2>1, <2>2, StructureStays
    <2>4. CASE moved
      BY <1>1, <1>3, <2>3, <2>4 DEF Unbroken, Walk
    <2>5. CASE ~moved
      <3>1. \A k \in seen' : k \notin Leads(next, pos') /\ Bucket[k] <= Bucket[pos']
        BY <1>1, <1>2, <1>4, <2>2, <2>5
      <3>2. ASSUME NEW k \in here \ late
            PROVE  \/ k \in seen' \/ k \in Leads(next, pos')
                   \/ \E e \in Leads(next, pos') : next[e] = Null /\ Bucket[e] < Bucket[k]
        BY <1>1, <1>4, <1>6, <2>2, <2>5, ChainsLead DEF Ahead
      <3>3. WalkGoesOn'
        BY <1>1, <2>1, <3>1, <3>2, ChainsLead DEF WalkGoesOn, Ahead
      <3>4. WalkEnds'
        BY <1>1, <2>1, <1>6 DEF WalkEnds
      <3> QED  BY <1>1, <1>3, <1>5, <2>3, <2>5, <3>3, <3>4 DEF Unbroken, Walk
    <2> QED  BY <2>4, <2>5
  <1>7. CASE next[pos] = Null
    <2>1. PICK f : f = HeadFrom(Bucket[pos] + 1)
      OBVIOUS
    <2>2. /\ next' = [next EXCEPT ![pos] = f] /\ pos' = f /\ linked' = (linked \/ f # Null)
      BY <1>7, <2>1 DEF GetNext, SearchStart
    <2>3. Leads(next, pos) = {pos}
      BY <1>2, <1>7, LeadsByStep
    <2>4. ~moved => \A k \in here \ late : k \in seen' \/ Bucket[pos] < Bucket[k]
      BY <1>1, <1>4, <2>3, ChainsLead DEF Ahead
    <2>5. Bucket[pos] + 1 \in Int /\ \A k \in here : k \in Keys /\ Bucket[k] \in Nat
      BY <1>2
    <2>6. CASE f = Null
      <3>1. UNCHANGED <<next, linked>> /\ pos' = Null
        BY <1>2, <1>7, <2>2, <2>6 DEF Links
      <3>2. Structure'
        BY <1>1, <1>2, <3>1, StructureStays
      <3>3. \A k \in here : Bucket[k] < Bucket[pos] + 1
        BY <1>1, <2>1, <2>5, <2>6, HeadIsFirst
      <3>4. ~moved => here \ late \subseteq seen'
        BY <1>2, <2>4, <2>5, <3>3
      <3> QED  BY <1>1, <1>3, <1>5, <3>1, <3>2, <3>4 DEF Unbroken, Walk, WalkGoesOn, WalkEnds
    <2>7. CASE f # Null
      <3>1. /\ f \in here /\ Bucket[pos] + 1 <= Bucket[f]
            /\ \A k \in here \ late : Bucket[pos] + 1 <= Bucket[k] =>
                   Bucket[f] < Bucket[k] \/ k \in Leads(next, f)
        BY <1>1, <2>1, <2>5, <2>7, HeadIsFirst
      <3>2. Link(f)
        <4>1. Passes(here \ late, next, Bucket, Bucket[pos], f)
          BY <1>2, <2>5, <3>1 DEF Passes
        <4> QED  BY <1>1, <1>2, <1>7, <2>2, <2>5, <3>1, <4>1 DEF Link
      <3>3. /\ next' \in Links /\ \A p \in Keys : next'[p] = IF p = pos THEN f ELSE next[p]
            /\ Leads(next', f) = Leads(next, f) /\ pos \notin Leads(next, f)
        BY <1>1, <3>2, LinkedChains
      <3>4. linked' \in BOOLEAN /\ linked'
        BY <2>2, <2>7, Zenon
      <3>5. ZMapTypeOK'
        BY <1>1, <1>2, <2>2, <3>1, <3>3, <3>4 DEF Structure, ZMapTypeOK
      <3>6. Structure'
        BY <1>1, <3>2, <3>4, <3>5, LinkStructure
      <3>7. CASE moved
        BY <1>1, <1>3, <3>6, <3>7 DEF Unbroken, Walk
      <3>8. CASE ~moved
        <4>1. \A q \in Leads(next, f) : q \in Keys /\ Bucket[f] <= Bucket[q]
          BY <1>1, <3>1, ChainsForward
        <4>2. \A k \in seen' : k \in here /\ k \notin Leads(next, f) /\ Bucket[k] <= Bucket[f]
          <5>1. \A k \in seen' : k \in here /\ Bucket[k] <= Bucket[pos]
            BY <1>1, <1>2, <1>4, <2>5, <3>8
          <5> QED  BY <5>1, <2>5, <1>2, <3>1, <4>1
        <4>3. ASSUME NEW k \in here \ late
              PROVE  \/ k \in seen' \/ k \in Leads(next, f)
                     \/ \E e \in Leads(next, f) : next'[e] = Null /\ Bucket[e] < Bucket[k]
          <5>1. k \in seen' \/ Bucket[f] < Bucket[k] \/ k \in Leads(next, f)
            BY <1>2, <2>4, <2>5, <3>1, <3>8
          <5>2. CASE Bucket[f] < Bucket[k]
            <6>1. Ahead(k, f)
              BY <1>1, <3>1, <5>2, LaterIsAhead
            <6> QED  BY <3>3, <4>1, <6>1, ChainsLead DEF Ahead
          <5> QED  BY <5>1, <5>2
        <4>4. WalkGoesOn'
          BY <1>1, <2>2, <3>3, <4>2, <4>3, ChainsLead DEF WalkGoesOn, Ahead
        <4>5. WalkEnds'
          BY <1>1, <2>2, <2>7 DEF WalkEnds
        <4> QED  BY <1>1, <1>3, <1>5, <3>6, <3>8, <4>4, <4>5 DEF Unbroken, Walk
      <3> QED  BY <3>7, <3>8
    <2> QED  BY <2>6, <2>7
  <1> QED  BY <1>6, <1>7

LEMMA RemoveStep ==
    ASSUME Unbroken, NEW k \in Keys, RemoveKey(k)
    PROVE  ZMapInv'
  <1>1. /\ k \in here /\ here' = here \ {k} /\ late' = late \ {k} /\ seen' = seen \ {k}
        /\ pos' = pos /\ linked' = linked /\ nullRead' = nullRead /\ ~nullRead /\ moved' = moved
        /\ twice' = twice /\ answer' = NoAnswer /\ Bucket' = Bucket
    BY TableStays DEF RemoveKey
  <1>2. Structure /\ k \in Keys /\ here \subseteq Keys /\ late \subseteq here /\ seen \subseteq here
        /\ \A p \in Keys : Bucket[p] \in Nat
    BY PairsAreFiled DEF Unbroken, Structure, ZMapTypeOK
  <1>3. ASSUME broken', ~linked, pos # k PROVE FALSE
    <2>1. \A b \in Buckets : table[b] # Null => b = Bucket[table[b]]
      BY <1>2, <1>3 DEF Structure, LinksForward
    <2>2. \A b \in Buckets \ {Bucket[k]} : table[b] # k
      BY <1>2, <2>1, NullIsNoKey
    <2>3. PICK p \in Keys \ {k} : next[p] = k /\ p \notin Before(k)
      BY <1>3, <2>2 DEF RemoveKey
    <2>4. p \in here /\ Bucket[p] = Bucket[k]
      BY <1>2, <1>3, <2>3, NullIsNoKey DEF Structure, LinksForward
    <2>5. p \in Chain(table[Bucket[k]])
      BY <1>2, <2>4 DEF Structure, PairsHeld
    <2> QED  BY <2>3, <2>5 DEF Before
  <1>4. ASSUME ~broken' PROVE Unbroken'
    <2>1. Structure' /\ LookupTruthful'
      BY <1>1, <1>2, <1>4, RemoveStructure DEF LookupTruthful, NoAnswer
    <2>2. WalkEnds => WalkEnds'
      BY <1>1 DEF WalkEnds
    <2>3. ASSUME WalkGoesOn, pos # Null PROVE WalkGoesOn'
      <3>1. /\ pos \in here \ {k}
            /\ \A p \in Keys : next'[p] = IF p = k THEN Null
                                          ELSE IF next[p] = k THEN next[k] ELSE next[p]
        BY <1>1, <1>2, <1>4, <2>3, RemovedChains DEF Structure, ZMapTypeOK
      <3>2. Leads(next', pos) = Leads(next, pos) \ {k}
        BY <1>1, <1>2, <1>4, <3>1, RemovedChains
      <3>3. k \in Leads(next, pos) => \E q \in Leads(next', pos) : next[q] = k
        BY <1>1, <1>2, <1>4, <3>1, RemovedChains
      <3>4. \A l \in seen' : l \notin Leads(next', pos) /\ Bucket[l] <= Bucket[pos]
        BY <1>1, <2>3, <3>2, ChainsLead DEF WalkGoesOn
      <3>5. ASSUME NEW l \in here' \ late', l \notin seen', l \notin Leads(next', pos)
            PROVE  \E e \in Leads(next', pos) : next'[e] = Null /\ Bucket[e] < Bucket[l]
        <4>1. l \in here \ late /\ l # k /\ l \notin seen /\ l \notin Leads(next, pos) /\ l \in Keys
          BY <1>1, <1>2, <3>2, <3>5
        <4>2. PICK e \in Leads(next, pos) : next[e] = Null /\ Bucket[e] < Bucket[l]
          BY <2>3, <4>1, ChainsLead DEF WalkGoesOn, Ahead
        <4>3. e \in Keys
          BY DEF Leads
        <4>4. CASE e # k
          BY <1>2, <3>1, <3>2, <4>2, <4>3, <4>4, NullIsNoKey
        <4>5. CASE e = k
          <5>1. PICK q \in Leads(next', pos) : next[q] = k
            BY <3>3, <4>2, <4>5
          <5>2. q \in Keys /\ q # k
            BY <3>2 DEF Leads
          <5>3. next'[q] = Null
            BY <3>1, <4>2, <4>5, <5>1, <5>2
          <5>4. Bucket[q] <= Bucket[k]
            BY <1>2, <5>1, <5>2, NullIsNoKey DEF Structure, LinksForward
          <5> QED  BY <1>2, <4>1, <4>2, <4>5, <5>1, <5>2, <5>3, <5>4
        <4> QED  BY <4>4, <4>5
      <3> QED  BY <1>1, <3>4, <3>5, ChainsLead DEF WalkGoesOn, Ahead
    <2>4. WalkGoesOn => WalkGoesOn'
      BY <1>1, <2>3 DEF WalkGoesOn
    <2> QED  BY <1>1, <2>1, <2>2, <2>4 DEF Unbroken, Walk
  <1>5. CASE pos = k
    BY <1>1, <1>4, <1>5, NullIsNoKey DEF ZMapInv
  <1>6. CASE pos # k
    BY <1>1, <1>3, <1>4, <1>6 DEF ZMapInv
  <1> QED  BY <1>5, <1>6

LEMMA GrowStep ==
    ASSUME Unbroken, NEW n \in Sizes, NEW order \in Orders, Grow(n, order)
    PROVE  ZMapInv'
  <1>1. /\ here' = here /\ late' = late /\ seen' = seen /\ pos' = pos /\ linked' = linked
        /\ nullRead' = nullRead /\ ~nullRead /\ twice' = twice /\ answer' = NoAnswer
        /\ moved' = (moved \/ pos # Null) /\ broken' = Crossing
    BY DEF Grow
  <1>2. Structure /\ Structure' /\ LookupTruthful'
    BY <1>1, GrowStructure DEF Unbroken, LookupTruthful, NoAnswer
  <1>3. Crossing => linked
    BY <1>2 DEF Crossing, Structure, LinksForward
  <1>4. Walk'
    <2>1. ~moved' => ~moved /\ pos' = Null
      BY <1>1, Zenon
    <2> QED  BY <1>1, <2>1 DEF Unbroken, Walk, WalkGoesOn, WalkEnds
  <1>5. Unbroken'
    BY <1>2, <1>4 DEF Unbroken
  <1>6. broken' => linked'
    BY <1>1, <1>3, Zenon
  <1> QED  BY <1>5, <1>6 DEF ZMapInv

LEMMA NextPreservesZMapInv == ZMapInv /\ [ZMapNext]_zmapVars => ZMapInv'
  <1> SUFFICES ASSUME ZMapInv, [ZMapNext]_zmapVars PROVE ZMapInv'
    OBVIOUS
  <1>1. CASE UNCHANGED zmapVars
    <2>1. /\ UNCHANGED <<tableSize, table, next, value, here, pos, seen, twice, moved, linked>>
          /\ UNCHANGED <<late, answer, nullRead, broken>>
      BY <1>1 DEF zmapVars
    <2>2. ASSUME Structure PROVE Structure'
      BY <2>1, <2>2, StructureStays DEF Structure, ZMapTypeOK
    <2>3. Walk => Walk'
      BY <2>1 DEF Walk, WalkGoesOn, WalkEnds, Ahead, Chain, Closed, Bucket
    <2>4. LookupTruthful => LookupTruthful'
      BY <2>1 DEF LookupTruthful
    <2> QED  BY <2>1, <2>2, <2>3, <2>4 DEF ZMapInv, Unbroken
  <1>2. ASSUME NEW k \in Keys, NEW v, Insert(k, v) PROVE ZMapInv'
    <2>1. Unbroken' /\ ~broken'
      BY <1>2, InsertStep DEF ZMapInv, Insert
    <2> QED  BY <2>1 DEF ZMapInv
  <1>3. ASSUME NEW k \in Keys, RemoveKey(k) PROVE ZMapInv'
    BY <1>3, RemoveStep DEF ZMapInv, RemoveKey
  <1>4. ASSUME NEW n \in Sizes, NEW order \in Orders, Grow(n, order) PROVE ZMapInv'
    BY <1>4, GrowStep DEF ZMapInv, Grow
  <1>5. ASSUME NEW k \in Keys, GetAt(k) PROVE ZMapInv'
    <2>1. Unbroken' /\ ~broken'
      BY <1>5, GetAtStep DEF ZMapInv, GetAt
    <2> QED  BY <2>1 DEF ZMapInv
  <1>6. ASSUME Begin PROVE ZMapInv'
    <2>1. Unbroken' /\ ~broken'
      BY <1>6, BeginStep DEF ZMapInv, Begin
    <2> QED  BY <2>1 DEF ZMapInv
  <1>7. ASSUME GetNext PROVE ZMapInv'
    <2>1. Unbroken' /\ ~broken'
      BY <1>7, GetNextStep DEF ZMapInv, GetNext
    <2> QED  BY <2>1 DEF ZMapInv
  <1> QED  BY <1>1, <1>2, <1>3, <1>4, <1>5, <1>6, <1>7 DEF ZMapNext

LEMMA ZMapInvariance == ZMapSpec => []ZMapInv
  <1>1. ZMapInit => ZMapInv
    BY InitEstablishesZMapInv
  <1>2. ZMapInv /\ [ZMapNext]_zmapVars => ZMapInv'
    BY NextPreservesZMapInv
  <1> QED  BY <1>1, <1>2, PTL DEF ZMapSpec

\* get_at, begin, get_next and for_each (ZMap.h): a map of any keys, hash and table is read as
\* the binary filled it, although get_next links its buckets and the binary inserts, removes
\* and grows in between: get_at answers for its key only, for_each passes every pair once, and
\* both end.  No step breaks the map before a for_each has linked two buckets, but the removal
\* of the very pair at which one stands.
THEOREM ZMapStaysTruthful == ZMapSpec => []ZMapTruthful
  <1>1. ZMapInv => ZMapTruthful
    <2> SUFFICES ASSUME ZMapInv PROVE ZMapTruthful
      OBVIOUS
    <2>1. ~broken => EnumerationComplete
      BY DEF ZMapInv, Unbroken, Walk, WalkEnds, EnumerationComplete
    <2>2. ~broken => ChainsEnd
      BY DEF ZMapInv, Unbroken, Structure, ZMapTypeOK, PairsEnd, ChainsEnd
    <2> QED  BY <2>1, <2>2 DEF ZMapInv, Unbroken, ZMapTruthful
  <1> QED  BY <1>1, ZMapInvariance, PTL

-----------------------------------------------------------------------------
(* AvatarLook *)

\* What lies in the packet: slot k of a list lies behind the slots before it that are listed.
SlotsBefore(l, by, b, k) == {i \in 1 .. k - 1 : Listed(l, by, b + i)}
Behind(by) == LastSlot(by) + 1
Begins(l, by, b) ==
    IF b = 0 THEN 11 ELSE 11 + 5 * Cardinality(SlotsBefore(l, by, 0, Behind(by))) + 1
Place(l, by, b, k) == Begins(l, by, b) + 5 * Cardinality(SlotsBefore(l, by, b, k))

HeadLaid(m, l) ==
    /\ Len(m) >= 11
    /\ m[1] = l.gender /\ m[2] = l.skin
    /\ FourAt(m, 2) = l.face /\ FourAt(m, 7) = l.worn[0]
SlotLaid(m, l, by, b, i) ==
    /\ Place(l, by, b, i) + 5 <= Len(m)
    /\ m[Place(l, by, b, i) + 1] = i
    /\ FourAt(m, Place(l, by, b, i) + 1) = l.worn[b + i]
ListLaid(m, l, by, b, k) == \A i \in 1 .. k - 1 : Listed(l, by, b + i) => SlotLaid(m, l, by, b, i)
EndLaid(m, l, by, b) ==
    /\ Place(l, by, b, Behind(by)) + 1 <= Len(m)
    /\ m[Place(l, by, b, Behind(by)) + 1] = End
BothLaid(m, l, by, b) == ListLaid(m, l, by, b, Behind(by)) /\ EndLaid(m, l, by, b)
Whole(m, l, by) ==
    /\ HeadLaid(m, l)
    /\ BothLaid(m, l, by, 0)
    /\ BothLaid(m, l, by, 30)
    /\ Len(m) = Place(l, by, 30, Behind(by)) + 9
    /\ FourAt(m, Place(l, by, 30, Behind(by)) + 1) = l.sticker
    /\ FourAt(m, Place(l, by, 30, Behind(by)) + 5) = l.worn[60]

LookTypeOK ==
    /\ look \in Look
    /\ encoder \in {"extension", "binary"}
    /\ phase \in {"idle", "encode", "sent", "head", "decode", "tail", "done", "thrown"}
    /\ base \in {0, 30}
    /\ round \in 1 .. 31
    /\ message \in Seq(Bytes)
    /\ lost \in Nat
    /\ offset \in Nat
    /\ got \in [gender : Int, skin : Int, face : Int, sticker : Int]
    /\ memory \in [Memory -> Int]

\* The encoder stands behind what it has listed.
EncodeInv ==
    phase = "encode" =>
        /\ round <= Behind(encoder)
        /\ Len(message) = Place(look, encoder, base, round)
        /\ HeadLaid(message, look)
        /\ ListLaid(message, look, encoder, base, round)
        /\ base = 30 => BothLaid(message, look, encoder, 0)

Reading == phase \in {"head", "decode", "tail", "done"}
WholeInv == phase = "sent" \/ (lost = 0 /\ Reading) => Whole(message, look, encoder)

\* Of a list, what the slots before s hold has been stored, and nothing else.
Stored(mem, l, b, s) ==
    \A i \in 1 .. 29 : mem[b + i] = IF i < s THEN Fitting(l.worn[b + i], i) ELSE 0

\* The reader stands at the next listed slot from s on; the rounds are no more than the slots.
AtSlot ==
    \E s \in round .. 30 :
        /\ offset = Place(look, encoder, base, s)
        /\ Stored(memory, look, base, s)
        /\ encoder = "extension" => s = round

\* The second list of the extension is not read.
AtFalseEnd == offset = Place(look, encoder, 0, 31) /\ Stored(memory, look, 30, 1)

HeadRead ==
    /\ got.gender = look.gender /\ got.skin = look.skin /\ got.face = look.face
    /\ memory[0] = look.worn[0]

DecodeInv ==
    lost = 0 =>
        /\ phase # "thrown"
        /\ phase = "head" => offset = 0
        /\ phase \in {"decode", "tail"} => HeadRead
        /\ phase = "decode" /\ base = 0 => AtSlot /\ Stored(memory, look, 30, 1)
        /\ phase = "decode" /\ base = 30 =>
               /\ Stored(memory, look, 0, 30)
               /\ encoder = "binary" => AtSlot
               /\ encoder = "extension" => AtFalseEnd
        /\ phase = "tail" =>
               /\ Stored(memory, look, 0, 30)
               /\ encoder = "binary" =>
                      /\ offset = Place(look, encoder, 30, 30) + 1
                      /\ Stored(memory, look, 30, 30)
               /\ encoder = "extension" =>
                      /\ offset = Place(look, encoder, 0, 31) + 1
                      /\ Stored(memory, look, 30, 1)
        /\ phase = "done" /\ encoder = "binary" => BinaryEncodingDecoded
        /\ phase = "done" /\ encoder = "extension" => OwnEncodingKeepsWorn

Unread ==
    /\ phase \in {"idle", "encode", "sent", "head"} => offset = 0
    /\ phase = "idle" => base = 0 /\ round = 1

LookInv == LookTypeOK /\ Unread /\ EncodeInv /\ WholeInv /\ DecodeInv

-----------------------------------------------------------------------------
(* Bytes *)

\* Decode4 reads what Encode4 wrote.
LEMMA FourAdd ==
    ASSUME NEW n \in Ids
    PROVE  (n % 256) + 256 * ((n \div 256) % 256) + 65536 * ((n \div 65536) % 256)
               + 16777216 * (((n \div 16777216) % 256) % 128) = n
  <1>1. PICK p \in Nat, q \in Nat, r \in Nat :
            p = n \div 256 /\ q = n \div 65536 /\ r = n \div 16777216
    BY SMT DEF Ids
  <1>2. (n % 256) + 256 * p = n
    BY <1>1, SMT DEF Ids
  <1>3. (p % 256) + 256 * q = p
    BY <1>1, SMT DEF Ids
  <1>4. (q % 256) + 256 * r = q /\ r < 128
    BY <1>1, SMT DEF Ids
  <1>5. (r % 256) % 128 = r
    BY <1>4, SMT
  <1>6. n = (n % 256) + 256 * (p % 256) + 65536 * (q % 256) + 16777216 * r
    <2>1. PICK x \in Nat, y \in Nat, z \in Nat : x = n % 256 /\ y = p % 256 /\ z = q % 256
      BY <1>1, SMT DEF Ids
    <2>2. n = x + 256 * p /\ p = y + 256 * q /\ q = z + 256 * r
      BY <1>1, <1>2, <1>3, <1>4, <2>1, SMT
    <2>3. n = x + 256 * y + 65536 * z + 16777216 * r
      BY <1>1, <2>1, <2>2, SMT
    <2> QED  BY <2>1, <2>3, SMT
  <1> QED  BY <1>1, <1>5, <1>6, SMT

LEMMA FourIsTyped ==
    ASSUME NEW n \in Ids
    PROVE  /\ Four(n) \in Seq(Bytes) /\ Len(Four(n)) = 4
           /\ Four(n)[1] + 256 * Four(n)[2] + 65536 * Four(n)[3]
                  + 16777216 * (Four(n)[4] % 128) = n
  <1>1. /\ n % 256 \in Bytes /\ (n \div 256) % 256 \in Bytes
        /\ (n \div 65536) % 256 \in Bytes /\ (n \div 16777216) % 256 \in Bytes
    BY SMT DEF Bytes, Ids
  <1>2. /\ Four(n)[1] = n % 256 /\ Four(n)[2] = (n \div 256) % 256
        /\ Four(n)[3] = (n \div 65536) % 256 /\ Four(n)[4] = (n \div 16777216) % 256
    BY SMT DEF Four
  <1>3. Four(n) \in Seq(Bytes) /\ Len(Four(n)) = 4
    BY <1>1, SMT DEF Four
  <1> QED  BY <1>2, <1>3, FourAdd, SMT

\* m2 goes on where m ends.
GoesOn(m, m2) == Len(m) <= Len(m2) /\ \A k \in 1 .. Len(m) : m2[k] = m[k]

\* Four bytes that lie from offset k on are what Decode4 reads there.
LEMMA FourRead ==
    ASSUME NEW m, NEW n \in Ids, NEW k \in Nat,
           \A j \in 1 .. 4 : m[k + j] = Four(n)[j]
    PROVE  FourAt(m, k) = n
  BY FourIsTyped, SMT DEF FourAt

\* What was written stays written.
LEMMA FourStays ==
    ASSUME NEW m \in Seq(Bytes), NEW m2 \in Seq(Bytes), GoesOn(m, m2), NEW k \in Nat,
           k + 4 <= Len(m)
    PROVE  FourAt(m2, k) = FourAt(m, k)
  <1>1. \A j \in 1 .. 4 : k + j \in 1 .. Len(m)
    OBVIOUS
  <1>2. \A j \in 1 .. 4 : m2[k + j] = m[k + j]
    BY <1>1, SMT DEF GoesOn
  <1> QED  BY <1>2, SMT DEF FourAt

-----------------------------------------------------------------------------
(* Where the slots lie *)

LEMMA PlaceTyped ==
    ASSUME NEW l, NEW by, NEW b, NEW k \in Int
    PROVE  /\ IsFiniteSet(SlotsBefore(l, by, b, k))
           /\ Cardinality(SlotsBefore(l, by, b, k)) \in Nat
           /\ Begins(l, by, b) \in Nat
           /\ Place(l, by, b, k) \in Nat
  <1>1. ASSUME NEW c, NEW j \in Int
        PROVE  /\ IsFiniteSet(SlotsBefore(l, by, c, j))
               /\ Cardinality(SlotsBefore(l, by, c, j)) \in Nat
    <2>1. IsFiniteSet(1 .. j - 1)
      BY FS_Interval
    <2>2. SlotsBefore(l, by, c, j) \in SUBSET (1 .. j - 1)
      BY DEF SlotsBefore
    <2> QED  BY <2>1, <2>2, FS_Subset, FS_CardinalityType
  <1>2. Behind(by) \in Int
    BY DEF Behind, LastSlot
  <1>3. Cardinality(SlotsBefore(l, by, 0, Behind(by))) \in Nat
    BY <1>1, <1>2
  <1>4. Begins(l, by, b) \in Nat
    BY <1>3 DEF Begins
  <1>5. Cardinality(SlotsBefore(l, by, b, k)) \in Nat
    BY <1>1
  <1>6. Place(l, by, b, k) \in Nat
    BY <1>4, <1>5 DEF Place
  <1> QED  BY <1>1, <1>4, <1>5, <1>6

LEMMA PlaceFirst ==
    ASSUME NEW l, NEW by
    PROVE  /\ Place(l, by, 0, 1) = 11
           /\ Place(l, by, 30, 1) = Place(l, by, 0, Behind(by)) + 1
  <1>1. \A b : SlotsBefore(l, by, b, 1) = {}
    BY DEF SlotsBefore
  <1>2. \A b : Cardinality(SlotsBefore(l, by, b, 1)) = 0
    BY <1>1, FS_EmptySet
  <1>3. Begins(l, by, 0) = 11
    BY DEF Begins
  <1>4. PICK c : c = Cardinality(SlotsBefore(l, by, 0, Behind(by)))
    OBVIOUS
  <1>5. c \in Nat
    BY <1>4, PlaceTyped DEF Behind, LastSlot
  <1>6. Begins(l, by, 30) = 11 + 5 * c + 1
    BY <1>4 DEF Begins
  <1>7. Place(l, by, 0, Behind(by)) = 11 + 5 * c
    BY <1>3, <1>4 DEF Place
  <1> QED  BY <1>2, <1>3, <1>5, <1>6, <1>7 DEF Place

\* A slot that is listed takes five bytes, another none.
LEMMA PlaceNext ==
    ASSUME NEW l, NEW by, NEW b, NEW k \in Nat \ {0}
    PROVE  Place(l, by, b, k + 1)
               = Place(l, by, b, k) + (IF Listed(l, by, b + k) THEN 5 ELSE 0)
  <1> DEFINE S == SlotsBefore(l, by, b, k)
             T == SlotsBefore(l, by, b, k + 1)
  <1>1. IsFiniteSet(S) /\ Cardinality(S) \in Nat /\ Begins(l, by, b) \in Nat
    BY PlaceTyped
  <1>2. k \notin S
    BY DEF SlotsBefore
  <1>3. \A i : i \in 1 .. (k + 1) - 1 <=> i \in 1 .. k - 1 \/ i = k
    OBVIOUS
  <1>4. T = IF Listed(l, by, b + k) THEN S \cup {k} ELSE S
    BY <1>3 DEF SlotsBefore
  <1> HIDE DEF S, T
  <1>5. Cardinality(T) = Cardinality(S) + (IF Listed(l, by, b + k) THEN 1 ELSE 0)
    BY <1>1, <1>2, <1>4, FS_AddElement
  <1>6. Place(l, by, b, k + 1) = Begins(l, by, b) + 5 * Cardinality(T)
        /\ Place(l, by, b, k) = Begins(l, by, b) + 5 * Cardinality(S)
    BY DEF Place, S, T
  <1> QED  BY <1>1, <1>5, <1>6

\* Slots that are not listed do not move the place.
LEMMA PlaceSkips ==
    ASSUME NEW l, NEW by, NEW b, NEW s \in Nat \ {0}, NEW t \in Nat, s <= t,
           \A i \in s .. t - 1 : ~Listed(l, by, b + i)
    PROVE  Place(l, by, b, s) = Place(l, by, b, t)
  <1>1. SlotsBefore(l, by, b, s) = SlotsBefore(l, by, b, t)
    BY DEF SlotsBefore
  <1> QED  BY <1>1 DEF Place

\* The extension lists all.
LEMMA PlaceOfAll ==
    ASSUME NEW l, NEW b, NEW k \in Nat \ {0}
    PROVE  Place(l, "extension", b, k) = Place(l, "extension", b, 1) + 5 * (k - 1)
  <1>1. ASSUME NEW j \in Nat \ {0}
        PROVE  Cardinality(SlotsBefore(l, "extension", b, j)) = j - 1
    <2>1. SlotsBefore(l, "extension", b, j) = 1 .. j - 1
      BY DEF SlotsBefore, Listed
    <2> QED  BY <2>1, FS_Interval
  <1>2. Begins(l, "extension", b) \in Nat
    BY PlaceTyped
  <1>3. \A j \in Nat \ {0} : Place(l, "extension", b, j) = Begins(l, "extension", b) + 5 * (j - 1)
    BY <1>1 DEF Place
  <1> QED  BY <1>2, <1>3

-----------------------------------------------------------------------------
(* What lies in a packet stays when it grows *)

LEMMA HeadStays ==
    ASSUME NEW l, NEW m \in Seq(Bytes), NEW m2 \in Seq(Bytes), GoesOn(m, m2), HeadLaid(m, l)
    PROVE  HeadLaid(m2, l)
  <1>1. Len(m) \in Nat /\ Len(m2) \in Nat /\ Len(m) >= 11 /\ Len(m2) >= Len(m)
    BY DEF GoesOn, HeadLaid
  <1>2. FourAt(m2, 2) = FourAt(m, 2) /\ FourAt(m2, 7) = FourAt(m, 7)
    BY <1>1, FourStays
  <1>3. m2[1] = m[1] /\ m2[2] = m[2]
    BY <1>1 DEF GoesOn
  <1> QED  BY <1>1, <1>2, <1>3 DEF HeadLaid

LEMMA ListStays ==
    ASSUME NEW l, NEW by, NEW b, NEW k \in Nat, NEW m \in Seq(Bytes), NEW m2 \in Seq(Bytes),
           GoesOn(m, m2), ListLaid(m, l, by, b, k)
    PROVE  ListLaid(m2, l, by, b, k)
  <1> SUFFICES ASSUME NEW i \in 1 .. k - 1, Listed(l, by, b + i)
               PROVE  SlotLaid(m2, l, by, b, i)
    BY DEF ListLaid
  <1>1. PICK p : p = Place(l, by, b, i)
    OBVIOUS
  <1>2. p \in Nat /\ p + 5 <= Len(m) /\ m[p + 1] = i /\ FourAt(m, p + 1) = l.worn[b + i]
    BY <1>1, PlaceTyped DEF ListLaid, SlotLaid
  <1>3. Len(m) \in Nat /\ Len(m2) \in Nat /\ Len(m) <= Len(m2)
    BY DEF GoesOn
  <1>4. p + 5 <= Len(m2) /\ p + 1 \in 1 .. Len(m)
    BY <1>2, <1>3
  <1>5. m2[p + 1] = i
    BY <1>2, <1>4 DEF GoesOn
  <1>6. p + 1 \in Nat /\ (p + 1) + 4 <= Len(m)
    BY <1>2
  <1>7. FourAt(m2, p + 1) = l.worn[b + i]
    BY <1>2, <1>6, FourStays
  <1> QED  BY <1>1, <1>4, <1>5, <1>7 DEF SlotLaid

LEMMA BothStays ==
    ASSUME NEW l, NEW by, NEW b, NEW m \in Seq(Bytes), NEW m2 \in Seq(Bytes),
           GoesOn(m, m2), BothLaid(m, l, by, b)
    PROVE  BothLaid(m2, l, by, b)
  <1>1. Behind(by) \in Nat
    BY DEF Behind, LastSlot
  <1>2. ListLaid(m2, l, by, b, Behind(by))
    BY <1>1, ListStays DEF BothLaid
  <1>3. PICK p : p = Place(l, by, b, Behind(by))
    OBVIOUS
  <1>4. p \in Nat /\ p + 1 <= Len(m) /\ m[p + 1] = End
    BY <1>1, <1>3, PlaceTyped DEF BothLaid, EndLaid
  <1>5. Len(m) \in Nat /\ Len(m2) \in Nat /\ Len(m) <= Len(m2)
    BY DEF GoesOn
  <1>6. p + 1 <= Len(m2) /\ m2[p + 1] = End
    BY <1>4, <1>5 DEF GoesOn
  <1> QED  BY <1>2, <1>3, <1>6 DEF BothLaid, EndLaid

-----------------------------------------------------------------------------
(* The encoder *)

LEMMA Grows ==
    ASSUME NEW m \in Seq(Bytes), NEW e \in Seq(Bytes)
    PROVE  GoesOn(m, m \o e)
  BY AppendsBehind DEF GoesOn

LEMMA LookTyped ==
    ASSUME NEW l, l \in Look
    PROVE  /\ l.gender \in Bytes /\ l.skin \in Bytes /\ l.face \in Ids /\ l.sticker \in Ids
           /\ \A i \in 0 .. 60 : l.worn[i] \in Ids
  <1>1. /\ l.gender \in {0, 1} /\ l.skin \in 0 .. 3 /\ l.face \in Ids /\ l.sticker \in Ids
        /\ l.worn \in [Memory -> Ids]
    BY DEF Look
  <1> QED  BY <1>1 DEF Memory, Bytes

\* b is a string of n bytes; c is b with e behind it.
Sized(b, n) == b \in Seq(Bytes) /\ Len(b) = n
Joins(b, e, c) == c = b \o e
Appended(b, e, c, x, y) == (\A j \in 1 .. x : c[j] = b[j]) /\ \A j \in 1 .. y : c[x + j] = e[j]

LEMMA Joined ==
    ASSUME NEW b, NEW e, NEW c, Joins(b, e, c), NEW x, NEW y, Sized(b, x), Sized(e, y)
    PROVE  Sized(c, x + y) /\ Appended(b, e, c, x, y)
  BY AppendsBehind DEF Joins, Sized, Appended

HeadOf(m, a, f, w) ==
    /\ Sized(m, 11) /\ m[1] = a[1] /\ m[2] = a[2]
    /\ \A j \in 1 .. 4 : m[2 + j] = f[j]
    /\ \A j \in 1 .. 4 : m[7 + j] = w[j]

\* Two bytes, a number, a byte, a number.
LEMMA HeadJoined ==
    ASSUME NEW a, Sized(a, 2), NEW z, Sized(z, 1), NEW f, Sized(f, 4), NEW w, Sized(w, 4),
           NEW a1, Joins(a, f, a1), NEW a2, Joins(a1, z, a2), NEW m, Joins(a2, w, m)
    PROVE  HeadOf(m, a, f, w)
  <1>1. Sized(a1, 2 + 4) /\ Appended(a, f, a1, 2, 4)
    BY Joined
  <1>2. Sized(a1, 6)
    BY <1>1
  <1>3. Sized(a2, 6 + 1) /\ Appended(a1, z, a2, 6, 1)
    BY <1>2, Joined
  <1>4. Sized(a2, 7)
    BY <1>3
  <1>5. Sized(m, 7 + 4) /\ Appended(a2, w, m, 7, 4)
    BY <1>4, Joined
  <1>6. Sized(m, 11)
    BY <1>5
  <1>7. \A j \in 1 .. 2 : a1[j] = a[j]
    BY <1>1 DEF Appended
  <1>8. \A j \in 1 .. 4 : a1[2 + j] = f[j]
    BY <1>1 DEF Appended
  <1>9. \A j \in 1 .. 6 : a2[j] = a1[j]
    BY <1>3 DEF Appended
  <1>10. \A j \in 1 .. 7 : m[j] = a2[j]
    BY <1>5 DEF Appended
  <1>11. \A j \in 1 .. 4 : m[7 + j] = w[j]
    BY <1>5 DEF Appended
  <1>12. m[1] = a[1] /\ m[2] = a[2] /\ \A j \in 1 .. 4 : m[2 + j] = f[j]
    BY <1>7, <1>8, <1>9, <1>10
  <1> QED  BY <1>6, <1>11, <1>12 DEF HeadOf

LEMMA SingleSized ==
    ASSUME NEW c, c \in Bytes
    PROVE  Sized(<<c>>, 1) /\ <<c>>[1] = c
  BY DEF Sized

LEMMA FourSized == ASSUME NEW n \in Ids PROVE Sized(Four(n), 4)
  BY FourIsTyped DEF Sized

LEMMA PairSized ==
    ASSUME NEW c, NEW d, c \in Bytes, d \in Bytes
    PROVE  Sized(<<c, d>>, 2) /\ <<c, d>>[1] = c /\ <<c, d>>[2] = d
  BY DEF Sized

NumbersOf(m, g, s, f, w) ==
    Sized(m, 11) /\ m[1] = g /\ m[2] = s /\ FourAt(m, 2) = f /\ FourAt(m, 7) = w

LEMMA HeadOfNumbers ==
    ASSUME NEW g, g \in Bytes, NEW s, s \in Bytes, NEW f \in Ids, NEW w \in Ids, NEW a1, NEW a2,
           Joins(<<g, s>>, Four(f), a1), Joins(a1, << 0 >>, a2), NEW m, Joins(a2, Four(w), m)
    PROVE  NumbersOf(m, g, s, f, w)
  <1>1. Sized(<<g, s>>, 2) /\ <<g, s>>[1] = g /\ <<g, s>>[2] = s
    BY PairSized
  <1>2. Sized(<<0>>, 1)
    BY SingleSized DEF Bytes
  <1>3. Sized(Four(f), 4) /\ Sized(Four(w), 4)
    BY FourSized
  <1>4. HeadOf(m, <<g, s>>, Four(f), Four(w))
    BY <1>1, <1>2, <1>3, HeadJoined
  <1>5. FourAt(m, 2) = f /\ FourAt(m, 7) = w
    BY <1>4, FourRead DEF HeadOf
  <1> QED  BY <1>1, <1>4, <1>5, Zenon DEF HeadOf, NumbersOf

LEMMA HeadEncodes ==
    ASSUME NEW l, l \in Look, NEW m,
           m = <<l.gender, l.skin>> \o Four(l.face) \o << 0 >> \o Four(l.worn[0])
    PROVE  Sized(m, 11) /\ HeadLaid(m, l)
  <1>1. l.gender \in Bytes /\ l.skin \in Bytes /\ l.face \in Ids /\ l.worn[0] \in Ids
    BY LookTyped
  <1>2. PICK a1, a2 : a1 = <<l.gender, l.skin>> \o Four(l.face) /\ a2 = a1 \o <<0>>
    OBVIOUS
  <1>3. /\ Joins(<<l.gender, l.skin>>, Four(l.face), a1) /\ Joins(a1, <<0>>, a2)
        /\ Joins(a2, Four(l.worn[0]), m)
    BY <1>2, Zenon DEF Joins
  <1>4. NumbersOf(m, l.gender, l.skin, l.face, l.worn[0])
    BY <1>1, <1>3, HeadOfNumbers, Zenon
  <1>5. ASSUME Sized(m, 11) PROVE Len(m) >= 11
    <2>1. Len(m) = 11
      BY <1>5, Zenon DEF Sized
    <2>2. \A k : k = 11 => k >= 11
      OBVIOUS
    <2> QED  BY <2>1, <2>2, Zenon
  <1> QED  BY <1>4, <1>5, Zenon DEF HeadLaid, NumbersOf

\* Five bytes that are appended: one, and a number.
LEMMA EntryJoined ==
    ASSUME NEW m, NEW p \in Nat, Sized(m, p), NEW c, c \in Bytes, NEW n \in Ids,
           NEW e, Joins(<<c>>, Four(n), e), NEW m2, Joins(m, e, m2)
    PROVE  /\ Sized(m2, p + 5) /\ GoesOn(m, m2) /\ m2[p + 1] = c
           /\ FourAt(m2, p + 1) = n
  <1>1. Sized(e, 1 + 4) /\ Appended(<<c>>, Four(n), e, 1, 4)
    BY SingleSized, FourSized, Joined
  <1>2. Sized(e, 5)
    BY <1>1
  <1>3. Sized(m2, p + 5) /\ Appended(m, e, m2, p, 5)
    BY <1>2, Joined
  <1>4. \A j \in 1 .. 4 : e[1 + j] = Four(n)[j]
    BY <1>1 DEF Appended
  <1>5. e[1] = c
    BY <1>1, SingleSized DEF Appended
  <1>6. \A j \in 1 .. 5 : m2[p + j] = e[j]
    BY <1>3 DEF Appended
  <1>7. \A j \in 1 .. 4 : (p + 1) + j = p + (1 + j) /\ 1 + j \in 1 .. 5
    OBVIOUS
  <1>8. \A j \in 1 .. 4 : m2[(p + 1) + j] = Four(n)[j]
    BY <1>4, <1>6, <1>7
  <1>9. FourAt(m2, p + 1) = n
    BY <1>8, FourRead
  <1>10. m2[p + 1] = c
    BY <1>5, <1>6
  <1>11. GoesOn(m, m2)
    BY <1>3 DEF GoesOn, Sized, Appended
  <1> QED  BY <1>3, <1>9, <1>10, <1>11

\* A listed slot is laid behind what there is.
LEMMA SlotEncodes ==
    ASSUME NEW l, l \in Look, NEW by, NEW b \in {0, 30}, NEW k \in 1 .. 30, NEW m, NEW m2,
           Sized(m, Place(l, by, b, k)), ListLaid(m, l, by, b, k), Listed(l, by, b + k),
           NEW e, Joins(<<k>>, Four(l.worn[b + k]), e), Joins(m, e, m2)
    PROVE  /\ Sized(m2, Place(l, by, b, k + 1)) /\ GoesOn(m, m2)
           /\ ListLaid(m2, l, by, b, k + 1)
  <1>1. b + k \in 0 .. 60 /\ k \in Bytes
    BY DEF Bytes
  <1>2. PICK w \in Ids : w = l.worn[b + k]
    BY <1>1, LookTyped
  <1>3. PICK p \in Nat : p = Place(l, by, b, k)
    BY PlaceTyped
  <1>4. Joins(<<k>>, Four(w), e) /\ Sized(m, p)
    BY <1>2, <1>3, Zenon
  <1>5. Sized(m2, p + 5) /\ GoesOn(m, m2) /\ m2[p + 1] = k /\ FourAt(m2, p + 1) = w
    BY <1>1, <1>4, EntryJoined
  <1>6. Len(m2) = p + 5 /\ m \in Seq(Bytes) /\ m2 \in Seq(Bytes)
    BY <1>4, <1>5 DEF Sized
  <1>7. SlotLaid(m2, l, by, b, k)
    BY <1>2, <1>3, <1>5, <1>6 DEF SlotLaid
  <1>8. ListLaid(m2, l, by, b, k)
    <2>1. k \in Nat
      OBVIOUS
    <2> QED  BY <1>5, <1>6, <2>1, ListStays, Zenon
  <1>9. ListLaid(m2, l, by, b, k + 1)
    <2>1. \A i \in 1 .. (k + 1) - 1 : i \in 1 .. k - 1 \/ i = k
      OBVIOUS
    <2> QED  BY <1>7, <1>8, <2>1 DEF ListLaid
  <1>10. Place(l, by, b, k + 1) = p + 5
    BY <1>3, PlaceNext
  <1> QED  BY <1>5, <1>9, <1>10

\* A slot that is not listed is laid by doing nothing.
LEMMA SlotSkipped ==
    ASSUME NEW l, NEW by, NEW b, NEW k \in 1 .. 30, NEW m, ~Listed(l, by, b + k),
           Sized(m, Place(l, by, b, k)), ListLaid(m, l, by, b, k)
    PROVE  Sized(m, Place(l, by, b, k + 1)) /\ ListLaid(m, l, by, b, k + 1)
  <1>1. Place(l, by, b, k + 1) = Place(l, by, b, k)
    <2>1. Place(l, by, b, k) \in Nat
      BY PlaceTyped
    <2> QED  BY <2>1, PlaceNext
  <1>2. \A i \in 1 .. (k + 1) - 1 : i \in 1 .. k - 1 \/ i = k
    OBVIOUS
  <1>3. ListLaid(m, l, by, b, k + 1)
    BY <1>2 DEF ListLaid
  <1> QED  BY <1>1, <1>3

\* The terminator completes a list.
LEMMA EndEncodes ==
    ASSUME NEW l, NEW by, NEW b, NEW m, NEW p \in Nat, p = Place(l, by, b, Behind(by)),
           Sized(m, p), ListLaid(m, l, by, b, Behind(by)), NEW m2, Joins(m, <<End>>, m2)
    PROVE  Sized(m2, p + 1) /\ GoesOn(m, m2) /\ BothLaid(m2, l, by, b)
  <1>1. Sized(<<End>>, 1) /\ <<End>>[1] = End
    BY SingleSized DEF Bytes, End
  <1>2. Sized(m2, p + 1) /\ Appended(m, <<End>>, m2, p, 1)
    BY <1>1, Joined
  <1>3. m2[p + 1] = End
    BY <1>1, <1>2 DEF Appended
  <1>4. GoesOn(m, m2)
    BY <1>2 DEF GoesOn, Sized, Appended
  <1>5. Behind(by) \in Nat /\ m \in Seq(Bytes) /\ m2 \in Seq(Bytes) /\ Len(m2) = p + 1
    BY <1>2 DEF Behind, LastSlot, Sized
  <1>6. ListLaid(m2, l, by, b, Behind(by))
    BY <1>4, <1>5, ListStays
  <1> QED  BY <1>2, <1>3, <1>4, <1>5, <1>6 DEF BothLaid, EndLaid

LEMMA NumberJoined ==
    ASSUME NEW m, NEW p \in Nat, Sized(m, p), NEW n \in Ids, NEW m2, Joins(m, Four(n), m2)
    PROVE  Sized(m2, p + 4) /\ GoesOn(m, m2) /\ FourAt(m2, p) = n
  <1>1. Sized(m2, p + 4) /\ Appended(m, Four(n), m2, p, 4)
    BY FourSized, Joined
  <1>2. FourAt(m2, p) = n
    BY <1>1, FourRead DEF Appended
  <1>3. GoesOn(m, m2)
    BY <1>1 DEF GoesOn, Sized, Appended
  <1> QED  BY <1>1, <1>2, <1>3

\* With the tail behind the second list the packet is whole.
LEMMA TailEncodes ==
    ASSUME NEW l, l \in Look, NEW by, NEW m, Sized(m, Place(l, by, 30, Behind(by))),
           HeadLaid(m, l), BothLaid(m, l, by, 0), ListLaid(m, l, by, 30, Behind(by)),
           NEW m1, NEW m2, NEW m3, Joins(m, <<End>>, m1), Joins(m1, Four(l.sticker), m2),
           Joins(m2, Four(l.worn[60]), m3)
    PROVE  Whole(m3, l, by) /\ m3 \in Seq(Bytes)
  <1>1. PICK p \in Nat : p = Place(l, by, 30, Behind(by))
    BY PlaceTyped DEF Behind, LastSlot
  <1>2. l.sticker \in Ids /\ l.worn[60] \in Ids
    BY LookTyped
  <1>3. Sized(m, p)
    BY <1>1
  <1>4. Sized(m1, p + 1) /\ GoesOn(m, m1) /\ BothLaid(m1, l, by, 30)
    BY <1>1, <1>3, EndEncodes
  <1>5. Sized(m2, p + 5) /\ GoesOn(m1, m2) /\ FourAt(m2, p + 1) = l.sticker
    <2>1. Sized(m2, (p + 1) + 4) /\ GoesOn(m1, m2) /\ FourAt(m2, p + 1) = l.sticker
      BY <1>2, <1>4, NumberJoined
    <2> QED  BY <2>1
  <1>6. Sized(m3, p + 9) /\ GoesOn(m2, m3) /\ FourAt(m3, p + 5) = l.worn[60]
    <2>1. Sized(m3, (p + 5) + 4) /\ GoesOn(m2, m3) /\ FourAt(m3, p + 5) = l.worn[60]
      BY <1>2, <1>5, NumberJoined
    <2> QED  BY <2>1
  <1>7. /\ m \in Seq(Bytes) /\ m1 \in Seq(Bytes) /\ m2 \in Seq(Bytes) /\ m3 \in Seq(Bytes)
        /\ Len(m2) = p + 5 /\ Len(m3) = p + 9
    BY <1>3, <1>4, <1>5, <1>6 DEF Sized
  <1>8. FourAt(m3, p + 1) = l.sticker
    BY <1>5, <1>6, <1>7, FourStays
  <1>9. HeadLaid(m3, l)
    BY <1>4, <1>5, <1>6, <1>7, HeadStays
  <1>10. BothLaid(m3, l, by, 0)
    BY <1>4, <1>5, <1>6, <1>7, BothStays
  <1>11. BothLaid(m3, l, by, 30)
    BY <1>4, <1>5, <1>6, <1>7, BothStays
  <1> QED  BY <1>1, <1>6, <1>7, <1>8, <1>9, <1>10, <1>11 DEF Whole

-----------------------------------------------------------------------------
(* The invariant *)

LEMMA LookInvInit == LookInit => LookInv
<1> SUFFICES ASSUME LookInit PROVE LookInv
  OBVIOUS
<1>1. look = Nothing /\ encoder = "binary" /\ phase = "idle" /\ base = 0 /\ round = 1
  BY DEF LookInit
<1>2. message = <<>> /\ lost = 0 /\ offset = 0 /\ memory = [m \in Memory |-> 0]
  BY DEF LookInit
<1>3. got = [gender |-> 0, skin |-> 0, face |-> 0, sticker |-> 0]
  BY DEF LookInit
<1>4. Nothing \in Look
  <2>1. 0 \in Ids
    BY DEF Ids
  <2>2. [m \in Memory |-> 0] \in [Memory -> Ids]
    BY <2>1
  <2> QED  BY <2>1, <2>2 DEF Nothing, Look
<1>5. message \in Seq(Bytes) /\ memory \in [Memory -> Int]
  BY <1>2
<1>6. got \in [gender : Int, skin : Int, face : Int, sticker : Int]
  BY <1>3
<1>7. LookTypeOK
  BY <1>1, <1>2, <1>4, <1>5, <1>6 DEF LookTypeOK
<1>8. Unread /\ EncodeInv /\ WholeInv /\ DecodeInv
  BY <1>1, <1>2 DEF Unread, EncodeInv, WholeInv, Reading, DecodeInv
<1> QED
  BY <1>7, <1>8 DEF LookInv

\* Encode leaves what Decode works on.
LEMMA NotYetRead ==
    ASSUME Unread, DecodeInv, phase \in {"idle", "encode"}, phase' \in {"encode", "sent"},
           UNCHANGED <<lost, offset, got, memory>>
    PROVE  Unread' /\ DecodeInv'
  BY DEF Unread, DecodeInv

LEMMA EncodeHeadStep ==
    ASSUME LookInv, NEW l \in Looks, NEW by, by \in {"extension", "binary"}, EncodeHead(l, by)
    PROVE  LookInv'
<1>1. phase = "idle" /\ phase' = "encode" /\ look' = l /\ encoder' = by
  BY DEF EncodeHead
<1>2. UNCHANGED <<base, round, lost, offset, got, memory>>
  BY DEF EncodeHead
<1>3. base = 0 /\ round = 1
  BY <1>1 DEF LookInv, Unread
<1>4. l \in Look
  BY LooksAssumption
<1>5. Sized(message', 11) /\ HeadLaid(message', l)
  BY <1>4, HeadEncodes DEF EncodeHead
<1>6. message' \in Seq(Bytes) /\ Len(message') = 11
  BY <1>5 DEF Sized
<1>7. LookTypeOK'
  BY <1>1, <1>2, <1>4, <1>6 DEF LookInv, LookTypeOK
<1>8. EncodeInv'
  <2>1. Place(l, by, 0, 1) = 11
    BY PlaceFirst
  <2>2. 1 <= Behind(by)
    BY DEF Behind, LastSlot
  <2>3. ListLaid(message', l, by, 0, 1)
    BY DEF ListLaid
  <2> QED  BY <1>1, <1>2, <1>3, <1>5, <1>6, <2>1, <2>2, <2>3 DEF EncodeInv
<1>9. WholeInv'
  BY <1>1 DEF WholeInv, Reading
<1>10. Unread' /\ DecodeInv'
  BY <1>1, <1>2, NotYetRead DEF LookInv
<1> QED
  BY <1>7, <1>8, <1>9, <1>10 DEF LookInv

LEMMA EncodeSlotStep == ASSUME LookInv, EncodeSlot PROVE LookInv'
<1>1. /\ phase = "encode" /\ phase' = "encode" /\ round <= LastSlot(encoder)
      /\ round' = round + 1
      /\ UNCHANGED <<look, encoder, base, lost, offset, got, memory>>
  BY DEF EncodeSlot
<1>2. /\ look \in Look /\ base \in {0, 30} /\ round \in 1 .. 31 /\ message \in Seq(Bytes)
  BY DEF LookInv, LookTypeOK
<1>3. /\ Len(message) = Place(look, encoder, base, round) /\ HeadLaid(message, look)
      /\ ListLaid(message, look, encoder, base, round)
      /\ base = 30 => BothLaid(message, look, encoder, 0)
  BY <1>1 DEF LookInv, EncodeInv
<1>4. round \in 1 .. 30 /\ round + 1 <= Behind(encoder)
  BY <1>1, <1>2 DEF Behind, LastSlot
<1>5. Sized(message, Place(look, encoder, base, round))
  BY <1>2, <1>3 DEF Sized
<1>6. /\ Sized(message', Place(look, encoder, base, round + 1)) /\ GoesOn(message, message')
      /\ ListLaid(message', look, encoder, base, round + 1)
  <2>1. CASE Listed(look, encoder, base + round)
    <3>1. PICK e : e = <<round>> \o Four(look.worn[base + round])
      OBVIOUS
    <3>2. message' = message \o e
      BY <2>1, <3>1, Zenon DEF EncodeSlot
    <3>3. Joins(<<round>>, Four(look.worn[base + round]), e) /\ Joins(message, e, message')
      BY <3>1, <3>2, Zenon DEF Joins
    <3> QED  BY <1>2, <1>3, <1>4, <1>5, <2>1, <3>3, SlotEncodes, Zenon
  <2>2. CASE ~Listed(look, encoder, base + round)
    <3>1. message' = message
      BY <2>2 DEF EncodeSlot
    <3>2. GoesOn(message, message)
      BY <1>2 DEF GoesOn
    <3> QED  BY <1>3, <1>4, <1>5, <2>2, <3>1, <3>2, SlotSkipped, Zenon
  <2> QED  BY <2>1, <2>2
<1>7. message' \in Seq(Bytes) /\ Len(message') = Place(look, encoder, base, round + 1)
  BY <1>6 DEF Sized
<1>8. HeadLaid(message', look)
  BY <1>2, <1>3, <1>6, <1>7, HeadStays
<1>9. base = 30 => BothLaid(message', look, encoder, 0)
  BY <1>2, <1>3, <1>6, <1>7, BothStays
<1>10. LookTypeOK'
  BY <1>1, <1>4, <1>7 DEF LookInv, LookTypeOK
<1>11. EncodeInv'
  BY <1>1, <1>4, <1>6, <1>7, <1>8, <1>9 DEF EncodeInv
<1>12. WholeInv'
  BY <1>1 DEF WholeInv, Reading
<1>13. Unread' /\ DecodeInv'
  BY <1>1, NotYetRead DEF LookInv
<1> QED
  BY <1>10, <1>11, <1>12, <1>13 DEF LookInv

LEMMA EncodeSecondStep == ASSUME LookInv, EncodeSecond PROVE LookInv'
<1>1. /\ phase = "encode" /\ phase' = "encode" /\ base = 0 /\ round > LastSlot(encoder)
      /\ base' = 30 /\ round' = 1 /\ message' = message \o <<End>>
      /\ UNCHANGED <<look, encoder, lost, offset, got, memory>>
  BY DEF EncodeSecond
<1>2. round \in 1 .. 31 /\ message \in Seq(Bytes) /\ round <= Behind(encoder)
  BY <1>1 DEF LookInv, LookTypeOK, EncodeInv
<1>3. round = Behind(encoder)
  BY <1>1, <1>2 DEF Behind, LastSlot
<1>4. /\ Len(message) = Place(look, encoder, 0, Behind(encoder)) /\ HeadLaid(message, look)
      /\ ListLaid(message, look, encoder, 0, Behind(encoder))
  BY <1>1, <1>3 DEF LookInv, EncodeInv
<1>5. PICK p \in Nat : p = Place(look, encoder, 0, Behind(encoder))
  BY PlaceTyped DEF Behind, LastSlot
<1>6. Sized(message, p) /\ Joins(message, <<End>>, message')
  BY <1>1, <1>2, <1>4, <1>5 DEF Sized, Joins
<1>7. /\ Sized(message', p + 1) /\ GoesOn(message, message')
      /\ BothLaid(message', look, encoder, 0)
  BY <1>4, <1>5, <1>6, EndEncodes, Zenon
<1>8. message' \in Seq(Bytes) /\ Len(message') = p + 1
  BY <1>7 DEF Sized
<1>9. HeadLaid(message', look)
  BY <1>2, <1>4, <1>7, <1>8, HeadStays
<1>10. LookTypeOK'
  BY <1>1, <1>8 DEF LookInv, LookTypeOK
<1>11. EncodeInv'
  <2>1. Place(look, encoder, 30, 1) = p + 1
    BY <1>5, PlaceFirst
  <2>2. 1 <= Behind(encoder)
    BY DEF Behind, LastSlot
  <2>3. ListLaid(message', look, encoder, 30, 1)
    BY DEF ListLaid
  <2> QED  BY <1>1, <1>7, <1>8, <1>9, <2>1, <2>2, <2>3 DEF EncodeInv
<1>12. WholeInv'
  BY <1>1 DEF WholeInv, Reading
<1>13. Unread' /\ DecodeInv'
  BY <1>1, NotYetRead DEF LookInv
<1> QED
  BY <1>10, <1>11, <1>12, <1>13 DEF LookInv

LEMMA EncodeTailStep == ASSUME LookInv, EncodeTail PROVE LookInv'
<1>1. /\ phase = "encode" /\ phase' = "sent" /\ base = 30 /\ round > LastSlot(encoder)
      /\ message' = message \o <<End>> \o Four(look.sticker) \o Four(look.worn[60])
      /\ UNCHANGED <<look, encoder, base, round, lost, offset, got, memory>>
  BY DEF EncodeTail
<1>2. /\ look \in Look /\ round \in 1 .. 31 /\ message \in Seq(Bytes)
      /\ round <= Behind(encoder)
  BY <1>1 DEF LookInv, LookTypeOK, EncodeInv
<1>3. round = Behind(encoder)
  BY <1>1, <1>2 DEF Behind, LastSlot
<1>4. /\ Len(message) = Place(look, encoder, 30, Behind(encoder)) /\ HeadLaid(message, look)
      /\ ListLaid(message, look, encoder, 30, Behind(encoder))
      /\ BothLaid(message, look, encoder, 0)
  BY <1>1, <1>3 DEF LookInv, EncodeInv
<1>5. Sized(message, Place(look, encoder, 30, Behind(encoder)))
  BY <1>2, <1>4 DEF Sized
<1>6. PICK m1, m2 : m1 = message \o <<End>> /\ m2 = m1 \o Four(look.sticker)
  OBVIOUS
<1>7. /\ Joins(message, <<End>>, m1) /\ Joins(m1, Four(look.sticker), m2)
      /\ Joins(m2, Four(look.worn[60]), message')
  BY <1>1, <1>6, Zenon DEF Joins
<1>8. Whole(message', look, encoder) /\ message' \in Seq(Bytes)
  BY <1>2, <1>4, <1>5, <1>7, TailEncodes, Zenon
<1>9. LookTypeOK'
  BY <1>1, <1>8 DEF LookInv, LookTypeOK
<1>10. EncodeInv' /\ WholeInv'
  BY <1>1, <1>8 DEF EncodeInv, WholeInv
<1>11. Unread' /\ DecodeInv'
  BY <1>1, NotYetRead DEF LookInv
<1> QED
  BY <1>9, <1>10, <1>11 DEF LookInv

\* A packet that loses nothing arrives as it was sent.
LEMMA ArriveStep == ASSUME LookInv, NEW n \in Losses, Arrive(n) PROVE LookInv'
<1>1. /\ phase = "sent" /\ phase' = "head" /\ lost' = n /\ n < Len(message)
      /\ message' = SubSeq(message, 1, Len(message) - n)
      /\ UNCHANGED <<look, encoder, base, round, offset, got, memory>>
  BY DEF Arrive
<1>2. n \in Nat /\ message \in Seq(Bytes) /\ offset = 0 /\ Whole(message, look, encoder)
  BY <1>1, LossesAssumption DEF LookInv, LookTypeOK, Unread, WholeInv
<1>3. PICK k \in Nat : k = Len(message) - n
  <2>1. PICK len \in Nat : len = Len(message)
    BY <1>2
  <2>2. n < len
    BY <1>1, <2>1
  <2>3. len - n \in Nat
    BY <1>2, <2>1, <2>2
  <2> QED  BY <2>1, <2>3
<1>4. /\ message' \in Seq(Bytes) /\ Len(message') = k
      /\ \A j \in 1 .. k : message'[j] = message[j]
  <2>1. 0 + k <= Len(message)
    BY <1>1, <1>2, <1>3
  <2>2. SubSeq(message, 0 + 1, 0 + k) = message'
    BY <1>1, <1>3
  <2>3. /\ message' \in Seq(Bytes) /\ Len(message') = k
        /\ \A j \in 1 .. k : message'[j] = message[0 + j]
    <3>1. PICK o \in Nat : o = 0
      OBVIOUS
    <3>2. SubSeq(message, o + 1, o + k) = message' /\ o + k <= Len(message)
      BY <2>1, <2>2, <3>1
    <3> QED  BY <1>2, <3>1, <3>2, PieceOf
  <2> QED  BY <2>3
<1>5. n = 0 => message' = message
  <2>1. n = 0 => Len(message') = Len(message)
    BY <1>2, <1>3, <1>4
  <2> QED  BY <1>2, <1>4, <2>1, SeqEqual
<1>6. LookTypeOK'
  BY <1>1, <1>2, <1>4 DEF LookInv, LookTypeOK
<1>7. Unread' /\ EncodeInv' /\ WholeInv'
  BY <1>1, <1>2, <1>5 DEF Unread, EncodeInv, WholeInv, Reading
<1>8. DecodeInv'
  BY <1>1, <1>2 DEF DecodeInv
<1> QED
  BY <1>6, <1>7, <1>8 DEF LookInv

-----------------------------------------------------------------------------
(* The decoder *)

LEMMA ByteTyped ==
    ASSUME NEW m \in Seq(Bytes), NEW k \in Nat, k + 1 <= Len(m)
    PROVE  m[k + 1] \in Bytes
  OBVIOUS

LEMMA SumTyped ==
    ASSUME NEW x \in Nat, NEW y \in Nat, NEW z \in Nat, NEW u \in Nat
    PROVE  x + 256 * y + 65536 * z + 16777216 * (u % 128) \in Int
  <1>1. PICK v \in Nat : v = u % 128
    BY SMT
  <1>2. x + 256 * y + 65536 * z + 16777216 * v \in Int
    BY SMT
  <1> QED  BY <1>1, <1>2, SMT

LEMMA FourTyped ==
    ASSUME NEW m \in Seq(Bytes), NEW k \in Nat, k + 4 <= Len(m)
    PROVE  FourAt(m, k) \in Int
  <1>1. m[k + 1] \in Bytes /\ m[k + 2] \in Bytes /\ m[k + 3] \in Bytes /\ m[k + 4] \in Bytes
    OBVIOUS
  <1>2. Bytes \subseteq Nat
    BY DEF Bytes
  <1>4. m[k + 1] \in Nat /\ m[k + 2] \in Nat /\ m[k + 3] \in Nat /\ m[k + 4] \in Nat
    BY <1>1, <1>2, Zenon
  <1>5. PICK x \in Nat, y \in Nat, z \in Nat, u \in Nat :
            x = m[k + 1] /\ y = m[k + 2] /\ z = m[k + 3] /\ u = m[k + 4]
    BY <1>4, Zenon
  <1>6. FourAt(m, k) = x + 256 * y + 65536 * z + 16777216 * (u % 128)
    BY <1>5, SMT DEF FourAt
  <1> QED  BY <1>6, SumTyped, SMT

\* A slot that is not listed holds nothing that fits.
LEMMA NothingFits ==
    ASSUME NEW l, NEW by, NEW b, NEW i, ~Listed(l, by, b + i)
    PROVE  Fitting(l.worn[b + i], i) = 0
  BY Zenon DEF Listed, Fitting

\* What is stored up to slot s is stored up to the next slot that is listed.
LEMMA StoredSkips ==
    ASSUME NEW l, NEW by, NEW b, NEW mem, NEW s \in Nat, NEW t \in Nat, s <= t,
           Stored(mem, l, b, s), \A i \in s .. t - 1 : ~Listed(l, by, b + i)
    PROVE  Stored(mem, l, b, t)
  <1> SUFFICES ASSUME NEW i \in 1 .. 29
               PROVE  mem[b + i] = IF i < t THEN Fitting(l.worn[b + i], i) ELSE 0
    BY DEF Stored
  <1>1. mem[b + i] = IF i < s THEN Fitting(l.worn[b + i], i) ELSE 0
    BY DEF Stored
  <1>2. CASE i \in s .. t - 1
    <2>1. Fitting(l.worn[b + i], i) = 0
      BY <1>2, NothingFits
    <2> QED  BY <1>1, <2>1
  <1>3. CASE i \notin s .. t - 1
    <2>1. i < s <=> i < t
      BY <1>3
    <2> QED  BY <1>1, <2>1
  <1> QED  BY <1>2, <1>3

\* From slot s on the reader meets the next slot that is listed, or the terminator.
MeetsSlot(l, by, b, m, mem, s, t) ==
    /\ SlotLaid(m, l, by, b, t)
    /\ Place(l, by, b, s) = Place(l, by, b, t)
    /\ Place(l, by, b, t + 1) = Place(l, by, b, t) + 5
    /\ Stored(mem, l, b, t)
    /\ by = "extension" => t = s
MeetsEnd(l, by, b, mem, s) ==
    /\ by # "extension"
    /\ Place(l, by, b, s) = Place(l, by, b, 30)
    /\ Stored(mem, l, b, 30)

LEMMA NextSlot ==
    ASSUME NEW l, NEW by, NEW b, NEW m, NEW mem, BothLaid(m, l, by, b), NEW s \in 1 .. 30,
           Stored(mem, l, b, s)
    PROVE  (\E t \in s .. LastSlot(by) : MeetsSlot(l, by, b, m, mem, s, t))
           \/ MeetsEnd(l, by, b, mem, s)
  <1>1. LastSlot(by) \in 29 .. 30 /\ Behind(by) = LastSlot(by) + 1
    BY DEF LastSlot, Behind
  <1> DEFINE T == {t \in s .. LastSlot(by) : Listed(l, by, b + t)}
  <1>2. CASE T # {}
    <2>1. T \in SUBSET Nat
      BY <1>1
    <2>2. PICK t \in T : \A u \in T : t <= u
      BY <1>2, <2>1, LeastExists
    <2>3. t \in s .. LastSlot(by) /\ t \in 1 .. 30 /\ Listed(l, by, b + t)
      BY <1>1, <2>2
    <2>4. ASSUME NEW i \in s .. t - 1 PROVE ~Listed(l, by, b + i)
      <3>1. i \in s .. LastSlot(by) /\ i < t
        BY <1>1, <2>3
      <3> QED  BY <2>2, <2>3, <3>1
    <2>5. SlotLaid(m, l, by, b, t)
      <3>1. t \in 1 .. Behind(by) - 1
        BY <1>1, <2>3
      <3> QED  BY <2>3, <3>1 DEF BothLaid, ListLaid
    <2>6. Place(l, by, b, s) = Place(l, by, b, t)
      BY <2>3, <2>4, PlaceSkips
    <2>7. Place(l, by, b, t + 1) = Place(l, by, b, t) + 5
      BY <2>3, PlaceNext
    <2>8. Stored(mem, l, b, t)
      <3>1. s \in Nat /\ t \in Nat /\ s <= t
        BY <2>3
      <3> QED  BY <2>4, <3>1, StoredSkips
    <2>9. ASSUME by = "extension" PROVE t = s
      <3>1. Listed(l, by, b + s)
        BY <2>9 DEF Listed
      <3>2. s \in s .. LastSlot(by)
        BY <1>1, <2>9 DEF LastSlot
      <3>3. t <= s
        BY <2>2, <3>1, <3>2
      <3> QED  BY <2>3, <3>3
    <2> QED  BY <2>3, <2>5, <2>6, <2>7, <2>8, <2>9 DEF MeetsSlot
  <1>3. CASE T = {}
    <2>1. \A i \in s .. LastSlot(by) : ~Listed(l, by, b + i)
      BY <1>3
    <2>2. by # "extension"
      BY <1>1, <2>1 DEF Listed, LastSlot
    <2>3. LastSlot(by) = 29
      BY <2>2 DEF LastSlot
    <2>4. \A i \in s .. 30 - 1 : ~Listed(l, by, b + i)
      BY <2>1, <2>3
    <2>5. Place(l, by, b, s) = Place(l, by, b, 30)
      BY <2>4, PlaceSkips
    <2>6. Stored(mem, l, b, 30)
      <3>1. s \in Nat /\ 30 \in Nat /\ s <= 30
        OBVIOUS
      <3>2. PICK t \in Nat : t = 30
        BY <3>1
      <3> QED  BY <2>4, <3>1, <3>2, StoredSkips
    <2> QED  BY <2>2, <2>5, <2>6 DEF MeetsEnd
  <1> QED  BY <1>2, <1>3

\* An entry for slot t of the list at b is stored.
Stores(mem2, mem, b, t, item) ==
    mem2 = IF t <= 29 /\ is_correct_bodypart(item, t) THEN [mem EXCEPT ![b + t] = item] ELSE mem

\* What then holds: the list up to t, and the rest as it was.
StoredOn(mem2, mem, l, b, t) ==
    /\ Stored(mem2, l, b, t + 1)
    /\ mem2[0] = mem[0]
    /\ \A c \in {0, 30} : c # b => \A i \in 1 .. 29 : mem2[c + i] = mem[c + i]

LEMMA EntryStored ==
    ASSUME NEW mem \in [Memory -> Int], NEW b \in {0, 30}, NEW t \in 1 .. 30, NEW l,
           NEW mem2, Stores(mem2, mem, b, t, l.worn[b + t]), Stored(mem, l, b, t)
    PROVE  StoredOn(mem2, mem, l, b, t)
  <1>1. b + t \in Memory /\ b + t # 0
    BY DEF Memory
  <1>2. \A j \in Memory : j # b + t => mem2[j] = mem[j]
    BY DEF Stores
  <1>3. t <= 29 => mem2[b + t] = Fitting(l.worn[b + t], t)
    <2>1. CASE t <= 29 /\ is_correct_bodypart(l.worn[b + t], t)
      BY <1>1, <2>1 DEF Stores, Fitting
    <2>2. CASE t <= 29 /\ ~is_correct_bodypart(l.worn[b + t], t)
      <3>1. mem2 = mem
        BY <2>2, Zenon DEF Stores
      <3>2. mem[b + t] = 0
        BY <2>2 DEF Stored
      <3>3. Fitting(l.worn[b + t], t) = 0
        BY <2>2, Zenon DEF Fitting
      <3> QED  BY <3>1, <3>2, <3>3
    <2> QED  BY <2>1, <2>2
  <1>4. Stored(mem2, l, b, t + 1)
    <2> SUFFICES ASSUME NEW i \in 1 .. 29
                 PROVE  mem2[b + i] = IF i < t + 1 THEN Fitting(l.worn[b + i], i) ELSE 0
      BY DEF Stored
    <2>1. CASE i = t
      BY <1>3, <2>1
    <2>2. CASE i # t
      <3>1. b + i \in Memory /\ b + i # b + t
        BY <2>2 DEF Memory
      <3>2. mem2[b + i] = mem[b + i]
        BY <1>2, <3>1
      <3>3. mem[b + i] = IF i < t THEN Fitting(l.worn[b + i], i) ELSE 0
        BY DEF Stored
      <3>4. i < t <=> i < t + 1
        BY <2>2
      <3> QED  BY <3>2, <3>3, <3>4
    <2> QED  BY <2>1, <2>2
  <1>5. ASSUME NEW c \in {0, 30}, c # b, NEW i \in 1 .. 29, t <= 29
        PROVE  mem2[c + i] = mem[c + i]
    <2>1. c + i \in Memory /\ c + i # b + t
      BY <1>5 DEF Memory
    <2> QED  BY <1>2, <2>1
  <1>6. t = 30 => mem2 = mem
    BY DEF Stores
  <1>7. mem2[0] = mem[0]
    BY <1>1, <1>2 DEF Memory
  <1>8. t <= 29 \/ t = 30
    OBVIOUS
  <1> QED  BY <1>4, <1>5, <1>6, <1>7, <1>8 DEF StoredOn

\* The steps of Decode leave what was sent.
LEMMA DecodeKeeps ==
    ASSUME LookInv, UNCHANGED <<look, encoder, message, lost>>, Reading,
           phase' \in {"decode", "tail", "done", "thrown"}
    PROVE  Unread' /\ EncodeInv' /\ WholeInv'
<1>1. lost = 0 => Whole(message, look, encoder)
  BY DEF LookInv, WholeInv
<1> QED
  BY <1>1 DEF Unread, EncodeInv, WholeInv, Reading

LEMMA DecodeHeadStep == ASSUME LookInv, DecodeHead PROVE LookInv'
<1>1. /\ phase = "head" /\ phase' = "decode" /\ Left >= 11 /\ offset' = 11
      /\ base' = 0 /\ round' = 1
      /\ UNCHANGED <<look, encoder, message, lost>>
  BY DEF DecodeHead
<1>2. memory' = [m \in Memory |-> IF m = 0 THEN FourAt(message, 7) ELSE 0]
  BY DEF DecodeHead
<1>3. got' = [gender |-> message[1], skin |-> message[2], face |-> FourAt(message, 2),
              sticker |-> 0]
  BY DEF DecodeHead
<1>4. message \in Seq(Bytes) /\ offset = 0 /\ look \in Look
  BY <1>1 DEF LookInv, LookTypeOK, Unread
<1>5. Len(message) \in Nat /\ Len(message) >= 11
  BY <1>1, <1>4 DEF Left
<1>6. message[1] \in Int /\ message[2] \in Int
  <2>1. message[1] \in Bytes /\ message[2] \in Bytes
    BY <1>4, <1>5
  <2> QED  BY <2>1 DEF Bytes
<1>7. FourAt(message, 2) \in Int /\ FourAt(message, 7) \in Int
  BY <1>4, <1>5, FourTyped
<1>8. memory' \in [Memory -> Int]
  BY <1>2, <1>7
<1>9. got' \in [gender : Int, skin : Int, face : Int, sticker : Int]
  BY <1>3, <1>6, <1>7
<1>10. LookTypeOK'
  BY <1>1, <1>8, <1>9 DEF LookInv, LookTypeOK
<1>11. ASSUME lost = 0 PROVE HeadRead' /\ AtSlot' /\ Stored(memory', look, 30, 1)
  <2>1. HeadLaid(message, look)
    BY <1>1, <1>11 DEF LookInv, WholeInv, Reading, Whole
  <2>2. HeadRead'
    BY <1>1, <1>2, <1>3, <2>1 DEF HeadRead, HeadLaid, Memory
  <2>3. \A i \in 1 .. 59 : memory'[i] = 0
    BY <1>2 DEF Memory
  <2>4. Stored(memory', look, 0, 1) /\ Stored(memory', look, 30, 1)
    BY <2>3 DEF Stored
  <2>5. offset' = Place(look, encoder, 0, 1)
    BY <1>1, PlaceFirst
  <2>6. 1 \in 1 .. 30
    OBVIOUS
  <2>7. AtSlot'
    BY <1>1, <2>4, <2>5, <2>6 DEF AtSlot
  <2> QED  BY <2>2, <2>4, <2>7
<1>12. DecodeInv'
  BY <1>1, <1>11 DEF DecodeInv
<1>13. Unread' /\ EncodeInv' /\ WholeInv'
  BY <1>1, DecodeKeeps DEF Reading
<1> QED
  BY <1>10, <1>12, <1>13 DEF LookInv

\* What a round of a loop meets in a packet that lost nothing.
FacesEntry(t) ==
    /\ base = 0 \/ encoder = "binary"
    /\ t \in round .. LastSlot(encoder)
    /\ encoder = "extension" => t = round
    /\ offset + 5 <= Len(message)
    /\ Pos = t
    /\ Item = look.worn[base + t]
    /\ offset + 5 = Place(look, encoder, base, t + 1)
    /\ Stored(memory, look, base, t)

FacesEnd ==
    /\ offset + 1 <= Len(message)
    /\ Pos = End
    /\ encoder = "binary" =>
           offset = Place(look, encoder, base, 30) /\ Stored(memory, look, base, 30)
    /\ encoder = "extension" => base = 30

LEMMA RoundFaces ==
    ASSUME LookInv, lost = 0, phase = "decode"
    PROVE  (\E t \in 1 .. 30 : FacesEntry(t)) \/ FacesEnd
<1>1. /\ Whole(message, look, encoder) /\ base \in {0, 30} /\ round \in 1 .. 31
      /\ encoder = "extension" \/ encoder = "binary"
  BY DEF LookInv, LookTypeOK, WholeInv, Reading
<1>2. BothLaid(message, look, encoder, base)
  BY <1>1 DEF Whole
<1>3. LastSlot(encoder) \in 29 .. 30 /\ (encoder = "binary" => Behind(encoder) = 30)
      /\ (encoder = "extension" => Behind(encoder) = 31)
  BY DEF LastSlot, Behind
<1>4. CASE base = 0 \/ encoder = "binary"
  <2>1. AtSlot
    BY <1>1, <1>4 DEF LookInv, DecodeInv
  <2>2. PICK s \in round .. 30 :
            /\ offset = Place(look, encoder, base, s) /\ Stored(memory, look, base, s)
            /\ encoder = "extension" => s = round
    BY <2>1 DEF AtSlot
  <2>3. s \in 1 .. 30
    BY <1>1, <2>2
  <2>4. CASE \E t \in s .. LastSlot(encoder) :
                MeetsSlot(look, encoder, base, message, memory, s, t)
    <3>1. PICK t \in s .. LastSlot(encoder) :
              /\ SlotLaid(message, look, encoder, base, t)
              /\ Place(look, encoder, base, s) = Place(look, encoder, base, t)
              /\ Place(look, encoder, base, t + 1) = Place(look, encoder, base, t) + 5
              /\ Stored(memory, look, base, t)
              /\ encoder = "extension" => t = s
      BY <2>4, Zenon DEF MeetsSlot
    <3>2. t \in 1 .. 30 /\ t \in round .. LastSlot(encoder)
      BY <1>1, <1>3, <2>2, <2>3, <3>1
    <3>3. /\ offset = Place(look, encoder, base, t)
          /\ offset + 5 = Place(look, encoder, base, t + 1)
      BY <2>2, <3>1
    <3>4. offset + 5 <= Len(message) /\ Pos = t /\ Item = look.worn[base + t]
      BY <3>1, <3>3, Zenon DEF SlotLaid, Pos, Item
    <3>5. encoder = "extension" => t = round
      BY <2>2, <3>1
    <3> QED  BY <1>4, <3>1, <3>2, <3>3, <3>4, <3>5 DEF FacesEntry
  <2>5. CASE MeetsEnd(look, encoder, base, memory, s)
    <3>1. offset = Place(look, encoder, base, 30) /\ encoder = "binary" /\ Behind(encoder) = 30
      BY <1>1, <1>3, <2>2, <2>5 DEF MeetsEnd
    <3>2. offset + 1 <= Len(message) /\ Pos = End
      BY <1>2, <3>1, Zenon DEF BothLaid, EndLaid, Pos
    <3> QED  BY <2>5, <3>1, <3>2 DEF MeetsEnd, FacesEnd
  <2> QED  BY <1>2, <2>2, <2>3, <2>4, <2>5, NextSlot
<1>5. CASE base = 30 /\ encoder = "extension"
  <2>1. AtFalseEnd /\ BothLaid(message, look, encoder, 0)
    BY <1>1, <1>5 DEF LookInv, DecodeInv, Whole
  <2>2. offset = Place(look, encoder, 0, 31)
    BY <2>1 DEF AtFalseEnd
  <2>3. offset + 1 <= Len(message) /\ Pos = End
    BY <1>3, <1>5, <2>1, <2>2, Zenon DEF BothLaid, EndLaid, Pos
  <2> QED  BY <1>5, <2>3 DEF FacesEnd
<1> QED
  BY <1>1, <1>4, <1>5

LEMMA DecodeSlotStep == ASSUME LookInv, DecodeSlot PROVE LookInv'
<1>1. /\ phase = "decode" /\ Left >= 5 /\ Pos # End /\ offset' = offset + 5
      /\ UNCHANGED <<look, encoder, message, lost, got>>
  BY DEF DecodeSlot
<1>2. \/ round < 30 /\ round' = round + 1 /\ base' = base /\ phase' = "decode"
      \/ /\ round = 30 /\ base' = 30 /\ round' = 1
         /\ phase' = IF base = 0 THEN "decode" ELSE "tail"
  BY <1>1 DEF DecodeSlot, LoopLeft, Rounds
<1>3. PICK item : item = Item
  OBVIOUS
<1>4. PICK t : t = Pos
  OBVIOUS
<1>5. Stores(memory', memory, base, t, item)
  BY <1>3, <1>4, Zenon DEF DecodeSlot, Stores
<1>6. /\ message \in Seq(Bytes) /\ offset \in Nat /\ base \in {0, 30} /\ round \in 1 .. 31
      /\ memory \in [Memory -> Int]
  BY DEF LookInv, LookTypeOK
<1>7. item \in Int
  <2>1. offset + 1 \in Nat /\ (offset + 1) + 4 <= Len(message)
    BY <1>1, <1>6 DEF Left
  <2> QED  BY <1>3, <1>6, <2>1, FourTyped DEF Item
<1>8. memory' \in [Memory -> Int]
  BY <1>5, <1>6, <1>7 DEF Stores
<1>9. LookTypeOK'
  <2>1. round' \in 1 .. 31 /\ base' \in {0, 30}
    <3>1. base \in {0, 30} /\ round \in 1 .. 31
      BY <1>6
    <3> QED  BY <1>2, <3>1
  <2>3. offset' \in Nat
    BY <1>1, <1>6
  <2>2. phase' \in {"decode", "tail"}
    BY <1>2
  <2> QED  BY <1>1, <1>8, <2>1, <2>2, <2>3 DEF LookInv, LookTypeOK
<1>10. Unread' /\ EncodeInv' /\ WholeInv'
  <2>1. phase' \in {"decode", "tail", "done", "thrown"}
    BY <1>2
  <2> QED  BY <1>1, <2>1, DecodeKeeps DEF Reading
<1>11. ASSUME lost = 0 PROVE DecodeInv'
  <2>1. ~FacesEnd
    BY <1>1 DEF FacesEnd
  <2>2. FacesEntry(t) /\ t \in 1 .. 30
    <3>1. PICK u \in 1 .. 30 : FacesEntry(u)
      BY <1>1, <1>11, <2>1, RoundFaces
    <3>2. u = t
      BY <1>4, <3>1 DEF FacesEntry
    <3> QED  BY <3>1, <3>2
  <2>3. /\ base = 0 \/ encoder = "binary"
        /\ t \in round .. LastSlot(encoder) /\ (encoder = "extension" => t = round)
        /\ item = look.worn[base + t]
        /\ offset' = Place(look, encoder, base, t + 1) /\ Stored(memory, look, base, t)
    BY <1>1, <1>3, <2>2 DEF FacesEntry
  <2>4. Stores(memory', memory, base, t, look.worn[base + t])
    BY <1>5, <2>3
  <2>5. /\ Stored(memory', look, base, t + 1) /\ memory'[0] = memory[0]
        /\ \A c \in {0, 30} : c # base => \A i \in 1 .. 29 : memory'[c + i] = memory[c + i]
    <3>1. StoredOn(memory', memory, look, base, t)
      BY <1>6, <2>2, <2>3, <2>4, EntryStored
    <3> QED  BY <3>1, Zenon DEF StoredOn
  <2>6. \A c \in {0, 30} : c # base =>
            \A s : Stored(memory, look, c, s) => Stored(memory', look, c, s)
    BY <2>5 DEF Stored
  <2>7. HeadRead'
    BY <1>1, <1>11, <2>5 DEF LookInv, DecodeInv, HeadRead
  <2>8. /\ base = 0 => Stored(memory', look, 30, 1)
        /\ base = 30 => Stored(memory', look, 0, 30)
    BY <1>1, <1>11, <2>6 DEF LookInv, DecodeInv
  <2>9. /\ encoder = "binary" => t <= 29
        /\ encoder = "extension" \/ encoder = "binary"
    <3>1. encoder = "extension" \/ encoder = "binary"
      BY DEF LookInv, LookTypeOK
    <3>2. encoder = "binary" => LastSlot(encoder) = 29
      BY DEF LastSlot
    <3> QED  BY <2>2, <2>3, <3>1, <3>2
  <2>10. CASE round < 30
    <3>1. round' = round + 1 /\ base' = base /\ phase' = "decode"
      BY <1>2, <2>10
    <3>2. t + 1 \in round' .. 30
      <4>1. round \in Int /\ t \in Int
        BY <1>6, <2>2
      <4>2. t <= 29
        <5>1. CASE encoder = "extension"
          BY <2>3, <2>10, <4>1, <5>1
        <5>2. CASE encoder = "binary"
          BY <2>9, <5>2
        <5> QED  BY <2>9, <5>1, <5>2
      <4>3. round <= t
        BY <2>3, <4>1
      <4>4. PICK r \in Int : r = round' /\ r = round + 1
        BY <3>1, <4>1
      <4>5. t + 1 \in r .. 30
        BY <4>1, <4>2, <4>3, <4>4
      <4> QED  BY <4>4, <4>5
    <3>3. encoder = "extension" => t + 1 = round'
      BY <2>3, <3>1
    <3>4. AtSlot'
      BY <1>1, <2>3, <2>5, <3>1, <3>2, <3>3 DEF AtSlot
    <3> QED  BY <1>1, <2>3, <2>7, <2>8, <3>1, <3>4 DEF DecodeInv
  <2>11. CASE round = 30
    <3>1. encoder = "extension" /\ t = 30 /\ base = 0
      BY <2>2, <2>3, <2>9, <2>11
    <3>2. base' = 30 /\ round' = 1 /\ phase' = "decode"
      BY <1>2, <2>11, <3>1
    <3>3. offset' = Place(look, encoder, 0, 31) /\ Stored(memory', look, 0, 31)
      BY <2>3, <2>5, <3>1
    <3>4. Stored(memory', look, 0, 30)
      BY <3>3 DEF Stored
    <3>5. AtFalseEnd'
      BY <1>1, <2>8, <3>1, <3>3 DEF AtFalseEnd
    <3> QED  BY <1>1, <2>7, <3>1, <3>2, <3>4, <3>5 DEF DecodeInv
  <2> QED  BY <1>2, <2>10, <2>11
<1>12. lost # 0 => DecodeInv'
  BY <1>1 DEF DecodeInv
<1> QED
  BY <1>9, <1>10, <1>11, <1>12 DEF LookInv

LEMMA DecodeEndStep == ASSUME LookInv, DecodeEnd PROVE LookInv'
<1>1. /\ phase = "decode" /\ Pos = End /\ offset' = offset + 1
      /\ base' = 30 /\ round' = 1 /\ phase' = (IF base = 0 THEN "decode" ELSE "tail")
      /\ UNCHANGED <<look, encoder, message, lost, got, memory>>
  BY DEF DecodeEnd, LoopLeft
<1>2. /\ offset \in Nat /\ base \in {0, 30} /\ round \in 1 .. 31
      /\ encoder = "extension" \/ encoder = "binary"
  BY DEF LookInv, LookTypeOK
<1>3. LookTypeOK'
  BY <1>1, <1>2 DEF LookInv, LookTypeOK
<1>4. Unread' /\ EncodeInv' /\ WholeInv'
  BY <1>1, DecodeKeeps DEF Reading
<1>5. ASSUME lost = 0 PROVE DecodeInv'
  <2>1. ~\E t \in 1 .. 30 : FacesEntry(t)
    BY <1>1 DEF FacesEntry, End
  <2>2. FacesEnd
    BY <1>1, <1>5, <2>1, RoundFaces
  <2>3. HeadRead'
    BY <1>1, <1>5 DEF LookInv, DecodeInv, HeadRead
  <2>4. CASE base = 0
    <3>1. encoder = "binary" /\ offset = Place(look, encoder, 0, 30) /\ Stored(memory, look, 0, 30)
      BY <1>2, <2>2, <2>4 DEF FacesEnd
    <3>2. Stored(memory, look, 30, 1)
      BY <1>1, <1>5, <2>4 DEF LookInv, DecodeInv
    <3>3. offset' = Place(look, encoder, 30, 1)
      <4>1. Behind(encoder) = 30
        BY <3>1 DEF Behind, LastSlot
      <4> QED  BY <1>1, <3>1, <4>1, PlaceFirst
    <3>4. 1 \in 1 .. 30
      OBVIOUS
    <3>5. AtSlot'
      BY <1>1, <3>1, <3>2, <3>3, <3>4 DEF AtSlot
    <3> QED  BY <1>1, <2>3, <2>4, <3>1, <3>5 DEF DecodeInv
  <2>5. CASE base = 30
    <3>1. Stored(memory, look, 0, 30) /\ phase' = "tail"
      BY <1>1, <1>5, <2>5 DEF LookInv, DecodeInv
    <3>2. encoder = "binary" =>
              offset = Place(look, encoder, 30, 30) /\ Stored(memory, look, 30, 30)
      BY <2>2, <2>5 DEF FacesEnd
    <3>3. encoder = "extension" =>
              offset = Place(look, encoder, 0, 31) /\ Stored(memory, look, 30, 1)
      BY <1>1, <1>5, <2>5 DEF LookInv, DecodeInv, AtFalseEnd
    <3> QED  BY <1>1, <2>3, <3>1, <3>2, <3>3 DEF DecodeInv
  <2> QED  BY <1>2, <2>4, <2>5
<1>6. lost # 0 => DecodeInv'
  BY <1>1 DEF DecodeInv
<1> QED
  BY <1>3, <1>4, <1>5, <1>6 DEF LookInv

\* Behind the lists, a packet that lost nothing has the tail, or the list and the tail.
TailAhead ==
    /\ Left >= 8
    /\ encoder = "binary" =>
           /\ Left = 8
           /\ FourAt(message, offset) = look.sticker
           /\ FourAt(message, offset + 4) = look.worn[60]
    /\ encoder = "extension" => Left = 8 + 30 * 5 + 1

LEMMA TailIsAhead == ASSUME LookInv, lost = 0, phase = "tail" PROVE TailAhead
<1>1. Whole(message, look, encoder) /\ (encoder = "extension" \/ encoder = "binary")
  BY DEF LookInv, LookTypeOK, WholeInv, Reading
<1>2. CASE encoder = "binary"
  <2>1. PICK p \in Nat : p = Place(look, encoder, 30, 30)
    BY PlaceTyped
  <2>2. offset = p + 1
    BY <1>2, <2>1 DEF LookInv, DecodeInv
  <2>3. Behind(encoder) = 30
    BY <1>2 DEF Behind, LastSlot
  <2>4. /\ Len(message) = p + 9 /\ FourAt(message, p + 1) = look.sticker
        /\ FourAt(message, p + 5) = look.worn[60]
    BY <1>1, <2>1, <2>3 DEF Whole
  <2>5. Left = 8 /\ offset + 4 = p + 5
    BY <2>2, <2>4 DEF Left
  <2> QED  BY <1>2, <2>2, <2>4, <2>5 DEF TailAhead
<1>3. CASE encoder = "extension"
  <2>1. PICK p \in Nat : p = Place(look, encoder, 0, 31)
    BY PlaceTyped
  <2>2. offset = p + 1
    BY <1>3, <2>1 DEF LookInv, DecodeInv
  <2>3. Behind(encoder) = 31
    BY <1>3 DEF Behind, LastSlot
  <2>4. Place(look, encoder, 30, 1) = p + 1
    BY <2>1, <2>3, PlaceFirst
  <2>5. Place(look, encoder, 30, 31) = p + 1 + 5 * 30
    <3>1. 31 \in Nat \ {0} /\ 31 - 1 = 30
      OBVIOUS
    <3>2. Place(look, "extension", 30, 31) = Place(look, "extension", 30, 1) + 5 * (31 - 1)
      BY <3>1, PlaceOfAll
    <3> QED  BY <1>3, <2>4, <3>2
  <2>6. Len(message) = (p + 1 + 5 * 30) + 9
    BY <1>1, <2>3, <2>5 DEF Whole
  <2>7. Left = 8 + 30 * 5 + 1
    BY <2>2, <2>6 DEF Left
  <2>8. Left >= 8
    BY <2>7
  <2> QED  BY <1>3, <2>7, <2>8 DEF TailAhead
<1> QED
  BY <1>1, <1>2, <1>3

LEMMA DecodeTailStep == ASSUME LookInv, DecodeTail PROVE LookInv'
<1>1. /\ phase = "tail" /\ phase' = "done" /\ Left >= 8 /\ offset' = offset + 8
      /\ UNCHANGED <<look, encoder, base, round, message, lost>>
  BY DEF DecodeTail
<1>2. PICK x, y : x = FourAt(message, offset) /\ y = FourAt(message, offset + 4)
  OBVIOUS
<1>3. got' = [got EXCEPT !.sticker = x] /\ memory' = [memory EXCEPT ![60] = y]
  BY <1>2 DEF DecodeTail
<1>4. /\ message \in Seq(Bytes) /\ offset \in Nat /\ memory \in [Memory -> Int]
      /\ got \in [gender : Int, skin : Int, face : Int, sticker : Int]
      /\ encoder = "extension" \/ encoder = "binary"
  BY DEF LookInv, LookTypeOK
<1>5. x \in Int /\ y \in Int
  <2>1. offset + 4 \in Nat /\ offset + 4 <= Len(message) /\ (offset + 4) + 4 <= Len(message)
    BY <1>1, <1>4 DEF Left
  <2> QED  BY <1>2, <1>4, <2>1, FourTyped
<1>6. memory' \in [Memory -> Int]
  BY <1>3, <1>4, <1>5
<1>7. /\ got' \in [gender : Int, skin : Int, face : Int, sticker : Int]
      /\ got' = [gender |-> got.gender, skin |-> got.skin, face |-> got.face, sticker |-> x]
  BY <1>3, <1>4, <1>5
<1>8. LookTypeOK'
  <2>1. offset' \in Nat
    BY <1>1, <1>4
  <2> QED  BY <1>1, <1>6, <1>7, <2>1 DEF LookInv, LookTypeOK
<1>9. Unread' /\ EncodeInv' /\ WholeInv'
  BY <1>1, DecodeKeeps DEF Reading
<1>10. ASSUME lost = 0 PROVE DecodeInv'
  <2>1. TailAhead /\ HeadRead
    BY <1>1, <1>10, TailIsAhead DEF LookInv, DecodeInv
  <2>2. Left' = Left - 8
    <3>1. Len(message) \in Nat
      BY <1>4
    <3> QED  BY <1>1, <1>4, <3>1 DEF Left
  <2>3. memory'[60] = y /\ \A i \in 0 .. 59 : memory'[i] = memory[i]
    BY <1>3, <1>4 DEF Memory
  <2>4. \A i \in 1 .. 29 : memory'[0 + i] = memory[0 + i] /\ memory'[30 + i] = memory[30 + i]
    BY <2>3
  <2>5. Stored(memory, look, 0, 30)
    BY <1>1, <1>10 DEF LookInv, DecodeInv
  <2>6. ListKept(0)'
    BY <1>1, <2>4, <2>5 DEF Stored, ListKept
  <2>7. CASE encoder = "binary"
    <3>1. Left' = 0 /\ x = look.sticker /\ y = look.worn[60]
      BY <1>2, <2>1, <2>2, <2>7 DEF TailAhead
    <3>2. Stored(memory, look, 30, 30)
      BY <1>1, <1>10, <2>7 DEF LookInv, DecodeInv
    <3>3. ListKept(30)'
      BY <1>1, <2>4, <3>2 DEF Stored, ListKept
    <3>4. memory'[0] = look.worn[0] /\ memory'[60] = look.worn[60]
      BY <2>1, <2>3, <3>1 DEF HeadRead
    <3>5. got' = [gender |-> look.gender, skin |-> look.skin, face |-> look.face,
                  sticker |-> look.sticker]
      BY <1>7, <2>1, <3>1 DEF HeadRead
    <3>6. BinaryEncodingDecoded'
      BY <1>1, <2>6, <3>1, <3>3, <3>4, <3>5 DEF BinaryEncodingDecoded
    <3> QED  BY <1>1, <2>7, <3>6 DEF DecodeInv
  <2>8. CASE encoder = "extension"
    <3>1. Left' = 30 * 5 + 1
      BY <2>1, <2>2, <2>8 DEF TailAhead
    <3>2. Stored(memory, look, 30, 1)
      BY <1>1, <1>10, <2>8 DEF LookInv, DecodeInv
    <3>3. \A i \in 1 .. 29 : memory'[30 + i] = 0
      BY <2>4, <3>2 DEF Stored
    <3>4. OwnEncodingKeepsWorn'
      BY <2>6, <3>1, <3>3 DEF OwnEncodingKeepsWorn
    <3> QED  BY <1>1, <2>8, <3>4 DEF DecodeInv
  <2> QED  BY <1>4, <2>7, <2>8
<1>11. lost # 0 => DecodeInv'
  BY <1>1 DEF DecodeInv
<1> QED
  BY <1>8, <1>9, <1>10, <1>11 DEF LookInv

\* A round of the decoding loop needs five bytes, or one where an end byte comes.
LEMMA RoundNeeds ==
    ASSUME phase = "decode"
    PROVE  \E k \in Int : k = Needed /\ k <= 5 /\ (Left >= 1 /\ Pos = End => k = 1)
<1>1. CASE Left >= 1 /\ Pos = End
  <2>1. Needed = 1
    BY <1>1 DEF Needed
  <2> QED  BY <1>1, <2>1
<1>2. CASE ~(Left >= 1 /\ Pos = End)
  <2>1. Needed = 5
    BY <1>2 DEF Needed
  <2> QED  BY <1>2, <2>1
<1> QED
  BY <1>1, <1>2

\* Only what was lost can be missed.
LEMMA DecodeThrowsStep == ASSUME LookInv, DecodeThrows PROVE LookInv'
<1>1. /\ phase \in {"head", "decode", "tail"} /\ phase' = "thrown" /\ Left < Needed
      /\ UNCHANGED <<look, encoder, base, round, message, lost, offset, got, memory>>
  BY DEF DecodeThrows
<1>2. message \in Seq(Bytes) /\ offset \in Nat
  BY DEF LookInv, LookTypeOK
<1>3. PICK n \in Nat, d \in Int : n = Len(message) /\ d = Left /\ d = n - offset
  BY <1>2 DEF Left
<1>4. LookTypeOK'
  BY <1>1 DEF LookInv, LookTypeOK
<1>5. Unread' /\ EncodeInv' /\ WholeInv'
  BY <1>1, DecodeKeeps DEF Reading
<1>6. ASSUME lost = 0 PROVE FALSE
  <2>1. CASE phase = "head"
    <3>1. Needed = 11
      BY <2>1 DEF Needed
    <3>2. offset = 0 /\ n >= 11
      BY <1>3, <1>6, <2>1 DEF LookInv, Unread, WholeInv, Reading, Whole, HeadLaid
    <3> QED  BY <1>1, <1>3, <3>1, <3>2
  <2>2. CASE phase = "decode"
    <3>1. PICK k \in Int : k = Needed /\ k <= 5 /\ (Left >= 1 /\ Pos = End => k = 1)
      BY <2>2, RoundNeeds
    <3>2. d < k
      BY <1>1, <1>3, <3>1
    <3>3. CASE \E t \in 1 .. 30 : FacesEntry(t)
      <4>1. offset + 5 <= n
        BY <1>3, <3>3 DEF FacesEntry
      <4> QED  BY <1>2, <1>3, <3>1, <3>2, <4>1
    <3>4. CASE FacesEnd
      <4>1. offset + 1 <= n /\ Pos = End
        BY <1>3, <3>4 DEF FacesEnd
      <4>2. Left >= 1
        BY <1>2, <1>3, <4>1
      <4> QED  BY <1>2, <1>3, <3>1, <3>2, <4>1, <4>2
    <3> QED  BY <1>6, <2>2, <3>3, <3>4, RoundFaces
  <2>3. CASE phase = "tail"
    <3>1. Needed = 8
      BY <2>3 DEF Needed
    <3>2. Left >= 8
      BY <1>6, <2>3, TailIsAhead DEF TailAhead
    <3> QED  BY <1>1, <1>3, <3>1, <3>2
  <2> QED  BY <1>1, <2>1, <2>2, <2>3
<1>7. DecodeInv'
  BY <1>1, <1>6 DEF DecodeInv
<1> QED
  BY <1>4, <1>5, <1>7 DEF LookInv

LEMMA LookInvStep == LookInv /\ [LookNext]_lookVars => LookInv'
<1> SUFFICES ASSUME LookInv, [LookNext]_lookVars PROVE LookInv'
  OBVIOUS
<1>1. ASSUME NEW l \in Looks, NEW by \in {"extension", "binary"}, EncodeHead(l, by) PROVE LookInv'
  BY <1>1, EncodeHeadStep
<1>2. ASSUME NEW n \in Losses, Arrive(n) PROVE LookInv'
  BY <1>2, ArriveStep
<1>3. CASE UNCHANGED lookVars
  <2>1. UNCHANGED <<look, encoder, phase, base, round, message, lost, offset, got, memory>>
    BY <1>3 DEF lookVars
  <2>2. LookTypeOK' /\ Unread' /\ EncodeInv' /\ WholeInv'
    BY <2>1 DEF LookInv, LookTypeOK, Unread, EncodeInv, WholeInv, Reading
  <2>3. DecodeInv'
    BY <2>1 DEF LookInv, DecodeInv, HeadRead, AtSlot, AtFalseEnd, BinaryEncodingDecoded,
                OwnEncodingKeepsWorn, ListKept, Left
  <2> QED  BY <2>2, <2>3 DEF LookInv
<1> QED
  BY <1>1, <1>2, <1>3, EncodeSlotStep, EncodeSecondStep, EncodeTailStep, DecodeHeadStep,
     DecodeSlotStep, DecodeEndStep, DecodeTailStep, DecodeThrowsStep DEF LookNext

\* A look that arrives whole is decoded: all of it if the client binary encoded it, what is
\* worn if AvatarLook::Encode did, whatever is worn in whatever slots.
THEOREM LooksStayTransferred == LookSpec => []LookTransferred
<1>1. LookInv => LookTransferred
  BY DEF LookInv, DecodeInv, LookTransferred
<1> QED
  BY <1>1, LookInvInit, LookInvStep, PTL DEF LookSpec
=============================================================================
