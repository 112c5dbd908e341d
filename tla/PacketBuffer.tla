---------------------------- MODULE PacketBuffer ----------------------------
(***************************************************************************)
(* COutPacket, CInPacket and ZXString: a packet is built field by field,   *)
(* travels, is copied by a hook that wants to look into it (CopyFrom), and *)
(* the copy is decoded field by field.                                     *)
(*                                                                         *)
(* The packet comes from this library ("extension") or from the client     *)
(* binary, whose strings go without their terminator.  It may arrive cut   *)
(* short.  A number is the tuple of its bytes, the lowest first.           *)
(***************************************************************************)
EXTENDS Integers, Sequences

CONSTANTS
    Fields,        \* what may be encoded next
    MaxFields,     \* bound on the fields of a packet
    ShortMax,      \* the largest __int16, 32767: m_uLength is one
    Decode4Order,  \* the k-th operand of the sum in Decode4 is evaluated Decode4Order[k]-th
    Garbage        \* bytes that uninitialised memory may hold

Bytes == 0 .. 255

\* An operation of the encoder and what it is given: a string's characters without their
\* terminator, or "null" for a ZXString whose pointer is null.
Ops == {"number", "buffer", "string", "null"}
Field == [op : Ops, bytes : Seq(Bytes)]

ASSUME FieldsAssumption == Fields \subseteq Field
ASSUME BoundsAssumption == MaxFields \in Nat /\ ShortMax \in Nat \ {0}
ASSUME OrderAssumption ==
    /\ Decode4Order \in [1 .. 4 -> 1 .. 4]
    /\ \A j, k \in 1 .. 4 : j # k => Decode4Order[j] # Decode4Order[k]
ASSUME GarbageAssumption == Garbage # {} /\ Garbage \subseteq Bytes

VARIABLES
    origin,   \* who encodes: "extension" or "binary"
    written,  \* the fields encoded so far
    out,      \* COutPacket: the bytes up to m_uOffset, and the size in front of the region
    strings,  \* history: the strings EncodeStr wrote
    cut,      \* whether the packet arrives cut short
    packet,   \* CInPacket of the binary: received bytes, m_uLength, m_uOffset
    copy,     \* the CInPacket the hook copied it into
    read,     \* what was decoded from the copy
    status    \* what happens to the packet; "thrown": an exception left the decoder

packetVars == <<origin, written, out, strings, cut, packet, copy, read, status>>

-----------------------------------------------------------------------------
(* Types *)

InPacket == [data : Seq(Bytes), length : Int, offset : Nat]

NoPacket == [data |-> <<>>, length |-> 0, offset |-> 0]

PacketTypeOK ==
    /\ origin \in {"extension", "binary"}
    /\ written \in Seq(Field)
    /\ out \in [bytes : Seq(Bytes), allocated : Nat]
    /\ strings \in Nat
    /\ cut \in BOOLEAN
    /\ packet \in InPacket
    /\ copy \in InPacket
    /\ read \in Seq(Seq(Bytes))
    /\ status \in {"sending", "received", "reading", "thrown"}

-----------------------------------------------------------------------------
(* COutPacket and ZXString *)

\* A region that is n bytes larger than the size in front of the old one.
EnlargeBuffer(o, n) == [o EXCEPT !.allocated = @ + n]

\* Stores at m_uOffset and moves it.
Store(o, bytes) == [o EXCEPT !.bytes = @ \o bytes]

\* Encode1, Encode2 and Encode4.
EncodeNumber(o, bytes) == Store(EnlargeBuffer(o, Len(bytes)), bytes)

EncodeBuffer(o, bytes) == Store(EnlargeBuffer(o, Len(bytes)), bytes)

Word(n) == <<n % 256, (n \div 256) % 256>>

\* What Assign leaves behind _m_pStr, of which GetLength is the length: the terminator counts.
Assign(chars) == Append(chars, 0)

\* Mutant of EncodeStr: the size of the old region is forgotten.
EncodeStrInOneRegion(o, chars) ==
    LET size == Len(Assign(chars))
    IN  Store(Store([o EXCEPT !.allocated = size + 4], Word(size)), Assign(chars))

\* Encode2 enlarges the region again, by the two bytes of the length.
EncodeStr(o, chars) ==
    LET size == Len(Assign(chars))
    IN  Store(EncodeNumber(EnlargeBuffer(o, size + 4), Word(size)), Assign(chars))

\* The client binary's EncodeStr, without terminator and without slack.
EncodeStrOfBinary(o, chars) == EncodeBuffer(EncodeNumber(o, Word(Len(chars))), chars)

\* COutPacket(nType, bLoopback).
Constructed(type) == EncodeNumber([bytes |-> <<>>, allocated |-> 0], type)

PacketInit ==
    /\ origin \in {"extension", "binary"}
    /\ written = <<>>
    /\ out = Constructed(<<24, 0>>)
    /\ strings = 0
    /\ cut = FALSE
    /\ packet = NoPacket
    /\ copy = NoPacket
    /\ read = <<>>
    /\ status = "sending"

Written(f) ==
    CASE f.op = "number" -> EncodeNumber(out, f.bytes)
      [] f.op = "buffer" -> EncodeBuffer(out, f.bytes)
      [] f.op = "null"   -> out
      [] f.op = "string" -> IF origin = "binary"
                            THEN EncodeStrOfBinary(out, f.bytes)
                            ELSE EncodeStr(out, f.bytes)

Encode(f) ==
    /\ status = "sending"
    /\ Len(written) < MaxFields
    /\ out' = Written(f)
    /\ written' = Append(written, f)
    /\ strings' = strings + (IF f.op = "string" /\ origin = "extension" THEN 1 ELSE 0)
    /\ UNCHANGED <<origin, cut, packet, copy, read, status>>

-----------------------------------------------------------------------------
(* CInPacket *)

\* The value of a 16-bit length that is n.
AsShort(n) == ((n + ShortMax + 1) % (2 * (ShortMax + 1))) - (ShortMax + 1)

\* The first n bytes arrive, and the type is read before a hook sees the packet.
Deliver(n) ==
    /\ status = "sending"
    /\ packet' = [data |-> SubSeq(out.bytes, 1, n), length |-> AsShort(n), offset |-> 2]
    /\ cut' = (n < Len(out.bytes))
    /\ status' = "received"
    /\ UNCHANGED <<origin, written, out, strings, copy, read>>

Throw == status' = "thrown" /\ UNCHANGED <<copy, read>>

\* A length that is negative as a short is a huge size to memcpy, which faults.
CopyFrom ==
    /\ status = "received"
    /\ \/ /\ packet.length >= 0
          /\ copy' = packet
          /\ status' = "reading"
          /\ UNCHANGED read
       \/ packet.length < 0 /\ Throw
    /\ UNCHANGED <<origin, written, out, strings, cut, packet>>

GetBytesLeft == copy.length - copy.offset

\* The byte at index i of the receive buffer; what lies behind the buffer is unknown.
ByteAt(i, unknown) == IF i < Len(copy.data) THEN copy.data[i + 1] ELSE unknown

Took(value, n) ==
    /\ read' = Append(read, value)
    /\ copy' = [copy EXCEPT !.offset = @ + n]
    /\ UNCHANGED status

\* Decode1, Decode2 and Decode4.
DecodeNumber(n) ==
    \/ GetBytesLeft < n /\ Throw
    \/ /\ GetBytesLeft >= n
       /\ Took([k \in 1 .. n |->
                  copy.data[copy.offset + (IF n = 4 THEN Decode4Order[k] ELSE k)]], n)

DecodeBuffer(n) ==
    \/ GetBytesLeft < n /\ Throw
    \/ GetBytesLeft >= n /\ Took(SubSeq(copy.data, copy.offset + 1, copy.offset + n), n)

\* A C string in these bytes, which hold a zero.
CString(bytes) ==
    LET end == CHOOSE i \in 1 .. Len(bytes) :
                   bytes[i] = 0 /\ \A j \in 1 .. i - 1 : bytes[j] # 0
    IN  SubSeq(bytes, 1, end - 1)

\* Mutant of DecodeStr: the length is believed.
DecodeStrBelieving(g) ==
    LET wLen == copy.data[copy.offset + 1] + 256 * copy.data[copy.offset + 2]
        chars == [i \in 1 .. wLen |-> ByteAt(copy.offset + 1 + i, g)]
    IN  \/ GetBytesLeft < 2 /\ Throw
        \/ GetBytesLeft >= 2 /\ Took(CString(chars \o <<g, 0>>), 2 + wLen)

\* The length is compared with what was left before the length itself was read.  The zero
\* goes behind the byte that should have got it, which stays uninitialised: g.
DecodeStr(g) ==
    LET wLen == copy.data[copy.offset + 1] + 256 * copy.data[copy.offset + 2]
        chars == [i \in 1 .. wLen |-> ByteAt(copy.offset + 1 + i, g)]
    IN  \/ GetBytesLeft < 2 /\ Throw
        \/ GetBytesLeft >= 2 /\ wLen > GetBytesLeft /\ Throw
        \/ /\ GetBytesLeft >= 2
           /\ wLen <= GetBytesLeft
           /\ Took(CString(chars \o <<g, 0>>), 2 + wLen)

\* The reader asks for the fields in the order of the writer.
Decode(g) ==
    LET f == written[Len(read) + 1]
    IN  /\ status = "reading"
        /\ Len(read) < Len(written)
        /\ \/ f.op = "number" /\ DecodeNumber(Len(f.bytes))
           \/ f.op = "buffer" /\ DecodeBuffer(Len(f.bytes))
           \/ f.op \in {"string", "null"} /\ DecodeStr(g)
        /\ UNCHANGED <<origin, written, out, strings, cut, packet>>

PacketNext ==
    \/ \E f \in Fields : Encode(f)
    \/ \E n \in 2 .. Len(out.bytes) : Deliver(n)
    \/ CopyFrom
    \/ \E g \in Garbage : Decode(g)

PacketSpec == PacketInit /\ [][PacketNext]_packetVars

-----------------------------------------------------------------------------
(* Properties *)

\* However numbers, buffers and strings alternate, EnlargeBuffer has made room for what was
\* stored; four bytes per string are more than that, so GetLength overstates a packet.
RegionHoldsPacket == out.allocated = Len(out.bytes) + 4 * strings

\* DecodeStr can read two bytes behind a packet that arrives cut short, but no more.
OverreadIsBounded == status = "reading" => copy.offset <= copy.length + 2

\* The fields in front of the first null ZXString.
Sound(i) == \A j \in 1 .. i : written[j].op # "null"

\* A packet that arrives whole, has no null string in it and is short enough for m_uLength
\* is decoded without an exception.
WholePacketsDecode ==
    status = "thrown" => \/ cut
                         \/ ~Sound(Len(written))
                         \/ Len(out.bytes) > ShortMax

\* A string of the client binary may come back with one character too many.
Matches(value, f) ==
    \/ value = f.bytes
    \/ /\ origin = "binary" /\ f.op = "string"
       /\ \E g \in Garbage : value = Append(f.bytes, g)

\* What is decoded is what was encoded, of a packet cut short as well, as far as the packet
\* reaches.
ReadsWhatWasWritten ==
    \A i \in 1 .. Len(read) :
        Sound(i) /\ (i < Len(read) \/ copy.offset <= copy.length)
            => Matches(read[i], written[i])

\* CInPacket behind CopyFrom, for all packets of either encoder, whole and cut short: it
\* fails when it must, overreads by two bytes at most, and returns what was encoded.
PacketsRead == OverreadIsBounded /\ WholePacketsDecode /\ ReadsWhatWasWritten
=============================================================================
