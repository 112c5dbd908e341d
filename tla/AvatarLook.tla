----------------------------- MODULE AvatarLook -----------------------------
(***************************************************************************)
(* AvatarLook: what a character looks like, encoded by one server or by    *)
(* the client binary, and decoded from the packet that arrives.            *)
(*                                                                         *)
(* The packet is modelled byte for byte, because its two lists end with a  *)
(* byte that an entry could begin with, and because Encode writes one      *)
(* entry more than Decode has room for.                                    *)
(***************************************************************************)
EXTENDS Integers, Sequences

CONSTANTS
    Looks,   \* the looks that are sent
    Losses   \* by how many bytes a packet may arrive short

\* What an int holds that is not negative.
Ids == {n \in Nat : n <= 2147483647}

\* What follows anHairEquip[0] in memory: anHairEquip, anUnseenEquip from index 30, and
\* nPetID at index 60, where both loops of Encode end up if they run on.
Memory == 0 .. 60
Look == [gender : {0, 1}, skin : 0 .. 3, face : Ids, sticker : Ids, worn : [Memory -> Ids]]

ASSUME LooksAssumption == Looks \subseteq Look
ASSUME LossesAssumption == Losses \subseteq Nat

VARIABLES
    look,     \* what is sent
    encoder,  \* by whom: "extension", or "binary", which lists only what is worn
    phase,    \* where Encode, and then Decode, are; "thrown": an exception left Decode
    base,     \* the list at work: 0 for anHairEquip, 30 for anUnseenEquip
    round,    \* i, of the loop over it
    message,  \* the bytes of the packet
    lost,     \* how many of them did not arrive
    offset,   \* CInPacket: m_uOffset
    got,      \* the object decoded into: nGender, nSkin, nFace, nWeaponStickerID
    memory    \* and its arrays with nPetID behind them

lookVars == <<look, encoder, phase, base, round, message, lost, offset, got, memory>>

-----------------------------------------------------------------------------
(* AvatarLook::Encode *)

Four(n) == <<n % 256, (n \div 256) % 256, (n \div 65536) % 256, (n \div 16777216) % 256>>

\* The terminator of both lists, Encode1(-1).
End == 255

EncodeHead(l, by) ==
    /\ phase = "idle"
    /\ look' = l
    /\ encoder' = by
    /\ message' = <<l.gender, l.skin>> \o Four(l.face) \o <<0>> \o Four(l.worn[0])
    /\ phase' = "encode"
    /\ UNCHANGED <<base, round, lost, offset, got, memory>>

\* Mutant of LastSlot: the slots that Decode accepts.
LastSlotOfDecode(by) == 29

\* The client binary and the original servers list only the slots in use, up to 29; both
\* loops of Encode list 30, the second one from index 30 on.
LastSlot(by) == IF by = "extension" THEN 30 ELSE 29
Listed(l, by, m) == by = "extension" \/ l.worn[m] # 0

EncodeSlot ==
    /\ phase = "encode"
    /\ round <= LastSlot(encoder)
    /\ message' = IF Listed(look, encoder, base + round)
                  THEN message \o (<<round>> \o Four(look.worn[base + round]))
                  ELSE message
    /\ round' = round + 1
    /\ UNCHANGED <<look, encoder, phase, base, lost, offset, got, memory>>

EncodeSecond ==
    /\ phase = "encode"
    /\ base = 0
    /\ round > LastSlot(encoder)
    /\ message' = message \o <<End>>
    /\ base' = 30
    /\ round' = 1
    /\ UNCHANGED <<look, encoder, phase, lost, offset, got, memory>>

EncodeTail ==
    /\ phase = "encode"
    /\ base = 30
    /\ round > LastSlot(encoder)
    /\ message' = message \o <<End>> \o Four(look.sticker) \o Four(look.worn[60])
    /\ phase' = "sent"
    /\ UNCHANGED <<look, encoder, base, round, lost, offset, got, memory>>

\* The packet reaches a server, without its last bytes.
Arrive(n) ==
    /\ phase = "sent"
    /\ n < Len(message)
    /\ message' = SubSeq(message, 1, Len(message) - n)
    /\ lost' = n
    /\ phase' = "head"
    /\ UNCHANGED <<look, encoder, base, round, offset, got, memory>>

-----------------------------------------------------------------------------
(* AvatarLook::Decode *)

\* The slots a body part takes an item of this kind, nItemID / 10000, into.
BodyParts(kind) ==
    CASE kind \in 100 .. 104 -> {kind - 99}
      [] kind \in 105 .. 108 -> {kind - 100}
      [] kind \in {109, 119} -> {10}
      [] kind = 110          -> {9}
      [] kind = 111          -> {12, 13, 15, 16}
      [] kind = 112          -> {17}
      [] kind = 180          -> {14}
      [] kind = 182          -> {21}
      [] kind = 183          -> {29}
      [] kind \in 190 .. 192 -> {kind - 172}
      [] kind \div 10 \in {13, 14, 16, 17} -> {11}
      [] OTHER               -> {}

\* Equipment of a pet has its slot by item, not by kind.
PetParts == [id \in 1812000 .. 1812006 |->
                CASE id = 1812000 -> 23
                  [] id = 1812001 -> 22
                  [] OTHER        -> id - 1812000 + 22]

\* is_correct_bodypart, whose gender test is off when nGender is 2, as it is here.
is_correct_bodypart(id, part) ==
    CASE id = 1802100               -> part = 21
      [] id \in DOMAIN PetParts     -> part = PetParts[id]
      [] OTHER                      -> part \in BodyParts(id \div 10000)

\* Decode4 at this offset, of bytes that are no garbage only if they stand for less than 2^31.
FourAt(m, k) == m[k + 1] + 256 * m[k + 2] + 65536 * m[k + 3] + 16777216 * (m[k + 4] % 128)

Left == Len(message) - offset

\* A position is a signed char that is compared as unsigned: one above 29 is skipped.
Pos == message[offset + 1]
Item == FourAt(message, offset + 1)

DecodeHead ==
    /\ phase = "head"
    /\ Left >= 11
    /\ offset' = 11
    /\ got' = [gender |-> message[1], skin |-> message[2], face |-> FourAt(message, 2),
               sticker |-> 0]
    /\ memory' = [m \in Memory |-> IF m = 0 THEN FourAt(message, 7) ELSE 0]
    /\ phase' = "decode"
    /\ base' = 0
    /\ round' = 1
    /\ UNCHANGED <<look, encoder, message, lost>>

\* Behind a loop of Decode.
LoopLeft ==
    /\ base' = 30
    /\ round' = 1
    /\ phase' = IF base = 0 THEN "decode" ELSE "tail"

\* Mutant of Rounds: one for every slot, which leaves none for the terminator.
RoundsOfSlots == 29

Rounds == 30

DecodeSlot ==
    /\ phase = "decode"
    /\ Left >= 5
    /\ Pos # End
    /\ offset' = offset + 5
    /\ memory' = IF Pos <= 29 /\ is_correct_bodypart(Item, Pos)
                 THEN [memory EXCEPT ![base + Pos] = Item]
                 ELSE memory
    /\ \/ round < Rounds /\ round' = round + 1 /\ UNCHANGED <<base, phase>>
       \/ round = Rounds /\ LoopLeft
    /\ UNCHANGED <<look, encoder, message, lost, got>>

DecodeEnd ==
    /\ phase = "decode"
    /\ Left >= 1
    /\ Pos = End
    /\ offset' = offset + 1
    /\ LoopLeft
    /\ UNCHANGED <<look, encoder, message, lost, got, memory>>

DecodeTail ==
    /\ phase = "tail"
    /\ Left >= 8
    /\ offset' = offset + 8
    /\ got' = [got EXCEPT !.sticker = FourAt(message, offset)]
    /\ memory' = [memory EXCEPT ![60] = FourAt(message, offset + 4)]
    /\ phase' = "done"
    /\ UNCHANGED <<look, encoder, base, round, message, lost>>

\* What the reads up to the next change of the object ask for.
Needed ==
    CASE phase = "head"   -> 11
      [] phase = "decode" -> IF Left >= 1 /\ Pos = End THEN 1 ELSE 5
      [] phase = "tail"   -> 8

DecodeThrows ==
    /\ phase \in {"head", "decode", "tail"}
    /\ Left < Needed
    /\ phase' = "thrown"
    /\ UNCHANGED <<look, encoder, base, round, message, lost, offset, got, memory>>

Nothing == [gender |-> 0, skin |-> 0, face |-> 0, sticker |-> 0, worn |-> [m \in Memory |-> 0]]

LookInit ==
    /\ look = Nothing
    /\ encoder = "binary"
    /\ phase = "idle"
    /\ base = 0
    /\ round = 1
    /\ message = <<>>
    /\ lost = 0
    /\ offset = 0
    /\ got = [gender |-> 0, skin |-> 0, face |-> 0, sticker |-> 0]
    /\ memory = [m \in Memory |-> 0]

LookNext ==
    \/ \E l \in Looks, by \in {"extension", "binary"} : EncodeHead(l, by)
    \/ EncodeSlot
    \/ EncodeSecond
    \/ EncodeTail
    \/ \E n \in Losses : Arrive(n)
    \/ DecodeHead
    \/ DecodeSlot
    \/ DecodeEnd
    \/ DecodeTail
    \/ DecodeThrows

LookSpec == LookInit /\ [][LookNext]_lookVars

-----------------------------------------------------------------------------
(* Properties *)

\* What of a list survives: an item in a slot that takes it.
Fitting(item, i) == IF is_correct_bodypart(item, i) THEN item ELSE 0
ListKept(b) == \A i \in 1 .. 29 : memory[b + i] = Fitting(look.worn[b + i], i)

\* AvatarLook::Decode of what the binary sent: both lists, the pet and the sticker, to the
\* last byte, also when all slots are in use and the terminator takes the last round.
BinaryEncodingDecoded ==
    /\ Left = 0
    /\ got = [gender |-> look.gender, skin |-> look.skin, face |-> look.face,
              sticker |-> look.sticker]
    /\ memory[0] = look.worn[0] /\ memory[60] = look.worn[60]
    /\ ListKept(0)
    /\ ListKept(30)

\* AvatarLook::Encode writes a 30th entry, of the member behind the list.  Its own Decode
\* still gets the worn equipment, but then takes the terminator for the whole second list:
\* no hidden equipment is read, and the second list is left in the packet.
OwnEncodingKeepsWorn ==
    /\ ListKept(0)
    /\ \A i \in 1 .. 29 : memory[30 + i] = 0
    /\ Left = 30 * 5 + 1

\* A look that arrives whole is decoded without an exception: all of it if the binary encoded
\* it, what is worn if AvatarLook::Encode did.
LookTransferred ==
    lost = 0 =>
        /\ phase # "thrown"
        /\ phase = "done" /\ encoder = "binary" => BinaryEncodingDecoded
        /\ phase = "done" /\ encoder = "extension" => OwnEncodingKeepsWorn
=============================================================================
