--------------------------- MODULE CharacterCodec ---------------------------
(***************************************************************************)
(* GW_CharacterStat: who a character is and what it can do, written to a   *)
(* packet by one server and read from it by another, into an object that   *)
(* holds other statistics already.  The bytes of a field are tokens that   *)
(* name the field, so that a reader that gets out of step with the writer  *)
(* is seen to read another field.                                          *)
(***************************************************************************)
EXTENDS Integers, Sequences, SequencesExt

CONSTANT Cuts  \* by how many bytes a packet may be short

ASSUME CutsAssumption == Cuts \subseteq Nat /\ 0 \in Cuts

VARIABLES
    tokens,    \* the bytes of the packet
    stat,      \* the object read into: field -> its bytes
    statAt,    \* the next field to read
    backward,  \* bBackwardUpdate
    missing,   \* by how many bytes the packet arrives short
    outcome    \* of Decode: "none", "reading", "done", "thrown"

codecVars == <<tokens, stat, statAt, backward, missing, outcome>>

-----------------------------------------------------------------------------
Words == <<"nJob", "nSTR", "nDEX", "nINT", "nLUK", "nHP", "nMHP", "nMP", "nMMP", "nAP",
           "nSP">>

\* The order and the widths in which Encode writes.
EncodeLayout ==
    << <<"dwCharacterID", 4>>, <<"sCharacterName", 13>>, <<"nGender", 1>>, <<"nSkin", 1>>,
       <<"nFace", 4>>, <<"nHair", 4>>, <<"liPetLockerSN", 8>>, <<"nLevel", 1>> >>
    \o [i \in DOMAIN Words |-> <<Words[i], 2>>]
    \o << <<"nEXP", 4>>, <<"nPOP", 2>>, <<"dwPosMap", 4>>, <<"nPortal", 1>> >>

\* Mutant of DecodeLayout: the experience is taken for a word.
DecodeLayoutShort ==
    << <<"dwCharacterID", 4>>, <<"sCharacterName", 13>>, <<"nGender", 1>>, <<"nSkin", 1>>,
       <<"nFace", 4>>, <<"nHair", 4>>, <<"liPetLockerSN", 8>>, <<"nLevel", 1>> >>
    \o [i \in DOMAIN Words |-> <<Words[i], 2>>]
    \o << <<"nEXP", 2>>, <<"nPOP", 2>>, <<"dwPosMap", 4>>, <<"nPortal", 1>> >>

\* The order and the widths in which Decode reads.
DecodeLayout ==
    << <<"dwCharacterID", 4>>, <<"sCharacterName", 13>>, <<"nGender", 1>>, <<"nSkin", 1>>,
       <<"nFace", 4>>, <<"nHair", 4>>, <<"liPetLockerSN", 8>>, <<"nLevel", 1>> >>
    \o [i \in DOMAIN Words |-> <<Words[i], 2>>]
    \o << <<"nEXP", 4>>, <<"nPOP", 2>>, <<"dwPosMap", 4>>, <<"nPortal", 1>> >>

\* Members that neither function touches.
Uncoded == {"nMoney", "nCheckSum", "nItemCountCheckSum"}
StatFields == {EncodeLayout[i][1] : i \in DOMAIN EncodeLayout} \cup Uncoded

\* Mutant of Dropped: the name goes to the buffer of the object.
DroppedButName == {"dwCharacterID", "nGender", "nSkin", "nFace", "nHair"}

\* What a backward update reads and drops.
Dropped == {"dwCharacterID", "sCharacterName", "nGender", "nSkin", "nFace", "nHair"}

\* What a member holds before anything is read.
OwnBytes(f) == << <<f, 0>> >>

BytesOfField(f, width) == [k \in 1 .. width |-> <<f, k>>]

EncodeStat ==
    FlattenSeq([i \in DOMAIN EncodeLayout |->
                  BytesOfField(EncodeLayout[i][1], EncodeLayout[i][2])])

\* A packet with statistics comes in, cut short by some bytes.
ReceiveStat(cut) ==
    /\ outcome = "none"
    /\ cut < Len(EncodeStat)
    /\ tokens' = SubSeq(EncodeStat, 1, Len(EncodeStat) - cut)
    /\ backward' \in BOOLEAN
    /\ missing' = cut
    /\ outcome' = "reading"
    /\ UNCHANGED <<stat, statAt>>

\* One field of GW_CharacterStat::Decode; the reads before it have been stored.
DecodeStatField ==
    LET field == DecodeLayout[statAt][1]
        width == DecodeLayout[statAt][2]
    IN  /\ outcome = "reading"
        /\ IF Len(tokens) < width
           THEN /\ outcome' = "thrown"
                /\ UNCHANGED <<tokens, stat, statAt>>
           ELSE /\ tokens' = SubSeq(tokens, width + 1, Len(tokens))
                /\ stat' = IF backward /\ field \in Dropped
                           THEN stat
                           ELSE [stat EXCEPT ![field] = SubSeq(tokens, 1, width)]
                /\ statAt' = statAt + 1
                /\ outcome' = IF statAt = Len(DecodeLayout) THEN "done" ELSE "reading"
        /\ UNCHANGED <<backward, missing>>

CodecInit ==
    /\ tokens = <<>>
    /\ stat = [f \in StatFields |-> OwnBytes(f)]
    /\ statAt = 1
    /\ backward = FALSE
    /\ missing = 0
    /\ outcome = "none"

CodecNext ==
    \/ \E cut \in Cuts : ReceiveStat(cut)
    \/ DecodeStatField

-----------------------------------------------------------------------------
(* Properties *)

\* Wherever the packet ends, no member holds bytes of another; once all is read every member
\* that is coded and not dropped holds what was sent.
MembersHoldTheirBytes ==
    \A i \in DOMAIN EncodeLayout :
        LET f == EncodeLayout[i][1]
            theirs == BytesOfField(f, EncodeLayout[i][2])
        IN  /\ stat[f] \in {OwnBytes(f), theirs}
            /\ outcome = "done" /\ ~(backward /\ f \in Dropped) => stat[f] = theirs

\* Who a character is.
Identity == {"dwCharacterID", "sCharacterName", "nGender", "nSkin", "nFace", "nHair"}

\* A backward update leaves the character who it is, and money and checksums stay as they
\* were, also when an exception ends the reading halfway.
IdentityKept ==
    \A f \in Uncoded \cup (IF backward THEN Identity ELSE {}) : stat[f] = OwnBytes(f)

\* GW_CharacterStat::Decode, forward and backward, puts every byte where it belongs, and reads
\* a packet that arrives whole to its end.
StatTransferred ==
    /\ MembersHoldTheirBytes
    /\ IdentityKept
    /\ missing = 0 => outcome # "thrown" /\ (outcome = "done" => tokens = <<>>)
=============================================================================
