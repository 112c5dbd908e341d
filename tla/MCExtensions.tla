---------------------------- MODULE MCExtensions ----------------------------
(***************************************************************************)
(* The extensions, side by side: what carries data (packets, statistics,   *)
(* looks, the hash map), and the processes the libraries are loaded        *)
(* into (their image, the order in which launcher, library and game act,   *)
(* the packets that the client's threads send).  The parts share nothing,  *)
(* so a behaviour is one of a single part: the others stay as they were.   *)
(***************************************************************************)
EXTENDS PacketBuffer, CharacterCodec, AvatarLook, ZMap, ProcessImage, ClientStart,
        ClientSender

CONSTANTS v1, v2, absent, nil

MCFields == {[op |-> "number", bytes |-> <<200>>], [op |-> "number", bytes |-> <<1, 0, 3, 4>>],
             [op |-> "buffer", bytes |-> <<7, 0, 9>>], [op |-> "string", bytes |-> <<33, 65>>],
             [op |-> "string", bytes |-> <<>>], [op |-> "null", bytes |-> <<>>]}
LeftToRight == <<1, 2, 3, 4>>

\* An item for every slot from 1 to 29.
FullItem == <<1000001, 1010001, 1020001, 1030001, 1040001, 1060001, 1070001, 1080001, 1100001,
              1090001, 1302000, 1112000, 1112001, 1802000, 1112002, 1112003, 1122000, 1902000,
              1912000, 1922000, 1802100, 1812001, 1812000, 1812002, 1812003, 1812004, 1812005,
              1812006, 1832000>>

Wearing(worn) == [gender |-> 1, skin |-> 2, face |-> 20000, sticker |-> 1702000, worn |-> worn]

\* All slots in use, a few (an item among them that does not fit), none.
MCLooks ==
    {Wearing([i \in Memory |-> CASE i = 0 -> 30030
                                 [] i \in 1 .. 29 -> FullItem[i]
                                 [] i = 30 -> 0
                                 [] i \in 31 .. 59 -> FullItem[i - 30]
                                 [] OTHER -> 5000001]),
     Wearing((0 :> 30000) @@ (60 :> 2147483647) @@ [i \in Memory |-> 0]),
     Wearing((0 :> 30000) @@ (5 :> 1052000) @@ (8 :> 1302000) @@ (11 :> 1302000)
             @@ (35 :> 1040001) @@ [i \in Memory |-> 0])}

MCCuts == 0 .. 75
MCHash == [k \in 1 .. 4 |-> k]
\* One way to list the pairs, and the other.
MCOrders == {[k \in 1 .. 4 |-> k], [k \in 1 .. 4 |-> 4 - k]}

MCSymmetry == Permutations(Values)

VARIABLE part

Init ==
    /\ part \in {"packet", "stat", "look", "map", "image", "start", "sender"}
    /\ PacketInit /\ CodecInit /\ LookInit /\ ZMapInit /\ ImageInit /\ StartInit /\ SenderInit
    /\ part # "packet" => origin = "binary"
    /\ part # "start" => ~admin

dataVars == <<packetVars, codecVars, lookVars, zmapVars>>
processVars == <<imageVars, startVars, senderVars>>
vars == <<part, dataVars, processVars>>

DataStep ==
    /\ \/ part = "packet" /\ PacketNext /\ UNCHANGED <<codecVars, lookVars, zmapVars>>
       \/ part = "stat" /\ CodecNext /\ UNCHANGED <<packetVars, lookVars, zmapVars>>
       \/ part = "look" /\ LookNext /\ UNCHANGED <<packetVars, codecVars, zmapVars>>
       \/ part = "map" /\ ZMapNext /\ UNCHANGED <<packetVars, codecVars, lookVars>>
    /\ UNCHANGED <<part, processVars>>

ProcessStep ==
    /\ \/ part = "image" /\ ImageNext /\ UNCHANGED <<startVars, senderVars>>
       \/ part = "start" /\ StartNext /\ UNCHANGED <<imageVars, senderVars>>
       \/ part = "sender" /\ SenderNext /\ UNCHANGED <<imageVars, startVars>>
    /\ UNCHANGED <<part, dataVars>>

Spec == Init /\ [][DataStep \/ ProcessStep]_vars
=============================================================================
