---------------------------- MODULE ProcessImage ----------------------------
(***************************************************************************)
(* What the extensions do to the image of the process they are loaded      *)
(* into: a script of patches for the login, game and shop server, for the  *)
(* client and for the client of administrators.  The addresses are those   *)
(* of the code; a page is writable, or it is not, and some patches make it *)
(* unwritable again.                                                       *)
(***************************************************************************)
EXTENDS Integers, Sequences

\* 0xFFFF - VERSION and the like are bytes like any other: what a patch writes is named by
\* the patch.  guard: the bytes VirtualProtect makes writable before, 0 for a plain write.
\* seal: it makes them PAGE_EXECUTE afterwards.
Patch(kind, at, length, guard, seal) ==
    [kind |-> kind, at |-> at, length |-> length, guard |-> guard, seal |-> seal]

VARIABLES
    program,   \* whose process it is
    nextPatch, \* the next patch of its script
    writable,  \* the pages that can be written
    image,     \* address -> what has been written there, for the addresses that have
    baseline,  \* MemoryCheck: the image initBlocks took the sums of, if it has
    expTable,  \* the experience table of the game server
    fault      \* whether a page was written that is not writable

imageVars == <<program, nextPatch, writable, image, baseline, expTable, fault>>

-----------------------------------------------------------------------------
(* Hook *)

hookCall(at) == Patch("call", at, 5, 100, TRUE)
hook(at) == Patch("jmp", at, 5, 100, TRUE)

\* Mutant of changeByte: without VirtualProtect.
changeByteUnprotected(at, opcode) == Patch(opcode, at, 1, 0, FALSE)

changeByte(at, opcode) == Patch(opcode, at, 1, 1, FALSE)

\* Mutant of nop: the loop runs once too often.
nopTooFar(start, length) == Patch("nop", start, length + 1, length + 1, FALSE)

nop(start, length) == Patch("nop", start, length, length + 1, FALSE)
ret(function) == Patch("ret", function, 1, 2, FALSE)
retOffset(function) == Patch("ret n", function, 3, 3, FALSE)

\* protect, and the write of a few of these bytes that follows it.
protect(start, len, written) == Patch("version", start, written, len, FALSE)

\* A write to memory that is data of the program (external), without any call of Hook.
store(at, length) == Patch("data", at, length, 0, FALSE)

changeBytes(at, bytes) == [i \in DOMAIN bytes |-> changeByte(at + i - 1, bytes[i])]

\* A function that returns 1: mov eax, 1.
ReturnOne == <<"B8", "01", "00", "00", "00">>

-----------------------------------------------------------------------------
(* The scripts *)

setUpAesKey(at) == store(at, 128)

setupHookOfLogin == << hookCall(\h40DD33), hookCall(\h40B101), hookCall(\h40DC88) >>

LoginScript ==
    setupHookOfLogin
    \o << setUpAesKey(\h454044),
       changeByte(\h40DAD0, "EB"),
       hookCall(\h41D45C),
       protect(\h40D489, 4, 2),
       retOffset(\h42A416),
       changeByte(\h40F5A7, "EB") >>

allowAdminDrops == << changeByte(\h59449E, "EB"), nop(\h52224E, 6) >>

SetDropRate == store(\h680E78, 4)

setupHooks ==
    << hookCall(\h590B02), hookCall(\h59771A), hookCall(\h423AD1), hookCall(\h4239A3),
       hook(\h423784), nop(\h423784 + 5, 5), hook(\h423784), nop(\h423784 + 5, 5),
       hook(\h5953EF), nop(\h5953EF + 5, 5),
       hookCall(\h423E6C), hookCall(\h423ED9), hookCall(\h4136B7), hookCall(\h591C28),
       hookCall(\h590A73), hookCall(\h590A31),
       changeByte(\h48B947, "EB"), changeByte(\h5E641D, "EB"), changeByte(\h5E05EF, "EB") >>
    \o allowAdminDrops
    \o << SetDropRate >>

hookExpTable == hook(\h572293)

GameScript ==
    << hookExpTable >>
    \o setupHooks
    \o << setUpAesKey(\h66BB34), hookCall(\h49A0B9), hookCall(\h423E4D), protect(\h4238AF, 4, 2) >>
    \o changeBytes(\h4236A9, Append(ReturnOne, "C3"))
    \o changeBytes(\h4248DB, Append(ReturnOne, "90"))

ShopScript ==
    << setUpAesKey(\h546260), hookCall(\h426477), hookCall(\h47F131),
       protect(\h425FF2, 4, 2), protect(\h426233, 1, 1) >>
    \o changeBytes(\h427123, ReturnOne) \o changeBytes(\h427130, ReturnOne)

bypassGameguard == << nop(\h4A3C06, 5), nop(\h75FABD, 5), ret(\h79585A), ret(\h798F90) >>

fixIsNewAccount == << changeByte(\h44DC1D, "31"), changeByte(\h44DC1D + 1, "C0") >>

fixBlinkingMiniMapEntities == << nop(\h6664CD, 6), nop(\h6665EE, 6) >>

hook_StringPoolGetString == << hookCall(\h61425F), hookCall(\h61425F), hookCall(\h61425F) >>

\* The two addresses get the key; both pages are made writable first.
patchAesKeyInternal(first, second) == << protect(first, 4, 4), protect(second, 4, 4) >>

\* installBypass of a client that is not the administrators'.
ClientScript ==
    bypassGameguard
    \o fixIsNewAccount
    \o fixBlinkingMiniMapEntities
    \o hook_StringPoolGetString
    \o << hook(\h46AC04), hook(\h46A91F) >>
    \o patchAesKeyInternal(\h41E382, \h41E3F8)

AdminScript ==
    patchAesKeyInternal(\h43C542, \h43C5E3)
    \o << changeByte(\h7A9C61, "EB"), changeByte(\h51EF9D, "EB") >>

Programs == {"login", "game", "shop", "client", "admin"}

Script(p) ==
    CASE p = "login"  -> LoginScript
      [] p = "game"   -> GameScript
      [] p = "shop"   -> ShopScript
      [] p = "client" -> ClientScript
      [] p = "admin"  -> AdminScript

\* Where the hooks go on in the original: behind what they overwrote, or in the function
\* whose call they replaced.
Continuations(p) ==
    CASE p = "login"  -> {\h40D710, \h40D3D6, \h4091C8, \h41EACE}
      [] p = "game"   -> {\h423784 + 10, \h5953EF + 10, \h423B59, \h423F65, \h413EBE, \h595627,
                          \h5218EA, \h5299A1, \h59C772, \h5990FA, \h4145F5, \h414B5F, \h59D384,
                          \h55A45A, \h49BE4F}
      [] p = "shop"   -> {\h482CA0}
      [] p = "client" -> {\h46AC04 + 5, \h46AA16, \h794C37, \h5B2140, \h614649}
      [] p = "admin"  -> {}

-----------------------------------------------------------------------------
(* Running a script *)

PageOf(a) == a \div 4096
PagesOf(at, length) == PageOf(at) .. PageOf(at + length - 1)

\* Code pages are not writable; the pages of what is stored to directly are (external).
DataPages(p) ==
    UNION {PagesOf(Script(p)[i].at, Script(p)[i].length) :
             i \in {j \in DOMAIN Script(p) : Script(p)[j].kind = "data"}}

Attach(p) ==
    /\ program = "none"
    /\ program' = p
    /\ writable' = DataPages(p)
    /\ UNCHANGED <<nextPatch, image, baseline, expTable, fault>>

Covered(patch) == patch.at .. patch.at + patch.length - 1
Token(patch, a) == <<patch.kind, a - patch.at>>

\* VirtualProtect, the write, and, for the two kinds of hook, VirtualProtect again.
ApplyPatch ==
    LET patch == Script(program)[nextPatch]
        opened == IF patch.guard = 0 THEN writable
                  ELSE writable \cup PagesOf(patch.at, patch.guard)
    IN  /\ program # "none"
        /\ ~fault
        /\ nextPatch <= Len(Script(program))
        /\ IF PagesOf(patch.at, patch.length) \subseteq opened
           THEN /\ image' = [a \in DOMAIN image \cup Covered(patch) |->
                               IF a \in Covered(patch) THEN Token(patch, a) ELSE image[a]]
                /\ fault' = FALSE
           ELSE fault' = TRUE /\ UNCHANGED image
        /\ writable' = IF patch.seal THEN opened \ PagesOf(patch.at, patch.guard) ELSE opened
        /\ nextPatch' = nextPatch + 1
        /\ UNCHANGED <<program, baseline, expTable>>

\* Mutant of initBlocks: the sums are taken before the patches.
initBlocksFirst ==
    /\ program = "client"
    /\ nextPatch = 1
    /\ baseline = <<>>
    /\ baseline' = <<image>>
    /\ UNCHANGED <<program, nextPatch, writable, image, expTable, fault>>

\* installBypass ends with the sums of the blocks.
initBlocks ==
    /\ program = "client"
    /\ nextPatch > Len(ClientScript)
    /\ ~fault
    /\ baseline = <<>>
    /\ baseline' = <<image>>
    /\ UNCHANGED <<program, nextPatch, writable, image, expTable, fault>>

levels == <<
    0, 12, 27, 45, 73, 108, 297, 448, 672, 993, 1144, 1573, 2144, 2800, 3640, 4700, 5893,
    7360, 9144, 11120, 13478, 16268, 19320, 22881, 27009, 31478, 36601, 42446, 48722, 55816,
    76560, 86784, 98208, 110932, 124432, 139372, 155865, 173280, 192400, 213345, 235372,
    259392, 285532, 312928, 342624, 374760, 408336, 444544, 483532, 524160, 567772, 598885,
    631703, 666320, 702834, 741349, 781974, 824826, 870026, 917703, 967993, 1021039, 1076991,
    1136010, 1198263, 1263927, 1333190, 1406248, 1483310, 1564595, 1650334, 1740772, 1836166,
    1936787, 2042922, 2154874, 2272961, 2397519, 2528903, 2667486, 2813664, 2967852, 3130490,
    3302040, 3482991, 3673858, 3875185, 4087545, 4311542, 4547814, 4797034, 5059911, 5337194,
    5629672, 5938178, 6263590, 6606834, 6968888, 7350783, 7753605, 8178502, 8626683, 9099425,
    9598073, 10124047, 10678844, 11264044, 11881313, 12532408, 13219183, 13943594, 14707702,
    15513684, 16363833, 17260571, 18206450, 19204163, 20256551, 21366609, 22537499, 23772553,
    25075288, 26449413, 27898840, 29427696, 31040333, 32741343, 34535568, 36428117, 38424377,
    40530032, 42751077, 45093836, 47564978, 50171538, 52920938, 55821005, 58879996, 62106619,
    65510061, 69100012, 72886692, 76880882, 81093954, 85537902, 90225379, 95169729,
    100385030, 105886129, 111688688, 117809228, 124265173, 131074904, 138257808, 145834335,
    153826056, 162255723, 171147336, 180526210, 190419046, 200854009, 211860808, 223470780,
    235716978, 248634268, 262259425, 276631241, 291790633, 307780759, 324647144, 342437807,
    361203398, 380997344, 401875998, 423898802, 447128456, 471631095, 497476479, 524738190,
    553493842, 583825304, 615818930, 649565807, 685162013, 722708891, 762313338, 804088108,
    848152136, 894630873, 943656644, 995369028, 1049915250, 1107450605, 1168138898,
    1232152909, 1299674888, 1370897071, 1446022230, 1525264248, 1608848728 >>

\* Mutant of fixExpTable: the last level is not copied.
fixExpTableShort ==
    /\ program = "game"
    /\ nextPatch > 1
    /\ ~fault
    /\ expTable' = SubSeq(levels, 1, Len(levels) - 1)
    /\ UNCHANGED <<program, nextPatch, writable, image, baseline, fault>>

\* The game calls the function that the first hook replaced.
fixExpTable ==
    /\ program = "game"
    /\ nextPatch > 1
    /\ ~fault
    /\ expTable' = levels
    /\ UNCHANGED <<program, nextPatch, writable, image, baseline, fault>>

ImageInit ==
    /\ program = "none"
    /\ nextPatch = 1
    /\ writable = {}
    /\ image = <<>>
    /\ baseline = <<>>
    /\ expTable = <<>>
    /\ fault = FALSE

ImageNext ==
    \/ \E p \in Programs : Attach(p)
    \/ ApplyPatch
    \/ initBlocks
    \/ fixExpTable

-----------------------------------------------------------------------------
(* Properties *)

\* No patch meets a page that an earlier hook made unwritable or nobody made writable.
WritesLand == ~fault

Done == IF program = "none" THEN {} ELSE {i \in DOMAIN Script(program) : i < nextPatch}

\* What a patch wrote stays: no later one of the script covers it with something else.  The
\* sums that MemoryCheck starts from are those of the patched code.
PatchesKept ==
    /\ \A i \in Done : \A a \in Covered(Script(program)[i]) :
           image[a] = Token(Script(program)[i], a)
    /\ baseline # <<>> => baseline = <<image>>

\* A hook goes on where the original is untouched: no function that the extensions call is
\* itself hooked, which would call the hook again, and the bytes a hook overwrites end where
\* it resumes.
ContinuationsIntact ==
    program # "none" =>
        \A c \in Continuations(program) : {c + k : k \in 0 .. 4} \cap DOMAIN image = {}

\* Every level of the table takes more experience than the one before, up to the last of 200.
ExpTableRises ==
    expTable # <<>> =>
        /\ Len(expTable) = 200
        /\ \A i \in 1 .. 199 : expTable[i] < expTable[i + 1]

\* The scripts of all five programs run to their end and leave the image they are meant to.
PatchesTakeEffect == WritesLand /\ PatchesKept /\ ContinuationsIntact /\ ExpTableRises
=============================================================================
