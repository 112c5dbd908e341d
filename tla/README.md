# Verification of BMS v8

TLA+ models of the parts of this server that are written in this repository, TLC
configurations that check them on small instances, and proofs by TLAPS of what they
ensure for every instance.

The repository surrounds the binaries of a game server (login, game, shop and center
processes, run under wine) with a SQL Server database of stored procedures, a cash
daemon in C#, DLLs that hook the binaries, and scripts that start it all in three
containers. The binaries are not here. What decides whether accounts, money and items
stay consistent is mostly in the stored procedures and the daemon, which are called by
several processes at a time. The extensions carry the packets between the processes and
patch the processes themselves, with code that has to agree, to the byte, with binaries
that cannot be changed. The models cover both.

## Inventory

| Component | State | Operations | What makes it hard | What makes it correct |
|---|---|---|---|---|
| Session lock, `Database/3-UserConnection.sql` | rows of `Connections`, `Account.CurrentIP` | `TrySetUserConnect`, `SetUserDisconnect`, `CheckUserConnected`, `ClearWorldConnect` | the count is outside the transaction, no key; servers die and leave rows | one session per account; a row excludes others; `CurrentIP` belongs to the session |
| Account login, `4-GlobalAccount.sql` | `Account`, `AccountBans` | `CheckPassword`, `SetUserBlockedByCharacterName`, PIN, EULA, `Set_Account` | reads ban and connections in two statements | a ban closes the account; PIN and EULA answers match the account |
| Cash daemon, `Extension/WvsCashDeamon` | `_offset`, `_buffer`, `ConnectedShops`, one `SqlConnection` | `EndReceive`, `OnBillPack` with five cases, `buyCashItem` | threads of the pool over one connection; TCP fragments; exceptions in callbacks end the process | answers match requests; a purchase is charged once and its price |
| Purchases, `7-GameWorld.sql` | `CashItemBought`, `ItemLocker`, `Account.NexonCash`, `Account.maplePoint`, `ItemSlot_Size`, `Trunk` | `BuyCashItem`, `BuyCashItemByMaplePoint`, `IncreaseItemSlotCount`, `IncreaseTrunkCount` and their `ByMaplePoint` sisters, couple and friendship items, gifts | no transactions; a balance read and written back; enlarge before test | what is charged is delivered, what is delivered was charged, limits hold |
| Item locker, `7-GameWorld.sql` | `ItemLocker.CharacterID`, `CashItemBundle`, open transactions of a connection | `MoveCashItemLtoS`, `MoveCashItemStoL`, `UseCashItem`, `ExpireCashItem` | a `RETURN` that leaves the transaction open | an item is in the locker or with one character |
| Characters, `7-GameWorld.sql` | a dozen tables by character, `Trunk` by account | `CreateNewCharacter`, `DeleteCharacter`, `InventorySize_Set`, `SetFuncKeyMapped` | no transaction; a test that never fires; a failed INSERT that is passed over | a character has all of its rows or none, an account one trunk |
| Guilds and their board, `7-GameWorld.sql` | `GuildInfo`, `GuildMember`, `GuildBBSEntry`, `GuildBBSComment` | `CreateNewGuild`, `JoinGuild`, `RemoveGuild`, `GuildBBS_*` | a comment count kept beside the comments | the count is the number of comments; nothing outlives its guild |
| Fame, memos, marriage, pets | `CharacterFame`, `Memo`, `MarriageRecord`, `CashItem_PET` | `CheckGivePopularity`, `Memo_Send`, ... | check and insert are two statements | one fame a day, one a month per target |
| Boot, `Scripts/`, `Server/start-server.sh`, `docker-compose.yaml` | the marker file, the state of three containers | create, clean, start | a marker written after the last script; a fixed sleep | a world starts on a complete, cleared database |
| Common library, `Extension/WvsCommon` | buffers and offsets of `COutPacket` and `CInPacket`, `ZMap`'s buckets and links, the image of the process | `Encode*`, `Decode*`, `CopyFrom`, `GW_CharacterStat` and `AvatarLook` both ways, `get_at`, `begin`, `get_next`, `for_each`, `Hook::*` | packets cut short, memory nobody wrote, a map that reading changes, pages that hooks seal | what is encoded is decoded; overreads are bounded; patches do not undo each other |
| Game server extension, `Extension/WvsGame` | the two rates, the command being parsed | `ProcessUserPacket`, `OnChat` with `!fm !gmap !rs !exp !drop`, `OnUpgradeItemRequest`, `OnBanMapByMob`, patches | several threads, strings that throw, `atoi` without a terminator | a line is handled once; rates are those that were typed; a client is never left blocked |
| Client and launcher, `Extension/WvsClient`, `WvsLauncher` | the key, the mutex handle, the user's answer, `m_uSeqSnd` | launch, `DllMain`, hooks of `CreateMutexA` and `CreateWindowExA`, `SendPacket`, `MemoryCheck` | launcher, injected thread and game run at the same time | keys and sequence numbers agree with the servers' |
| Login and shop extensions, `Extension/WvsLogin`, `WvsShop` | the image of the process | their patches, wrappers of functions of the binary | as above | as above |
| Monitoring, `Scripts/` | none | | | |

How they interact: login, game and shop processes call the stored procedures, each over
connections of its own. The shop processes hold one TCP session each with the cash
daemon, which has one SQL connection to `GlobalAccount`. `CheckPassword` and
`GetCharacterIdList` read the table of the session lock. The daemon and
`IncreaseItemSlotCount` both write `NexonCash`. `ClearWorldConnect` and the scripts run
when a world starts. Every extension is loaded into the process it extends and calls back
into it; `CInPacket::CopyFrom` copies a packet of the binary, so that a hook can decode it
and leave it to the original handler. The client's key has to be the one that the
extensions of the servers install.

## Modules

| Module | Models |
|---|---|
| `UserConnection` | the session lock and the login around it |
| `CashLedger` | what the cash shop promises, abstractly |
| `CashDaemon` | shops, daemon and `BuyCashItem`; implements `CashLedger` |
| `BillSession` | the daemon's receive loop, at the level of pieces of the stream |
| `PointShop` | the purchases the database settles by itself |
| `ItemLocker` | moves, uses, renewal and expiry of items, with the locks of their transactions |
| `PacketBuffer` | `COutPacket`, `CInPacket`, `ZXString` |
| `CharacterCodec` | `GW_CharacterStat`, encoded and decoded |
| `AvatarLook` | `AvatarLook`, encoded, delivered and decoded round by round |
| `ZMap` | the hash map that `get_next` relinks |
| `ProcessImage` | the patches of the five programs and `MemoryCheck` |
| `ClientStart` | launcher, `DllMain` and the hooked calls of the game |
| `ClientSender` | `SendPacket` and its sequence number |
| `GameServer` | chat, commands, and the exception handler around them |
| `CharacterLife` | creation, saves and deletion of characters |
| `GuildBoard` | entries and comments of the guilds' board |
| `Fame` | `CheckGivePopularity` |
| `MC*` | instances of these for TLC |
| `*Proofs` | theorems about the module they are named after; `ExtensionProofs` about `PacketBuffer`, `ClientStart`, `ClientSender` and `ZMap`, `GameWorldProofs` about `CharacterLife`, `GuildBoard` and `Fame` |

### UserConnection

`connections` holds, per account, its rows in the order of insertion; `pc` and `call`
are the statement and the locals of each login session of a server. `CheckPassword` is
two steps (its read of `Account`, and its answer from that and `Connections`).
`TrySetUserConnect` is two: `CountConnections`, then `Refuse` or `Connect`, because the
count is before `BEGIN TRAN`. `Connect` is the transaction in one step. Addresses that do
not fit the `INT` of `ipIntToString` are the set `WideIPs`. Several things leave the
session: `SetUserDisconnect`, which deletes every row of the account, and
`ServerLosesClient`, which deletes none. `overlapped` is a history variable: it collects
the accounts on which two `TrySetUserConnect` calls were under way together.

`ClearWorldConnect` has the guard that no session is online: the procedure has none, the
call belongs to the start of a world.

### CashDaemon and CashLedger

An *order* is one BillPack of a shop and what follows from it: `Request`, the reader that
`getCashFromAccount` opens and closes, `Decline` or `Debit`, the answer, the two INSERTs
of `BuyCashItem`, and the acknowledgement. A session handles one BillPack at a time
(`BeginReceive` follows `OnBillPack`), so an order waits while another of its shop is in
the daemon. `CommandThrows` and `SendThrows` are the exceptions of an order that nobody catches; they
end the process, and with it every order it holds. `DaemonFails` is every other end of it,
of which `BillSession` has the causes. `ShopDies` and `RestartServer` can
happen at any time. The kind `slots` of an order stands for `IncreaseItemSlotCount`, the
other writer of `NexonCash`.

`CashLedger` has two actions, `Pay` and `Deliver`. The mapping takes `nexonCash` for the
balance, the history variable `charged` for the paid orders, and for the delivered ones
those whose row of `CashItemBought` has its SN in `ItemLocker`.

### BillSession

The same daemon one level below: TCP delivers the stream in pieces of any size,
`_offset` moves, and a BillPack is handled when one piece is a whole one. A byte is only
counted. `offset = SIZE` with nothing handled is the state the code gets into after a
fragmented BillPack, where it asks for zero bytes.

`loop` says where a session's callback stands: waiting for bytes, in a command of
`CashRepository` (`querying`), about to answer and to receive again (`resuming`), or in
`OnDisconnect` (`leaving`). The callbacks of different sessions interleave, and share two
objects without a lock: the `SqlConnection` and the list `ConnectedShops`. A callback
that gets to one of them while another is at it leaves it `broken`; so does the database
(`ConnectionLost`), which may also fail a single command by a timeout. Whoever uses a
broken object may get an exception, or may not. What the list holds is not modelled,
since it is only counted.

The exceptions that nobody catches end the process: of a command (`QueryThrows`, also of
a request for an account that does not exist or that names none), of `BeginReceive` after a
send that failed (`BeginReceiveThrows`), and of `OnDisconnect` (`OnDisconnectThrows`: the
list, or `ToString`, which asks the socket for its remote address; the daemon runs under
Mono, `start-server.sh:25`, where a socket that was reset has none).

### PointShop

Each call of a purchase procedure is a sequence of statements; `pc` says before which one
it stands and `seen` is the local it read into. `BuyCashItemByMaplePoint` writes back
what it read; the others subtract. `IncreaseTrunkCount` enlarges first. The columns of
`ItemSlot_Size` are `tinyint` (`ColumnMax`); an overflow ends the UPDATE and not the
procedure. `raced` collects the accounts on which a write made another call's read stale.

### ItemLocker

`row` is an item's row of `ItemLocker` together with the number of its rows in
`CashItemBundle`. Every procedure is a sequence of statements, and `pc` says before which
one a connection stands. `depth` is `@@TRANCOUNT`: both moves begin a `SERIALIZABLE`
transaction and `RETURN 1` out of it when their UPDATE finds no row (`Move`). From then on
everything the connection does is nested in a transaction that nobody ends. `leaks`
collects these connections, `unsettled` counts what they have answered with 0 meanwhile.

The locks are SQL Server's, and external: an UPDATE or DELETE in a transaction holds the
key it looks for, found (`exclusive`) or not (`update`). `CashItemBundle` has no index, so
a `SERIALIZABLE` read shares the table and a write takes it all. `Blockers` are the connections
that a statement waits for; `Victim` is the end of a deadlock, `Disconnect` the end of a
connection, and both restore `image`. Outside of a transaction a statement commits at once.

`MoveCashItemStoL` selects from `CashItemBundle` after an UPDATE that finds every row
moved already; the outputs stay NULL. That SELECT decides nothing, and is left out.

### PacketBuffer, CharacterCodec, AvatarLook and ZMap

`PacketBuffer` follows one packet: fields are encoded, by the extension or by the binary
(whose strings carry no terminator), the packet travels and may be cut short,
`CopyFrom` copies it, and the copy is decoded. `out.allocated` is the size of the region as
`EnlargeBuffer` leaves it; that it frees the old region by `m_aSendBuff.a`, which points
behind the region's header (`COutPacket.cpp:75`, as the destructor does at 25), and that a
`ZXString` passed by value is deleted twice, is damage to the heap, which is left out. `DecodeStr` compares the length of a string with what was left
before the length itself was read, and puts the terminator one byte too far, so that what
it returns may end in a byte nobody wrote (`Garbage`). The order of the four `operator[]` calls in
`Decode4` is the compiler's and is the constant `Decode4Order`; the run has the one from
left to right only. `m_uLength` is an
`__int16`; `ShortMax` stands for 32767.

`CharacterCodec` has the two layouts of `GW_CharacterStat` as sequences of members and
widths, and bytes that name the member they belong to; `bBackwardUpdate` reads some
members and drops them.

`AvatarLook` has one action per round of a loop and one for what lies between the loops.
`Encode` builds the packet byte for byte, either with the lists of `AvatarLook::Encode`
(30 entries, of which the last is the member behind the array) or with those of the binary
(only the slots in use). `memory` is the two arrays with `nPetID` behind them, because
that is where the loops run on to. `Decode` throws (`DecodeThrows`) where the reads up to
the next change of the object would find too few bytes. `DecodeHead` and `DecodeTail` are
several assignments each, and a read that throws between them (`AvatarLook.cpp:143-149`,
`170-171`) leaves the first ones made, which the model does not. Nothing is asserted of a
look that does not arrive whole. `IS_GMS` is 0 in `Config.h`, which leaves out two words that nothing reads.

The hooks that would use `AvatarLook` and `GW_CharacterStat` are commented out
(`WvsGame/Entrypoint.cpp:27-29`): the two modules are about code that is compiled and
that nothing calls.

`ZMap` names a pair by its key. `GetNext` links the last pair of a bucket to the head of
the next used one, as `get_next` does, and the link stays; `GetAt`, later enumerations and
the binary meet it. The loop of `get_at` is its outcome: the pairs the links lead to (`Chain`)
have the key, or one of them the end (`Ends`); in a ring without the key it would run
forever, and no `GetAt` is taken.

Only the binary changes the map, and its code is not here: `Insert`, `RemoveKey` and
`Grow` are what `ZMap.h` says of it (pairs that were deleted, line 82; a table that grows,
lines 20-21) in the usual form of such a map, and external. A new pair becomes the head of
its bucket. A removed one is taken out of the list of its bucket, where alone the binary
looks for it: a link from another bucket, or a `for_each` that stands at it, is left with
memory that was freed. A growth files every pair anew, walking each bucket's list to its
end: if a link leads out of a bucket (`Crossing`), pairs are filed more than once or in
the wrong bucket. In both cases the map is `broken`, and nothing is said of what follows. So
`ZMapTruthful` has two parts: of a map that is not broken, true answers (`LookupTruthful`), whole
enumerations (`EnumerationComplete`) and no ring (`ChainsEnd`); and that a map only breaks after
a `for_each` has linked two buckets, or at the pair where one stands. In other words, a
link that `get_next` leaves is harmless to readers and to insertions, and until there is
one, or an enumeration is under way, to everything. No code of the extensions calls these
operations at this commit: `CharacterData.h` only declares maps.

### ProcessImage

What each extension writes is a script of patches, one definition per function of the
source, run in order over `image`. A patch has its address, its length, the bytes it makes
writable and whether it makes them unwritable again, as `Hook::hook` and `hookCall` do for
100 bytes. `Continuations` are the addresses at which the extension calls into the
program. The client's script has `installBypass` once, although it runs for every suppressed
window (`Entrypoint.cpp:86-87`) and writes the same bytes, and leaves out the write of the
window mode (`Entrypoint.cpp:66`). `initBlocks` takes its sums of the image as it is at that moment.

### ClientStart and ClientSender

`ClientStart` has three threads: the launcher (`launcher`), the injected one in `DllMain`
(`dll`) and the game's (`main`), of which only the hooked calls are modelled. The
main thread is resumed without a wait for the injected one, so that every call may come
before, between or after the two hooks. `xorKey` is `aesKey_with_xor`, which
`initializeKey` turns over in place. A `CreateMutexA` that fails and returns `NULL`
(`Entrypoint.cpp:69`), and the game's own `CloseHandle` calls, are not modelled.

`ClientSender` has the threads that call `SendPacket`, a statement at a time, and the
binary's reconnection, which does not take the mutex. A packet is the sequence number it
was encrypted with.

### GameServer

A user's packet is served by one thread, different users' by different ones. What the code
reads without having written it is a choice: the byte behind a string, the space that
`hasMoreCommand` looks for behind the end, the pointer that the constructor of a
`ZXString` deletes. A handler therefore returns or throws (`Caught`, the handler in
`ProcessUserPacket`) after any of its effects. The rate commands are four steps, of
which each can be the last one. `atoi` goes over a byte of garbage in `DecodeInt`; one that is a
space ends the number.

An administrator's packet is copied and decoded before anything is dispatched, and both
may throw (`DecodingThrows`): `CopyFrom` out of memory, `DecodeStr` on a string longer than the
packet, the look at the first character of an empty string. The line then reaches neither a command nor the original handler. A user's line is not
decoded. That `DecodeStr` writes its terminator one byte behind its block may also damage the
heap; a process that dies of it is not modelled.

### CharacterLife

A character is an identity (`CharacterID`) with its row in `Character` (`owner`, `name`) and
the number of its rows in every table a creation fills (`rows`); `belongings` stands for the
tables that only the game server fills. A connection executes one procedure at a time, and
`pc` is the statement it is about to execute. No procedure looks at an error: a name that was
taken since the login server checked it fails the first INSERT and nothing else, and
`DeleteCharacter` goes on whatever its first DELETE has found. `Break` ends a call
between any two statements. `mishaps` is a history variable with the five things that may happen
to a character and that the procedures do not expect: a call that breaks off, a refused name,
two calls that overlap, a deletion by another account, a save after the deletion. `rivals` are the
accounts of which two creations have looked for the trunk before either inserted it.

### GuildBoard and Fame

`GuildBoard` has the four procedures that change entries, comments and `CommentCount`, a statement
at a time. Any process may call them about an entry or a comment that has existed. `wrong` are
the entries on which a deletion met another call, or a call broke off, and no undisturbed
deletion has counted since; `late` are comments registered while or after their entry was deleted.

`Fame` is `CheckGivePopularity` with midnights between its statements. The day is a counter,
as `DATEDIFF(day, ...)` counts midnights; the two comparisons look at one clock.

## What the runs check

Passing runs:

- `session` (four sessions, one account, two worlds, three addresses of which one is
  wide). `SessionLock`: the lock does what it is for as long as calls do not overlap.
  `TableSound`: the types, and `RowsBoundedByClients`, by which every row and every session that
  may still add one counts once, even when calls race, so the `tinyint` count is reliable. `HeldLockAdmitsNobody`: a row, even an orphaned one, keeps
  everybody out. `CurrentIPOfNewestRow` and `BanClosesAccount` relate the lock to the
  account. Four sessions let two racing pairs and a disconnect of a third party meet.
- `cash_daemon` (two shops, three orders, one account, prices 1 and 2 on a balance of 2).
  Two orders at one shop queue, two at different shops race, and the prices allow for one
  debit that makes the other impossible. `OverdraftNeedsOverlap` says under which
  circumstances the unlocked check can fail, `TablesSound` (the types, and
  `LockerMatchesPurchase`) and `AcknowledgedTruly` relate the two tables and the
  acknowledgements whatever stops in between, and `LedgerSpec` is the refinement.
- `cash_daemon_fair` (two orders): `RequestsSettle`, under weak fairness of the daemon's
  steps for each order. The thread pool runs every callback that is ready and SQL Server
  answers every command, so this much is the platform's; shops, their deaths and restarts
  get no fairness.
- `bill_session` (two shops, BillPacks of two bytes, of which one shop sends two and the
  other one; about 480 thousand states): `FramesAligned` (with
  the types: the offset stays inside the buffer), `OrderlyCloseIsHarmless`, and under fairness of the daemon's reads and callbacks
  `WholeBillPacksHandled`. Two bytes are enough for a piece that is not a whole BillPack; two
  BillPacks, for a piece that would span both, and for one that follows a fragmented one; two
  shops, for callbacks that meet at the connection or the list and for a death that takes an
  innocent session along. `MaxSent` is the bound. `OrderlyCloseIsHarmless` names
  every cause there is: a shop that closed with something unanswered, a connection that was
  reset, a request for an account that does not exist, the database, and two callbacks at one
  shared object.
- `point_shop` (three calls on one account, one increment of 8 away from the limit, an
  index with a column and one without): `PointsAccountedFor`, `DebtComesFromCapacity`,
  `SlotsBounded` (the types, by which columns keep their width, and
  `InventoryOvershootBounded`), `GrowthIsPaidFor`. `ColumnMax` is 60, so that two racing
  increments exceed it.

- `extensions`: `PacketBuffer`, `CharacterCodec`, `AvatarLook`, `ZMap`, `ProcessImage`,
  `ClientStart` and `ClientSender` side by side, one of them per behaviour.
  - `RegionHoldsPacket`: however fields alternate there is room for them. `PacketsRead`:
    decoding fails when it has to, reads at most two bytes too far, and returns what was
    encoded. `StatTransferred`, `LookTransferred` and `ZMapTruthful` are about the next three.
    Packets of up to three fields of all kinds, with a `ShortMax` of 14 that three fields
    exceed; cuts of 0 to 75 bytes, which end statistics in every one of their fields; a look
    that arrives cut may be decoded in part, and nothing is asserted of it. Looks with all
    slots in use, with a few, with an item in a slot that does not take it, and with none. A
    map of four keys that grows from two buckets to three, so that a bucket has two
    pairs, a chain over several buckets four, lists are split and joined, and a link can lead over an empty bucket; two values,
    which are symmetric. `Orders` are the orders by age of the keys, rising and falling.
    About 274 thousand states, two minutes.
  - `PatchesTakeEffect`: the scripts of all five programs, with their real addresses, write
    only where it is allowed, keep what was written, leave the code intact at which hooks
    continue, and install an experience table that rises.
  - `KeyAgrees`, `WindowModeApplied`, `HandlesSpared` and `SequenceInStep` are about the
    client. Five calls of the game are enough for two suppressed windows with mutexes and a
    reused handle between them; three threads and four packets, for a queue behind the mutex;
    two connections, for one reconnection.
- `game_server` (two administrators and a user, two packets, arguments 0, 2 and none,
  unwritten bytes that are a terminator, a space, the digit 3, or a letter). `AnnouncedRateInForce`,
  `LinesHandledOnce`, `ChangesAllowed`, and under weak fairness of each user's thread
  `NobodyStaysBlocked`: a thread that serves a socket is never abandoned by the server,
  and no handler waits for another. `LinesHandledOnce`: a line is said or executed, never both;
  only an administrator's can be neither, if an exception ends it. Two packets are enough for two commands that race.
- `item_locker` (two connections, an item with two uses, one with one, a pet, three calls).
  `ItemsConsistent`, `AnsweredWorkLasts`, `ExpiryTakesOnlyExpired`; and `CallsReturn`, under
  weak fairness of the statements that wait for nobody and of the choice of a victim, which
  is what SQL Server's scheduler and deadlock monitor do. Three calls let one connection
  leak a transaction, work on inside it, and meet another one; two moves deadlock on
  `CashItemBundle`.

- `game_world`: `CharacterLife`, `GuildBoard` and `Fame`, which share no table, one of them
  per behaviour.
  - Characters (two connections, two accounts, one name, three calls). `WholeOrNothing`: a
    character without mishaps has every row of a creation, each once, and its account a trunk,
    whatever was saved meanwhile (`CreatedWhole`), or is deleted and has left nothing
    (`NothingLeftBehind`). `OneTrunk`: two trunks need rivals. `DeletionCleans`: a deletion that
    gets to its end cleans up even after creations and deletions that broke off, and for a
    character that is not listed any longer. Three calls are enough for a creation, a deletion
    that breaks off and another one; for two creations that race, for the name or for the
    trunk, and a third one that finds either; and for a save during a deletion. With one name
    every second creation is one whose name is taken, unless the first character was deleted.
  - The board (two entries, five calls on two connections: two comments and a deletion that
    counts them while another call comes and goes). `BoardConsistent` is the types (counts are
    never negative), `CountTruthful` and `CommentsHaveEntries`.
  - Fame (two callers, four times, two receivers of whom one is a giver too, five days of
    which three are a month): `FameLimits`.

Deadlock is not checked where the instance really ends: all calls done, all BillPacks
sent.

Runs that find what the documentation says violated:

- `single_session`: the guide calls `UserConnection` the session lock; two calls that
  count before either inserts both succeed.
- `requests_served`: the guide says that the daemon serves the requests of the shop; it
  does not serve one that arrives in two pieces.
- `documented_limits`: the guide gives 48 as the maximum of inventory and trunk; both
  grow past it.

## What is proved

For any values of the constants that satisfy the named assumptions of the modules:

- `UserConnectionProofs`. The lock's invariants are not inductive alone: that duplicates
  are bounded is a count that each step keeps, because a client enters only while the account
  has no row and leaves when it adds one; `SessionLock` needs to know what a counted call saw.
- `CashDaemonProofs`. From the types, that every row and every paid order belongs to a
  place in the life of exactly one order (`PaidInv`), and that without overlap the
  balance read for a buy is covered by the one of now (`DebtInv`). From these,
  `TablesSound`, `AcknowledgedTruly`, `OverdraftNeedsOverlap` and that every
  step maps to a step or a stutter of `CashLedger`.
- `PointShopProofs`. `ReadCovers`: a pending read plus what has been charged covers the
  initial balance, so a stale write is never too low. `FreshReads` and `FreshSlots`: in an
  account that no write has raced, what a call read is still true. Every property of the
  run follows.
- `BillSessionProofs`. Bytes are counted: what a session has taken is what it has
  handled, `SIZE` bytes each, and what lies in its buffer (`Counted`), and nothing lies there
  while a BillPack is handled (`HandledWhole`). So every BillPack begins where the shop began one
  (`FramesAligned`), however TCP cuts the stream. `OrderlyCloseIsHarmless` needs that a
  shop that closed with nothing unanswered has nothing unanswered later (`ClosedQuietly`), so
  that a `BeginReceive` that throws is never an orderly close's; every other exception has its
  cause at hand.
- `ExtensionProofs`, on `PacketBuffer`. `RegionHoldsPacket` is inductive with the types; that
  a read is at most two bytes too far (`OverreadIsBounded`) needs that `m_uLength` never exceeds
  the bytes received (`LengthInv`), for any fields, any number of them and any garbage.
  `PacketsRead` needs to know where things are: the fields lie one behind the other, each
  with the bytes it added (`Laid`), what arrives is a piece of the packet from its
  beginning (`Carries`), and the reader stands at the start of a field as long as it met no
  null string (`Follows`). Then what is in front of the reader are the bytes of the field it
  asks for, as far as the packet reaches (`InFront`), and each decoder is followed once. The
  theorem has two hypotheses. `CStrings`: no zero among the characters of a string, and
  fewer than 65535 of them, since a ZXString is made of a C string and its length is sent in 16
  bits. `LeftToRightSums`: `Decode4` adds up its bytes in the order they are written down,
  which C++ does not promise. That a packet is never overread needs neither.
- `ExtensionProofs`, on `AvatarLook`. A slot has its place in the packet (`Place`): behind
  the head, the list before it, and five bytes for every listed slot before it in its
  own. The encoder stands at the place of the next slot with all before it laid
  (`EncodeInv`), later bytes leave those alone, and what is sent is `Whole`. The reader stands
  at the place of a listed slot or of the end byte, and has stored what fits of the slots before
  it (`AtSlot`). Its `round` never exceeds that slot, which is why 30 rounds
  are enough for 29 slots and a terminator. Of what the extension encodes, the 30th entry
  takes the last round, so that the end byte ends the second loop at once (`AtFalseEnd`).
  `LookTransferred` follows for any looks and losses.
- `ExtensionProofs`, on `ZMap`. As long as the map is not broken: every link leads to a pair
  of the same bucket or of a later one (`LinksForward`), and never back to where it comes
  from (`NeverBack`); the head of a bucket leads to all its pairs (`PairsHeld`), its chain ends
  (`PairsEnd`), and what a link from one bucket to another leaves out came late (`NoneSkipped`). An
  enumeration has seen what lies behind it and will meet what lies ahead (`WalkGoesOn`). A
  pair that only its own bucket leads to can be taken out without losing another
  (`LeadsWithout`); a growth of a table without links to other buckets makes lists that hold
  their buckets' pairs (`GrownLists`, `ListsLead`). While `get_next` has linked nothing, no
  link leaves its bucket, so that nothing but the removal of the pair where a `for_each`
  stands breaks the map. `ZMapTruthful` follows for any keys, hash and table sizes, without
  an induction along the chain: what is reached is the least closed set.
- `ExtensionProofs`, on the client. `HookInv`: no mutex is hooked before the user has
  answered, so the answer is never too late. `KeyInv`: the key is one of three, by the parity of
  the turns. `HandleInv`: until a window is suppressed `hMutex` is the mutex.
  At most one thread is behind the lock (`MutualExclusion`), and then
  `m_uSeqSnd` is the number of packets made, less one between `MakeBufferList` and its hash;
  from both, `SequenceInStep` for any number of threads.
- `GameServerProofs`. What a command is about to do was typed by an administrator
  (`NumberInv`), what happened to a line depends on where its handler is (`FateInv`), and
  a command that met no other is alone with its rate (`RateInv`). `LinesHandledOnce`,
  `ChangesAllowed` and `AnnouncedRateInForce` follow.
- `ItemLockerProofs`. `LockInv`: rows are locked inside transactions only, locks exclude
  each other, and a move holds the row it wrote until it ends. From it,
  `AnsweredWorkLasts`; `BundlesBounded`, through every rollback, because
  what is restored was bounded when it was saved; and `ExpiryTakesOnlyExpired`. The two other
  parts of `ItemsConsistent` need more. `UseInv`: an item nothing is left of is in the
  hands of a call that will look at it and delete it, or a rollback has stranded it, and what
  a rollback would bring back is no such item either. `FollowInv`: a row and what a transaction
  would restore both fit (`Fits`), as long as no move of the item is half done; whoever is in the
  middle of one holds the row, and nobody else can restore it then. `ItemsConsistent` follows
  for any number of connections, items and calls, with every deadlock and broken connection.
- `GameWorldProofs`, on `CharacterLife`. `CallInv` and `FreshInv` say which procedure stands
  before which statement, and that nothing is known of an identity before its time. `TrunkInv`: an
  account without rivals has one creation on its way to the trunk at most, and then no trunk;
  `OneTrunk` follows. `StoryInv` is the induction behind the two others: on a character
  whose calls never overlapped at most one call works, and then the statement it has come to
  tells which rows are there (`Progress`, while it is created) or gone (`Cleared`, while it is
  deleted). A statement leaves other characters and their calls alone (`Local`), so
  that only the story of its own character has to be followed. `WholeOrNothing` and
  `DeletionCleans` hold for any number of characters, connections and calls.
- `GameWorldProofs`, on `GuildBoard`. `EntriesFit` says of every entry that a `DeleteComment`
  no call has met is alone on it (`MeetingsAt`), that what such a call has found and counted is
  still there (`ReadsAt`), and that `CommentCount` is the number of comments but for the calls
  that have made one of their two changes, one each (`BooksAt`). With SNs that are given out
  once (`SNsInOrder`), comments that stay away once they were not found (`GoneStaysGone`)
  and those that come behind the back of `DeleteEntry` (`GoingEmpty`) this is inductive, and
  `BoardConsistent` follows for any guilds, servers and calls.
- `GameWorldProofs`, on `Fame`. What a call of a giver whose calls do not overlap has read is
  still the latest row there is, and what it decided still holds (`ReadsStillTrue`), since days only
  pass. So the row it inserts comes after all others, and a month after the last one to the
  same character. `Latest` is a maximum over a set of rows, for which the proof needs that
  a bounded set of days has one (`GreatestExists`).

Assumptions: at most 255 login sessions at a time (`ClientsAssumption`), prices that are
not negative, an increment that a column at the limit has room for, model values that are
distinct from `None`; arguments of one digit, initial rates from 1 to 5, unwritten bytes that
are bytes, at least one item, items that can be used at least once; tables with at least one
bucket, hashes that are natural numbers, ranks that tell keys apart, and a null pointer
that is no key and no value.

Only model-checked:

- the liveness properties (`RequestsSettle`, `WholeBillPacksHandled`, `NobodyStaysBlocked`,
  `CallsReturn`): they need fairness, which TLAPS does not reason about;
- `PatchesTakeEffect` and `StatTransferred`: the addresses and the layout are those of the
  source, and the runs try all five programs and every cut of the 69 bytes, so that nothing is
  left to generalise.

## Not modelled

What the binaries do beyond the calls named above: `CashDaemon` assumes that a shop sends
one request per order and calls `BuyCashItem` once for an answer. The layout of a
BillPack, the overflow of `ItemUnitPrice * ItemCnt`, the uniqueness of `PurchaseNo`, which
nothing looks up. The contents of `ConnectedShops`, on which only the title of the window
depends; that its `Remove` may throw is modelled.

Of the database: what a half-created character does is decided by the binaries, and so is what
they insert by themselves. `DeleteCharacter` never looks at the tables of fame, memos, marriages and
some others; no procedure expects it to. The state of guilds (`CreateNewGuild`, `JoinGuild`, `RemoveGuild`) is kept by
the centre server, which is not in the repository; `GuildBBS_ModifyEntry` changes texts.
Memos, marriages, coupons and claims are single statements. PIN, EULA and `Set_Account`
change one row of one account. Gifts, couple and friendship items repeat the statements of
`BuyCashItem` for another account.

Of the extensions: `CPersonalShop::onPutItem` is never installed (`WvsGame.cpp:42-44`);
`CCenter::OnPacket` and `IncMoneyMesosExplosion` are single tests in front of the original;
`OnWorldRequest` builds one packet from constants; `runCheck` is commented out where it was
called, `WindowHax` and `CX_ExceptionDebug` are not used; `ZArray`, `ZList` and the other
layouts of classes of the binary have no operation that changes state; the log is left out.

The scripts that start database and server run a few commands once. Their hazard, a marker
that is written after the last script, is listed; what happens then depends on which
statements SQL Server refuses on a half-created database. Monitoring only reads.

SQL Server runs at its default, READ COMMITTED, except in the two moves: a statement is
atomic, a transaction's writes are locked until it ends, and nothing protects what was read.

## Observations

Met while the models were written, and not the subject of a run:

- `docs/referencias/arquitetura-e-logica-completa.md:152-157` says that the launcher injects
  `client.dll` and only then resumes the client. `Source.cpp:76-78` keeps this order of
  calls, but does not wait for the remote thread: the client may run before the library is
  loaded. `ClientStart` has every order.
- `README.md:178` gives `!exp <1-5>`; a command without a number is parsed out of
  unwritten memory (`RefuseArgument`, `DecodeInt`), and `0` may become a rate.
- `SetEXPRate` names the characters 0 to 99999 at start and 0 to 999999 in the
  command.
- `hook_StringPoolGetString` keeps the first of its three pointers three times.
- A command longer than 99 characters ends the process in `strcpy_s`.
