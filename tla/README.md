# Unreal-Engine-Client (S1): a verification project

S1 is the client of a multiplayer shooter: an Unreal Engine 5 game module that
talks to a game server over one TCP connection, with protobuf messages in
packets of its own framing. The server is not in the repository. The code under
verification is the hand-written C++ of `src/Source/S1`, some 1900 lines; the rest of
the tree is the vendored protobuf library (`Source/ProtobufCore`), code protoc
generates (`*.pb.h`, `*.pb.cc`) and binary Unreal assets (`Content`).

## The system

Three threads run: the game thread, and for each session a `RecvWorker` and a
`SendWorker` thread. The game thread owns everything but the two packet queues.

| Component | State | Operations | Talks to |
|---|---|---|---|
| **RecvWorker** (`Network/NetworkWorker.cpp`) | place in the byte stream, header read, `Running` | `Run`, `ReceivePacket`, `ReceiveDesiredBytes`, `Destroy` | socket; `RecvPacketQueue` through a weak reference to the session |
| **SendWorker** (same file) | buffer being sent, `Running` | `Run`, `SendPacket`, `SendDesiredBytes`, `Destroy` | socket; `SendPacketQueue` |
| **PacketSession** (`Network/PacketSession.cpp`) | two queues, two workers, reference count | `Run`, `SendPacket`, `HandleRecvPackets`, `Disconnect`, destructor | workers, `ClientPacketHandler` |
| **ClientPacketHandler** | table of 65535 handlers | `Init`, `HandlePacket`, `MakeSendBuffer` | `US1GameInstance` |
| **US1GameInstance** (`S1GameInstance.cpp`) | `Socket`, `GameServerSession`, `Players`, `Enemys`, `MyPlayer`, lobby slots | one handler per S_ packet, requests for C_ packets, connect, disconnect, map change | session; actors of the level; Blueprints |
| **S1Player, S1MyPlayer** | position, destination, id, map number, send timer | `SetDestInfo`, `Tick` | game instance |
| **S1Enemy** | id, AI state, target | setters | game instance, behaviour tree |
| **S1Bullet, S1MyBullet, S1GameMode** | (empty in C++) | | |
| **BufferReader, BufferWriter** | cursor and size | `Peek`, `Read`, `Write`, `Reserve`, `<<`, `>>` | included, unused |

Blueprints drive the game instance: the login widget calls
`ConnectToGameServer`; the character widget opens DevMap, whose BeginPlay calls
`SelectCharacter`; both levels' ticks call `HandleRecvPackets`; the menu calls
`DisconnectFromGameServer` and opens LobbyMap; a map trigger calls `MoveMap`; a
bullet's hit calls `RequestScore`; the behaviour tree of an enemy calls
`GetEnemyFromId`. Opening a level destroys all actors of the old one; the game
instance, its maps and the session survive.

What is hard here:

* TCP delivers the byte stream in pieces the code does not choose, and
  `ReceivePacket` reads it with two calls that each give up when nothing is
  pending (`NetworkWorker.cpp:95`).
* The worker threads run on while the game thread handles, disconnects or
  replaces the session.
* Ids, raw pointers and maps outlive the actors they name: across despawns,
  map changes, level changes and sessions.
* The server's packets come in an order the client does not control, and some
  belong to a level that is gone.
* Narrow integers: the 16-bit packet size, the `int` that `GetObjectId` makes
  of a 64-bit id. (The unsigned cursors of the buffers too, but no client code uses them.)
* A step that fails half-way is not repeated: a spawn `SpawnActor` refuses, a packet `Send`
  cannot finish, a payload that does not parse.

What makes each component correct:

* *receiving*: the handlers get the packets the server wrote, once each, in
  order, in the end; no header from the server brings the process down;
* *the shared world*: an actor on the screen is registered under its id and a
  registered actor is alive; no handler follows a dangling pointer; a map
  change clears the others; requests go out in an order that makes sense;
* *sending*: packets leave whole and in order, and a header's size is right;
* *session lifetime*: no thread uses a session or worker that is gone, each
  queue has one producer and one consumer, a replaced session ends;
* *motion*: a remote player goes towards its destination and not past it;
  positions are reported at most every 0.2 s;
* *lobby*: the arrays' bounds, whose characters the slots hold, and that the
  character chosen is the one that enters the game;
* *buffers*: checked operations stay inside, values are found where they were put;
* *all of it together*: with requests and packets on the way, the client and a
  server that behaves do not break each other's assumptions, and agree in the end.

`PROJECT.json` lists every hazard at its line with the properties that cover it.

## Modules

| Module | What it is |
|---|---|
| `PacketChannel` | the abstract promise of both directions: an in-order channel |
| `RecvStream` | the byte stream, the RecvWorker, `RecvPacketQueue`, the game thread's dequeueing |
| `RecvStreamProofs` | theorems about it, and that it implements `PacketChannel` |
| `GameWorld` | `US1GameInstance`'s registry of actors, its handlers and requests, levels and sessions |
| `MCGameWorld` | symmetry for TLC |
| `GameWorldProofs` | theorems about it |
| `SendPath` | `MakeSendBuffer`, `SendPacketQueue`, the SendWorker and what it puts on the wire |
| `SendPathProofs` | theorems about it, and that it implements `PacketChannel` |
| `SessionLifetime` | references to sessions, the destructor, worker objects and their threads |
| `SessionLifetimeProofs` | theorems about it |
| `PlayerMotion` | the own avatar's reports and a remote player's walk, on two clients |
| `PlayerMotionProofs` | theorems about it |
| `ClientPipeline` | `GameWorld` behind two channels, with a server that behaves at the other end |
| `ClientPipelineProofs` | theorems about it, with those of `GameWorldProofs` |
| `Lobby` | the table of handlers, S_LOGIN, the slots, `SelectCharacter` |
| `MCLobby` | the characters for TLC |
| `LobbyProofs` | theorems about it |
| `BufferCursor` | `BufferWriter` and `BufferReader` side by side |
| `BufferCursorProofs` | theorems about it |

They fit together like this: `RecvStream` and `SendPath` implement `PacketChannel`; `ClientPipeline`
takes two such channels for granted and puts `GameWorld` between them, whose actions
it uses as they are (`World == INSTANCE GameWorld`). `SessionLifetime` says who may touch the
session that holds the queues, `Lobby` what becomes of the packets before a game,
`PlayerMotion` what becomes of the positions inside C_MOVE and S_MOVE.

### RecvStream

A packet is its header, a size and an id (the id stands for the payload too). A
position in the stream is a frame number and an offset, so that a reader out of
step has one too. `worker` is the program counter of `ReceivePacket` within
`Run`:

| `worker` | in the code |
|---|---|
| `poll` | `Run` calls `ReceivePacket`, `HasPendingData` for the header (`NetworkWorker.cpp:63`, `:95`) |
| `header` | the `Recv` loop for the header (`:99`-`:110`) |
| `parsed` | size known (`:79`): header-only, bad size, or `HasPendingData` for the payload |
| `payload` | the `Recv` loop for the payload |
| `enqueue` | `ReceivePacket` returned true, the session is pinned (`:36`) |
| `stopped`, `fatal` | `Run` returned; the process died in `AddZeroed` with a negative count |

`Take` is one `Recv`; it may bring any number of the pending bytes up to what is
asked for, within one frame (a `Recv` across a frame boundary is two of them).
`DropHeader` is the path the code has no comment for: the header is taken, the
payload is not pending, `ReceivePacket` returns false. A header read out of step
may say anything (`header' \in Headers`). `PeerClose` leaves what has not
arrived unsent for good; `SessionDestroyed` is the last reference going, with
the queue. After it the worker object is freed, so `Exit` may or may not be
taken: the thread reads a stale `Running`. Who frees it and when is
`SessionLifetime`'s subject.

`SplitAfterHeader` is the one assumption about TCP: whether an arrival may end
exactly between a header and its payload. The code is right without such
arrivals and wrong with them, and the project says both.

### GameWorld

`players` and `enemys` are the maps, `myPlayer` the pointer, `actors` what the
pointers point to: a kind (`mine`, `other`, `enemy`, or `none` for memory with no
live actor) and the id in its ObjectInfo. One action per handler and request; an
S_SPAWN or S_DESPAWN of several objects is as many steps, with nothing of the
client's between them that could tell the difference. `SpawnActor` may fail
(`a = None`). `screen` and `travel` are the Blueprints' part: the widget or level
shown, and an `OpenLevel` under way; no world tick, and so no packet, comes
between `OpenLevel` and `LoadMap`. `AsInt` and `Key` are what becomes of an id that
goes through `int GetObjectId()` into a map with 64-bit keys. `fault` is set where
the code follows a null or dangling pointer or fails a check of the engine; the
model stops there.

`DespawnPlayer` reads `*FindActor` after `FindAndRemoveChecked`, from the slot of
the map that was just freed. The free list's links overwrite the key there, not
the pointer, so the value read is the old one in every build of the engine this
project targets; the model takes it as that.

`breach` is a history variable: the ways in which the server has sent what the
handlers do not allow for. They are the assumptions of the properties, each
stated where it is needed and nowhere else:

| breach | the server | why it can happen |
|---|---|---|
| `late` | sends an object while the client is in the lobby, or points before S_ENTER_GAME | C_LEAVE_GAME takes a while to arrive; the lobby's tick handles packets too (`ClientPipeline`) |
| `wideId` | uses an id that `int` does not hold | ids are uint64 |
| `enterAgain` | sends S_ENTER_GAME twice, or for an id spawned already | S_SPAWN to the whole room first |
| `enemyAgain` | spawns an enemy that is there | an S_SPAWN of the old room crosses C_ENTER_ROOM, and the player comes back (`ClientPipeline`) |
| `ownDespawn` | despawns the own avatar | a broadcast that does not leave it out |

### SendPath

`requested` is what the game asked to send, a message being its length and its id.
`SendPacket` is the macro `SEND_PACKET` with `MakeSendBuffer`, `US1GameInstance::SendPacket`
and `PacketSession::SendPacket`, all on the game thread; `DataSize` and `PacketSize` are the two
narrowings to `uint16` (`SizeMod` stands for 2^16). `SerializeToArray` writes nothing when
the message is longer than the room it is told of; when the packet size itself
wraps, what is written (header or payload) exceeds the buffer and the model
stops with `overrun`.

The SendWorker is at `poll` (pin and `Dequeue`), `send` (the loop of
`SendDesiredBytes`, `left` being `Size`) or `stopped`. `wire` holds, packet by packet, how
many bytes the socket has taken. `Send` may take any number of bytes; `SendFails`
drops the rest of the buffer and goes on with the next, since `Run` ignores
`SendPacket`'s result. Whether a `Send` may fail on a connection that stands is the
constant `TransientErrors`; without it the connection is gone for good and no later
`Send` succeeds. `SessionDestroyed` needs the worker at `poll`: while it sends it has
the session pinned.

### SessionLifetime

Sessions are numbered by login. `refs` are the shared references: the game's
`GameServerSession` and one for each worker thread inside the `if` of its `Run`. Weak
pointers yield one as long as there is another (`CanPin`). Whoever drops the last
one runs `~PacketSession` to its end before it does anything else: `life` goes through
the statements of `Disconnect` one by one, so that the worker threads run between
them.

| `pc` of a worker's thread | in the code |
|---|---|
| `check` | `while (Running)` |
| `receive` | `ReceivePacket` (RecvWorker only) |
| `pin` | `SessionRef.Pin()` |
| `pinned` | `Enqueue`, or `Dequeue` and `SendPacket` |
| `destroying` | the destructor, called at the end of the `if` |
| `stopped` | `Run` has returned |
| `wild` | it has read something other than `false` out of the freed worker object |

The session owns the worker objects and nothing waits for their threads, so
`FreeRecv` and `FreeSend` may find the thread anywhere in its loop. A thread that then
looks at `Running` sees the `false` that `Destroy` left, or whatever the memory holds by
then; one that uses `Socket` or `SessionRef` is `wild`. What a `wild` thread does is not
modelled: the run shows that it happens only to sessions the game has let go of
(`WorkersServe`) and that each thread ends in `stopped` or there (`ReplacedEnds`). The
old `FSocket` is never closed.

### PlayerMotion

One player, its own client, the server, another client. `AvatarTick` is
`AS1MyPlayer::Tick` with the `AS1Player::Tick` it begins with: `PosInfo`, the timer, C_MOVE.
`HandleSpawn` is `SpawnPlayer` for another player: the duplicate check; `SpawnActor` yielding
null, where something is in the way or no memory is left, after which the handler returns
(`S1GameInstance.cpp:188`) and nothing asks again; or the new actor with the three places
it has: the one `SpawnActor` gives it, which `BeginPlay` makes its destination, may be up to
`Push` from the one asked for (pawns are pushed out of others' way), and `SetPosInfo` then
moves it to the one in the packet. `HandleMove` sets the destination, and is
dropped when there is no such player. `ImageTick` walks: on a line, `MoveDir` is a sign,
and `MoveDist` the lesser of speed times frame time and the distance. `refused` is history:
the last S_SPAWN has made no image. Its S_MOVEs are dropped, and S_DESPAWN ends it. The server
(`Relay`, `Join`, `Leave`) is external: it keeps the last position, relays it to the room,
and tells a client that joins.

### ClientPipeline

Every step of the client is one of `GameWorld`'s together with what it takes from `down`
or puts on `up`; nothing of the client is modelled a second time. The two are sequences
because that is what a `PacketChannel` is. `Connect` gives the new session channels of its
own. The server is external and does what a server for this client would: it takes
requests in order, answers C_LOGIN, C_ENTER_GAME and C_SCORE, ignores a request it
has no use for, and reports what appears, vanishes and acts in the client's `room`,
each thing once. `where` is where it has the client. `Kind` and the ids it uses are
assumptions with names: ids an `int` holds (`NarrowAssumption`), an avatar that is no enemy
(`OwnAssumption`).

Each `SpawnActor` may yield null, for the own avatar, another player or an enemy
(`S1GameInstance.cpp:157`, `188`, `290`), as in `GameWorld`; the handler then drops the object,
and neither the client nor the server tries again. Otherwise the new actor gets *some*
free address (`Address`; `Yield` has both outcomes): addresses are interchangeable in every
definition of `GameWorld`, so one choice stands for all, which is what makes the run
possible. Where no address is free null is the only outcome.

`left`, `crossed` and `refused` are history: the player has left a game in some session; an
S_SPAWN of the old room and a C_ENTER_ROOM have met on the way since the last login or map
change; the objects that `SpawnActor` has refused in the level and the room the client is in,
each until its S_DESPAWN. The avatar stays in it for the rest of the level: it has no
second S_ENTER_GAME.

What the run and the theorems show:

* Of `GameWorld`'s five breaches, a server that behaves brings about two, `late` and
  `enemyAgain` (`FirstBreach`). `wideId` is assumed away; `enterAgain` and `ownDespawn` never come
  first. Before the player has left a game nothing is late and no pointer dangles
  without an enemy spawned twice (`SafeUntilLeft`).
* `late`: packets on the way when C_LEAVE_GAME is sent are handled by the lobby's tick.
  They spawn actors into the lobby and entries that dangle after the next level
  change; an S_SCORE among them uses a dangling `MyPlayer`.
* `enemyAgain`: `MoveMap` clears the screen before C_ENTER_ROOM is on its way. An S_SPAWN of
  the old room that comes after stays on the screen as a ghost, and when the player
  returns the server, which knows nothing of it, spawns the enemy again. That is the
  second S_SPAWN of the finding at `S1GameInstance.cpp:280`: it takes no misbehaving server.
* Once the channels are empty the screen lacks nothing of the server's room but what
  `SpawnActor` has refused, and that also where a ghost is on it or an enemy has been spawned
  twice: only a late packet can cost more. Where no S_SPAWN has crossed a map change
  there is nothing more on it either (`SameWorld`).
* Until a packet is late no request reaches a server that has no use for it
  (`RequestsWelcome`), and the player gets an avatar unless `SpawnActor` refuses it
  (`AvatarGiven`). An enemy spawned twice disturbs neither the requests
  (`OnlyAgainTheorem`) nor the avatar (`AvatarOnItsWayTheorem`).
* A refused spawn is never made up for. A refused object stays away until it leaves and
  comes back, and a player whose avatar was refused is in the game's level with nobody to
  play until leaving it. The properties allow for this because the code does nothing
  against it.

### Lobby

`table` is `GPacketHandler`, filled by `Init` at every login; entry and id ranges keep the
code's odd limit, a table of `UINT16_MAX` entries for ids up to `UINT16_MAX`. `inbox` is the
session's queue; a packet is its id, whether `ParseFromArray` accepts it, and S_LOGIN's
list. `Handle_S_LOGIN` writes one slot per character and leaves the rest as they were:
slots and `SelectedCharacter` outlive the session. `Stored` and `AsInt` are the score's way from
uint64 through `SetScore(int)` to uint64. `breach` has the two things the server could do that
leave an array: list more characters than slots (`manyPlayers`) and use the id 65535
(`maxId`). `wild` is the memory past an array written, or an empty function called; the
model stops there.

Selecting before S_LOGIN has been handled, or a place it does not list, yields what
is in the slot, which may be an earlier account's; `EntersAsListed` is stated without
those cases because the code does nothing against them.

### BufferCursor

A size and a position per cursor, in `Mod` (2^32) arithmetic. `Write`, `Reserve`, `Peek` and `Read`
compare with `FreeSize`, `<<` and `>>` do not. `careless` is the set of cursors constructed past
their end or moved there by an operator, after which `FreeSize` has wrapped and the checks
pass; `outside` those that have touched memory past the end. `done` is where each value
was put or taken.

## Runs

| Run | Shows | Bounds |
|---|---|---|
| `recv_whole` | without a split after the header: types, nothing half read between packets, refinement of the channel, every packet handled | 3 packets of 4 to 6 bytes: header only, one payload byte, a payload that comes in two pieces. Sizes tell the packets apart, three suffice for one handled, one queued, one being read |
| `recv_split` | with it: framed until the first lost header; fatal only after one | 3 packets of 4 or 5 bytes, two ids: the packet after the lost one is misread, the one after that too |
| `recv_header` | (violation) a header is read from the middle of a packet | 2 packets |
| `world` | all properties of the world | 3 ids, of which 9 becomes 1 when narrowed (`IntMod` 8, `IdMod` 16 stand for 2^32, 2^64); 3 interchangeable actors, which is own avatar, another and an enemy, or an orphan and its double |
| `world_enemies` | (violation) a repeated S_SPAWN makes an orphan enemy | 2 ids, 3 actors |
| `send_whole` | where messages fit and a connection works until it is lost: only the last packet can be cut short, refinement of the channel, every request gets out | 3 requests of 0, 1 or 3 bytes after a header of 4: none, one, and the most that fits `SizeMod` 8; two ids tell equal sizes apart; three are one being sent and two queued, or one cut and two after it |
| `send_any` | with messages of any size and failing sends: types, order, no repetition, sizes | data of 0, 3, 4, 8, 9 bytes: the largest that fits, the smallest that does not, one whose data size wraps to 0 and to 1 |
| `session` | who may touch and who destroys a session, and that it ends | 2 logins: the second replaces the first at any point of its workers' loops; with 3 (21 million states) the safety properties hold too. 2 packets per session, one to be enqueued at the moment of the replacement and one after |
| `motion` | regular reports, images keep to the avatar's path and come to rest where it does, unless `SpawnActor` refuses them | a line of 4 points, 2 packets on each connection; a step (2) is shorter than the line and longer than a point, a frame as long as the delay or half of it |
| `pipeline` | what the delay alone can break, agreement of screen and room, requests in time, an avatar for everybody who stays, with spawns that fail | 3 ids: the own avatar, another player, an enemy; 3 addresses: one each, or a ghost among them and one object refused for lack of memory, besides those refused at will; 2 requests and 2 packets on the way (`MaxDown` + 1): enough for a spawn and a despawn, a spawn and C_ENTER_ROOM, a packet and C_LEAVE_GAME to pass each other |
| `lobby` | bounds, whose characters the slots hold, who enters the game | 2 slots, a table of 4; 3 characters, one with a score no `int` holds and one of a type the client does not know; lists of up to 3, one too many; 2 packets queued; 2 logins |
| `buffers` | inside the buffer, values found again | `Mod` 16; sizes 0, 4 and 15, starts 0 and 1 (past the end of an empty buffer), lengths 0, 1, 2, 4, 15: exact fit, too long, one that wraps; 2 values each |

Deadlock is not checked: a run ends when the connection is closed and the session
gone, and a world stops at a fault.

Two findings. `NetworkWorker.cpp:95`: when nothing is pending for the payload yet the
header is thrown away and payload bytes are parsed as the next header.
`S1GameInstance.cpp:280`: the duplicate check of `SpawnEnemy` looks into `Players`.

Fairness. `RecvStream`: the worker spins in `Run`, so weak fairness of its
steps; both levels call `HandleRecvPackets` on every tick, so weak fairness of
dequeueing; TCP delivers while the connection stands. `EveryPacketHandled` needs
all three. `SendPath`: the worker spins likewise, and a `Send` does not block for good,
which is the peer reading. `SessionLifetime`: the operating system runs every thread;
`Recv` and `Send`, inside `receive` and `pinned`, return. `MaxArrivals` matters there: a
session the game has let go of could be kept by its two workers pinning it in
turns, each before the other lets go, for as long as packets keep arriving; the
property is that it ends once they stop. `ClientPipeline`: levels tick and so handle packets, a
level asked for opens, and the connection works and the server reads it; nothing is
assumed of the player or of what happens in the room. `PlayerMotion`: both worlds tick and handle
packets, server and network pass them on; nothing is assumed of the player.
`GameWorld`, `Lobby` and `BufferCursor` state no liveness: nothing in them is promised.

## Proofs

For every header and packet size, id set and number of packets
(`RecvStreamProofs`, from `SizesAssumption` and `BoundsAssumption`):

* `TypeCorrect`, with positions: worker and socket are within the stream and the
  worker is behind (`StreamInv`). The facts about `Take` and `Advance` are lemmas.
* `FramedTheorem`, `FatalTheorem`: until a header is thrown away. The properties
  are not inductive: that the packet enqueued is the server's depends on where its
  header began and on how much of it has been read. `Aligned` says it for each
  value of the program counter (offset plus bytes wanted is the header size, then
  the packet's), `Counted` that the packets out so far are those before the
  current one, `Content` that they are the server's. `IInv` joins them.
* `NothingSkippedTheorem`, `ChannelTheorem`: without `SplitAfterHeader`. `Whole` is
  the invariant: the socket never rests at the end of a header, so a worker that
  has just taken one sees something pending, and `DropHeader` is never taken.
  `ChannelTheorem` is the refinement: each step writes, delivers, closes, or
  stutters. `HeaderTheorem` is that every header parsed begins where a packet does: the
  comment at `NetworkWorker.cpp:58` is right just under this condition, without which
  the run `recv_header` refutes it.
* `ChannelUntilDesyncTheorem`: whatever TCP does, each step until a header is thrown away,
  and the one that throws it away, is the channel's. So `DropHeader` is the only way to
  lose, invent or reorder a packet. It and `ChannelTheorem` rest on one lemma, `ChannelStep`,
  which asks of a step only that what is out so far is the server's.
* `AtRestTheorem`, the safety part of `EveryPacketHandled`: until then, where the network, the
  socket, the worker's hands and the queue are empty, all that was written has been handled.

For every set of ids, every width of integers and every set of actors
(`GameWorldProofs`, from `IdsAssumption`): `TypeCorrect`, `PlayersTrackedTheorem` with
no assumption about the server at all, `EnemiesTrackedTheorem` unless an enemy is
spawned twice. The argument goes actor by actor (`PlayerEntry`, `EnemyEntry`): a handler
that takes an entry away destroys what the entry points to, which is the actor whose
entry it is. `RegistryTheorem`, `AvatarTheorem`, `NoFaultTheorem`, `RequestsTheorem` and
`MapChangeTheorem` rest on one more invariant (`WorldInv`): the reverse direction, from
entries to actors, while nothing is late (`RegInv`); the menus' order (`MenuInv`); and,
with a server that keeps to the protocol, where `MyPlayer` points and what the server
has been asked for in each level (`GameInv`). `NoFault` is not inductive without all
three: `MoveMap` looks at every entry and at `MyPlayer`, and that it finds them alive
depends on the level having opened with empty maps. Both directions together are
`MapsTheorem`: unless something is spawned into the lobby or an enemy twice, entries and
actors are one to one. `OnlyLateTheorem` says which of the five breaches can put a
request out of order: `late` alone (`OrderInv`: until then the order of requests is
where the menus are, and nobody is on a screen that is not the game's). Each of the five
alone can break `NoFault`: TLC finds a trace when the property leaves it out. That `int`
keeps the ids on the screen apart is `NarrowInv`: any other id was a `wideId`.

For every size width, header size, set of message lengths and number of
requests (`SendPathProofs`, from `WidthAssumption`, `DataAssumption`, `LimitsAssumption`):

* `TypeCorrect`; `OrderTheorem`: packets on the wire, being sent and in the queue form
  one increasing sequence of request numbers (`OrderInv`), whatever fails.
* `SizeTheorem`: `MadeInv` says of every buffer, wherever it is, that it is what
  `MakeSendBuffer` makes of its request; lemmas say what that is for a message that fits.
* `FramedTheorem` and `ChannelTheorem`, without `TransientErrors`: `PartInv` (what is on the
  wire of the buffer in hand is what is no longer `left`) and `GaplessInv` (no request
  is missing between wire, buffer and queue while connection and session stand). A step of the
  sender delivers the next message when the last byte goes out, and stutters
  otherwise.
* `NothingLostTheorem`, `SentAtRestTheorem`, from `GaplessInv` and likewise without
  `TransientErrors`: each request is in one of the three places, and when the worker is at
  rest with the queue empty the server can read all of them. It is the safety part of
  `EveryRequestSent`.

For every number of logins and packets (`SessionLifetimeProofs`, from
`LimitsAssumption`): `TypeCorrect`, `PinnedTheorem`, `DestroyerTheorem`, `ServeTheorem`.
`RefInv` ties the three views together: a session lives exactly as long as somebody
refers to it, a worker refers to it exactly while it is `pinned`, the game only to the
newest. `DestroyInv` says that the destructor's thread does nothing else meanwhile,
`WorkerInv` that the workers of a session that lives run. What each stage of the
destructor has told and freed, and that the game lets go only of a session it has set
up, is `EndInv` (`Stage`, `Made`). With it, `OnItsWayTheorem`, the safety part of
`ReplacedEnds`: a session the game has let go of is held by pinned workers, or being
destroyed by a thread that is at it, or freed; none is left with nobody to end it.
`LastStepTheorem` bounds what a thread does after that: one step in the freed worker.
`OnceEachTheorem`: sessions and workers go through their stages in order.

For every line, speed, delay, frame time and push (`PlayerMotionProofs`, from
`LineAssumption`, `TimeAssumption`): `TypeCorrect`, `RegularTheorem`, `PathTheorem`. The
invariant behind the last is that every position anybody knows of, on the way or at
rest, is one the avatar has passed (`KnownInv`). `NewsTheorem` is about the packets on
the way to the other client: joins, reports and departures come in turn, so that each
finds the image as the server left it, or still missing where `SpawnActor` has refused it
(`NoneRefused`), and the last says where the server has the player (`NewsInv`). Its second half (`BoundForKnown`) and `NearerTheorem`, that each frame
takes an image strictly nearer or leaves it at its destination, are the safety part of
`CatchesUp`.

For every number of slots, size of the table, widths and characters (`LobbyProofs`, from
`SlotsAssumption`, `BoundAssumption`, `IdsAssumption`, `WidthAssumption`,
`CharactersAssumption`): `TypeCorrect`, `InBoundsTheorem`, `SlotsCurrentTheorem`,
`EntersTheorem`. The invariants: while the server keeps to the limits the table is full
once there has been a login, and every packet in the queue has an entry and a slot for
each character (`BoundsInv`); an S_LOGIN in the queue that parses is the current
account's, only its id leads to its handler, and the slots agree once it has been
handled (`ListInv`).

For every width, sizes, starts and number of operations (`BufferCursorProofs`, from
`WidthAssumption`, `RangeAssumption`): `TypeCorrect`, `InBoundsTheorem`,
`DisjointTheorem` (values do not overlap), `RoundTripTheorem`. A cursor that is not
`careless` has its position, and all it has put or taken, within its size, so `FreeSize`
is the true difference (`BoundsInv`); each value begins where the one before it ends,
modulo `Mod`, which gives the round trip even where positions wrap (`ChainInv`).

For every set of ids, of enemies and of actors and any number of requests and
packets on the way (`ClientPipelineProofs`, from `WorldAssumption`, `NarrowAssumption`,
`OwnAssumption`, `BoundAssumption`), with `SpawnActor` free to refuse any of them:

* `ClientIsWorld`: the composition implements `GameWorld`, so that `GameWorldProofs` is
  used and not repeated (`Known` is what is taken over).
* `WelcomeTheorem`. Each request is in order given those before it (`Chain`), and the
  menus go with where the server is or will be (`MenuInv`).
* `SafeTheorem`. S_ENTER_GAME comes before everything else into an empty world
  (`StartInv`), the server never despawns the avatar (`OwnInv`), and before the first
  C_LEAVE_GAME an S_SCORE finds an avatar (`FirstGameInv`).
* `FirstBreachTheorem`. `RoomOf` follows an enemy through screen, channel and room: two
  of its spawns, or its entry and a spawn, have a despawn between them, and while
  C_ENTER_ROOM is on its way there is no spawn to cross it (`RoomInv`). All of them
  together are `PipeInv`. `OnlyAgainTheorem` adds `GameWorldProofs`' `OnlyLateTheorem`:
  until a packet is late no request is out of order and nothing but `enemyAgain` is
  broken.
* `SameWorldTheorem`. That channels, screen and room agree when the channels are empty
  is not inductive; `ScreenInv` says what they agree on before. Of the packets about an
  id that are on the way, one that undoes what the room says (a despawn of what is in it,
  a spawn of what is not) is followed by one that does it (`Settles`). `ThereInv` has the
  half about what is in the room: its entry is there, or its spawn on the way, or it has
  been refused, or it is one of the others of a room with C_ENTER_ROOM on its way. It
  needs no more than that no packet is late, since a spawn puts an entry on the screen
  or leaves the one that is there. `GoneInv` has the other half, what is not in the room
  or about to go, and needs that no S_SPAWN has crossed a map change. `SortInv` keeps
  players out of `Enemys` and enemies out of `Players`, `HomeInv` the avatar in the room
  of a game.
* `ScreenIsRoomTheorem`, `NothingMissedTheorem`. With `MapsTheorem`, what agrees is not
  just the maps but the actors: each object of the room that has not been refused is
  there once. And before the channels are empty, what the screen lacks of the room has its
  packet on the way or was refused, and what it shows too much its S_DESPAWN.
* `AvatarOnItsWayTheorem`, the safety part of `AvatarGiven`: in the game's level the
  avatar is alive, or asked for, or S_ENTER_GAME on its way, or refused (`GivenInv`: the
  answer will find an empty level, and once the avatar is there nothing takes it away).

Only model-checked: `AvatarGiven`, `EveryPacketHandled`, `EveryRequestSent`,
`ReplacedEnds`, `CatchesUp`. They are liveness, which is out of the prover's reach; of
each the safety part is proved, so that what is left to TLC is that under the fairness
stated the steps it names are taken. The two properties expected to be violated are
TLC's as well. `TypeOK` of `ClientPipeline`, `TypeOK` and `Disjoint` of `BufferCursor`
are proved and not run.

## Not modelled

Protobuf (vendored and generated), nearly all of the tree's lines, and the assets; rendering,
input and animation; bullets in C++ (`SetBulletInfo` has no caller); `S1GameMode`; the
handlers of S_SHOOT, S_REMOVE_BULLET and S_CHAT, which do nothing; what a thread does after it has
used a freed worker object (`wild`); directions and rotations of players; `Bullets`, which nothing
fills; what an actor does with data (`S_AI`'s state and target, `S_SCORE`'s points); S_LOGIN's
`success`, which the code does not look at; the asserts in `SetPosInfo` and `SetDestInfo` that
a packet's ids agree, which the server alone decides. A new actor never gets the
address of one that is still pointed to.

## Plan

Done: receiving, sending, session lifetime, the shared world, motion; the client behind
its connection, the lobby and dispatch, the buffers; the theorems of all of them.
Every safety property of every run is a theorem, and of every liveness property the
safety part. Left:

1. The points of S_SCORE and the state of S_AI as data that follows an actor.
