---------------------------- MODULE ClientPipeline ----------------------------
(***************************************************************************)
(* The game instance behind its connection.  GameWorld lets the server     *)
(* send anything at any time and records in `breach' what it may not rely  *)
(* on; here a server that behaves answers requests and reports what        *)
(* happens in a room, and the two of them are apart: requests and packets  *)
(* are on the way, in order and each once, which is what RecvStream and    *)
(* SendPath are shown to implement (PacketChannel).  What breaches are     *)
(* left is the doing of that delay.                                        *)
(*                                                                         *)
(* Every step of the client is one of GameWorld's, with what it takes from *)
(* one channel or puts on the other.                                       *)
(***************************************************************************)
EXTENDS Integers, Sequences, FiniteSets

CONSTANTS
  Ids, IdMod, IntMod, Actors, None,   \* as in GameWorld
  Own,       \* the id of the client's avatar
  EnemyIds,  \* the ids of enemies, the others are players'
  MaxUp,     \* bound: requests on the way
  MaxDown    \* bound: packets on the way when the server sends on its own

VARIABLES
  screen, travel, session, phase, actors, players, enemys, myPlayer,
  entered, bullet, breach, fault,     \* as in GameWorld
  up,        \* requests on the way to the server
  down,      \* packets on the way: socket, worker and RecvPacketQueue
  where,     \* where the server has the client: "none", "lobby", "game"
  room,      \* the objects of the client's room
  left,      \* C_LEAVE_GAME has been sent in some session
  crossed,   \* an S_SPAWN of the old room and a C_ENTER_ROOM met on the way
  refused    \* history: the objects that the game's level has no actor for, since
             \* SpawnActor has yielded null

World == INSTANCE GameWorld

\* The server gives an avatar an id that no enemy has, and all of them ids that
\* an int holds.
ASSUME WorldAssumption == Ids \subseteq Nat /\ None \notin Actors
ASSUME NarrowAssumption == \A i \in Ids : World!Key(i) = i
ASSUME OwnAssumption == Own \in Ids \ EnemyIds
ASSUME BoundAssumption == MaxUp \in Nat \ {0} /\ MaxDown \in Nat

worldVars == <<screen, travel, session, phase, actors, players, enemys, myPlayer,
               entered, bullet, breach, fault>>
serverVars == <<where, room>>
vars == <<worldVars, up, down, serverVars, left, crossed, refused>>

Packet(kind, i) == [kind |-> kind, id |-> i]
Kind(i) == IF i \in EnemyIds THEN "enemy" ELSE "player"
Spawns == [kind : {"S_SPAWN"}, id : Ids]
OnTheWay(some) == \E k \in DOMAIN down : down[k] \in some
Asked(r) == \E k \in DOMAIN up : up[k] = r

Init ==
  /\ World!Init
  /\ up = <<>> /\ down = <<>> /\ where = "none" /\ room = {}
  /\ left = FALSE /\ crossed = FALSE /\ refused = {}

-----------------------------------------------------------------------------
(* The player and the actors: steps that ask for something. *)

\* SEND_PACKET.
Asks(r) ==
  /\ Len(up) < MaxUp
  /\ up' = IF session THEN Append(up, r) ELSE up

\* Mutant: no C_LOGIN.
Connect_NoLogin ==
  /\ World!ConnectToGameServer
  /\ up' = <<>> /\ down' = <<>> /\ where' = "none" /\ room' = {}
  /\ crossed' = FALSE
  /\ UNCHANGED <<left, refused>>

\* Mutant: what the old session has received is handled in the new one.
Connect_KeepsQueue ==
  /\ World!ConnectToGameServer
  /\ up' = <<"C_LOGIN">> /\ where' = "none" /\ room' = {}
  /\ UNCHANGED <<down, left, crossed, refused>>

\* A new session has a connection and queues of its own.
Connect ==
  /\ World!ConnectToGameServer
  /\ up' = <<"C_LOGIN">> /\ down' = <<>> /\ where' = "none" /\ room' = {}
  /\ crossed' = FALSE
  /\ UNCHANGED <<left, refused>>

OpenDevMap ==
  World!OpenDevMap /\ UNCHANGED <<up, down, serverVars, left, crossed, refused>>

Disconnect ==
  /\ World!DisconnectFromGameServer /\ Asks("C_LEAVE_GAME")
  /\ left' = TRUE /\ refused' = {}
  /\ UNCHANGED <<down, serverVars, crossed>>

\* Mutant: DevMap does not call SelectCharacter.
LoadMap_Silent ==
  /\ World!LoadMap /\ refused' = {}
  /\ UNCHANGED <<up, down, serverVars, left, crossed>>

\* DevMap's BeginPlay calls SelectCharacter.
LoadMap ==
  /\ World!LoadMap /\ refused' = {}
  /\ IF travel = "game" THEN Asks("C_ENTER_GAME") ELSE UNCHANGED up
  /\ UNCHANGED <<down, serverVars, left, crossed>>

\* All objects go, also those that an earlier change had left behind.
MoveMap(a) ==
  /\ World!MoveMap(a) /\ Asks("C_ENTER_ROOM")
  /\ crossed' = OnTheWay(Spawns) /\ refused' = refused \cap {Own}
  /\ UNCHANGED <<down, serverVars, left>>

SendMove(a) ==
  /\ World!SendMove(a) /\ Asks("C_MOVE")
  /\ UNCHANGED <<down, serverVars, left, crossed, refused>>

RequestScore(a) ==
  /\ World!RequestScore(a) /\ Asks("C_SCORE")
  /\ UNCHANGED <<down, serverVars, left, crossed, refused>>

\* Steps that stay in the client.
Local(a) ==
  /\ World!Fire(a) \/ World!GetEnemyFromId(a)
  /\ UNCHANGED <<up, down, serverVars, left, crossed, refused>>

-----------------------------------------------------------------------------
(* The tick of either level takes the next packet.                         *)

\* Some free address, which stands for any (addresses are interchangeable).
Address == LET free == {a \in Actors : World!Fresh(a)}
           IN  IF free = {} THEN None ELSE CHOOSE a \in free : TRUE

\* What SpawnActor yields: an actor, or null where something is in the way or
\* (bound: Actors) no memory is left.
Spawning(p) == p.kind \in {"S_ENTER_GAME", "S_SPAWN"}
Yield(p) == IF Spawning(p) THEN {Address, None} ELSE {None}

Dispatch(p, a) ==
  \/ p.kind = "S_ENTER_GAME" /\ World!HandleEnterGame(p.id, a)
  \/ p.kind = "S_SPAWN" /\ Kind(p.id) = "player" /\ World!HandleSpawnPlayer(p.id, a)
  \/ p.kind = "S_SPAWN" /\ Kind(p.id) = "enemy" /\ World!HandleSpawnEnemy(p.id, a)
  \/ p.kind = "S_DESPAWN" /\ Kind(p.id) = "player" /\ World!HandleDespawnPlayer(p.id)
  \/ p.kind = "S_DESPAWN" /\ Kind(p.id) = "enemy" /\ World!HandleDespawnEnemy(p.id)
  \/ p.kind = "S_MOVE" /\ World!HandleMove(p.id)
  \/ p.kind = "S_AI" /\ World!HandleEnemyAi(p.id)
  \/ p.kind = "S_SCORE" /\ World!HandleScore

\* The object on the screen, if it is there.
Entry(i) == IF Kind(i) = "enemy" THEN enemys[i] ELSE players[i]

\* Who has been refused an actor, and stays away until its next S_SPAWN, which is
\* not before its S_DESPAWN.
Refused(p, a) ==
  IF p.kind = "S_DESPAWN" THEN refused \ {p.id}
  ELSE IF Spawning(p) /\ screen = "game" /\ Entry(p.id) = None /\ a = None
  THEN refused \cup {p.id}
  ELSE refused

\* Mutant: a packet is handled and stays in the queue.
HandlePacket_Peek ==
  /\ down # <<>> /\ (down' = down \/ down' = Tail(down))
  /\ \E a \in Yield(Head(down)) :
       Dispatch(Head(down), a) /\ refused' = Refused(Head(down), a)
  /\ UNCHANGED <<up, serverVars, left, crossed>>

HandlePacket ==
  /\ down # <<>> /\ down' = Tail(down)
  /\ \E a \in Yield(Head(down)) :
       Dispatch(Head(down), a) /\ refused' = Refused(Head(down), a)
  /\ UNCHANGED <<up, serverVars, left, crossed>>

-----------------------------------------------------------------------------
(* The server. *)

\* It takes the next request, and ignores one that it has no use for.
Answer(r) ==
  \/ r = "C_LOGIN" /\ where' = "lobby" /\ UNCHANGED <<room, down>>
  \/ /\ r = "C_ENTER_GAME" /\ where = "lobby"
     /\ where' = "game" /\ room' = {Own}
     /\ down' = Append(down, Packet("S_ENTER_GAME", Own))
  \/ /\ r = "C_LEAVE_GAME" /\ where = "game"
     /\ where' = "none" /\ room' = {} /\ UNCHANGED down
  \/ r = "C_ENTER_ROOM" /\ where = "game" /\ room' = {Own} /\ UNCHANGED <<where, down>>
  \/ /\ r = "C_SCORE" /\ where = "game" /\ UNCHANGED serverVars
     /\ down' = Append(down, Packet("S_SCORE", Own))
  \/ r = "C_MOVE" /\ where = "game" /\ UNCHANGED <<serverVars, down>>
  \/ r # "C_LOGIN" /\ where \notin World!Allowed[r] /\ UNCHANGED <<serverVars, down>>

Take ==
  /\ up # <<>> /\ up' = Tail(up)
  /\ Len(down) <= MaxDown
  /\ Answer(Head(up))
  /\ UNCHANGED <<worldVars, left, crossed, refused>>

Sends(kind, i) ==
  /\ where = "game" /\ Len(down) < MaxDown
  /\ down' = Append(down, Packet(kind, i))
  /\ UNCHANGED <<worldVars, up, where, left, refused>>

\* An object comes into the room, or the room's list names the avatar too.
Appears(i) ==
  /\ i \notin room \/ i = Own
  /\ Sends("S_SPAWN", i) /\ room' = room \cup {i}
  /\ crossed' = (crossed \/ Asked("C_ENTER_ROOM"))

Vanishes(i) ==
  /\ i \in room \ {Own}
  /\ Sends("S_DESPAWN", i) /\ room' = room \ {i}
  /\ UNCHANGED crossed

Acts(i) ==
  /\ i \in room \ {Own}
  /\ Sends(IF Kind(i) = "enemy" THEN "S_AI" ELSE "S_MOVE", i)
  /\ UNCHANGED <<room, crossed>>

-----------------------------------------------------------------------------
Next ==
  \/ Connect \/ OpenDevMap \/ Disconnect \/ LoadMap
  \/ \E a \in Actors : MoveMap(a) \/ SendMove(a) \/ RequestScore(a) \/ Local(a)
  \/ HandlePacket \/ Take
  \/ \E i \in Ids : Appears(i) \/ Vanishes(i) \/ Acts(i)

\* Levels tick and open, the connection works and the server reads it.
Spec == Init /\ [][Next]_vars /\ WF_vars(HandlePacket) /\ WF_vars(Take) /\ WF_vars(LoadMap)

-----------------------------------------------------------------------------
Requests == {"C_LOGIN", "C_ENTER_GAME", "C_LEAVE_GAME", "C_ENTER_ROOM", "C_MOVE", "C_SCORE"}
Packets ==
  [kind : {"S_ENTER_GAME", "S_SPAWN", "S_DESPAWN", "S_MOVE", "S_AI", "S_SCORE"}, id : Ids]

TypeOK ==
  /\ World!TypeOK
  /\ up \in Seq(Requests) /\ Len(up) <= MaxUp
  /\ down \in Seq(Packets) /\ Len(down) <= MaxDown + 1
  /\ where \in {"none", "lobby", "game"}
  /\ room \subseteq Ids
  /\ left \in BOOLEAN /\ crossed \in BOOLEAN /\ refused \subseteq Ids

\* The assumptions of GameWorld's properties, discharged: with a server that
\* behaves, however requests, packets, levels and logins overtake each other, the
\* first to fail is that no packet is late, or that no enemy is spawned twice; the
\* latter after an S_SPAWN of the old room has outlived a map change.
FirstBreach ==
  [][ (breach = {} /\ breach' # {})
      => "late" \in breach' \/ (crossed /\ breach' = {"enemyAgain"}) ]_vars

\* No packet is late before the player has left a game; null and dangling
\* pointers take a late packet or an enemy spawned twice.
SafeUntilLeft ==
  /\ "late" \in breach => left
  /\ fault => breach \cap {"late", "enemyAgain"} # {}

\* When all that was on the way has been handled the screen shows the server's
\* room: whatever has been delayed, spawned twice or left behind, nothing of it is
\* missing but what SpawnActor has refused since it came in; and unless an S_SPAWN of
\* the old room arrives after MoveMap has cleared it, there is nothing more on it.
SameWorld ==
  (up = <<>> /\ down = <<>> /\ where = "game" /\ "late" \notin breach) =>
    /\ \A i \in room : Entry(i) = None => i \in refused
    /\ ~crossed /\ breach = {} =>
         /\ {i \in Ids : players[i] # None} \subseteq room \ EnemyIds
         /\ {i \in Ids : enemys[i] # None} \subseteq room \cap EnemyIds

\* The server is never asked for what it cannot do at the time it is asked,
\* whatever was on the way when the player clicked.
RequestsWelcome ==
  [][ (Take /\ Head(up) # "C_LOGIN" /\ where \notin World!Allowed[Head(up)])
      => "late" \in breach ]_vars

\* Whoever opens the game's level and stays there gets an avatar to play, unless
\* SpawnActor refuses it.
AvatarGiven ==
  (screen = "game" /\ travel = "none") ~>
    \/ World!Alive(myPlayer) \/ Own \in refused
    \/ travel # "none" \/ "late" \in breach

=============================================================================
