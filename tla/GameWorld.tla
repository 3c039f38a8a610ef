------------------------------ MODULE GameWorld ------------------------------
(***************************************************************************)
(* The game instance's picture of the shared world (S1GameInstance.cpp):   *)
(* the maps Players and Enemys from the server's object ids to actors, the *)
(* pointer MyPlayer, and the actors of the loaded level they point to.     *)
(* The game thread alone runs all of it: packet handlers from the level's  *)
(* tick, requests from the own avatar, its bullets, the enemies' AI and    *)
(* the menu.  The instance outlives levels, actors do not.                 *)
(*                                                                         *)
(* The server is not part of the repository.  It may send any packet at    *)
(* any time; `breach' records the ways in which it has not behaved as the  *)
(* handlers count on, and the properties say what depends on which.        *)
(***************************************************************************)
EXTENDS Integers, FiniteSets

CONSTANTS
  Ids,      \* object ids (uint64)
  IdMod,    \* 2^64, the range of an object id
  IntMod,   \* 2^32, the range of the int GetObjectId returns
  Actors,   \* bound: actors alive or still pointed to at one time
  None      \* nullptr, or no entry

ASSUME IdsAssumption == Ids \subseteq Nat /\ None \notin Actors

VARIABLES
  screen,    \* the level, and in LobbyMap the widget: "login", "select", "game"
  travel,    \* the level OpenLevel has been asked for, or "none"
  session,   \* Socket and GameServerSession are set
  phase,     \* where the requests sent so far have taken the server
  actors,    \* Actors -> [kind, id]; kind "none" is no actor, or a destroyed one
  players,   \* Players
  enemys,    \* Enemys
  myPlayer,  \* MyPlayer
  entered,   \* S_ENTER_GAME has been handled in this level
  bullet,    \* a bullet of the own avatar is in the air
  breach,    \* what the server has done that the client does not allow for
  fault      \* a null or dangling pointer was used, or a check failed

vars == <<screen, travel, session, phase, actors, players, enemys, myPlayer,
          entered, bullet, breach, fault>>
uiVars    == <<screen, travel, session>>
worldVars == <<actors, players, enemys, myPlayer>>

Maybe == Actors \cup {None}
NoActor == [kind |-> "none", id |-> 0]
Slots == [kind : {"mine", "other", "enemy"}, id : Ids] \cup {NoActor}
Alive(a) == a # None /\ actors[a].kind # "none"
IsPlayer(a) == actors[a].kind \in {"mine", "other"}

Init ==
  /\ screen = "login" /\ travel = "none" /\ session = FALSE /\ phase = "none"
  /\ actors = [a \in Actors |-> NoActor]
  /\ players = [i \in Ids |-> None] /\ enemys = [i \in Ids |-> None]
  /\ myPlayer = None /\ entered = FALSE /\ bullet = FALSE
  /\ breach = {} /\ fault = FALSE

-----------------------------------------------------------------------------
(* Object ids. *)

\* int GetObjectId() { return ObjectInfo->object_id(); }
AsInt(i) == LET low == i % IntMod
            IN  IF low < IntMod \div 2 THEN low ELSE low - IntMod

\* The key an int finds in a map with uint64 keys.
Key(i) == AsInt(i) % IdMod

-----------------------------------------------------------------------------
(* Requests after C_LOGIN, which begins a connection.  The server takes them *)
(* in the order they are sent.                                               *)

Allowed == [ C_ENTER_GAME |-> {"lobby"},
             C_LEAVE_GAME |-> {"game"},
             C_ENTER_ROOM |-> {"game"},
             C_MOVE       |-> {"game"},
             C_SCORE      |-> {"game"} ]
After   == [ C_ENTER_GAME |-> "game",
             C_LEAVE_GAME |-> "none",
             C_ENTER_ROOM |-> "game",
             C_MOVE       |-> "game",
             C_SCORE      |-> "game" ]

\* SEND_PACKET: nothing is sent without a session.
Send(r) ==
  phase' = IF ~session THEN phase
           ELSE IF phase \in Allowed[r] THEN After[r] ELSE "error"

-----------------------------------------------------------------------------
(* Menus and levels. *)

Running == travel = "none" /\ ~fault

\* Mutant: C_LOGIN is not sent.
ConnectToGameServer_NoLogin ==
  /\ Running /\ screen = "login"
  /\ screen' = "select" /\ session' = TRUE
  /\ UNCHANGED <<phase, travel, worldVars, entered, bullet, breach, fault>>

\* ConnectToGameServer, the connection made: a new session takes the place of
\* the old one, the maps are kept.
ConnectToGameServer ==
  /\ Running /\ screen = "login"
  /\ screen' = "select" /\ session' = TRUE
  /\ phase' = "lobby"
  /\ UNCHANGED <<travel, worldVars, entered, bullet, breach, fault>>

\* Mutant: the level opened is not DevMap.
OpenDevMap_Wrong ==
  /\ Running /\ screen = "select" /\ travel' = "select"
  /\ UNCHANGED <<screen, session, phase, worldVars, entered, bullet, breach, fault>>

\* A character is picked in the lobby.
OpenDevMap ==
  /\ Running /\ screen = "select" /\ travel' = "game"
  /\ UNCHANGED <<screen, session, phase, worldVars, entered, bullet, breach, fault>>

\* Mutant: Enemys is not emptied.
DisconnectFromGameServer_KeepsEnemys ==
  /\ Running /\ screen = "game"
  /\ Send("C_LEAVE_GAME")
  /\ players' = [i \in Ids |-> None]
  /\ travel' = "login"
  /\ UNCHANGED <<screen, session, actors, enemys, myPlayer, entered, bullet, breach, fault>>

\* The menu's lobby button: C_LEAVE_GAME, the maps are emptied, the actors left
\* to the level, and OpenLevel.
DisconnectFromGameServer ==
  /\ Running /\ screen = "game"
  /\ Send("C_LEAVE_GAME")
  /\ players' = [i \in Ids |-> None] /\ enemys' = [i \in Ids |-> None]
  /\ travel' = "login"
  /\ UNCHANGED <<screen, session, actors, myPlayer, entered, bullet, breach, fault>>

\* The old level goes with its actors; DevMap begins with SelectCharacter.
LoadMap ==
  /\ travel # "none" /\ ~fault
  /\ screen' = travel /\ travel' = "none"
  /\ actors' = [a \in Actors |-> NoActor]
  /\ entered' = FALSE /\ bullet' = FALSE
  /\ IF travel = "game" THEN Send("C_ENTER_GAME") ELSE UNCHANGED phase
  /\ UNCHANGED <<session, players, enemys, myPlayer, breach, fault>>

-----------------------------------------------------------------------------
(* Packets.  US1GameInstance::HandleRecvPackets runs in both levels' ticks. *)

Receiving == Running /\ session

\* The breaches of a packet about object i that brings c with it.
Breaches(i, c) ==
  (IF screen # "game" THEN {"late"} ELSE {}) \cup
  (IF Key(i) # i THEN {"wideId"} ELSE {}) \cup c

\* Memory that is still pointed to is not given to a new actor.
Fresh(a) ==
  /\ ~Alive(a) /\ a # myPlayer
  /\ \A i \in Ids : a # players[i] /\ a # enemys[i]

\* Mutant: no duplicate check.
SpawnPlayer_Again(i, kind, a) ==
  IF a = None
  THEN UNCHANGED worldVars
  ELSE /\ Fresh(a)
       /\ actors' = [actors EXCEPT ![a] = [kind |-> kind, id |-> i]]
       /\ players' = [players EXCEPT ![i] = a]
       /\ myPlayer' = IF kind = "mine" THEN a ELSE myPlayer
       /\ UNCHANGED enemys

\* Mutant: MyPlayer is set for every player.
SpawnPlayer_AlwaysMine(i, kind, a) ==
  IF players[i] # None \/ a = None
  THEN UNCHANGED worldVars
  ELSE /\ Fresh(a)
       /\ actors' = [actors EXCEPT ![a] = [kind |-> kind, id |-> i]]
       /\ players' = [players EXCEPT ![i] = a]
       /\ myPlayer' = a
       /\ UNCHANGED enemys

\* SpawnPlayer: the duplicate check, then SpawnActor, which may fail (a = None).
SpawnPlayer(i, kind, a) ==
  IF players[i] # None \/ a = None
  THEN UNCHANGED worldVars
  ELSE /\ Fresh(a)
       /\ actors' = [actors EXCEPT ![a] = [kind |-> kind, id |-> i]]
       /\ players' = [players EXCEPT ![i] = a]
       /\ myPlayer' = IF kind = "mine" THEN a ELSE myPlayer
       /\ UNCHANGED enemys

\* S_ENTER_GAME.
HandleEnterGame(i, a) ==
  /\ Receiving
  /\ SpawnPlayer(i, "mine", a)
  /\ entered' = (entered \/ a # None)
  /\ breach' = breach \cup
       Breaches(i, IF entered \/ players[i] # None THEN {"enterAgain"} ELSE {})
  /\ UNCHANGED <<uiVars, phase, bullet, fault>>

\* An object of S_SPAWN that is a player.
HandleSpawnPlayer(i, a) ==
  /\ Receiving
  /\ SpawnPlayer(i, "other", a)
  /\ breach' = breach \cup Breaches(i, {})
  /\ UNCHANGED <<uiVars, phase, entered, bullet, fault>>

\* SpawnEnemy: its duplicate check looks the id up in Players.
SpawnEnemy(i, a) ==
  IF players[i] # None \/ a = None
  THEN UNCHANGED worldVars
  ELSE /\ Fresh(a)
       /\ actors' = [actors EXCEPT ![a] = [kind |-> "enemy", id |-> i]]
       /\ enemys' = [enemys EXCEPT ![i] = a]
       /\ UNCHANGED <<players, myPlayer>>

\* An object of S_SPAWN that is an enemy.
HandleSpawnEnemy(i, a) ==
  /\ Receiving
  /\ SpawnEnemy(i, a)
  /\ breach' = breach \cup
       Breaches(i, IF enemys[i] # None THEN {"enemyAgain"} ELSE {})
  /\ UNCHANGED <<uiVars, phase, entered, bullet, fault>>

\* Mutant: the actor goes, its entry stays.
DespawnPlayer_KeepsEntry(i) ==
  /\ actors' = [a \in Actors |-> IF a = players[i] THEN NoActor ELSE actors[a]]
  /\ fault' = (players[i] # None /\ ~Alive(players[i]))
  /\ UNCHANGED players

\* Mutant: the entry goes, the actor stays.
DespawnEnemy_KeepsActor(i) ==
  /\ enemys' = [enemys EXCEPT ![i] = None]
  /\ fault' = (enemys[i] # None /\ ~Alive(enemys[i]))
  /\ UNCHANGED actors

\* The entry goes, then the actor it pointed to.
DespawnPlayer(i) ==
  /\ players' = [players EXCEPT ![i] = None]
  /\ actors' = [a \in Actors |-> IF a = players[i] THEN NoActor ELSE actors[a]]
  /\ fault' = (players[i] # None /\ ~Alive(players[i]))

DespawnEnemy(i) ==
  /\ enemys' = [enemys EXCEPT ![i] = None]
  /\ actors' = [a \in Actors |-> IF a = enemys[i] THEN NoActor ELSE actors[a]]
  /\ fault' = (enemys[i] # None /\ ~Alive(enemys[i]))

\* S_DESPAWN.
HandleDespawnPlayer(i) ==
  /\ Receiving
  /\ DespawnPlayer(i)
  /\ breach' = breach \cup
       Breaches(i, IF players[i] # None /\ players[i] = myPlayer THEN {"ownDespawn"} ELSE {})
  /\ UNCHANGED <<uiVars, phase, enemys, myPlayer, entered, bullet>>

HandleDespawnEnemy(i) ==
  /\ Receiving
  /\ DespawnEnemy(i)
  /\ breach' = breach \cup Breaches(i, {})
  /\ UNCHANGED <<uiVars, phase, players, myPlayer, entered, bullet>>

\* S_MOVE and S_AI read and write the actor the id is registered for.
Use(a) == fault' = (a # None /\ ~Alive(a))

HandleMove(i) ==
  /\ Receiving /\ Use(players[i])
  /\ breach' = breach \cup Breaches(i, {})
  /\ UNCHANGED <<uiVars, phase, worldVars, entered, bullet>>

HandleEnemyAi(i) ==
  /\ Receiving /\ Use(enemys[i])
  /\ breach' = breach \cup Breaches(i, {})
  /\ UNCHANGED <<uiVars, phase, worldVars, entered, bullet>>

\* S_SCORE names no object: the points are MyPlayer's, if it is not null.
HandleScore ==
  /\ Receiving /\ Use(myPlayer)
  /\ breach' = breach \cup (IF screen = "game" /\ entered THEN {} ELSE {"late"})
  /\ UNCHANGED <<uiVars, phase, worldVars, entered, bullet>>

-----------------------------------------------------------------------------
(* Actors. *)

Registered(map) == {map[i] : i \in Ids} \ {None}

\* Mutant: it is the own avatar that is despawned, and the others that stay.
Others_Own ==
  {b \in Registered(players) : AsInt(actors[b].id) = AsInt(actors[myPlayer].id)}

\* The players that do not have the own avatar's int id.
Others ==
  {b \in Registered(players) : AsInt(actors[b].id) # AsInt(actors[myPlayer].id)}

\* The keys under which DespawnPlayer and DespawnEnemy look for some actors.
Keys(some) == {Key(actors[b].id) : b \in some}

Without(map, keys) == [i \in Ids |-> IF i \in keys THEN None ELSE map[i]]

\* The own avatar enters another map: all others are despawned, each under the
\* key its int id finds, and the server is asked for the new room.
MoveMap(a) ==
  /\ Running /\ Alive(a) /\ actors[a].kind = "mine"
  /\ fault' = \E b \in Registered(players) \cup Registered(enemys) \cup {myPlayer} : ~Alive(b)
  /\ IF fault' THEN UNCHANGED <<players, enemys, actors, phase>>
     ELSE /\ players' = Without(players, Keys(Others))
          /\ enemys' = Without(enemys, Keys(Registered(enemys)))
          /\ actors' = [b \in Actors |->
               IF \/ \E i \in Ids : players[i] = b /\ i \in Keys(Others)
                  \/ \E i \in Ids : enemys[i] = b /\ i \in Keys(Registered(enemys))
               THEN NoActor ELSE actors[b]]
          /\ Send("C_ENTER_ROOM")
  /\ UNCHANGED <<uiVars, myPlayer, entered, bullet, breach>>

\* The behaviour tree of an enemy asks for itself: Enemys[object_id] fails its
\* check where there is no such key.
GetEnemyFromId(a) ==
  /\ Running /\ Alive(a) /\ actors[a].kind = "enemy"
  /\ LET k == Key(actors[a].id)
     IN  fault' = (k \notin Ids \/ ~Alive(enemys[k]))
  /\ UNCHANGED <<uiVars, phase, worldVars, entered, bullet, breach>>

\* The own avatar's tick reports its position.
SendMove(a) ==
  /\ Running /\ Alive(a) /\ actors[a].kind = "mine"
  /\ Send("C_MOVE")
  /\ UNCHANGED <<uiVars, worldVars, entered, bullet, breach, fault>>

Fire(a) ==
  /\ Running /\ Alive(a) /\ actors[a].kind = "mine"
  /\ bullet' = TRUE
  /\ UNCHANGED <<uiVars, phase, worldVars, entered, breach, fault>>

\* A bullet of the own avatar meets enemy a.
RequestScore(a) ==
  /\ Running /\ bullet /\ Alive(a) /\ actors[a].kind = "enemy"
  /\ fault' = ~Alive(myPlayer)
  /\ IF fault' THEN UNCHANGED phase ELSE Send("C_SCORE")
  /\ bullet' = FALSE
  /\ UNCHANGED <<uiVars, worldVars, entered, breach>>

-----------------------------------------------------------------------------
Next ==
  \/ ConnectToGameServer \/ OpenDevMap \/ DisconnectFromGameServer \/ LoadMap
  \/ \E i \in Ids :
       \/ \E a \in Maybe :
            HandleEnterGame(i, a) \/ HandleSpawnPlayer(i, a) \/ HandleSpawnEnemy(i, a)
       \/ HandleDespawnPlayer(i) \/ HandleDespawnEnemy(i)
       \/ HandleMove(i) \/ HandleEnemyAi(i)
  \/ HandleScore
  \/ \E a \in Actors :
       MoveMap(a) \/ GetEnemyFromId(a) \/ SendMove(a) \/ Fire(a) \/ RequestScore(a)

Spec == Init /\ [][Next]_vars

-----------------------------------------------------------------------------
Kinds == {"late", "wideId", "enterAgain", "enemyAgain", "ownDespawn"}

TypeOK ==
  /\ screen \in {"login", "select", "game"}
  /\ travel \in {"none", "login", "game"}
  /\ session \in BOOLEAN
  /\ phase \in {"none", "lobby", "game", "error"}
  /\ actors \in [Actors -> Slots]
  /\ players \in [Ids -> Maybe] /\ enemys \in [Ids -> Maybe]
  /\ myPlayer \in Maybe
  /\ entered \in BOOLEAN /\ bullet \in BOOLEAN
  /\ breach \subseteq Kinds /\ fault \in BOOLEAN

\* Whatever the server sends, a player on the screen is one the handlers can
\* find again: no S_SPAWN, S_DESPAWN, map change or level leaves an orphan that
\* no packet can move or remove.
PlayersTracked ==
  travel = "none" =>
    \A a \in Actors : IsPlayer(a) => players[actors[a].id] = a

\* The same of enemies.
EnemiesTracked ==
  travel = "none" =>
    \A a \in Actors : actors[a].kind = "enemy" => enemys[actors[a].id] = a

\* The comment "duplicate check" of SpawnEnemy: an enemy the server spawns again
\* is not spawned again.
DuplicateCheck == breach \subseteq {"enemyAgain"} => EnemiesTracked

\* It takes a second S_SPAWN of the enemy to make an orphan of it.
EnemiesTrackedUnlessAgain == "enemyAgain" \notin breach => EnemiesTracked

\* The maps hold live actors of the right kind, under their own ids, unless an
\* object was spawned into the lobby, whose actors go before the maps are emptied.
RegistrySound ==
  "late" \notin breach =>
    \A i \in Ids :
      /\ players[i] # None => IsPlayer(players[i]) /\ actors[players[i]].id = i
      /\ enemys[i] # None => actors[enemys[i]].kind = "enemy" /\ actors[enemys[i]].id = i

\* Between S_ENTER_GAME and the end of the level MyPlayer is the avatar the
\* server gave the client, for HandleScore, MoveMap and RequestScore to use.
AvatarSound ==
  (breach = {} /\ entered /\ travel = "none") =>
    Alive(myPlayer) /\ actors[myPlayer].kind = "mine" /\ players[actors[myPlayer].id] = myPlayer

\* With a server that keeps to the protocol no handler follows a null or
\* dangling pointer, across levels, sessions and map changes.
NoFault == breach = {} => ~fault

\* ... and no request reaches the server in a state that has no use for it.
RequestsInOrder == breach = {} => phase # "error"

\* A map change leaves nobody but the own avatar on the screen.
MapChangeClears ==
  [][ (breach = {} /\ \E a \in Actors : MoveMap(a))
      => \A b \in Actors : actors'[b].kind # "none" => b = myPlayer ]_vars

=============================================================================
