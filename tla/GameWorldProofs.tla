--------------------------- MODULE GameWorldProofs ---------------------------
(***************************************************************************)
(* What GameWorld does for every set of object ids, every width of the     *)
(* integers they go through and every number of actors.                    *)
(***************************************************************************)
EXTENDS GameWorld, TLAPS

-----------------------------------------------------------------------------
(* Types. *)

LEMMA SlotFacts ==
  /\ NoActor \in Slots /\ NoActor.kind = "none"
  /\ \A k \in {"mine", "other", "enemy"}, i \in Ids :
       /\ [kind |-> k, id |-> i] \in Slots
       /\ [kind |-> k, id |-> i].kind = k /\ [kind |-> k, id |-> i].id = i
  /\ \A s \in Slots : /\ s.kind \in {"none", "mine", "other", "enemy"}
                      /\ s.kind # "none" => s.id \in Ids
  BY DEF NoActor, Slots

LEMMA SendType ==
  ASSUME TypeOK,
         NEW r \in {"C_ENTER_GAME", "C_LEAVE_GAME", "C_ENTER_ROOM", "C_MOVE", "C_SCORE"},
         Send(r)
  PROVE  phase' \in {"none", "lobby", "game", "error"}
  BY DEF TypeOK, Send, After

LEMMA SpawnPlayerType ==
  ASSUME TypeOK, NEW i \in Ids, NEW a \in Maybe, NEW k \in {"mine", "other"},
         SpawnPlayer(i, k, a)
  PROVE  /\ actors' \in [Actors -> Slots] /\ players' \in [Ids -> Maybe]
         /\ enemys' \in [Ids -> Maybe] /\ myPlayer' \in Maybe
  BY SlotFacts DEF TypeOK, SpawnPlayer, worldVars, Maybe

LEMMA SpawnEnemyType ==
  ASSUME TypeOK, NEW i \in Ids, NEW a \in Maybe, SpawnEnemy(i, a)
  PROVE  /\ actors' \in [Actors -> Slots] /\ players' \in [Ids -> Maybe]
         /\ enemys' \in [Ids -> Maybe] /\ myPlayer' \in Maybe
  BY SlotFacts DEF TypeOK, SpawnEnemy, worldVars, Maybe

LEMMA TypeInit == Init => TypeOK
<1> SUFFICES ASSUME Init PROVE TypeOK
  OBVIOUS
<1>1. actors \in [Actors -> Slots]
  BY SlotFacts DEF Init
<1>2. players \in [Ids -> Maybe] /\ enemys \in [Ids -> Maybe] /\ myPlayer \in Maybe
  BY DEF Init, Maybe
<1> QED
  BY <1>1, <1>2 DEF Init, TypeOK

LEMMA TypeMenus ==
  ASSUME TypeOK,
         ConnectToGameServer \/ OpenDevMap \/ DisconnectFromGameServer \/ LoadMap
  PROVE  TypeOK'
<1>1. CASE ConnectToGameServer
  BY <1>1 DEF TypeOK, ConnectToGameServer, worldVars
<1>2. CASE OpenDevMap
  BY <1>2 DEF TypeOK, OpenDevMap, worldVars
<1>3. CASE DisconnectFromGameServer
  <2>1. phase' \in {"none", "lobby", "game", "error"}
    BY <1>3, SendType DEF DisconnectFromGameServer
  <2> QED
    BY <1>3, <2>1 DEF TypeOK, DisconnectFromGameServer, Maybe
<1>4. CASE LoadMap
  <2>1. phase' \in {"none", "lobby", "game", "error"}
    BY <1>4, SendType DEF LoadMap, TypeOK
  <2> QED
    BY <1>4, <2>1, SlotFacts DEF TypeOK, LoadMap
<1> QED
  BY <1>1, <1>2, <1>3, <1>4

LEMMA TypeSpawns ==
  ASSUME TypeOK, NEW i \in Ids, NEW a \in Maybe,
         HandleEnterGame(i, a) \/ HandleSpawnPlayer(i, a) \/ HandleSpawnEnemy(i, a)
  PROVE  TypeOK'
<1>1. CASE HandleEnterGame(i, a)
  <2>1. /\ actors' \in [Actors -> Slots] /\ players' \in [Ids -> Maybe]
        /\ enemys' \in [Ids -> Maybe] /\ myPlayer' \in Maybe
    BY <1>1, SpawnPlayerType DEF HandleEnterGame
  <2>2. breach' \subseteq Kinds
    BY <1>1 DEF HandleEnterGame, TypeOK, Breaches, Kinds
  <2> QED
    BY <1>1, <2>1, <2>2 DEF HandleEnterGame, TypeOK, uiVars
<1>2. CASE HandleSpawnPlayer(i, a)
  <2>1. /\ actors' \in [Actors -> Slots] /\ players' \in [Ids -> Maybe]
        /\ enemys' \in [Ids -> Maybe] /\ myPlayer' \in Maybe
    BY <1>2, SpawnPlayerType DEF HandleSpawnPlayer
  <2>2. breach' \subseteq Kinds
    BY <1>2 DEF HandleSpawnPlayer, TypeOK, Breaches, Kinds
  <2> QED
    BY <1>2, <2>1, <2>2 DEF HandleSpawnPlayer, TypeOK, uiVars
<1>3. CASE HandleSpawnEnemy(i, a)
  <2>1. /\ actors' \in [Actors -> Slots] /\ players' \in [Ids -> Maybe]
        /\ enemys' \in [Ids -> Maybe] /\ myPlayer' \in Maybe
    BY <1>3, SpawnEnemyType DEF HandleSpawnEnemy
  <2>2. breach' \subseteq Kinds
    BY <1>3 DEF HandleSpawnEnemy, TypeOK, Breaches, Kinds
  <2> QED
    BY <1>3, <2>1, <2>2 DEF HandleSpawnEnemy, TypeOK, uiVars
<1> QED
  BY <1>1, <1>2, <1>3

LEMMA TypeDespawns ==
  ASSUME TypeOK, NEW i \in Ids, HandleDespawnPlayer(i) \/ HandleDespawnEnemy(i)
  PROVE  TypeOK'
<1>1. breach' \subseteq Kinds
  BY DEF HandleDespawnPlayer, HandleDespawnEnemy, TypeOK, Breaches, Kinds
<1>2. CASE HandleDespawnPlayer(i)
  <2>1. actors' \in [Actors -> Slots] /\ players' \in [Ids -> Maybe] /\ fault' \in BOOLEAN
    BY <1>2, SlotFacts DEF HandleDespawnPlayer, DespawnPlayer, TypeOK, Maybe
  <2> QED
    BY <1>1, <1>2, <2>1 DEF HandleDespawnPlayer, TypeOK, uiVars
<1>3. CASE HandleDespawnEnemy(i)
  <2>1. actors' \in [Actors -> Slots] /\ enemys' \in [Ids -> Maybe] /\ fault' \in BOOLEAN
    BY <1>3, SlotFacts DEF HandleDespawnEnemy, DespawnEnemy, TypeOK, Maybe
  <2> QED
    BY <1>1, <1>3, <2>1 DEF HandleDespawnEnemy, TypeOK, uiVars
<1> QED
  BY <1>2, <1>3

\* The packets and the actors' steps that leave the world as it is.
LEMMA TypeUses ==
  ASSUME TypeOK,
         \/ \E i \in Ids : HandleMove(i) \/ HandleEnemyAi(i)
         \/ HandleScore
         \/ \E a \in Actors : GetEnemyFromId(a) \/ SendMove(a) \/ Fire(a) \/ RequestScore(a)
         \/ UNCHANGED vars
  PROVE  TypeOK'
<1>1. UNCHANGED <<uiVars, worldVars, entered>>
  BY DEF HandleMove, HandleEnemyAi, HandleScore, GetEnemyFromId, SendMove, Fire,
     RequestScore, vars, uiVars, worldVars
<1>2. bullet' \in BOOLEAN /\ fault' \in BOOLEAN
  BY DEF HandleMove, HandleEnemyAi, HandleScore, GetEnemyFromId, SendMove, Fire,
     RequestScore, Use, vars, TypeOK
<1>3. breach' \subseteq Kinds
  BY DEF HandleMove, HandleEnemyAi, HandleScore, GetEnemyFromId, SendMove, Fire,
     RequestScore, vars, TypeOK, Breaches, Kinds
<1>4. phase' \in {"none", "lobby", "game", "error"}
  <2>1. UNCHANGED phase \/ Send("C_MOVE") \/ Send("C_SCORE")
    BY DEF HandleMove, HandleEnemyAi, HandleScore, GetEnemyFromId, SendMove, Fire,
       RequestScore, vars
  <2> QED
    BY <2>1, SendType DEF TypeOK
<1> QED
  BY <1>1, <1>2, <1>3, <1>4 DEF TypeOK, uiVars, worldVars

LEMMA TypeMoveMap ==
  ASSUME TypeOK, NEW a \in Actors, MoveMap(a)
  PROVE  TypeOK'
<1>1. fault' \in BOOLEAN
  BY DEF MoveMap
<1>2. phase' \in {"none", "lobby", "game", "error"}
  BY SendType DEF MoveMap, TypeOK
<1>3. actors' \in [Actors -> Slots]
  <2>1. CASE fault'
    BY <2>1 DEF MoveMap, TypeOK
  <2>2. CASE ~fault'
    BY <2>2, SlotFacts DEF MoveMap, TypeOK
  <2> QED
    BY <2>1, <2>2
<1>4. players' \in [Ids -> Maybe] /\ enemys' \in [Ids -> Maybe]
  <2>1. CASE fault'
    BY <2>1 DEF MoveMap, TypeOK
  <2>2. CASE ~fault'
    BY <2>2 DEF MoveMap, Without, TypeOK, Maybe
  <2> QED
    BY <2>1, <2>2
<1> QED
  BY <1>1, <1>2, <1>3, <1>4 DEF MoveMap, TypeOK, uiVars

LEMMA TypeNext == TypeOK /\ [Next]_vars => TypeOK'
  BY TypeMenus, TypeSpawns, TypeDespawns, TypeUses, TypeMoveMap DEF Next

\* Every variable keeps its type, whatever packets come in whatever order.
THEOREM TypeCorrect == Spec => []TypeOK
  BY TypeInit, TypeNext, PTL DEF Spec


-----------------------------------------------------------------------------
(* Nobody is on the screen without an entry. *)

\* The two halves of Tracked, actor by actor.
PlayerEntry(b) == actors[b].kind \in {"mine", "other"} => players[actors[b].id] = b
EnemyEntry(b)  == actors[b].kind = "enemy" => enemys[actors[b].id] = b

Tracked == PlayersTracked /\ EnemiesTrackedUnlessAgain

LEMMA TrackedByActor ==
  /\ PlayersTracked <=> (travel = "none" => \A b \in Actors : PlayerEntry(b))
  /\ EnemiesTracked <=> (travel = "none" => \A b \in Actors : EnemyEntry(b))
  BY DEF PlayersTracked, EnemiesTracked, PlayerEntry, EnemyEntry, IsPlayer

LEMMA LiveId ==
  ASSUME TypeOK, NEW b \in Actors, actors[b].kind # "none"
  PROVE  actors[b].id \in Ids /\ actors[b].kind \in {"mine", "other", "enemy"}
  BY SlotFacts DEF TypeOK

\* Removing the entry of an actor destroys the actor.
LEMMA TrackedMoveMap ==
  ASSUME TypeOK, travel = "none", NEW a \in Actors, MoveMap(a), NEW b \in Actors
  PROVE  (PlayerEntry(b) => PlayerEntry(b)') /\ (EnemyEntry(b) => EnemyEntry(b)')
<1>1. CASE fault'
  BY <1>1 DEF MoveMap, PlayerEntry, EnemyEntry
<1>2. CASE ~fault'
  <2> DEFINE P == Keys(Others)
             E == Keys(Registered(enemys))
  <2>1. /\ players' = [i \in Ids |-> IF i \in P THEN None ELSE players[i]]
        /\ enemys' = [i \in Ids |-> IF i \in E THEN None ELSE enemys[i]]
        /\ actors' = [c \in Actors |->
             IF \/ \E i \in Ids : players[i] = c /\ i \in P
                \/ \E i \in Ids : enemys[i] = c /\ i \in E
             THEN NoActor ELSE actors[c]]
    BY <1>2 DEF MoveMap, Without
  <2> HIDE DEF P, E
  <2>2. CASE actors'[b].kind = "none"
    BY <2>2 DEF PlayerEntry, EnemyEntry
  <2>3. CASE actors'[b].kind # "none"
    <3>1. /\ actors'[b] = actors[b]
          /\ \A i \in Ids : players[i] = b => i \notin P
          /\ \A i \in Ids : enemys[i] = b => i \notin E
      BY <2>1, <2>3, SlotFacts
    <3>2. actors[b].id \in Ids
      BY <2>3, <3>1, LiveId
    <3> QED
      BY <2>1, <3>1, <3>2 DEF PlayerEntry, EnemyEntry
  <2> QED
    BY <2>2, <2>3
<1> QED
  BY <1>1, <1>2

LEMMA TrackedSpawnPlayer ==
  ASSUME TypeOK, \A b \in Actors : PlayerEntry(b),
         NEW i \in Ids, NEW a \in Maybe, NEW k \in {"mine", "other"}, SpawnPlayer(i, k, a),
         NEW b \in Actors
  PROVE  PlayerEntry(b)' /\ (EnemyEntry(b) => EnemyEntry(b)')
<1>1. CASE players[i] # None \/ a = None
  BY <1>1 DEF SpawnPlayer, worldVars, PlayerEntry, EnemyEntry
<1>2. CASE players[i] = None /\ a \in Actors
  <2>1. /\ actors' = [actors EXCEPT ![a] = [kind |-> k, id |-> i]]
        /\ players' = [players EXCEPT ![i] = a] /\ enemys' = enemys
    BY <1>2, IdsAssumption DEF SpawnPlayer
  <2>2. CASE b = a
    BY <2>1, <2>2, SlotFacts DEF TypeOK, PlayerEntry, EnemyEntry
  <2>3. CASE b # a
    <3>1. actors'[b] = actors[b]
      BY <2>1, <2>3 DEF TypeOK
    <3>2. actors[b].kind \in {"mine", "other"} => actors[b].id # i
      BY <1>2, IdsAssumption DEF PlayerEntry
    <3> QED
      BY <2>1, <3>1, <3>2, LiveId DEF PlayerEntry, EnemyEntry, TypeOK
  <2> QED
    BY <2>2, <2>3
<1> QED
  BY <1>1, <1>2 DEF Maybe

LEMMA TrackedSpawnEnemy ==
  ASSUME TypeOK, NEW i \in Ids, NEW a \in Maybe, SpawnEnemy(i, a), NEW b \in Actors
  PROVE  /\ PlayerEntry(b) => PlayerEntry(b)'
         /\ EnemyEntry(b) /\ enemys[i] = None => EnemyEntry(b)'
<1>1. CASE players[i] # None \/ a = None
  BY <1>1 DEF SpawnEnemy, worldVars, PlayerEntry, EnemyEntry
<1>2. CASE players[i] = None /\ a \in Actors
  <2>1. /\ actors' = [actors EXCEPT ![a] = [kind |-> "enemy", id |-> i]]
        /\ enemys' = [enemys EXCEPT ![i] = a] /\ players' = players
    BY <1>2, IdsAssumption DEF SpawnEnemy
  <2>2. CASE b = a
    BY <2>1, <2>2, SlotFacts DEF TypeOK, PlayerEntry, EnemyEntry
  <2>3. CASE b # a
    <3>1. actors'[b] = actors[b]
      BY <2>1, <2>3 DEF TypeOK
    <3>2. EnemyEntry(b) /\ enemys[i] = None /\ actors[b].kind = "enemy" => actors[b].id # i
      BY IdsAssumption DEF EnemyEntry
    <3> QED
      BY <2>1, <3>1, <3>2, LiveId DEF PlayerEntry, EnemyEntry, TypeOK
  <2> QED
    BY <2>2, <2>3
<1> QED
  BY <1>1, <1>2 DEF Maybe

LEMMA TrackedDespawns ==
  ASSUME TypeOK, NEW i \in Ids, HandleDespawnPlayer(i) \/ HandleDespawnEnemy(i),
         NEW b \in Actors
  PROVE  (PlayerEntry(b) => PlayerEntry(b)') /\ (EnemyEntry(b) => EnemyEntry(b)')
<1>1. CASE HandleDespawnPlayer(i)
  <2>1. /\ players' = [players EXCEPT ![i] = None] /\ enemys' = enemys
        /\ actors' = [c \in Actors |-> IF c = players[i] THEN NoActor ELSE actors[c]]
    BY <1>1 DEF HandleDespawnPlayer, DespawnPlayer
  <2> QED
    BY <2>1, SlotFacts, LiveId DEF PlayerEntry, EnemyEntry, TypeOK
<1>2. CASE HandleDespawnEnemy(i)
  <2>1. /\ enemys' = [enemys EXCEPT ![i] = None] /\ players' = players
        /\ actors' = [c \in Actors |-> IF c = enemys[i] THEN NoActor ELSE actors[c]]
    BY <1>2 DEF HandleDespawnEnemy, DespawnEnemy
  <2> QED
    BY <2>1, SlotFacts, LiveId DEF PlayerEntry, EnemyEntry, TypeOK
<1> QED
  BY <1>1, <1>2

LEMMA TrackedInit == Init => Tracked
  BY SlotFacts, TrackedByActor DEF Init, Tracked, PlayerEntry, EnemyEntry, EnemiesTrackedUnlessAgain

LEMMA TrackedNext == TypeOK /\ Tracked /\ [Next]_vars => Tracked'
<1> SUFFICES ASSUME TypeOK, Tracked, [Next]_vars PROVE Tracked'
  OBVIOUS
<1>0. /\ PlayersTracked' <=> (travel' = "none" => \A b \in Actors : PlayerEntry(b)')
      /\ EnemiesTracked' <=> (travel' = "none" => \A b \in Actors : EnemyEntry(b)')
  BY DEF PlayersTracked, EnemiesTracked, PlayerEntry, EnemyEntry, IsPlayer
<1>1. CASE LoadMap
  <2>1. \A b \in Actors : actors'[b] = NoActor
    BY <1>1 DEF LoadMap
  <2> QED
    BY <1>0, <2>1, SlotFacts DEF Tracked, EnemiesTrackedUnlessAgain, PlayerEntry, EnemyEntry
<1>2. CASE OpenDevMap \/ DisconnectFromGameServer
  <2>1. travel' # "none"
    BY <1>2 DEF OpenDevMap, DisconnectFromGameServer
  <2> QED
    BY <1>0, <2>1 DEF Tracked, EnemiesTrackedUnlessAgain
<1>3. CASE UNCHANGED <<travel, actors, players, enemys>> /\ breach \subseteq breach'
  BY <1>3, <1>0, TrackedByActor
     DEF Tracked, EnemiesTrackedUnlessAgain, PlayerEntry, EnemyEntry
<1>4. ASSUME travel = "none", travel' = "none", breach \subseteq breach',
             (\A b \in Actors : PlayerEntry(b)) => \A b \in Actors : PlayerEntry(b)',
             ("enemyAgain" \notin breach' /\ \A b \in Actors : EnemyEntry(b))
               => \A b \in Actors : EnemyEntry(b)'
      PROVE  Tracked'
  BY <1>0, <1>4, TrackedByActor DEF Tracked, EnemiesTrackedUnlessAgain
<1>5. \A b \in Actors : PlayerEntry(b) \/ travel # "none"
  BY TrackedByActor DEF Tracked
<1>6. ASSUME NEW i \in Ids, NEW a \in Maybe, HandleEnterGame(i, a)
      PROVE  Tracked'
  <2>1. SpawnPlayer(i, "mine", a) /\ travel = "none" /\ travel' = "none" /\ breach \subseteq breach'
    BY <1>6 DEF HandleEnterGame, Receiving, Running, uiVars
  <2> QED
    BY <2>1, <1>4, <1>5, TrackedSpawnPlayer
<1>7. ASSUME NEW i \in Ids, NEW a \in Maybe, HandleSpawnPlayer(i, a)
      PROVE  Tracked'
  <2>1. SpawnPlayer(i, "other", a) /\ travel = "none" /\ travel' = "none" /\ breach \subseteq breach'
    BY <1>7 DEF HandleSpawnPlayer, Receiving, Running, uiVars
  <2> QED
    BY <2>1, <1>4, <1>5, TrackedSpawnPlayer
<1>8. ASSUME NEW i \in Ids, NEW a \in Maybe, HandleSpawnEnemy(i, a)
      PROVE  Tracked'
  <2>1. /\ SpawnEnemy(i, a) /\ travel = "none" /\ travel' = "none" /\ breach \subseteq breach'
        /\ "enemyAgain" \notin breach' => enemys[i] = None
    BY <1>8 DEF HandleSpawnEnemy, Receiving, Running, uiVars, Breaches
  <2> QED
    BY <2>1, <1>4, <1>5, TrackedSpawnEnemy
<1>9. ASSUME NEW i \in Ids, HandleDespawnPlayer(i) \/ HandleDespawnEnemy(i)
      PROVE  Tracked'
  <2>1. travel = "none" /\ travel' = "none" /\ breach \subseteq breach'
    BY <1>9 DEF HandleDespawnPlayer, HandleDespawnEnemy, Receiving, Running, uiVars
  <2> QED
    BY <1>9, <2>1, <1>4, <1>5, TrackedDespawns
<1>10. ASSUME NEW a \in Actors, MoveMap(a)
       PROVE  Tracked'
  <2>1. travel = "none" /\ travel' = "none" /\ breach' = breach
    BY <1>10 DEF MoveMap, Running, uiVars
  <2> QED
    BY <1>10, <2>1, <1>4, <1>5, TrackedMoveMap
<1> QED
  BY <1>1, <1>2, <1>3, <1>6, <1>7, <1>8, <1>9, <1>10
     DEF Next, ConnectToGameServer, HandleMove, HandleEnemyAi, HandleScore,
         GetEnemyFromId, SendMove, Fire, RequestScore, uiVars, worldVars, vars

LEMMA TrackedAlways == Spec => [](TypeOK /\ Tracked)
  BY TypeInit, TypeNext, TrackedInit, TrackedNext, PTL DEF Spec

\* No sequence of packets, map changes, logins and levels leaves a player on
\* the screen that the next packet about it would not find.
THEOREM PlayersTrackedTheorem == Spec => []PlayersTracked
  BY TrackedAlways, PTL DEF Tracked

\* Nor an enemy, unless the server has spawned one twice.
THEOREM EnemiesTrackedTheorem == Spec => []EnemiesTrackedUnlessAgain
  BY TrackedAlways, PTL DEF Tracked

-----------------------------------------------------------------------------
(* Maps, levels and requests. *)

\* The entries of id i point to live actors that are i's.
Sound(i) ==
  /\ players[i] # None =>
       /\ actors[players[i]].kind \in {"mine", "other"} /\ actors[players[i]].id = i
  /\ enemys[i] # None => actors[enemys[i]].kind = "enemy" /\ actors[enemys[i]].id = i

\* Outside a running game the maps are empty: what the level change destroys is
\* not pointed to.
RegInv ==
  "late" \notin breach =>
    /\ \A i \in Ids : Sound(i)
    /\ screen # "game" \/ travel # "none" =>
         \A i \in Ids : players[i] = None /\ enemys[i] = None

NarrowInv ==
  "wideId" \notin breach =>
    \A b \in Actors : actors[b].kind # "none" => Key(actors[b].id) = actors[b].id

MenuInv ==
  /\ travel = "game" => screen = "select"
  /\ travel = "login" => screen = "game"
  /\ screen # "login" => session

\* Where the menus have taken the server.
Phase == CASE screen = "select" -> "lobby"
           [] screen = "game" /\ travel = "none" -> "game"
           [] OTHER -> "none"

\* What HandleScore, MoveMap and RequestScore count on: an avatar, or a bullet of
\* one, means that S_ENTER_GAME has made MyPlayer and that it is still there.
AvatarInv ==
  /\ \A b \in Actors : actors[b].kind # "none" => screen = "game"
  /\ \A b \in Actors : actors[b].kind = "mine" => entered /\ b = myPlayer
  /\ entered /\ travel = "none" =>
       /\ myPlayer \in Actors /\ actors[myPlayer].kind = "mine"
       /\ players[actors[myPlayer].id] = myPlayer
  /\ entered => screen = "game"
  /\ bullet => entered

GameInv == breach = {} => AvatarInv /\ phase = Phase /\ ~fault

LEMMA BreachGrows == [Next]_vars => breach \subseteq breach'
  BY DEF Next, vars, ConnectToGameServer, OpenDevMap, DisconnectFromGameServer, LoadMap,
     HandleEnterGame, HandleSpawnPlayer, HandleSpawnEnemy, HandleDespawnPlayer,
     HandleDespawnEnemy, HandleMove, HandleEnemyAi, HandleScore, MoveMap, GetEnemyFromId,
     SendMove, Fire, RequestScore

LEMMA MenuNext == TypeOK /\ MenuInv /\ [Next]_vars => MenuInv'
<1> SUFFICES ASSUME TypeOK, MenuInv, [Next]_vars PROVE MenuInv'
  OBVIOUS
<1>1. CASE UNCHANGED uiVars
  BY <1>1 DEF MenuInv, uiVars
<1>2. CASE ConnectToGameServer \/ OpenDevMap \/ DisconnectFromGameServer \/ LoadMap
  BY <1>2 DEF MenuInv, ConnectToGameServer, OpenDevMap, DisconnectFromGameServer, LoadMap,
     Running, TypeOK
<1> QED
  BY <1>1, <1>2 DEF Next, vars, uiVars, HandleEnterGame, HandleSpawnPlayer, HandleSpawnEnemy,
     HandleDespawnPlayer, HandleDespawnEnemy, HandleMove, HandleEnemyAi, HandleScore,
     MoveMap, GetEnemyFromId, SendMove, Fire, RequestScore

\* What the handlers of packets about an object do to the actors.
LEMMA SpawnPlayerEffect ==
  ASSUME TypeOK, NEW i \in Ids, NEW a \in Maybe, NEW k \in {"mine", "other"}, SpawnPlayer(i, k, a)
  PROVE  \/ UNCHANGED worldVars /\ (players[i] # None \/ a = None)
         \/ /\ a \in Actors /\ Fresh(a) /\ players[i] = None
            /\ actors' = [actors EXCEPT ![a] = [kind |-> k, id |-> i]]
            /\ players' = [players EXCEPT ![i] = a]
            /\ myPlayer' = IF k = "mine" THEN a ELSE myPlayer
            /\ enemys' = enemys
  BY DEF SpawnPlayer, Maybe, worldVars

LEMMA SpawnEnemyEffect ==
  ASSUME TypeOK, NEW i \in Ids, NEW a \in Maybe, SpawnEnemy(i, a)
  PROVE  \/ UNCHANGED worldVars
         \/ /\ a \in Actors /\ Fresh(a)
            /\ actors' = [actors EXCEPT ![a] = [kind |-> "enemy", id |-> i]]
            /\ enemys' = [enemys EXCEPT ![i] = a]
            /\ players' = players /\ myPlayer' = myPlayer
  BY DEF SpawnEnemy, Maybe, worldVars

LEMMA FreshFacts ==
  ASSUME TypeOK, NEW a \in Actors, Fresh(a)
  PROVE  /\ actors[a].kind = "none" /\ a # myPlayer
         /\ \A i \in Ids : a # players[i] /\ a # enemys[i]
  BY IdsAssumption DEF Fresh, Alive

\* An actor is kept, destroyed, or made for the object of a packet.
LEMMA ActorStep ==
  ASSUME TypeOK, [Next]_vars, NEW b \in Actors
  PROVE  \/ actors'[b] = actors[b]
         \/ actors'[b].kind = "none"
         \/ \E i \in Ids : actors'[b].id = i /\ Breaches(i, {}) \subseteq breach'
<1>1. ASSUME NEW i \in Ids, NEW a \in Maybe, HandleEnterGame(i, a) \/ HandleSpawnPlayer(i, a)
      PROVE  \/ actors'[b] = actors[b]
             \/ actors'[b].id = i /\ Breaches(i, {}) \subseteq breach'
  <2>1. Breaches(i, {}) \subseteq breach'
    BY <1>1 DEF HandleEnterGame, HandleSpawnPlayer, Breaches
  <2>2. SpawnPlayer(i, "mine", a) \/ SpawnPlayer(i, "other", a)
    BY <1>1 DEF HandleEnterGame, HandleSpawnPlayer
  <2>3. \/ actors' = actors
        \/ /\ a \in Actors
           /\ \/ actors' = [actors EXCEPT ![a] = [kind |-> "mine", id |-> i]]
              \/ actors' = [actors EXCEPT ![a] = [kind |-> "other", id |-> i]]
    BY <2>2, SpawnPlayerEffect DEF worldVars
  <2> QED
    BY <2>1, <2>3 DEF TypeOK
<1>2. ASSUME NEW i \in Ids, NEW a \in Maybe, HandleSpawnEnemy(i, a)
      PROVE  \/ actors'[b] = actors[b]
             \/ actors'[b].id = i /\ Breaches(i, {}) \subseteq breach'
  <2>1. Breaches(i, {}) \subseteq breach'
    BY <1>2 DEF HandleSpawnEnemy, Breaches
  <2>2. \/ actors' = actors
        \/ a \in Actors /\ actors' = [actors EXCEPT ![a] = [kind |-> "enemy", id |-> i]]
    BY <1>2, SpawnEnemyEffect DEF HandleSpawnEnemy, worldVars
  <2> QED
    BY <2>1, <2>2 DEF TypeOK
<1>3. ASSUME NEW i \in Ids, HandleDespawnPlayer(i) \/ HandleDespawnEnemy(i)
      PROVE  actors'[b] \in {actors[b], NoActor}
  BY <1>3 DEF HandleDespawnPlayer, HandleDespawnEnemy, DespawnPlayer, DespawnEnemy
<1>4. ASSUME NEW a \in Actors, MoveMap(a)
      PROVE  actors'[b] \in {actors[b], NoActor}
  BY <1>4 DEF MoveMap
<1>5. CASE LoadMap
  BY <1>5, SlotFacts DEF LoadMap
<1>6. CASE UNCHANGED actors
  BY <1>6
<1> QED
  BY <1>1, <1>2, <1>3, <1>4, <1>5, <1>6, SlotFacts
     DEF Next, vars, worldVars, ConnectToGameServer, OpenDevMap, DisconnectFromGameServer,
         HandleMove, HandleEnemyAi, HandleScore, GetEnemyFromId, SendMove, Fire, RequestScore

LEMMA NarrowNext == TypeOK /\ NarrowInv /\ [Next]_vars => NarrowInv'
<1> SUFFICES ASSUME TypeOK, NarrowInv, [Next]_vars, "wideId" \notin breach',
                    NEW b \in Actors, actors'[b].kind # "none"
             PROVE  Key(actors'[b].id) = actors'[b].id
  BY DEF NarrowInv
<1>1. Key(actors[b].id) = actors[b].id \/ actors[b].kind = "none"
  BY BreachGrows DEF NarrowInv
<1>2. CASE actors'[b] = actors[b]
  BY <1>1, <1>2
<1>3. ASSUME NEW i \in Ids, actors'[b].id = i, Breaches(i, {}) \subseteq breach'
      PROVE  Key(actors'[b].id) = actors'[b].id
  BY <1>3 DEF Breaches
<1> QED
  BY <1>2, <1>3, ActorStep

-----------------------------------------------------------------------------
(* The maps hold live actors under their ids. *)

EmptyMaps == \A i \in Ids : players[i] = None /\ enemys[i] = None

\* RegInv where nothing has been spawned into the lobby.
Reg == (\A i \in Ids : Sound(i)) /\ (screen # "game" \/ travel # "none" => EmptyMaps)

LEMMA RegSpawnPlayer ==
  ASSUME TypeOK, Reg, screen = "game", travel = "none", UNCHANGED uiVars,
         NEW i \in Ids, NEW a \in Maybe, NEW k \in {"mine", "other"}, SpawnPlayer(i, k, a)
  PROVE  Reg'
<1>1. CASE UNCHANGED worldVars
  BY <1>1 DEF Reg, EmptyMaps, Sound, uiVars, worldVars
<1>2. CASE ~UNCHANGED worldVars
  <2>1. /\ a \in Actors /\ Fresh(a)
        /\ actors' = [actors EXCEPT ![a] = [kind |-> k, id |-> i]]
        /\ players' = [players EXCEPT ![i] = a] /\ enemys' = enemys
    BY <1>2, SpawnPlayerEffect
  <2>2. \A j \in Ids : a # players[j] /\ a # enemys[j]
    BY <2>1, FreshFacts
  <2>3. ASSUME NEW j \in Ids PROVE Sound(j)'
    BY <2>1, <2>2, SlotFacts DEF Reg, Sound, TypeOK, Maybe
  <2> QED
    BY <2>3 DEF Reg, uiVars
<1> QED
  BY <1>1, <1>2

LEMMA RegSpawnEnemy ==
  ASSUME TypeOK, Reg, screen = "game", travel = "none", UNCHANGED uiVars,
         NEW i \in Ids, NEW a \in Maybe, SpawnEnemy(i, a)
  PROVE  Reg'
<1>1. CASE UNCHANGED worldVars
  BY <1>1 DEF Reg, EmptyMaps, Sound, uiVars, worldVars
<1>2. CASE ~UNCHANGED worldVars
  <2>1. /\ a \in Actors /\ Fresh(a)
        /\ actors' = [actors EXCEPT ![a] = [kind |-> "enemy", id |-> i]]
        /\ enemys' = [enemys EXCEPT ![i] = a] /\ players' = players
    BY <1>2, SpawnEnemyEffect
  <2>2. \A j \in Ids : a # players[j] /\ a # enemys[j]
    BY <2>1, FreshFacts
  <2>3. ASSUME NEW j \in Ids PROVE Sound(j)'
    BY <2>1, <2>2, SlotFacts DEF Reg, Sound, TypeOK, Maybe
  <2> QED
    BY <2>3 DEF Reg, uiVars
<1> QED
  BY <1>1, <1>2

\* Only the actor that the entry removed has pointed to goes: entries that are
\* sound do not share one.
LEMMA RegDespawns ==
  ASSUME TypeOK, Reg, NEW i \in Ids, HandleDespawnPlayer(i) \/ HandleDespawnEnemy(i)
  PROVE  Reg'
<1>1. UNCHANGED uiVars
  BY DEF HandleDespawnPlayer, HandleDespawnEnemy
<1>2. EmptyMaps => EmptyMaps'
  BY DEF HandleDespawnPlayer, HandleDespawnEnemy, DespawnPlayer, DespawnEnemy, EmptyMaps, TypeOK
<1>3. ASSUME NEW j \in Ids PROVE Sound(j)'
  <2>1. Sound(i) /\ Sound(j)
    BY DEF Reg
  <2>2. CASE HandleDespawnPlayer(i)
    <3>1. /\ players' = [players EXCEPT ![i] = None] /\ enemys' = enemys
          /\ actors' = [c \in Actors |-> IF c = players[i] THEN NoActor ELSE actors[c]]
      BY <2>2 DEF HandleDespawnPlayer, DespawnPlayer
    <3>2. players'[j] # None => players'[j] = players[j] /\ players[j] \in Actors /\ i # j
      BY <3>1 DEF TypeOK, Maybe
    <3>3. players'[j] # None => players[j] # players[i]
      BY <2>1, <3>2 DEF Sound
    <3>4. enemys[j] # None => enemys[j] # players[i] /\ enemys[j] \in Actors
      BY <2>1 DEF Sound, TypeOK, Maybe
    <3> QED
      BY <2>1, <3>1, <3>2, <3>3, <3>4 DEF Sound
  <2>3. CASE HandleDespawnEnemy(i)
    <3>1. /\ enemys' = [enemys EXCEPT ![i] = None] /\ players' = players
          /\ actors' = [c \in Actors |-> IF c = enemys[i] THEN NoActor ELSE actors[c]]
      BY <2>3 DEF HandleDespawnEnemy, DespawnEnemy
    <3>2. enemys'[j] # None => enemys'[j] = enemys[j] /\ enemys[j] \in Actors /\ i # j
      BY <3>1 DEF TypeOK, Maybe
    <3>3. enemys'[j] # None => enemys[j] # enemys[i]
      BY <2>1, <3>2 DEF Sound
    <3>4. players[j] # None => players[j] # enemys[i] /\ players[j] \in Actors
      BY <2>1 DEF Sound, TypeOK, Maybe
    <3> QED
      BY <2>1, <3>1, <3>2, <3>3, <3>4 DEF Sound
  <2> QED
    BY <2>2, <2>3
<1> QED
  BY <1>1, <1>2, <1>3 DEF Reg, uiVars

\* What MoveMap does where it does not fail.
LEMMA MoveMapEffect ==
  ASSUME TypeOK, NEW a \in Actors, MoveMap(a), ~fault'
  PROVE  /\ players' = [i \in Ids |-> IF i \in Keys(Others) THEN None ELSE players[i]]
         /\ enemys' = [i \in Ids |-> IF i \in Keys(Registered(enemys)) THEN None ELSE enemys[i]]
         /\ \A b \in Actors :
              \/ /\ actors'[b] = NoActor
                 /\ \/ \E i \in Ids : players[i] = b /\ i \in Keys(Others)
                    \/ \E i \in Ids : enemys[i] = b /\ i \in Keys(Registered(enemys))
              \/ /\ actors'[b] = actors[b]
                 /\ \A i \in Ids : players[i] = b => i \notin Keys(Others)
                 /\ \A i \in Ids : enemys[i] = b => i \notin Keys(Registered(enemys))
         /\ Send("C_ENTER_ROOM")
<1> DEFINE P == Keys(Others)
           E == Keys(Registered(enemys))
<1>1. /\ players' = [i \in Ids |-> IF i \in P THEN None ELSE players[i]]
      /\ enemys' = [i \in Ids |-> IF i \in E THEN None ELSE enemys[i]]
      /\ actors' = [b \in Actors |->
           IF \/ \E i \in Ids : players[i] = b /\ i \in P
              \/ \E i \in Ids : enemys[i] = b /\ i \in E
           THEN NoActor ELSE actors[b]]
      /\ Send("C_ENTER_ROOM")
  BY DEF MoveMap, Without
<1> HIDE DEF P, E
<1> QED
  BY <1>1 DEF P, E

LEMMA RegMoveMap ==
  ASSUME TypeOK, Reg, NEW a \in Actors, MoveMap(a)
  PROVE  Reg'
<1>1. CASE fault'
  <2>1. UNCHANGED <<screen, travel, players, enemys, actors>>
    BY <1>1 DEF MoveMap, uiVars
  <2> QED
    BY <2>1 DEF Reg, EmptyMaps, Sound
<1>2. CASE ~fault'
  <2> DEFINE P == Keys(Others)
             E == Keys(Registered(enemys))
  <2>1. /\ players' = [i \in Ids |-> IF i \in P THEN None ELSE players[i]]
        /\ enemys' = [i \in Ids |-> IF i \in E THEN None ELSE enemys[i]]
    BY <1>2, MoveMapEffect
  <2>2. \A b \in Actors : \/ actors'[b] = actors[b]
                          \/ \E i \in Ids : players[i] = b /\ i \in P
                          \/ \E i \in Ids : enemys[i] = b /\ i \in E
    BY <1>2, MoveMapEffect
  <2> HIDE DEF P, E
  <2>3. ASSUME NEW j \in Ids PROVE Sound(j)'
    <3>1. \A i \in Ids : Sound(i)
      BY DEF Reg
    <3>2. ASSUME players'[j] # None
          PROVE  actors'[players[j]] = actors[players[j]] /\ players'[j] = players[j]
      <4>1. players'[j] = players[j] /\ j \notin P /\ players[j] \in Actors
        BY <2>1, <3>2 DEF TypeOK, Maybe
      <4>2. ASSUME NEW i \in Ids, players[i] = players[j] PROVE i = j
        BY <3>1, <4>1, <4>2, <3>2 DEF Sound
      <4>3. ASSUME NEW i \in Ids, enemys[i] = players[j] PROVE FALSE
        BY <3>1, <4>1, <4>3, <3>2 DEF Sound
      <4> QED
        BY <2>2, <4>1, <4>2, <4>3
    <3>3. ASSUME enemys'[j] # None
          PROVE  actors'[enemys[j]] = actors[enemys[j]] /\ enemys'[j] = enemys[j]
      <4>1. enemys'[j] = enemys[j] /\ j \notin E /\ enemys[j] \in Actors
        BY <2>1, <3>3 DEF TypeOK, Maybe
      <4>2. ASSUME NEW i \in Ids, enemys[i] = enemys[j] PROVE i = j
        BY <3>1, <4>1, <4>2, <3>3 DEF Sound
      <4>3. ASSUME NEW i \in Ids, players[i] = enemys[j] PROVE FALSE
        BY <3>1, <4>1, <4>3, <3>3 DEF Sound
      <4> QED
        BY <2>2, <4>1, <4>2, <4>3
    <3> QED
      BY <3>1, <3>2, <3>3 DEF Sound
  <2>4. EmptyMaps => EmptyMaps'
    BY <2>1 DEF EmptyMaps
  <2>5. UNCHANGED uiVars
    BY DEF MoveMap
  <2> QED
    BY <2>3, <2>4, <2>5 DEF Reg, uiVars
<1> QED
  BY <1>1, <1>2

LEMMA RegMenus ==
  ASSUME TypeOK, Reg,
         ConnectToGameServer \/ OpenDevMap \/ DisconnectFromGameServer \/ LoadMap
  PROVE  Reg'
<1>1. EmptyMaps'
  BY DEF ConnectToGameServer, OpenDevMap, DisconnectFromGameServer, LoadMap, Running, Reg,
     EmptyMaps, worldVars
<1> QED
  BY <1>1 DEF Reg, EmptyMaps, Sound

\* A packet about an object is late, or is handled in a running game.
LEMMA NotLate ==
  ASSUME NEW i \in Ids, NEW c, Receiving, "late" \notin Breaches(i, c)
  PROVE  screen = "game" /\ travel = "none" /\ session
  BY DEF Breaches, Receiving, Running

LEMMA RegNext == TypeOK /\ RegInv /\ [Next]_vars => RegInv'
<1> SUFFICES ASSUME TypeOK, RegInv, [Next]_vars, "late" \notin breach' PROVE Reg'
  BY DEF RegInv, Reg, EmptyMaps
<1>1. Reg
  BY BreachGrows DEF RegInv, Reg, EmptyMaps
<1>2. CASE UNCHANGED <<uiVars, worldVars>>
  BY <1>1, <1>2 DEF uiVars, worldVars, Reg, EmptyMaps, Sound
<1>3. ASSUME NEW i \in Ids, NEW a \in Maybe, HandleEnterGame(i, a) \/ HandleSpawnPlayer(i, a)
      PROVE  Reg'
  <2>1. screen = "game" /\ travel = "none" /\ UNCHANGED uiVars
    BY <1>3, NotLate DEF HandleEnterGame, HandleSpawnPlayer
  <2>2. SpawnPlayer(i, "mine", a) \/ SpawnPlayer(i, "other", a)
    BY <1>3 DEF HandleEnterGame, HandleSpawnPlayer
  <2> QED
    BY <1>1, <2>1, <2>2, RegSpawnPlayer
<1>4. ASSUME NEW i \in Ids, NEW a \in Maybe, HandleSpawnEnemy(i, a)
      PROVE  Reg'
  <2>1. screen = "game" /\ travel = "none" /\ UNCHANGED uiVars /\ SpawnEnemy(i, a)
    BY <1>4, NotLate DEF HandleSpawnEnemy
  <2> QED
    BY <1>1, <2>1, RegSpawnEnemy
<1> QED
  BY <1>1, <1>2, <1>3, <1>4, RegMenus, RegDespawns, RegMoveMap
     DEF Next, vars, uiVars, worldVars, HandleMove, HandleEnemyAi, HandleScore,
         GetEnemyFromId, SendMove, Fire, RequestScore

-----------------------------------------------------------------------------
(* A server that keeps to the protocol. *)

Safe == AvatarInv /\ phase = Phase /\ ~fault

\* All that holds before a step that is no breach.
Before == /\ TypeOK /\ MenuInv /\ Reg /\ Safe
          /\ \A b \in Actors : actors[b].kind # "none" => Key(actors[b].id) = actors[b].id
          /\ travel = "none" => \A b \in Actors : PlayerEntry(b) /\ EnemyEntry(b)

LEMMA BeforeFacts ==
  TypeOK /\ MenuInv /\ RegInv /\ NarrowInv /\ Tracked /\ GameInv /\ breach = {} => Before
  BY TrackedByActor DEF Before, Safe, GameInv, RegInv, Reg, EmptyMaps, NarrowInv, Tracked,
     EnemiesTrackedUnlessAgain

\* A player's live actor is in a game that has begun.
LEMMA Playing ==
  ASSUME Before, Running, NEW b \in Actors, actors[b].kind # "none"
  PROVE  screen = "game" /\ travel = "none" /\ session /\ phase = "game"
  BY DEF Before, Safe, AvatarInv, MenuInv, Running, Phase

LEMMA SafeMenus ==
  ASSUME Before, ConnectToGameServer \/ OpenDevMap \/ DisconnectFromGameServer \/ LoadMap
  PROVE  Safe'
<1> USE DEF Before, TypeOK
<1>1. CASE ConnectToGameServer
  BY <1>1 DEF ConnectToGameServer, Running, Safe, AvatarInv, Phase, worldVars
<1>2. CASE OpenDevMap
  BY <1>2 DEF OpenDevMap, Running, Safe, AvatarInv, Phase, worldVars
<1>3. CASE DisconnectFromGameServer
  <2>1. screen = "game" /\ travel = "none" /\ session /\ phase = "game"
    BY <1>3 DEF DisconnectFromGameServer, Running, Safe, Phase, MenuInv
  <2>2. phase' = "none" /\ screen' = "game" /\ travel' = "login"
    BY <1>3, <2>1 DEF DisconnectFromGameServer, Send, Allowed, After
  <2>3. AvatarInv' /\ ~fault'
    BY <1>3, <2>1 DEF DisconnectFromGameServer, Safe, AvatarInv
  <2> QED
    BY <2>2, <2>3 DEF Safe, Phase
<1>4. CASE LoadMap
  <2>1. AvatarInv' /\ ~fault'
    BY <1>4, SlotFacts DEF LoadMap, AvatarInv
  <2>2. CASE travel = "game"
    <3>1. phase = "lobby" /\ session
      BY <2>2 DEF Safe, Phase, MenuInv
    <3> QED
      BY <1>4, <2>1, <2>2, <3>1 DEF LoadMap, Send, Allowed, After, Safe, Phase
  <2>3. CASE travel = "login"
    <3>1. phase = "none"
      BY <2>3 DEF Safe, Phase, MenuInv
    <3> QED
      BY <1>4, <2>1, <2>3, <3>1 DEF LoadMap, Safe, Phase
  <2> QED
    BY <1>4, <2>2, <2>3 DEF LoadMap
<1> QED
  BY <1>1, <1>2, <1>3, <1>4

LEMMA SafeEnterGame ==
  ASSUME Before, NEW i \in Ids, NEW a \in Maybe, HandleEnterGame(i, a), breach' = {}
  PROVE  Safe'
<1>1. screen = "game" /\ travel = "none" /\ UNCHANGED uiVars
  BY NotLate DEF HandleEnterGame
<1>2. ~entered
  BY DEF HandleEnterGame, Breaches
<1>3. phase' = phase /\ fault' = fault /\ bullet' = bullet /\ entered' = (a # None)
  BY <1>2 DEF HandleEnterGame
<1>4. phase' = Phase' /\ ~fault'
  BY <1>1, <1>3 DEF Before, Safe, Phase, uiVars
<1>5. \A b \in Actors : actors[b].kind # "mine"
  BY <1>2 DEF Before, Safe, AvatarInv
<1>6. CASE a = None
  <2>1. UNCHANGED worldVars /\ ~entered'
    BY <1>3, <1>6 DEF HandleEnterGame, SpawnPlayer
  <2> QED
    BY <1>1, <1>2, <1>3, <1>4, <2>1 DEF Before, Safe, AvatarInv, uiVars, worldVars
<1>7. CASE a # None
  <2>1. /\ a \in Actors /\ myPlayer' = a
        /\ actors' = [actors EXCEPT ![a] = [kind |-> "mine", id |-> i]]
        /\ players' = [players EXCEPT ![i] = a]
    <3>1. players[i] = None /\ SpawnPlayer(i, "mine", a)
      BY DEF HandleEnterGame, Breaches
    <3> QED
      BY <1>7, <3>1 DEF SpawnPlayer, Maybe
  <2>2. actors'[a].kind = "mine" /\ actors'[a].id = i /\ players'[i] = a
    BY <2>1, SlotFacts DEF Before, TypeOK
  <2>3. \A b \in Actors : b # a => actors'[b] = actors[b]
    BY <2>1 DEF Before, TypeOK
  <2>4. screen' = "game"
    BY <1>1 DEF uiVars
  <2> QED
    BY <1>3, <1>4, <1>5, <1>7, <2>1, <2>2, <2>3, <2>4 DEF Safe, AvatarInv
<1> QED
  BY <1>6, <1>7

\* A spawn that is not the own avatar's leaves that where it is.
LEMMA SafeOtherSpawns ==
  ASSUME Before, NEW i \in Ids, NEW a \in Maybe,
         HandleSpawnPlayer(i, a) \/ HandleSpawnEnemy(i, a), breach' = {}
  PROVE  Safe'
<1>1. screen = "game" /\ travel = "none"
  BY NotLate DEF HandleSpawnPlayer, HandleSpawnEnemy
<1>2. UNCHANGED <<screen, travel, phase, fault, bullet, entered>>
  BY DEF HandleSpawnPlayer, HandleSpawnEnemy, uiVars
<1>3. \/ UNCHANGED worldVars
      \/ /\ a \in Actors /\ Fresh(a) /\ myPlayer' = myPlayer
         /\ \E k \in {"other", "enemy"} : actors' = [actors EXCEPT ![a] = [kind |-> k, id |-> i]]
         /\ players' = players \/ (players[i] = None /\ players' = [players EXCEPT ![i] = a])
  <2>1. CASE HandleSpawnPlayer(i, a)
    BY <2>1, SpawnPlayerEffect DEF HandleSpawnPlayer, Before
  <2>2. CASE HandleSpawnEnemy(i, a)
    BY <2>2, SpawnEnemyEffect DEF HandleSpawnEnemy, Before
  <2> QED
    BY <2>1, <2>2
<1>4. phase' = Phase' /\ ~fault'
  BY <1>2 DEF Before, Safe, Phase
<1>5. CASE UNCHANGED worldVars
  BY <1>2, <1>4, <1>5 DEF Before, Safe, AvatarInv, worldVars
<1>6. CASE ~UNCHANGED worldVars
  <2>1. /\ a \in Actors /\ Fresh(a) /\ myPlayer' = myPlayer
        /\ players' = players \/ (players[i] = None /\ players' = [players EXCEPT ![i] = a])
    BY <1>3, <1>6
  <2>2. PICK k \in {"other", "enemy"} : actors' = [actors EXCEPT ![a] = [kind |-> k, id |-> i]]
    BY <1>3, <1>6
  <2>3. actors'[a].kind \in {"other", "enemy"} /\ actors[a].kind = "none" /\ a # myPlayer
    BY <2>1, <2>2, SlotFacts, FreshFacts DEF Before, TypeOK
  <2>4. \A b \in Actors : b # a => actors'[b] = actors[b]
    BY <2>2 DEF Before, TypeOK
  <2>5. \A b \in Actors : actors'[b].kind = "mine" => entered /\ b = myPlayer
    BY <2>3, <2>4 DEF Before, Safe, AvatarInv
  <2>6. ASSUME entered
        PROVE  /\ myPlayer \in Actors /\ actors'[myPlayer].kind = "mine"
               /\ players'[actors'[myPlayer].id] = myPlayer
    <3>1. /\ myPlayer \in Actors /\ actors[myPlayer].kind = "mine"
          /\ players[actors[myPlayer].id] = myPlayer
      BY <1>1, <2>6 DEF Before, Safe, AvatarInv
    <3>2. actors'[myPlayer] = actors[myPlayer] /\ actors[myPlayer].id \in Ids
      BY <2>3, <2>4, <3>1, LiveId DEF Before
    <3>3. players[i] = None => actors[myPlayer].id # i
      BY <3>1, IdsAssumption
    <3> QED
      BY <2>1, <3>1, <3>2, <3>3 DEF Before, TypeOK
  <2> QED
    BY <1>1, <1>2, <1>4, <2>1, <2>5, <2>6 DEF Before, Safe, AvatarInv
<1> QED
  BY <1>5, <1>6

\* Where nothing happens to the own avatar and its entry, it stays safe.
LEMMA SafeKept ==
  ASSUME Before, UNCHANGED <<screen, travel, myPlayer, entered, bullet>>,
         phase' = phase, ~fault',
         \A b \in Actors : actors'[b] = actors[b] \/ actors'[b].kind = "none",
         entered => /\ actors'[myPlayer] = actors[myPlayer]
                    /\ travel = "none" => players'[actors[myPlayer].id] = players[actors[myPlayer].id]
  PROVE  Safe'
<1>1. phase' = Phase'
  BY DEF Before, Safe, Phase
<1>2. AvatarInv'
  BY DEF Before, Safe, AvatarInv
<1> QED
  BY <1>1, <1>2 DEF Safe

LEMMA SafeDespawns ==
  ASSUME Before, NEW i \in Ids, HandleDespawnPlayer(i) \/ HandleDespawnEnemy(i), breach' = {}
  PROVE  Safe'
<1>1. screen = "game" /\ travel = "none"
  BY NotLate DEF HandleDespawnPlayer, HandleDespawnEnemy
<1>2. UNCHANGED <<screen, travel, phase, myPlayer, bullet, entered>>
  BY DEF HandleDespawnPlayer, HandleDespawnEnemy, uiVars
<1>3. entered => /\ myPlayer \in Actors /\ actors[myPlayer].kind = "mine"
                 /\ players[actors[myPlayer].id] = myPlayer
                 /\ actors[myPlayer].id \in Ids
  BY <1>1, LiveId DEF Before, Safe, AvatarInv
<1>4. Sound(i)
  BY DEF Before, Reg
<1>5. CASE HandleDespawnPlayer(i)
  <2>1. /\ players' = [players EXCEPT ![i] = None]
        /\ actors' = [c \in Actors |-> IF c = players[i] THEN NoActor ELSE actors[c]]
        /\ fault' = (players[i] # None /\ ~Alive(players[i]))
    BY <1>5 DEF HandleDespawnPlayer, DespawnPlayer
  <2>2. players[i] # None => players[i] # myPlayer
    BY <1>5 DEF HandleDespawnPlayer, Breaches
  <2>3. ~fault'
    BY <2>1, <1>4 DEF Sound, Alive
  <2>4. entered => i # actors[myPlayer].id /\ players[i] # myPlayer
    BY <1>3, <2>2, IdsAssumption
  <2>5. \A b \in Actors : actors'[b] = actors[b] \/ actors'[b].kind = "none"
    BY <2>1, SlotFacts
  <2> QED
    BY <1>2, <1>3, <2>1, <2>3, <2>4, <2>5, SafeKept DEF Before, TypeOK
<1>6. CASE HandleDespawnEnemy(i)
  <2>1. /\ players' = players
        /\ actors' = [c \in Actors |-> IF c = enemys[i] THEN NoActor ELSE actors[c]]
        /\ fault' = (enemys[i] # None /\ ~Alive(enemys[i]))
    BY <1>6 DEF HandleDespawnEnemy, DespawnEnemy
  <2>2. ~fault'
    BY <2>1, <1>4 DEF Sound, Alive
  <2>3. entered => enemys[i] # myPlayer
    BY <1>3, <1>4, IdsAssumption DEF Sound
  <2>4. \A b \in Actors : actors'[b] = actors[b] \/ actors'[b].kind = "none"
    BY <2>1, SlotFacts
  <2> QED
    BY <1>2, <1>3, <2>1, <2>2, <2>3, <2>4, SafeKept
<1> QED
  BY <1>5, <1>6

LEMMA SafeUses ==
  ASSUME Before, (\E i \in Ids : HandleMove(i) \/ HandleEnemyAi(i)) \/ HandleScore, breach' = {}
  PROVE  Safe'
<1>1. UNCHANGED <<screen, travel, phase, worldVars, bullet, entered>>
  BY DEF HandleMove, HandleEnemyAi, HandleScore, uiVars
<1>2. ~fault'
  <2>1. ASSUME NEW i \in Ids, HandleMove(i) \/ HandleEnemyAi(i) PROVE ~fault'
    <3>1. Sound(i)
      BY DEF Before, Reg
    <3> QED
      BY <2>1, <3>1 DEF HandleMove, HandleEnemyAi, Use, Sound, Alive
  <2>2. ASSUME HandleScore PROVE ~fault'
    <3>1. screen = "game" /\ entered /\ travel = "none"
      BY <2>2 DEF HandleScore, Receiving, Running
    <3>2. Alive(myPlayer)
      BY <3>1, IdsAssumption DEF Before, Safe, AvatarInv, Alive
    <3> QED
      BY <2>2, <3>2 DEF HandleScore, Use
  <2> QED
    BY <2>1, <2>2
<1> QED
  BY <1>1, <1>2, SafeKept DEF worldVars

\* Ids that the int keeps apart: what the own avatar's id finds is not another's.
LEMMA OwnKey ==
  ASSUME Before, NEW a \in Actors, actors[a].kind = "mine", travel = "none"
  PROVE  /\ entered /\ a = myPlayer /\ players[actors[a].id] = a /\ actors[a].id \in Ids
         /\ actors[a].id \notin Keys(Others)
         /\ \A i \in Ids : players[i] = a => i = actors[a].id
         /\ \A i \in Ids : enemys[i] # a
<1>1. entered /\ a = myPlayer /\ players[actors[a].id] = a /\ actors[a].id \in Ids
  BY LiveId DEF Before, Safe, AvatarInv
<1>2. ASSUME NEW b \in Others PROVE Key(actors[b].id) # actors[a].id
  <2>1. PICK i \in Ids : players[i] = b /\ b # None
    BY <1>2 DEF Others, Registered
  <2>2. b \in Actors /\ actors[b].kind # "none"
    BY <2>1 DEF Before, TypeOK, Maybe, Reg, Sound
  <2>3. Key(actors[b].id) = actors[b].id
    BY <2>2 DEF Before
  <2>4. AsInt(actors[b].id) # AsInt(actors[a].id)
    BY <1>1, <1>2 DEF Others
  <2> QED
    BY <2>3, <2>4
<1>3. \A i \in Ids : players[i] = a => i = actors[a].id
  BY IdsAssumption DEF Before, Reg, Sound
<1>4. \A i \in Ids : enemys[i] # a
  BY IdsAssumption DEF Before, Reg, Sound
<1> QED
  BY <1>1, <1>2, <1>3, <1>4 DEF Keys

LEMMA NoFaultMoveMap ==
  ASSUME Before, NEW a \in Actors, MoveMap(a)
  PROVE  ~fault' /\ travel = "none" /\ actors[a].kind = "mine"
<1>1. travel = "none" /\ actors[a].kind = "mine"
  BY DEF MoveMap, Running
<1>2. a = myPlayer
  BY <1>1, OwnKey
<1>3. ASSUME NEW b \in Registered(players) \cup Registered(enemys) \cup {myPlayer} PROVE Alive(b)
  <2>1. \A i \in Ids : Sound(i)
    BY DEF Before, Reg
  <2>2. CASE b = myPlayer
    BY <1>1, <1>2, <2>2, IdsAssumption DEF Alive
  <2>3. CASE b \in Registered(players) \cup Registered(enemys)
    <3>1. b # None /\ \E i \in Ids : players[i] = b \/ enemys[i] = b
      BY <2>3 DEF Registered
    <3> QED
      BY <2>1, <3>1 DEF Sound, Alive
  <2> QED
    BY <1>3, <2>2, <2>3
<1> QED
  BY <1>1, <1>3 DEF MoveMap

LEMMA SafeMoveMap ==
  ASSUME Before, NEW a \in Actors, MoveMap(a)
  PROVE  Safe'
<1>1. ~fault' /\ travel = "none" /\ actors[a].kind = "mine"
  BY NoFaultMoveMap
<1>2. UNCHANGED <<screen, travel, myPlayer, bullet, entered>>
  BY DEF MoveMap, uiVars
<1>3. phase' = phase
  <2>1. session /\ phase = "game"
    BY <1>1, Playing DEF MoveMap
  <2>2. Send("C_ENTER_ROOM")
    BY <1>1, MoveMapEffect DEF Before
  <2> QED
    BY <2>1, <2>2 DEF Send, Allowed, After
<1>4. \A b \in Actors : actors'[b] = actors[b] \/ actors'[b].kind = "none"
  <2>1. TypeOK /\ NoActor.kind = "none"
    BY SlotFacts DEF Before
  <2>2. ASSUME NEW b \in Actors PROVE actors'[b] \in {actors[b], NoActor}
    BY DEF MoveMap
  <2> QED
    BY <2>1, <2>2
<1>5. actors'[a] = actors[a] /\ players'[actors[a].id] = players[actors[a].id] /\ a = myPlayer
  BY <1>1, OwnKey, MoveMapEffect DEF Before
<1> QED
  BY <1>1, <1>2, <1>3, <1>4, <1>5, SafeKept

LEMMA SafeActors ==
  ASSUME Before, NEW a \in Actors,
         GetEnemyFromId(a) \/ SendMove(a) \/ Fire(a) \/ RequestScore(a)
  PROVE  Safe'
<1>1. /\ UNCHANGED <<screen, travel, worldVars, entered>>
      /\ Running /\ actors[a].kind # "none"
  BY DEF GetEnemyFromId, SendMove, Fire, RequestScore, uiVars, Alive
<1>2. screen = "game" /\ travel = "none" /\ session /\ phase = "game"
  BY <1>1, Playing
<1>3. phase' = phase
  BY <1>2 DEF GetEnemyFromId, SendMove, Fire, RequestScore, Send, Allowed, After
<1>4. ~fault'
  <2>1. ~fault
    BY DEF Before, Safe
  <2>2. ASSUME GetEnemyFromId(a) PROVE ~fault'
    <3>1. /\ enemys[actors[a].id] = a /\ Key(actors[a].id) = actors[a].id
          /\ actors[a].id \in Ids /\ Alive(a)
      BY <1>1, <1>2, <2>2, LiveId DEF GetEnemyFromId, Before, EnemyEntry
    <3> QED
      BY <2>2, <3>1 DEF GetEnemyFromId
  <2>3. ASSUME RequestScore(a) PROVE ~fault'
    <3>1. Alive(myPlayer)
      BY <1>2, <2>3, IdsAssumption DEF RequestScore, Before, Safe, AvatarInv, Alive
    <3> QED
      BY <2>3, <3>1 DEF RequestScore
  <2> QED
    BY <2>1, <2>2, <2>3 DEF SendMove, Fire
<1>5. bullet' => entered
  BY DEF GetEnemyFromId, SendMove, Fire, RequestScore, Before, Safe, AvatarInv
<1> QED
  BY <1>1, <1>2, <1>3, <1>4, <1>5 DEF Before, Safe, AvatarInv, Phase, worldVars

WorldInv == TypeOK /\ MenuInv /\ RegInv /\ NarrowInv /\ Tracked /\ GameInv

LEMMA GameNext == WorldInv /\ [Next]_vars => GameInv'
<1> SUFFICES ASSUME WorldInv, [Next]_vars, breach' = {} PROVE Safe'
  BY DEF GameInv, Safe
<1>1. Before
  BY BreachGrows, BeforeFacts DEF WorldInv
<1>2. CASE UNCHANGED vars
  BY <1>1, <1>2 DEF vars, Before, Safe, AvatarInv, Phase
<1> QED
  BY <1>1, <1>2, SafeMenus, SafeEnterGame, SafeOtherSpawns, SafeDespawns, SafeUses,
     SafeMoveMap, SafeActors DEF Next

LEMMA WorldInit == Init => WorldInv
<1> SUFFICES ASSUME Init PROVE WorldInv
  OBVIOUS
<1>1. TypeOK /\ Tracked
  BY TypeInit, TrackedInit
<1>2. \A b \in Actors : actors[b] = NoActor /\ actors[b].kind = "none"
  BY SlotFacts DEF Init
<1>3. RegInv /\ NarrowInv /\ MenuInv
  BY <1>2 DEF Init, RegInv, NarrowInv, MenuInv, Sound
<1>4. GameInv
  BY <1>2 DEF Init, GameInv, AvatarInv, Phase
<1> QED
  BY <1>1, <1>3, <1>4 DEF WorldInv

LEMMA WorldAlways == Spec => []WorldInv
<1>1. WorldInv /\ [Next]_vars => WorldInv'
  BY TypeNext, MenuNext, RegNext, NarrowNext, TrackedNext, GameNext DEF WorldInv
<1> QED
  BY <1>1, WorldInit, PTL DEF Spec

\* As long as nothing is spawned into the lobby, an entry of Players or Enemys
\* leads to a live actor of its kind and id, across levels and sessions.
THEOREM RegistryTheorem == Spec => []RegistrySound
<1>1. WorldInv => RegistrySound
  BY DEF WorldInv, RegInv, Sound, RegistrySound, IsPlayer
<1> QED
  BY <1>1, WorldAlways, PTL

\* In a game that S_ENTER_GAME has begun MyPlayer is the live avatar of the
\* server, whatever else is spawned, despawned and cleared.
THEOREM AvatarTheorem == Spec => []AvatarSound
<1>1. WorldInv => AvatarSound
  BY IdsAssumption DEF WorldInv, GameInv, AvatarInv, AvatarSound, Alive
<1> QED
  BY <1>1, WorldAlways, PTL

\* A server that keeps to the protocol never has the client follow a null or
\* dangling pointer.
THEOREM NoFaultTheorem == Spec => []NoFault
<1>1. WorldInv => NoFault
  BY DEF WorldInv, GameInv, NoFault
<1> QED
  BY <1>1, WorldAlways, PTL

\* Nor does the client then ask for what the server's state does not allow.
THEOREM RequestsTheorem == Spec => []RequestsInOrder
<1>1. WorldInv => RequestsInOrder
  BY DEF WorldInv, GameInv, RequestsInOrder, Phase
<1> QED
  BY <1>1, WorldAlways, PTL

\* Who stays on the screen after a map change could be found under its id, so it
\* was among those despawned unless its id is the avatar's.
LEMMA MoveMapClears ==
  ASSUME Before, NEW a \in Actors, MoveMap(a), NEW b \in Actors, actors'[b].kind # "none"
  PROVE  b = myPlayer
<1>1. ~fault' /\ travel = "none" /\ actors[a].kind = "mine"
  BY NoFaultMoveMap
<1>2. a = myPlayer /\ players[actors[a].id] = a
  BY <1>1, OwnKey
<1>3. /\ actors[b].kind # "none"
      /\ \A i \in Ids : players[i] = b => i \notin Keys(Others)
      /\ \A i \in Ids : enemys[i] = b => i \notin Keys(Registered(enemys))
  <2> DEFINE P == Keys(Others)
             E == Keys(Registered(enemys))
  <2>1. actors' = [c \in Actors |->
          IF \/ \E i \in Ids : players[i] = c /\ i \in P
             \/ \E i \in Ids : enemys[i] = c /\ i \in E
          THEN NoActor ELSE actors[c]]
    BY <1>1 DEF MoveMap
  <2> HIDE DEF P, E
  <2>2. /\ actors[b].kind # "none"
        /\ \A i \in Ids : players[i] = b => i \notin P
        /\ \A i \in Ids : enemys[i] = b => i \notin E
    BY <2>1, SlotFacts
  <2> QED
    BY <2>2 DEF P, E
<1>4. /\ actors[b].id \in Ids /\ actors[b].kind \in {"mine", "other", "enemy"}
      /\ Key(actors[b].id) = actors[b].id /\ Key(actors[a].id) = actors[a].id
  BY <1>1, <1>3, LiveId DEF Before
<1>5. CASE actors[b].kind = "enemy"
  <2>1. enemys[actors[b].id] = b
    BY <1>1, <1>5 DEF Before, EnemyEntry
  <2>2. b \in Registered(enemys)
    BY <1>4, <2>1, IdsAssumption DEF Registered
  <2> QED
    BY <1>3, <1>4, <2>1, <2>2 DEF Keys
<1>6. CASE actors[b].kind # "enemy"
  <2>1. players[actors[b].id] = b
    BY <1>1, <1>4, <1>6 DEF Before, PlayerEntry
  <2>2. b \in Registered(players)
    BY <1>4, <2>1, IdsAssumption DEF Registered
  <2>3. b \notin Others
    BY <1>3, <1>4, <2>1 DEF Keys
  <2>4. AsInt(actors[b].id) = AsInt(actors[a].id)
    BY <1>2, <2>2, <2>3 DEF Others
  <2>5. actors[b].id = actors[a].id
    BY <1>4, <2>4 DEF Key
  <2> QED
    BY <1>2, <2>1, <2>5
<1> QED
  BY <1>5, <1>6

\* A map change leaves nobody but the own avatar, for every set of ids that the
\* int of GetObjectId keeps apart.
THEOREM MapChangeTheorem == Spec => MapChangeClears
<1>1. WorldInv /\ [Next]_vars
      => [ (breach = {} /\ \E a \in Actors : MoveMap(a))
           => \A b \in Actors : actors'[b].kind # "none" => b = myPlayer ]_vars
  <2> SUFFICES ASSUME WorldInv, breach = {}, NEW a \in Actors, MoveMap(a),
                      NEW b \in Actors, actors'[b].kind # "none"
               PROVE  b = myPlayer
    OBVIOUS
  <2>1. Before
    BY BeforeFacts DEF WorldInv
  <2> QED
    BY <2>1, MoveMapClears
<1> QED
  BY <1>1, WorldAlways, PTL DEF Spec, MapChangeClears

-----------------------------------------------------------------------------
(* What the screen shows and what is asked for, with less of the server. *)

\* The maps and the screen say the same, outside level changes: an entry is of
\* the actor that is there under its id, and whoever is there has an entry.  It
\* takes a spawn into the lobby or a second one of an enemy to part them.
MapsAreScreen ==
  (breach \cap {"late", "enemyAgain"} = {} /\ travel = "none") =>
    \A a \in Actors, i \in Ids :
      /\ players[i] = a <=> IsPlayer(a) /\ actors[a].id = i
      /\ enemys[i] = a <=> actors[a].kind = "enemy" /\ actors[a].id = i

\* So two objects never share an actor, nor one object two, whichever ids the
\* int of GetObjectId confuses and whatever S_DESPAWN says of the own avatar.
THEOREM MapsTheorem == Spec => []MapsAreScreen
<1>1. WorldInv => MapsAreScreen
  <2> SUFFICES ASSUME WorldInv, breach \cap {"late", "enemyAgain"} = {}, travel = "none",
                      NEW a \in Actors, NEW i \in Ids
               PROVE  /\ players[i] = a <=> IsPlayer(a) /\ actors[a].id = i
                      /\ enemys[i] = a <=> actors[a].kind = "enemy" /\ actors[a].id = i
    BY DEF MapsAreScreen
  <2>1. Sound(i) /\ a # None
    BY IdsAssumption DEF WorldInv, RegInv
  <2>2. PlayerEntry(a) /\ EnemyEntry(a)
    BY TrackedByActor DEF WorldInv, Tracked, EnemiesTrackedUnlessAgain
  <2> QED
    BY <2>1, <2>2 DEF Sound, PlayerEntry, EnemyEntry, IsPlayer
<1> QED
  BY <1>1, WorldAlways, PTL

\* The requests stay in order by less than NoFault needs: that actors are there
\* only in a game, which the menus open and close.
OnlyLate == "late" \notin breach => phase # "error"

OrderInv ==
  "late" \notin breach =>
    /\ \A b \in Actors : actors[b].kind # "none" => screen = "game"
    /\ phase = Phase

LEMMA OrderNext == TypeOK /\ MenuInv /\ OrderInv /\ [Next]_vars => OrderInv'
<1> SUFFICES ASSUME TypeOK, MenuInv, OrderInv, [Next]_vars, "late" \notin breach'
             PROVE  /\ \A b \in Actors : actors'[b].kind # "none" => screen' = "game"
                    /\ phase' = Phase'
  BY DEF OrderInv
<1>1. /\ \A b \in Actors : actors[b].kind # "none" => screen = "game"
      /\ phase = Phase
  BY BreachGrows DEF OrderInv
<1>2. CASE ConnectToGameServer \/ OpenDevMap \/ DisconnectFromGameServer \/ LoadMap
  <2>1. \A b \in Actors : actors'[b].kind # "none" => screen' = "game"
    BY <1>1, <1>2, SlotFacts
       DEF ConnectToGameServer, OpenDevMap, DisconnectFromGameServer, LoadMap, worldVars
  <2>2. ASSUME ConnectToGameServer PROVE phase' = Phase'
    BY <2>2 DEF ConnectToGameServer, Running, Phase
  <2>3. ASSUME OpenDevMap PROVE phase' = Phase'
    BY <1>1, <2>3 DEF OpenDevMap, Running, Phase
  <2>4. ASSUME DisconnectFromGameServer PROVE phase' = Phase'
    BY <1>1, <2>4 DEF DisconnectFromGameServer, Running, Phase, MenuInv, Send, Allowed, After
  <2>5. ASSUME LoadMap PROVE phase' = Phase'
    <3>1. CASE travel = "game"
      BY <1>1, <2>5, <3>1 DEF LoadMap, Phase, MenuInv, Send, Allowed, After
    <3>2. CASE travel = "login"
      BY <1>1, <2>5, <3>2 DEF LoadMap, Phase, MenuInv
    <3> QED
      BY <2>5, <3>1, <3>2 DEF LoadMap, TypeOK
  <2> QED
    BY <1>2, <2>1, <2>2, <2>3, <2>4, <2>5
<1>3. CASE UNCHANGED <<screen, travel, phase>> /\ (screen = "game" \/ UNCHANGED actors)
  BY <1>1, <1>3 DEF Phase
<1>4. ASSUME NEW i \in Ids, NEW a \in Maybe,
             HandleEnterGame(i, a) \/ HandleSpawnPlayer(i, a) \/ HandleSpawnEnemy(i, a)
             \/ HandleDespawnPlayer(i) \/ HandleDespawnEnemy(i)
      PROVE  screen = "game" /\ UNCHANGED <<screen, travel, phase>>
  BY <1>4 DEF HandleEnterGame, HandleSpawnPlayer, HandleSpawnEnemy, HandleDespawnPlayer,
     HandleDespawnEnemy, Breaches, uiVars
<1>5. ASSUME NEW a \in Actors,
             MoveMap(a) \/ GetEnemyFromId(a) \/ SendMove(a) \/ Fire(a) \/ RequestScore(a)
      PROVE  screen = "game" /\ UNCHANGED <<screen, travel, phase>>
  <2>1. /\ Running /\ actors[a].kind # "none" /\ UNCHANGED uiVars
    BY <1>5 DEF MoveMap, GetEnemyFromId, SendMove, Fire, RequestScore, Alive
  <2>2. screen = "game" /\ phase = "game" /\ session
    BY <1>1, <2>1 DEF Running, Phase, MenuInv
  <2>3. \/ phase' = phase
        \/ \E r \in {"C_ENTER_ROOM", "C_MOVE", "C_SCORE"} : Send(r)
    BY <1>5 DEF MoveMap, GetEnemyFromId, SendMove, Fire, RequestScore
  <2>4. phase' = phase
    BY <2>2, <2>3 DEF Send, Allowed, After
  <2> QED
    BY <2>1, <2>2, <2>4 DEF uiVars
<1>6. ASSUME (\E i \in Ids : HandleMove(i) \/ HandleEnemyAi(i)) \/ HandleScore \/ UNCHANGED vars
      PROVE  UNCHANGED <<screen, travel, phase, actors>>
  BY <1>6 DEF HandleMove, HandleEnemyAi, HandleScore, vars, uiVars, worldVars
<1> DEFINE Still == UNCHANGED <<screen, travel, phase>> /\ (screen = "game" \/ UNCHANGED actors)
<1> HIDE DEF Still
<1>7. \/ ConnectToGameServer \/ OpenDevMap \/ DisconnectFromGameServer \/ LoadMap
      \/ Still
  <2>1. ASSUME NEW i \in Ids, NEW a \in Maybe,
               HandleEnterGame(i, a) \/ HandleSpawnPlayer(i, a) \/ HandleSpawnEnemy(i, a)
        PROVE  Still
    BY <1>4, <2>1 DEF Still
  <2>2. ASSUME NEW i \in Ids, HandleDespawnPlayer(i) \/ HandleDespawnEnemy(i)
        PROVE  Still
    BY <1>4, <2>2 DEF Still, Maybe
  <2>3. ASSUME NEW a \in Actors,
               MoveMap(a) \/ GetEnemyFromId(a) \/ SendMove(a) \/ Fire(a) \/ RequestScore(a)
        PROVE  Still
    BY <1>5, <2>3 DEF Still
  <2>4. ASSUME (\E i \in Ids : HandleMove(i) \/ HandleEnemyAi(i)) \/ HandleScore \/ UNCHANGED vars
        PROVE  Still
    BY <1>6, <2>4 DEF Still
  <2> QED
    BY <2>1, <2>2, <2>3, <2>4 DEF Next
<1> QED
  BY <1>2, <1>3, <1>7 DEF Still

\* Of all that a server may do wrong, only a packet that comes outside the game
\* makes the client ask for what the server's state does not allow: objects
\* spawned twice, wide ids and a lost avatar do not.
THEOREM OnlyLateTheorem == Spec => []OnlyLate
<1>1. Init => OrderInv
  BY SlotFacts DEF Init, OrderInv, Phase
<1>2. (TypeOK /\ MenuInv) /\ OrderInv /\ [Next]_vars => OrderInv'
  BY OrderNext
<1>3. WorldInv => TypeOK /\ MenuInv
  BY DEF WorldInv
<1>4. OrderInv => OnlyLate
  BY DEF OrderInv, OnlyLate, Phase
<1> QED
  BY <1>1, <1>2, <1>3, <1>4, WorldAlways, PTL DEF Spec

=============================================================================
