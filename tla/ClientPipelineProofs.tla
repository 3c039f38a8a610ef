------------------------- MODULE ClientPipelineProofs -------------------------
(***************************************************************************)
(* What the client and a server that behaves do for every set of ids, of   *)
(* enemies and of actors and any number of packets on the way.  The client *)
(* takes GameWorld's steps, so what GameWorldProofs shows holds here; the  *)
(* rest is about what is on the way and where the server thinks it is.     *)
(***************************************************************************)
EXTENDS ClientPipeline, TLAPS

Proven == INSTANCE GameWorldProofs

-----------------------------------------------------------------------------
(* The invariants. *)

InGame == {"C_LEAVE_GAME", "C_ENTER_ROOM", "C_MOVE", "C_SCORE"}
NotLate == "late" \notin breach
Announced(kind) == \E k \in DOMAIN down : down[k].kind = kind

Channels ==
  /\ up \in Seq(Requests) /\ Len(up) <= MaxUp
  /\ down \in Seq(Packets) /\ Len(down) <= MaxDown + 1
  /\ where \in {"none", "lobby", "game"}
  /\ room \subseteq Ids
  /\ left \in BOOLEAN /\ crossed \in BOOLEAN /\ refused \subseteq Ids

\* What GameWorldProofs shows and the rest is made from.
Known ==
  /\ World!TypeOK
  /\ travel = "game" => screen = "select"
  /\ travel = "login" => screen = "game"
  /\ screen # "login" => session
  /\ NotLate =>
       /\ \A i \in Ids : players[i] # None => actors[players[i]].id = i
                                              /\ actors[players[i]].kind # "none"
       /\ \A i \in Ids : enemys[i] # None => actors[enemys[i]].id = i
       /\ screen # "game" \/ travel # "none" =>
            \A i \in Ids : players[i] = None /\ enemys[i] = None
  /\ breach = {} => ~fault

\* An avatar, or a bullet of one, means that S_ENTER_GAME has been handled.
PlayInv ==
  /\ \A a \in Actors : actors[a].kind = "mine" => entered
  /\ bullet => entered

\* A request is taken where the server has a use for it: those before it will
\* have brought the server there.
Chain ==
  \A k \in DOMAIN up :
    /\ up[k] = "C_LOGIN" => k = 1 /\ where = "none"
    /\ up[k] = "C_ENTER_GAME" => (k = 1 /\ where = "lobby") \/ (k = 2 /\ up[1] = "C_LOGIN")
    /\ up[k] \in InGame => where = "game" \/ \E j \in 1..(k - 1) : up[j] = "C_ENTER_GAME"
    /\ \A j \in 1..(k - 1) : up[j] # "C_LEAVE_GAME"

\* Where the menus are and where the server is or will be.
MenuInv ==
  /\ screen = "select" =>
       /\ (up = <<"C_LOGIN">> /\ where = "none") \/ (up = <<>> /\ where = "lobby")
       /\ down = <<>>
  /\ screen = "game" /\ travel = "none" =>
       (where = "game" \/ Asked("C_ENTER_GAME")) /\ ~Asked("C_LEAVE_GAME")
  /\ entered => screen = "game"

TalkInv == NotLate => Chain /\ MenuInv

\* S_ENTER_GAME is on its way once in a game, before everything else, and finds
\* an empty world.
StartInv ==
  /\ Asked("C_ENTER_GAME") \/ Announced("S_ENTER_GAME") =>
       ~entered /\ \A i \in Ids : players[i] = None
  /\ Asked("C_ENTER_GAME") => down = <<>> /\ \A i \in Ids : enemys[i] = None
  /\ \A k \in DOMAIN down :
       down[k].kind = "S_ENTER_GAME" => k = 1 /\ ~Asked("C_ENTER_GAME")

\* The server speaks of the avatar as the avatar.
OwnInv ==
  /\ \A k \in DOMAIN down : /\ down[k].kind = "S_ENTER_GAME" => down[k].id = Own
                            /\ down[k].kind = "S_DESPAWN" => down[k].id # Own
  /\ myPlayer # None /\ actors[myPlayer].kind # "none" => actors[myPlayer].id = Own

EnterInv == NotLate => StartInv /\ breach \subseteq {"enemyAgain"}

\* Until the player has left a game nothing can be late.
FirstGameInv ==
  ~left =>
    /\ NotLate
    /\ travel # "login"
    /\ screen = "login" => up = <<>> /\ down = <<>> /\ where = "none"
    /\ Asked("C_SCORE") \/ Announced("S_SCORE") => entered

\* The spawns of an enemy are told apart by despawns, and answer for what is on
\* the screen; a room that is left has none on the way.
Despawned(i, j, k) == \E l \in j..k : down[l] = Packet("S_DESPAWN", i)
RoomOf(i) ==
  /\ \A k \in DOMAIN down : down[k] = Packet("S_SPAWN", i) =>
       /\ enemys[i] = None \/ Despawned(i, 1, k)
       /\ \A j \in 1..(k - 1) : down[j] = Packet("S_SPAWN", i) => Despawned(i, j, k)
       /\ where = "game" /\ i \notin room => Despawned(i, k, Len(down))
  /\ enemys[i] # None /\ where = "game" /\ i \notin room => Despawned(i, 1, Len(down))
  /\ Asked("C_ENTER_ROOM") => enemys[i] = None
RoomInv ==
  breach = {} /\ ~crossed =>
    /\ \A i \in EnemyIds \cap Ids : RoomOf(i)
    /\ Asked("C_ENTER_ROOM") => ~Announced("S_SPAWN")

PipeInv ==
  /\ Channels /\ Known /\ PlayInv /\ TalkInv /\ EnterInv /\ OwnInv
  /\ FirstGameInv /\ RoomInv

-----------------------------------------------------------------------------
(* Channels. *)

LEMMA AfterAppend ==
  ASSUME NEW S, NEW s \in Seq(S), NEW e \in S
  PROVE  /\ Append(s, e) \in Seq(S)
         /\ Len(s) \in Nat /\ Len(Append(s, e)) = Len(s) + 1
         /\ DOMAIN s = 1..Len(s) /\ DOMAIN Append(s, e) = 1..(Len(s) + 1)
         /\ \A k \in 1..Len(s) : Append(s, e)[k] = s[k]
         /\ Append(s, e)[Len(s) + 1] = e
  OBVIOUS

LEMMA AfterTail ==
  ASSUME NEW S, NEW s \in Seq(S), s # <<>>
  PROVE  /\ Tail(s) \in Seq(S) /\ Head(s) \in S /\ Head(s) = s[1]
         /\ Len(s) \in Nat /\ Len(s) >= 1 /\ Len(Tail(s)) = Len(s) - 1
         /\ DOMAIN s = 1..Len(s) /\ DOMAIN Tail(s) = 1..(Len(s) - 1)
         /\ \A k \in 1..(Len(s) - 1) : Tail(s)[k] = s[k + 1]
  OBVIOUS

LEMMA EmptyFacts ==
  /\ <<>> \in Seq(Requests) /\ <<>> \in Seq(Packets)
  /\ Len(<<>>) = 0 /\ DOMAIN <<>> = {}
  OBVIOUS

LEMMA AsksType ==
  ASSUME Channels, NEW r \in Requests, Asks(r)
  PROVE  up' \in Seq(Requests) /\ Len(up') <= MaxUp
  BY BoundAssumption, AfterAppend DEF Channels, Asks

LEMMA AnswerType ==
  ASSUME Channels, Take
  PROVE  Channels'
<1>1. up' \in Seq(Requests) /\ Len(up') <= MaxUp
  BY BoundAssumption, AfterTail DEF Take, Channels
<1>2. \A kind \in {"S_ENTER_GAME", "S_SCORE"} : Packet(kind, Own) \in Packets
  BY OwnAssumption DEF Packet, Packets
<1>3. \/ down' = down
      \/ down' = Append(down, Packet("S_ENTER_GAME", Own))
      \/ down' = Append(down, Packet("S_SCORE", Own))
  BY DEF Take, Answer, serverVars
<1>4. down' \in Seq(Packets) /\ Len(down') <= MaxDown + 1
  <2>1. down \in Seq(Packets) /\ Len(down) <= MaxDown
    BY DEF Take, Channels
  <2>2. ASSUME NEW p \in Packets, down' = Append(down, p)
        PROVE  down' \in Seq(Packets) /\ Len(down') <= MaxDown + 1
    BY <2>1, <2>2, BoundAssumption, AfterAppend
  <2> QED
    BY <1>2, <1>3, <2>1, <2>2, BoundAssumption DEF Channels
<1>5. where' \in {"none", "lobby", "game"} /\ room' \subseteq Ids
  BY OwnAssumption DEF Take, Answer, serverVars, Channels
<1> QED
  BY <1>1, <1>4, <1>5 DEF Take, Channels

LEMMA SendsType ==
  ASSUME Channels, NEW i \in Ids, Appears(i) \/ Vanishes(i) \/ Acts(i)
  PROVE  Channels'
<1>1. \A kind \in {"S_SPAWN", "S_DESPAWN", "S_AI", "S_MOVE"} : Packet(kind, i) \in Packets
  BY DEF Packet, Packets
<1>2. PICK kind \in {"S_SPAWN", "S_DESPAWN", "S_AI", "S_MOVE"} : Sends(kind, i)
  BY DEF Appears, Vanishes, Acts
<1>3. down' \in Seq(Packets) /\ Len(down') <= MaxDown + 1
  BY <1>1, <1>2, BoundAssumption, AfterAppend DEF Sends, Channels
<1>4. room' \subseteq Ids /\ crossed' \in BOOLEAN
  BY DEF Appears, Vanishes, Acts, Asked, Channels
<1> QED
  BY <1>2, <1>3, <1>4 DEF Sends, Channels

LEMMA HeadType ==
  ASSUME Channels, down # <<>>
  PROVE  Head(down) \in Packets /\ Head(down).id \in Ids
<1>1. Head(down) \in Packets
  BY AfterTail DEF Channels
<1> QED
  BY <1>1 DEF Packets

LEMMA ClientType ==
  ASSUME Channels,
         \/ Connect \/ OpenDevMap \/ Disconnect \/ LoadMap \/ HandlePacket
         \/ \E a \in Actors : MoveMap(a) \/ SendMove(a) \/ RequestScore(a) \/ Local(a)
  PROVE  Channels'
<1>1. {"C_LOGIN", "C_ENTER_GAME", "C_LEAVE_GAME", "C_ENTER_ROOM", "C_MOVE", "C_SCORE"} = Requests
  BY DEF Requests
<1>2. CASE Connect
  <2>1. <<"C_LOGIN">> \in Seq(Requests) /\ Len(<<"C_LOGIN">>) = 1
    BY <1>1
  <2>2. up' \in Seq(Requests) /\ Len(up') <= MaxUp
    BY <1>2, <2>1, BoundAssumption DEF Connect
  <2>3. down' \in Seq(Packets) /\ Len(down') <= MaxDown + 1
    BY <1>2, BoundAssumption, EmptyFacts DEF Connect
  <2> QED
    BY <1>2, <2>2, <2>3 DEF Connect, Channels
<1>3. CASE OpenDevMap
  BY <1>3 DEF OpenDevMap, Channels, serverVars
<1>4. CASE Disconnect
  BY <1>1, <1>4, AsksType DEF Disconnect, Channels, serverVars
<1>5. CASE LoadMap
  BY <1>1, <1>5, AsksType DEF LoadMap, Channels, serverVars
<1>6. CASE HandlePacket
  <2>1. refused' \subseteq Ids
    BY <1>6, HeadType DEF HandlePacket, Refused, Channels
  <2> QED
    BY <1>6, <2>1, AfterTail, BoundAssumption DEF HandlePacket, Channels, serverVars
<1>7. ASSUME NEW a \in Actors, MoveMap(a) PROVE Channels'
  BY <1>1, <1>7, AsksType DEF MoveMap, Channels, serverVars, OnTheWay
<1>8. ASSUME NEW a \in Actors, SendMove(a) \/ RequestScore(a) \/ Local(a) PROVE Channels'
  BY <1>1, <1>8, AsksType DEF SendMove, RequestScore, Local, Channels, serverVars
<1> QED
  BY <1>2, <1>3, <1>4, <1>5, <1>6, <1>7, <1>8

LEMMA ChannelsInit == Init => Channels
<1> SUFFICES ASSUME Init PROVE Channels
  OBVIOUS
<1>1. up \in Seq(Requests) /\ Len(up) <= MaxUp
  BY BoundAssumption, EmptyFacts DEF Init
<1>2. down \in Seq(Packets) /\ Len(down) <= MaxDown + 1
  BY BoundAssumption, EmptyFacts DEF Init
<1> QED
  BY <1>1, <1>2 DEF Init, Channels

LEMMA ChannelsNext == Channels /\ [Next]_vars => Channels'
<1> SUFFICES ASSUME Channels, [Next]_vars PROVE Channels'
  OBVIOUS
<1>1. CASE UNCHANGED vars
  BY <1>1 DEF Channels, vars, serverVars
<1> QED
  BY <1>1, ClientType, AnswerType, SendsType DEF Next

-----------------------------------------------------------------------------
(* The client's steps are GameWorld's. *)

LEMMA AddressFacts ==
  ASSUME NEW a \in {Address, None}
  PROVE  a = None \/ (a \in Actors /\ World!Fresh(a))
  BY DEF Address

LEMMA DispatchIsWorld ==
  ASSUME Channels, HandlePacket
  PROVE  World!Next
<1> DEFINE p == Head(down)
<1>1. PICK a \in {Address, None} : Dispatch(p, a)
  BY DEF HandlePacket, Yield
<1>2. p.id \in Ids /\ a \in World!Maybe
  BY AddressFacts, HeadType DEF HandlePacket, World!Maybe
<1> QED
  BY <1>1, <1>2 DEF Dispatch, World!Next

LEMMA StepIsWorld == Channels /\ [Next]_vars => [World!Next]_World!vars
<1> SUFFICES ASSUME Channels, [Next]_vars PROVE [World!Next]_World!vars
  OBVIOUS
<1>1. CASE Connect \/ OpenDevMap \/ Disconnect \/ LoadMap
  BY <1>1 DEF Connect, OpenDevMap, Disconnect, LoadMap, World!Next
<1>2. ASSUME NEW a \in Actors, MoveMap(a) \/ SendMove(a) \/ RequestScore(a) \/ Local(a)
      PROVE  World!Next
  BY <1>2 DEF MoveMap, SendMove, RequestScore, Local, World!Next
<1>3. CASE HandlePacket
  BY <1>3, DispatchIsWorld
<1>4. CASE Take
  BY <1>4 DEF Take, worldVars, World!vars
<1>5. ASSUME NEW i \in Ids, Appears(i) \/ Vanishes(i) \/ Acts(i)
      PROVE  UNCHANGED World!vars
  BY <1>5 DEF Appears, Vanishes, Acts, Sends, worldVars, World!vars
<1>6. CASE UNCHANGED vars
  BY <1>6 DEF vars, worldVars, World!vars
<1> QED
  BY <1>1, <1>2, <1>3, <1>4, <1>5, <1>6 DEF Next

\* The client, behind its connection and with any server at the other end, does
\* what GameWorld says: its steps are GameWorld's and all others stutter.
THEOREM ClientIsWorld == Spec => World!Spec
<1>1. Init => World!Init
  BY DEF Init
<1> QED
  BY <1>1, ChannelsInit, ChannelsNext, StepIsWorld, PTL DEF Spec, World!Spec

-----------------------------------------------------------------------------
(* What GameWorldProofs shows.  It speaks of GameWorld's definitions under a *)
(* second name; they are the same, symbol by symbol.                         *)

LEMMA SameInit == World!Init => Proven!Init
  BY Zenon DEF World!Init, Proven!Init, World!NoActor, Proven!NoActor

LEMMA SameNext == World!Next <=> Proven!Next
  BY Zenon DEF World!uiVars, Proven!uiVars, World!worldVars, Proven!worldVars, World!Maybe,
     Proven!Maybe, World!NoActor, Proven!NoActor, World!Alive, Proven!Alive,
     World!AsInt, Proven!AsInt, World!Key, Proven!Key, World!Allowed,
     Proven!Allowed, World!After, Proven!After, World!Send, Proven!Send,
     World!Running, Proven!Running, World!ConnectToGameServer,
     Proven!ConnectToGameServer, World!OpenDevMap, Proven!OpenDevMap,
     World!DisconnectFromGameServer, Proven!DisconnectFromGameServer,
     World!LoadMap, Proven!LoadMap, World!Receiving, Proven!Receiving,
     World!Breaches, Proven!Breaches, World!Fresh, Proven!Fresh,
     World!SpawnPlayer, Proven!SpawnPlayer, World!HandleEnterGame,
     Proven!HandleEnterGame, World!HandleSpawnPlayer, Proven!HandleSpawnPlayer,
     World!SpawnEnemy, Proven!SpawnEnemy, World!HandleSpawnEnemy,
     Proven!HandleSpawnEnemy, World!DespawnPlayer, Proven!DespawnPlayer,
     World!DespawnEnemy, Proven!DespawnEnemy, World!HandleDespawnPlayer,
     Proven!HandleDespawnPlayer, World!HandleDespawnEnemy,
     Proven!HandleDespawnEnemy, World!Use, Proven!Use, World!HandleMove,
     Proven!HandleMove, World!HandleEnemyAi, Proven!HandleEnemyAi,
     World!HandleScore, Proven!HandleScore, World!Registered, Proven!Registered,
     World!Others, Proven!Others, World!Keys, Proven!Keys, World!Without,
     Proven!Without, World!MoveMap, Proven!MoveMap, World!GetEnemyFromId,
     Proven!GetEnemyFromId, World!SendMove, Proven!SendMove, World!Fire,
     Proven!Fire, World!RequestScore, Proven!RequestScore, World!Next, Proven!Next

LEMMA SameSteps == [World!Next]_World!vars => [Proven!Next]_Proven!vars
  BY SameNext DEF World!vars, Proven!vars

LEMMA KnownFromProven == Proven!WorldInv => Known
<1> SUFFICES ASSUME Proven!WorldInv PROVE Known
  OBVIOUS
<1>1. World!TypeOK
  BY Zenon DEF Proven!WorldInv, World!TypeOK, Proven!TypeOK, World!Slots, Proven!Slots, World!NoActor, Proven!NoActor, World!Maybe,
     Proven!Maybe, World!Kinds, Proven!Kinds
<1>2. /\ travel = "game" => screen = "select"
      /\ travel = "login" => screen = "game"
      /\ screen # "login" => session
  BY DEF Proven!WorldInv, Proven!MenuInv
<1>3. ASSUME NotLate
      PROVE  /\ \A i \in Ids : players[i] # None => actors[players[i]].id = i
                                                    /\ actors[players[i]].kind # "none"
             /\ \A i \in Ids : enemys[i] # None => actors[enemys[i]].id = i
             /\ screen # "game" \/ travel # "none" =>
                  \A i \in Ids : players[i] = None /\ enemys[i] = None
  BY <1>3 DEF Proven!WorldInv, Proven!RegInv, Proven!Sound, NotLate
<1>4. breach = {} => ~fault
  BY DEF Proven!WorldInv, Proven!GameInv
<1> QED
  BY <1>1, <1>2, <1>3, <1>4 DEF Known

LEMMA KnownAlways == Spec => []Known
<1>1. World!Spec => Proven!Spec
  BY SameInit, SameSteps, PTL DEF World!Spec, Proven!Spec
<1>2. Proven!Spec => []Proven!WorldInv
  BY WorldAssumption, Proven!WorldAlways
<1> QED
  BY <1>1, <1>2, ClientIsWorld, KnownFromProven, PTL

\* Every variable keeps its type, whatever is on the way.
THEOREM TypeCorrect == Spec => []TypeOK
<1>1. Channels /\ Known => TypeOK
  BY DEF Channels, Known, TypeOK
<1> QED
  BY <1>1, ChannelsInit, ChannelsNext, KnownAlways, PTL DEF Spec

-----------------------------------------------------------------------------
(* What the steps do to what is on the way. *)

LEMMA AskedAfterAsks ==
  ASSUME Channels, NEW r \in Requests, Asks(r)
  PROVE  /\ \A q : Asked(q)' => Asked(q) \/ q = r
         /\ \A q : Asked(q) => Asked(q)'
         /\ session => Asked(r)' /\ up' = Append(up, r)
<1>1. CASE session
  <2>1. up' = Append(up, r) /\ up \in Seq(Requests)
    BY <1>1 DEF Asks, Channels
  <2> QED
    BY <1>1, <2>1, AfterAppend DEF Asked
<1>2. CASE ~session
  BY <1>2 DEF Asks, Asked
<1> QED
  BY <1>1, <1>2

LEMMA AskedAfterTake ==
  ASSUME Channels, Take
  PROVE  /\ up # <<>> /\ up' = Tail(up) /\ Head(up) = up[1] /\ Asked(Head(up))
         /\ \A q : Asked(q)' => Asked(q)
         /\ \A q : Asked(q) /\ q # Head(up) => Asked(q)'
<1>1. up \in Seq(Requests) /\ up # <<>> /\ up' = Tail(up)
  BY DEF Take, Channels
<1>2. ASSUME NEW q, Asked(q), q # Head(up) PROVE Asked(q)'
  <2>1. PICK k \in 1..Len(up) : up[k] = q
    BY <1>1, <1>2, AfterTail DEF Asked
  <2>2. k - 1 \in 1..(Len(up) - 1) /\ Tail(up)[k - 1] = q
    BY <1>1, <1>2, <2>1, AfterTail
  <2> QED
    BY <1>1, <2>2, AfterTail DEF Asked
<1>3. ASSUME NEW q, Asked(q)' PROVE Asked(q)
  <2>1. PICK k \in 1..(Len(up) - 1) : Tail(up)[k] = q
    BY <1>1, <1>3, AfterTail DEF Asked
  <2>2. k + 1 \in 1..Len(up) /\ up[k + 1] = q
    BY <1>1, <2>1, AfterTail
  <2> QED
    BY <1>1, <2>2, AfterTail DEF Asked
<1>4. Asked(Head(up))
  BY <1>1, AfterTail DEF Asked
<1> QED
  BY <1>1, <1>2, <1>3, <1>4, AfterTail

LEMMA AnnouncedAfterAppend ==
  ASSUME Channels, NEW p \in Packets, down' = Append(down, p)
  PROVE  \A kind : Announced(kind)' <=> Announced(kind) \/ kind = p.kind
<1>1. down \in Seq(Packets)
  BY DEF Channels
<1> QED
  BY <1>1, AfterAppend DEF Announced

LEMMA AnnouncedAfterTail ==
  ASSUME Channels, down # <<>>, down' = Tail(down)
  PROVE  /\ \A kind : Announced(kind)' => Announced(kind)
         /\ Announced(Head(down).kind)
<1>1. down \in Seq(Packets)
  BY DEF Channels
<1>2. ASSUME NEW kind, Announced(kind)' PROVE Announced(kind)
  <2>1. PICK k \in 1..(Len(down) - 1) : Tail(down)[k].kind = kind
    BY <1>1, <1>2, AfterTail DEF Announced
  <2>2. k + 1 \in 1..Len(down) /\ down[k + 1].kind = kind
    BY <1>1, <2>1, AfterTail
  <2> QED
    BY <1>1, <2>2, AfterTail DEF Announced
<1> QED
  BY <1>1, <1>2, AfterTail DEF Announced

LEMMA HandleEffects ==
  ASSUME Channels, HandlePacket
  PROVE  /\ down # <<>> /\ down' = Tail(down) /\ travel = "none"
         /\ UNCHANGED <<screen, travel, session, bullet, up, where, room, left, crossed>>
         /\ breach \subseteq breach' /\ (entered => entered')
         /\ entered' # entered => Head(down).kind = "S_ENTER_GAME"
         /\ "late" \in breach' =>
              \/ "late" \in breach
              \/ screen # "game"
              \/ Head(down).kind = "S_SCORE" /\ ~entered
         /\ screen # "game" => "late" \in breach'
<1>0. PICK a \in {Address, None} : Dispatch(Head(down), a)
  BY DEF HandlePacket, Yield
<1>1. down # <<>> /\ down' = Tail(down) /\ UNCHANGED <<up, where, room, left, crossed>>
  BY DEF HandlePacket, serverVars
<1> DEFINE p == Head(down)
           Rest == /\ travel = "none"
                   /\ UNCHANGED <<screen, travel, session, bullet>>
                   /\ breach \subseteq breach' /\ (entered => entered')
                   /\ entered' # entered => p.kind = "S_ENTER_GAME"
                   /\ "late" \in breach' =>
                        \/ "late" \in breach
                        \/ screen # "game"
                        \/ p.kind = "S_SCORE" /\ ~entered
                   /\ screen # "game" => "late" \in breach'
<1>2. ASSUME p.kind = "S_ENTER_GAME" /\ World!HandleEnterGame(p.id, a)
      PROVE  Rest
  BY <1>2 DEF World!HandleEnterGame, World!Receiving, World!Running, World!Breaches,
     World!uiVars
<1>3. ASSUME World!HandleSpawnPlayer(p.id, a) \/ World!HandleSpawnEnemy(p.id, a)
      PROVE  Rest
  BY <1>3 DEF World!HandleSpawnPlayer, World!HandleSpawnEnemy, World!Receiving,
     World!Running, World!Breaches, World!uiVars
<1>4. ASSUME World!HandleDespawnPlayer(p.id) \/ World!HandleDespawnEnemy(p.id)
      PROVE  Rest
  BY <1>4 DEF World!HandleDespawnPlayer, World!HandleDespawnEnemy, World!Receiving,
     World!Running, World!Breaches, World!uiVars
<1>5. ASSUME World!HandleMove(p.id) \/ World!HandleEnemyAi(p.id)
      PROVE  Rest
  BY <1>5 DEF World!HandleMove, World!HandleEnemyAi, World!Receiving, World!Running,
     World!Breaches, World!uiVars
<1>6. ASSUME p.kind = "S_SCORE" /\ World!HandleScore
      PROVE  Rest
  BY <1>6 DEF World!HandleScore, World!Receiving, World!Running, World!uiVars
<1>7. Rest
  BY <1>0, <1>2, <1>3, <1>4, <1>5, <1>6 DEF Dispatch
<1> QED
  BY <1>1, <1>7

LEMMA TakeEffects ==
  ASSUME Channels, Take
  PROVE  /\ UNCHANGED <<worldVars, left, crossed, refused>>
         /\ \/ down' = down
            \/ /\ Head(up) = "C_ENTER_GAME" /\ where = "lobby"
               /\ down' = Append(down, Packet("S_ENTER_GAME", Own))
            \/ /\ Head(up) = "C_SCORE"
               /\ down' = Append(down, Packet("S_SCORE", Own))
         /\ Packet("S_ENTER_GAME", Own) \in Packets /\ Packet("S_SCORE", Own) \in Packets
  BY OwnAssumption DEF Take, Answer, serverVars, Packet, Packets

LEMMA SendsEffects ==
  ASSUME Channels, NEW i \in Ids, Appears(i) \/ Vanishes(i) \/ Acts(i)
  PROVE  /\ UNCHANGED <<worldVars, up, where, left>> /\ where = "game"
         /\ \E kind \in {"S_SPAWN", "S_DESPAWN", "S_AI", "S_MOVE"} :
              /\ down' = Append(down, Packet(kind, i)) /\ Packet(kind, i) \in Packets
              /\ kind = "S_DESPAWN" => i # Own
<1>1. \A kind \in {"S_SPAWN", "S_DESPAWN", "S_AI", "S_MOVE"} : Packet(kind, i) \in Packets
  BY DEF Packet, Packets
<1> QED
  BY <1>1 DEF Appears, Vanishes, Acts, Sends

LEMMA ActorEffects ==
  ASSUME Channels, NEW a \in Actors, MoveMap(a) \/ SendMove(a) \/ RequestScore(a) \/ Local(a)
  PROVE  /\ UNCHANGED <<screen, travel, session, entered, breach, down, where, room, left>>
         /\ travel = "none"
         /\ \/ up' = up
            \/ /\ actors[a].kind = "mine" \/ bullet
               /\ \/ Asks("C_ENTER_ROOM") \/ Asks("C_MOVE")
                  \/ Asks("C_SCORE") /\ bullet
  BY DEF MoveMap, SendMove, RequestScore, Local, serverVars, World!MoveMap, World!SendMove,
     World!RequestScore, World!Fire, World!GetEnemyFromId, World!Running, World!uiVars,
     World!worldVars

-----------------------------------------------------------------------------
(* Who plays. *)

LEMMA ActorsKept ==
  ASSUME World!TypeOK, NEW a \in Actors, World!MoveMap(a)
  PROVE  /\ \A b \in Actors : actors'[b] = actors[b] \/ actors'[b].kind = "none"
         /\ \A i \in Ids : players[i] = None => players'[i] = None
         /\ \A i \in Ids : enemys[i] = None => enemys'[i] = None
  BY DEF World!MoveMap, World!NoActor, World!Without, World!TypeOK

LEMMA PlayNext == World!TypeOK /\ PlayInv /\ [World!Next]_World!vars => PlayInv'
<1> SUFFICES ASSUME World!TypeOK, PlayInv, [World!Next]_World!vars PROVE PlayInv'
  OBVIOUS
<1>1. CASE World!ConnectToGameServer \/ World!OpenDevMap \/ World!DisconnectFromGameServer
  BY <1>1 DEF World!ConnectToGameServer, World!OpenDevMap, World!DisconnectFromGameServer,
     World!worldVars, PlayInv
<1>2. CASE World!LoadMap
  BY <1>2 DEF World!LoadMap, World!NoActor, PlayInv
<1>3. ASSUME NEW i \in Ids, NEW a \in World!Maybe, World!HandleEnterGame(i, a) PROVE PlayInv'
  BY <1>3 DEF World!HandleEnterGame, World!SpawnPlayer, World!worldVars, PlayInv,
     World!TypeOK, World!Maybe
<1>4. ASSUME NEW i \in Ids, NEW a \in World!Maybe,
             World!HandleSpawnPlayer(i, a) \/ World!HandleSpawnEnemy(i, a)
      PROVE  PlayInv'
  BY <1>4 DEF World!HandleSpawnPlayer, World!HandleSpawnEnemy, World!SpawnPlayer,
     World!SpawnEnemy, World!worldVars, PlayInv, World!TypeOK, World!Maybe
<1>5. ASSUME NEW i \in Ids, World!HandleDespawnPlayer(i) \/ World!HandleDespawnEnemy(i)
      PROVE  PlayInv'
  BY <1>5 DEF World!HandleDespawnPlayer, World!HandleDespawnEnemy, World!DespawnPlayer,
     World!DespawnEnemy, World!NoActor, PlayInv
<1>6. ASSUME NEW i \in Ids, World!HandleMove(i) \/ World!HandleEnemyAi(i) PROVE PlayInv'
  BY <1>6 DEF World!HandleMove, World!HandleEnemyAi, World!worldVars, PlayInv
<1>7. CASE World!HandleScore
  BY <1>7 DEF World!HandleScore, World!worldVars, PlayInv
<1>8. ASSUME NEW a \in Actors, World!MoveMap(a) PROVE PlayInv'
  BY <1>8, ActorsKept DEF World!MoveMap, PlayInv
<1>9. ASSUME NEW a \in Actors,
             World!GetEnemyFromId(a) \/ World!SendMove(a) \/ World!Fire(a) \/ World!RequestScore(a)
      PROVE  PlayInv'
  BY <1>9 DEF World!GetEnemyFromId, World!SendMove, World!Fire, World!RequestScore,
     World!worldVars, PlayInv
<1>10. CASE UNCHANGED World!vars
  BY <1>10 DEF World!vars, PlayInv
<1> QED
  BY <1>1, <1>2, <1>3, <1>4, <1>5, <1>6, <1>7, <1>8, <1>9, <1>10 DEF World!Next

-----------------------------------------------------------------------------
(* The requests and the server. *)

LEMMA NotLateBefore == Channels /\ [Next]_vars => breach \subseteq breach'
  BY StepIsWorld, SameSteps, Proven!BreachGrows, WorldAssumption

\* The server has a use for the next request.
LEMMA HeadWelcome ==
  ASSUME Channels, Chain, up # <<>>, Head(up) # "C_LOGIN"
  PROVE  where \in World!Allowed[Head(up)]
<1>1. Head(up) = up[1] /\ 1 \in DOMAIN up /\ Head(up) \in Requests
  BY AfterTail DEF Channels
<1>2. CASE Head(up) = "C_ENTER_GAME"
  BY <1>1, <1>2 DEF Chain, World!Allowed
<1>3. CASE Head(up) \in InGame
  <2>1. ~ \E j \in 1..(1 - 1) : up[j] = "C_ENTER_GAME"
    OBVIOUS
  <2> QED
    BY <1>1, <1>3, <2>1 DEF Chain, InGame, World!Allowed
<1> QED
  BY <1>1, <1>2, <1>3 DEF Requests, InGame

LEMMA ChainAppend ==
  ASSUME Channels, Chain, NEW r \in InGame, up' = Append(up, r), where' = where,
         ~Asked("C_LEAVE_GAME"), where = "game" \/ Asked("C_ENTER_GAME")
  PROVE  Chain'
<1>1. r \in Requests /\ r \notin {"C_LOGIN", "C_ENTER_GAME"}
  BY DEF InGame, Requests
<1>2. up \in Seq(Requests)
  BY DEF Channels
<1> DEFINE n == Len(up)
<1>3. /\ n \in Nat /\ DOMAIN up = 1..n /\ DOMAIN up' = 1..(n + 1)
      /\ \A k \in 1..n : up'[k] = up[k]
      /\ up'[n + 1] = r
  BY <1>1, <1>2, AfterAppend
<1> HIDE DEF n
<1> SUFFICES ASSUME NEW k \in 1..(n + 1)
             PROVE  /\ up'[k] = "C_LOGIN" => k = 1 /\ where' = "none"
                    /\ up'[k] = "C_ENTER_GAME" =>
                         (k = 1 /\ where' = "lobby") \/ (k = 2 /\ up'[1] = "C_LOGIN")
                    /\ up'[k] \in InGame =>
                         where' = "game" \/ \E j \in 1..(k - 1) : up'[j] = "C_ENTER_GAME"
                    /\ \A j \in 1..(k - 1) : up'[j] # "C_LEAVE_GAME"
  BY <1>3 DEF Chain
<1>4. CASE k = n + 1
  <2>1. \A j \in 1..n : up'[j] # "C_LEAVE_GAME"
    BY <1>3 DEF Asked
  <2>2. where' = "game" \/ \E j \in 1..n : up'[j] = "C_ENTER_GAME"
    BY <1>3 DEF Asked
  <2> QED
    BY <1>1, <1>3, <1>4, <2>1, <2>2
<1>5. CASE k \in 1..n
  <2>1. \A j \in 1..(k - 1) : j \in 1..n /\ up'[j] = up[j]
    BY <1>3, <1>5
  <2>2. k = 2 => up'[1] = up[1]
    BY <1>3, <1>5
  <2> QED
    BY <1>3, <1>5, <2>1, <2>2 DEF Chain
<1> QED
  BY <1>3, <1>4, <1>5

LEMMA ChainTake ==
  ASSUME Channels, Chain, Take
  PROVE  /\ Chain'
         /\ Head(up) = "C_LOGIN" => where = "none" /\ where' = "lobby"
         /\ Head(up) = "C_ENTER_GAME" =>
              where = "lobby" /\ where' = "game" /\ ~Asked("C_ENTER_GAME")'
         /\ Head(up) = "C_LEAVE_GAME" => where = "game" /\ where' = "none" /\ up' = <<>>
         /\ Head(up) \in InGame \ {"C_LEAVE_GAME"} => where = "game" /\ where' = "game"
<1> DEFINE n == Len(up) - 1
<1>1. up \in Seq(Requests) /\ up # <<>> /\ up' = Tail(up)
  BY DEF Take, Channels
<1>2. /\ n \in Nat /\ DOMAIN up = 1..(n + 1) /\ DOMAIN up' = 1..n
      /\ \A k \in 1..n : up'[k] = up[k + 1]
      /\ Head(up) = up[1] /\ up[1] \in Requests /\ Len(up) = n + 1
  BY <1>1, AfterTail
<1> HIDE DEF n
<1>3. Answer(up[1])
  BY <1>2 DEF Take
<1>4. up[1] # "C_LOGIN" => where \in World!Allowed[up[1]]
  BY <1>1, <1>2, HeadWelcome
<1>5. /\ up[1] = "C_LOGIN" => where = "none" /\ where' = "lobby"
      /\ up[1] = "C_ENTER_GAME" => where = "lobby" /\ where' = "game"
      /\ up[1] = "C_LEAVE_GAME" => where = "game" /\ where' = "none"
      /\ up[1] \in InGame \ {"C_LEAVE_GAME"} => where = "game" /\ where' = "game"
  <2>1. 1 \in DOMAIN up
    BY <1>2
  <2> QED
    BY <1>2, <1>3, <1>4, <2>1 DEF Answer, Chain, serverVars, World!Allowed, InGame
<1>6. \A k \in 2..(n + 1) :
        /\ up[k] # "C_LOGIN"
        /\ up[k] = "C_ENTER_GAME" => k = 2 /\ up[1] = "C_LOGIN"
        /\ up[k] \in InGame => where = "game" \/ \E j \in 1..(k - 1) : up[j] = "C_ENTER_GAME"
        /\ \A j \in 1..(k - 1) : up[j] # "C_LEAVE_GAME"
  <2> TAKE k \in 2..(n + 1)
  <2>1. k \in DOMAIN up /\ k # 1
    BY <1>2
  <2> QED
    BY <2>1 DEF Chain
<1>7. up[1] = "C_LEAVE_GAME" => up' = <<>>
  <2>1. ASSUME up[1] = "C_LEAVE_GAME", n # 0 PROVE FALSE
    <3>1. 2 \in 2..(n + 1) /\ 1 \in 1..(2 - 1)
      BY <1>2, <2>1
    <3> QED
      BY <1>6, <2>1, <3>1
  <2> QED
    BY <1>1, <1>2, <2>1
<1>8. ASSUME NEW k \in 1..n
      PROVE  /\ up'[k] # "C_LOGIN"
             /\ up'[k] = "C_ENTER_GAME" => k = 1 /\ where' = "lobby"
             /\ up'[k] \in InGame =>
                  where' = "game" \/ \E j \in 1..(k - 1) : up'[j] = "C_ENTER_GAME"
             /\ \A j \in 1..(k - 1) : up'[j] # "C_LEAVE_GAME"
  <2>1. k + 1 \in 2..(n + 1) /\ up'[k] = up[k + 1]
    BY <1>2
  <2>2. up[1] # "C_LEAVE_GAME"
    BY <1>2, <1>6, <2>1
  <2>3. ASSUME up[k + 1] \in InGame
        PROVE  where' = "game" \/ \E j \in 1..(k - 1) : up'[j] = "C_ENTER_GAME"
    <3>1. CASE where = "game"
      BY <1>2, <1>5, <2>2, <3>1 DEF Requests, InGame
    <3>2. CASE \E j \in 1..k : up[j] = "C_ENTER_GAME"
      <4>1. PICK j \in 1..k : up[j] = "C_ENTER_GAME"
        BY <3>2
      <4>2. CASE j = 1
        BY <1>5, <4>1, <4>2
      <4>3. CASE j # 1
        <5>1. j - 1 \in 1..(k - 1) /\ j - 1 \in 1..n /\ (j - 1) + 1 = j
          BY <1>2, <4>3
        <5> QED
          BY <1>2, <4>1, <5>1
      <4> QED
        BY <4>2, <4>3
    <3> QED
      BY <1>2, <1>6, <2>1, <2>3, <3>1, <3>2
  <2>4. ASSUME NEW j \in 1..(k - 1) PROVE up'[j] # "C_LEAVE_GAME"
    <3>1. j \in 1..n /\ j + 1 \in 1..((k + 1) - 1) /\ up'[j] = up[j + 1]
      BY <1>2
    <3> QED
      BY <1>6, <2>1, <3>1
  <2> QED
    BY <1>2, <1>5, <1>6, <2>1, <2>3, <2>4
<1>9. Chain'
  BY <1>2, <1>8 DEF Chain
<1>10. up[1] = "C_ENTER_GAME" => ~Asked("C_ENTER_GAME")'
  BY <1>2, <1>5, <1>8 DEF Asked
<1> QED
  BY <1>2, <1>5, <1>7, <1>9, <1>10

\* While the avatar lives the level is the game's and the server is there or will be.
LEMMA AvatarTalks ==
  ASSUME Channels, Known, PlayInv, Chain, MenuInv,
         NEW a \in Actors, MoveMap(a) \/ SendMove(a) \/ RequestScore(a) \/ Local(a),
         up' # up
  PROVE  /\ screen = "game" /\ session /\ entered
         /\ where = "game" \/ Asked("C_ENTER_GAME")
         /\ ~Asked("C_LEAVE_GAME")
<1>1. /\ travel = "none" /\ (actors[a].kind = "mine" \/ bullet)
  BY ActorEffects
<1>2. screen = "game" /\ entered
  BY <1>1 DEF PlayInv, MenuInv
<1> QED
  BY <1>1, <1>2 DEF Known, MenuInv

LEMMA TalkNext ==
  Channels /\ Known /\ PlayInv /\ TalkInv /\ [Next]_vars => TalkInv'
<1> SUFFICES ASSUME Channels, Known, PlayInv, TalkInv, [Next]_vars, NotLate'
             PROVE  Chain' /\ MenuInv'
  BY DEF TalkInv
<1>1. NotLate /\ Chain /\ MenuInv
  BY NotLateBefore DEF NotLate, TalkInv
<1>2. "C_LOGIN" \notin InGame /\ "C_ENTER_GAME" \notin InGame /\ InGame \subseteq Requests
  BY DEF InGame, Requests
<1>3. CASE Connect
  <2>1. /\ screen = "login" /\ screen' = "select" /\ UNCHANGED entered
        /\ up' = <<"C_LOGIN">> /\ down' = <<>> /\ where' = "none"
    BY <1>3 DEF Connect, World!ConnectToGameServer
  <2>2. Chain'
    BY <2>1, <1>2 DEF Chain
  <2> QED
    BY <1>1, <2>1, <2>2 DEF MenuInv
<1>4. CASE OpenDevMap
  BY <1>1, <1>4 DEF OpenDevMap, World!OpenDevMap, serverVars, Chain, MenuInv, Asked
<1>5. CASE Disconnect
  <2>1. /\ screen = "game" /\ travel = "none" /\ screen' = "game" /\ travel' = "login"
        /\ Asks("C_LEAVE_GAME") /\ UNCHANGED <<down, where, entered>> /\ session
    BY <1>5 DEF Disconnect, World!DisconnectFromGameServer, World!Running, serverVars, Known
  <2>2. up' = Append(up, "C_LEAVE_GAME")
    BY <2>1 DEF Asks
  <2>3. Chain'
    BY <1>1, <2>1, <2>2, ChainAppend DEF MenuInv, InGame
  <2> QED
    BY <2>1, <2>3 DEF MenuInv
<1>6. CASE LoadMap
  <2>1. CASE travel = "game"
    <3>1. /\ screen = "select" /\ screen' = "game" /\ travel' = "none" /\ ~entered'
          /\ Asks("C_ENTER_GAME") /\ UNCHANGED <<down, where>> /\ session
      BY <1>6, <2>1 DEF LoadMap, World!LoadMap, serverVars, Known
    <3>2. up' = Append(up, "C_ENTER_GAME")
      BY <3>1 DEF Asks
    <3>3. Chain' /\ Asked("C_ENTER_GAME")' /\ ~Asked("C_LEAVE_GAME")'
      <4> DEFINE r == "C_ENTER_GAME"
      <4>1. up' = Append(up, r) /\ r \in Requests /\ up \in Seq(Requests)
        BY <3>2 DEF Requests, Channels
      <4> HIDE DEF r
      <4>2. /\ DOMAIN up' = 1..(Len(up) + 1) /\ up'[Len(up) + 1] = r
            /\ \A k \in 1..Len(up) : up'[k] = up[k]
        BY <4>1, AfterAppend
      <4> USE DEF r
      <4>3. CASE up = <<"C_LOGIN">> /\ where = "none"
        <5>1. Len(up) = 1 /\ up[1] = "C_LOGIN"
          BY <4>3
        <5>2. DOMAIN up' = 1..2 /\ up'[1] = "C_LOGIN" /\ up'[2] = "C_ENTER_GAME"
          BY <4>2, <5>1
        <5> QED
          BY <1>2, <3>1, <4>3, <5>2 DEF Chain, Asked
      <4>4. CASE up = <<>> /\ where = "lobby"
        <5>1. DOMAIN up' = {1} /\ up'[1] = "C_ENTER_GAME"
          BY <3>2, <4>4
        <5> QED
          BY <1>2, <3>1, <4>4, <5>1 DEF Chain, Asked
      <4> QED
        BY <1>1, <3>1, <4>3, <4>4 DEF MenuInv
    <3> QED
      BY <3>1, <3>3 DEF MenuInv
  <2>2. CASE travel # "game"
    <3>1. /\ screen' = "login" /\ ~entered' /\ UNCHANGED <<up, where>>
      BY <1>6, <2>2 DEF LoadMap, World!LoadMap, serverVars, Known, World!TypeOK
    <3> QED
      BY <1>1, <3>1 DEF Chain, MenuInv
  <2> QED
    BY <2>1, <2>2
<1>7. ASSUME NEW a \in Actors, MoveMap(a) \/ SendMove(a) \/ RequestScore(a) \/ Local(a)
      PROVE  Chain' /\ MenuInv'
  <2>1. UNCHANGED <<screen, travel, session, entered, down, where>>
    BY <1>7, ActorEffects
  <2>2. CASE up' = up
    BY <1>1, <2>1, <2>2 DEF Chain, MenuInv, Asked
  <2>3. CASE up' # up
    <3>1. /\ screen = "game" /\ session
          /\ where = "game" \/ Asked("C_ENTER_GAME")
          /\ ~Asked("C_LEAVE_GAME")
      BY <1>1, <1>7, <2>3, AvatarTalks
    <3>2. PICK r \in InGame \ {"C_LEAVE_GAME"} : Asks(r)
      BY <1>7, <2>3, ActorEffects DEF InGame
    <3>3. up' = Append(up, r) /\ Chain'
      BY <1>1, <2>1, <3>1, <3>2, ChainAppend DEF Asks
    <3>4. /\ Asked("C_ENTER_GAME") => Asked("C_ENTER_GAME")'
          /\ ~Asked("C_LEAVE_GAME")'
      BY <1>2, <3>1, <3>2, AskedAfterAsks
    <3> QED
      BY <1>1, <2>1, <3>1, <3>3, <3>4 DEF MenuInv
  <2> QED
    BY <2>2, <2>3
<1>8. CASE HandlePacket
  <2>1. /\ UNCHANGED <<screen, travel, up, where>> /\ down # <<>>
        /\ screen # "game" => "late" \in breach'
    BY <1>8, HandleEffects
  <2>2. Chain'
    BY <1>1, <2>1 DEF Chain
  <2> QED
    BY <1>1, <2>1, <2>2 DEF MenuInv, NotLate, Asked
<1>9. CASE Take
  <2>1. UNCHANGED <<screen, travel, entered>>
    BY <1>9 DEF Take, worldVars
  <2>2. Chain' /\ up # <<>> /\ up' = Tail(up) /\ Head(up) \in Requests
    BY <1>1, <1>9, ChainTake, AskedAfterTake, AfterTail DEF Channels
  <2>3. ASSUME screen = "select"
        PROVE  up' = <<>> /\ where' = "lobby" /\ down' = <<>>
    <3>1. up = <<"C_LOGIN">> /\ down = <<>>
      BY <1>1, <2>2, <2>3 DEF MenuInv
    <3>2. Head(up) = "C_LOGIN" /\ up' = <<>>
      BY <2>2, <3>1
    <3> QED
      BY <1>1, <1>9, <3>1, <3>2, ChainTake, TakeEffects
  <2>4. ASSUME screen = "game", travel = "none"
        PROVE  (where' = "game" \/ Asked("C_ENTER_GAME")') /\ ~Asked("C_LEAVE_GAME")'
    <3>1. (where = "game" \/ Asked("C_ENTER_GAME")) /\ ~Asked("C_LEAVE_GAME")
      BY <1>1, <2>4 DEF MenuInv
    <3>2. ~Asked("C_LEAVE_GAME")' /\ Head(up) # "C_LEAVE_GAME"
      BY <1>9, <3>1, AskedAfterTake
    <3>3. Head(up) # "C_ENTER_GAME" /\ Asked("C_ENTER_GAME") => Asked("C_ENTER_GAME")'
      BY <1>9, AskedAfterTake
    <3> QED
      BY <1>1, <1>9, <2>2, <3>1, <3>2, <3>3, ChainTake DEF Requests, InGame
  <2> QED
    BY <1>1, <2>1, <2>2, <2>3, <2>4 DEF MenuInv
<1>10. ASSUME NEW i \in Ids, Appears(i) \/ Vanishes(i) \/ Acts(i) PROVE Chain' /\ MenuInv'
  <2>1. UNCHANGED <<screen, travel, entered, up, where>> /\ where = "game"
    BY <1>10, SendsEffects DEF worldVars
  <2> QED
    BY <1>1, <2>1 DEF Chain, MenuInv, Asked
<1>11. CASE UNCHANGED vars
  BY <1>1, <1>11 DEF vars, worldVars, serverVars, Chain, MenuInv, Asked
<1> QED
  BY <1>3, <1>4, <1>5, <1>6, <1>7, <1>8, <1>9, <1>10, <1>11 DEF Next

-----------------------------------------------------------------------------
(* Whom the packets are about. *)

\* What a handler does to the avatar.
LEMMA AvatarAfterHandle ==
  ASSUME Channels, World!TypeOK, OwnInv, HandlePacket
  PROVE  myPlayer' # None /\ actors'[myPlayer'].kind # "none" => actors'[myPlayer'].id = Own
<1> DEFINE p == Head(down)
<1>0. PICK a \in {Address, None} : Dispatch(p, a)
  BY DEF HandlePacket, Yield
<1>1. /\ p.id \in Ids
      /\ p.kind = "S_ENTER_GAME" => p.id = Own
  <2>1. 1 \in DOMAIN down /\ p = down[1]
    BY AfterTail DEF HandlePacket, Channels
  <2> QED
    BY <2>1, HeadType DEF HandlePacket, OwnInv
<1>2. /\ a = None \/ (a \in Actors /\ World!Fresh(a))
      /\ myPlayer \in Actors \cup {None} /\ actors \in [Actors -> World!Slots]
      /\ None \notin Actors
  BY AddressFacts, WorldAssumption DEF World!TypeOK, World!Maybe
<1>3. myPlayer # None /\ actors[myPlayer].kind # "none" => actors[myPlayer].id = Own
  BY DEF OwnInv
<1>4. ASSUME p.kind = "S_ENTER_GAME", World!HandleEnterGame(p.id, a)
      PROVE  myPlayer' # None /\ actors'[myPlayer'].kind # "none" => actors'[myPlayer'].id = Own
  BY <1>1, <1>2, <1>3, <1>4 DEF World!HandleEnterGame, World!SpawnPlayer, World!worldVars
<1>5. ASSUME World!HandleSpawnPlayer(p.id, a) \/ World!HandleSpawnEnemy(p.id, a)
      PROVE  myPlayer' # None /\ actors'[myPlayer'].kind # "none" => actors'[myPlayer'].id = Own
  BY <1>2, <1>3, <1>5 DEF World!HandleSpawnPlayer, World!HandleSpawnEnemy, World!SpawnPlayer,
     World!SpawnEnemy, World!Fresh, World!worldVars
<1>6. ASSUME World!HandleDespawnPlayer(p.id) \/ World!HandleDespawnEnemy(p.id)
      PROVE  myPlayer' # None /\ actors'[myPlayer'].kind # "none" => actors'[myPlayer'].id = Own
  BY <1>2, <1>3, <1>6 DEF World!HandleDespawnPlayer, World!HandleDespawnEnemy,
     World!DespawnPlayer, World!DespawnEnemy, World!NoActor
<1>7. ASSUME World!HandleMove(p.id) \/ World!HandleEnemyAi(p.id) \/ World!HandleScore
      PROVE  UNCHANGED <<actors, myPlayer>>
  BY <1>7 DEF World!HandleMove, World!HandleEnemyAi, World!HandleScore, World!worldVars
<1> QED
  BY <1>0, <1>3, <1>4, <1>5, <1>6, <1>7 DEF Dispatch

LEMMA OwnNext == Channels /\ World!TypeOK /\ OwnInv /\ [Next]_vars => OwnInv'
<1> SUFFICES ASSUME Channels, World!TypeOK, OwnInv, [Next]_vars PROVE OwnInv'
  OBVIOUS
<1> DEFINE Named(ps) == \A k \in DOMAIN ps :
             /\ ps[k].kind = "S_ENTER_GAME" => ps[k].id = Own
             /\ ps[k].kind = "S_DESPAWN" => ps[k].id # Own
           Mine == myPlayer # None /\ actors[myPlayer].kind # "none" => actors[myPlayer].id = Own
<1>1. Named(down) /\ Mine /\ down \in Seq(Packets)
  BY DEF OwnInv, Channels
<1>2. ASSUME NEW p \in Packets, down' = Append(down, p),
             /\ p.kind = "S_ENTER_GAME" => p.id = Own
             /\ p.kind = "S_DESPAWN" => p.id # Own
      PROVE  Named(down')
  BY <1>1, <1>2, AfterAppend
<1>3. Named(down')
  <2>1. CASE Connect
    BY <2>1 DEF Connect
  <2>2. CASE HandlePacket
    <3>1. down # <<>> /\ down' = Tail(down)
      BY <2>2 DEF HandlePacket
    <3>2. \A k \in DOMAIN down' : down'[k] = down[k + 1] /\ k + 1 \in DOMAIN down
      BY <1>1, <3>1, AfterTail
    <3> QED
      BY <1>1, <3>2
  <2>3. CASE Take
    <3>1. /\ Packet("S_ENTER_GAME", Own).kind = "S_ENTER_GAME"
          /\ Packet("S_ENTER_GAME", Own).id = Own
          /\ Packet("S_SCORE", Own).kind = "S_SCORE"
      BY DEF Packet
    <3> QED
      BY <1>1, <1>2, <2>3, <3>1, TakeEffects
  <2>4. ASSUME NEW i \in Ids, Appears(i) \/ Vanishes(i) \/ Acts(i) PROVE Named(down')
    <3>1. PICK kind \in {"S_SPAWN", "S_DESPAWN", "S_AI", "S_MOVE"} :
            /\ down' = Append(down, Packet(kind, i)) /\ Packet(kind, i) \in Packets
            /\ kind = "S_DESPAWN" => i # Own
      BY <2>4, SendsEffects
    <3>2. Packet(kind, i).kind = kind /\ Packet(kind, i).id = i
      BY DEF Packet
    <3> QED
      BY <1>2, <3>1, <3>2
  <2>5. ASSUME \/ OpenDevMap \/ Disconnect \/ LoadMap
               \/ \E a \in Actors : MoveMap(a) \/ SendMove(a) \/ RequestScore(a) \/ Local(a)
               \/ UNCHANGED vars
        PROVE  UNCHANGED down
    BY <2>5 DEF OpenDevMap, Disconnect, LoadMap, MoveMap, SendMove, RequestScore, Local, vars
  <2> QED
    BY <1>1, <2>1, <2>2, <2>3, <2>4, <2>5 DEF Next
<1>4. Mine'
  <2>1. CASE HandlePacket
    BY <2>1, AvatarAfterHandle
  <2>2. CASE LoadMap
    <3>1. actors' = [a \in Actors |-> World!NoActor] /\ UNCHANGED myPlayer
      BY <2>2 DEF LoadMap, World!LoadMap
    <3> QED
      BY <3>1 DEF World!TypeOK, World!Maybe, World!NoActor
  <2>3. ASSUME NEW a \in Actors, MoveMap(a) PROVE Mine'
    <3>1. World!MoveMap(a) /\ UNCHANGED myPlayer
      BY <2>3 DEF MoveMap, World!MoveMap
    <3> QED
      BY <1>1, <3>1, ActorsKept DEF World!TypeOK, World!Maybe
  <2>4. ASSUME \/ Connect \/ OpenDevMap \/ Disconnect \/ Take
               \/ \E a \in Actors : SendMove(a) \/ RequestScore(a) \/ Local(a)
               \/ \E i \in Ids : Appears(i) \/ Vanishes(i) \/ Acts(i)
               \/ UNCHANGED vars
        PROVE  UNCHANGED <<actors, myPlayer>>
    BY <2>4 DEF Connect, OpenDevMap, Disconnect, Take, SendMove, RequestScore, Local, Appears,
       Vanishes, Acts, Sends, vars, worldVars, World!ConnectToGameServer, World!OpenDevMap,
       World!DisconnectFromGameServer, World!SendMove, World!RequestScore, World!Fire,
       World!GetEnemyFromId, World!worldVars
  <2> QED
    BY <1>1, <2>1, <2>2, <2>3, <2>4 DEF Next
<1> QED
  BY <1>3, <1>4 DEF OwnInv

-----------------------------------------------------------------------------
(* S_ENTER_GAME and the breaches. *)

\* A packet of this server breaks none of the client's assumptions but two.
LEMMA BreachAfterHandle ==
  ASSUME Channels, Known, OwnInv, NotLate, StartInv, HandlePacket
  PROVE  /\ breach' \subseteq breach \cup {"late", "enemyAgain"}
         /\ "enemyAgain" \in breach' =>
              \/ "enemyAgain" \in breach
              \/ /\ Head(down).kind = "S_SPAWN" /\ Kind(Head(down).id) = "enemy"
                 /\ enemys[Head(down).id] # None
<1> DEFINE p == Head(down)
           Rest == /\ breach' \subseteq breach \cup {"late", "enemyAgain"}
                   /\ "enemyAgain" \in breach' =>
                        \/ "enemyAgain" \in breach
                        \/ /\ p.kind = "S_SPAWN" /\ Kind(p.id) = "enemy"
                           /\ enemys[p.id] # None
<1>0. PICK a \in {Address, None} : Dispatch(p, a)
  BY DEF HandlePacket, Yield
<1>1. /\ p.id \in Ids /\ World!Key(p.id) = p.id
      /\ p.kind = "S_ENTER_GAME" => ~entered /\ players[p.id] = None
      /\ p.kind = "S_DESPAWN" => p.id # Own
  <2>1. 1 \in DOMAIN down /\ p = down[1]
    BY AfterTail DEF HandlePacket, Channels
  <2>2. p.kind = "S_ENTER_GAME" => Announced("S_ENTER_GAME")
    BY <2>1 DEF Announced
  <2> QED
    BY <2>1, <2>2, HeadType, NarrowAssumption DEF HandlePacket, OwnInv, StartInv
<1>2. ASSUME p.kind = "S_ENTER_GAME", World!HandleEnterGame(p.id, a) PROVE Rest
  BY <1>1, <1>2 DEF World!HandleEnterGame, World!Breaches
<1>3. ASSUME World!HandleSpawnPlayer(p.id, a) PROVE Rest
  BY <1>1, <1>3 DEF World!HandleSpawnPlayer, World!Breaches
<1>4. ASSUME p.kind = "S_SPAWN", Kind(p.id) = "enemy", World!HandleSpawnEnemy(p.id, a)
      PROVE  Rest
  BY <1>1, <1>4 DEF World!HandleSpawnEnemy, World!Breaches
<1>5. ASSUME p.kind = "S_DESPAWN", World!HandleDespawnPlayer(p.id) PROVE Rest
  <2>1. ~ (players[p.id] # None /\ players[p.id] = myPlayer)
    BY <1>1, <1>5 DEF Known, OwnInv
  <2> QED
    BY <1>1, <1>5, <2>1 DEF World!HandleDespawnPlayer, World!Breaches
<1>6. ASSUME World!HandleDespawnEnemy(p.id) \/ World!HandleMove(p.id) \/ World!HandleEnemyAi(p.id)
      PROVE  Rest
  BY <1>1, <1>6 DEF World!HandleDespawnEnemy, World!HandleMove, World!HandleEnemyAi,
     World!Breaches
<1>7. ASSUME World!HandleScore PROVE Rest
  BY <1>7 DEF World!HandleScore
<1> QED
  BY <1>0, <1>2, <1>3, <1>4, <1>5, <1>6, <1>7 DEF Dispatch

LEMMA NoEnterLeft ==
  ASSUME Channels, Chain, where = "game" PROVE ~Asked("C_ENTER_GAME") /\ ~Asked("C_LOGIN")
<1>1. \A k \in DOMAIN up : up[k] # "C_LOGIN"
  BY DEF Chain
<1>2. ASSUME NEW k \in DOMAIN up, up[k] = "C_ENTER_GAME" PROVE FALSE
  <2>1. k = 2 /\ up[1] = "C_LOGIN"
    BY <1>2 DEF Chain
  <2>2. 1 \in DOMAIN up
    BY <1>2, <2>1 DEF Channels
  <2> QED
    BY <1>1, <2>1, <2>2
<1> QED
  BY <1>1, <1>2 DEF Asked

LEMMA StartNext ==
  ASSUME Channels, Known, PlayInv, TalkInv, NotLate, StartInv, [Next]_vars
  PROVE  StartInv'
<1>1. Chain /\ MenuInv
  BY DEF TalkInv
<1>2. "C_ENTER_GAME" \notin {"C_LOGIN", "C_LEAVE_GAME", "C_ENTER_ROOM", "C_MOVE", "C_SCORE"}
  OBVIOUS
<1>3. CASE Connect
  <2>1. up' = <<"C_LOGIN">> /\ down' = <<>>
    BY <1>3 DEF Connect
  <2> QED
    BY <2>1 DEF StartInv, Asked, Announced
<1>4. CASE OpenDevMap \/ UNCHANGED vars
  BY <1>4 DEF OpenDevMap, World!OpenDevMap, World!worldVars, serverVars, vars, worldVars,
     StartInv, Asked, Announced
<1>5. CASE Disconnect
  <2>1. /\ Asks("C_LEAVE_GAME") /\ UNCHANGED <<down, entered>>
        /\ players' = [i \in Ids |-> None] /\ enemys' = [i \in Ids |-> None]
    BY <1>5 DEF Disconnect, World!DisconnectFromGameServer
  <2>2. Asked("C_ENTER_GAME")' => Asked("C_ENTER_GAME")
    BY <2>1, AskedAfterAsks DEF Requests
  <2> QED
    BY <2>1, <2>2 DEF StartInv, Announced
<1>6. CASE LoadMap
  <2>1. ~entered' /\ UNCHANGED <<players, enemys, down>>
    BY <1>6 DEF LoadMap, World!LoadMap
  <2>2. CASE travel = "game"
    <3>1. /\ down = <<>>
          /\ \A i \in Ids : players[i] = None /\ enemys[i] = None
      BY <1>1, <2>2 DEF Known, MenuInv
    <3> QED
      BY <2>1, <3>1 DEF StartInv, Announced
  <2>3. CASE travel # "game"
    <3>1. up' = up
      BY <1>6, <2>3 DEF LoadMap
    <3> QED
      BY <2>1, <3>1 DEF StartInv, Asked, Announced
  <2> QED
    BY <2>2, <2>3
<1>7. ASSUME NEW a \in Actors, MoveMap(a) \/ SendMove(a) \/ RequestScore(a) \/ Local(a)
      PROVE  StartInv'
  <2>1. UNCHANGED <<entered, down>>
    BY <1>7, ActorEffects
  <2>2. /\ \A i \in Ids : players[i] = None => players'[i] = None
        /\ \A i \in Ids : enemys[i] = None => enemys'[i] = None
    <3>1. CASE MoveMap(a)
      BY <3>1, ActorsKept DEF MoveMap, Known
    <3>2. CASE SendMove(a) \/ RequestScore(a) \/ Local(a)
      BY <3>2 DEF SendMove, RequestScore, Local, World!SendMove, World!RequestScore,
         World!Fire, World!GetEnemyFromId, World!worldVars
    <3> QED
      BY <1>7, <3>1, <3>2
  <2>3. Asked("C_ENTER_GAME")' => Asked("C_ENTER_GAME")
    <3>1. CASE up' = up
      BY <3>1 DEF Asked
    <3>2. ASSUME NEW r \in {"C_ENTER_ROOM", "C_MOVE", "C_SCORE"}, Asks(r)
          PROVE  Asked("C_ENTER_GAME")' => Asked("C_ENTER_GAME")
      BY <3>2, AskedAfterAsks DEF Requests
    <3> QED
      BY <1>7, <3>1, <3>2, ActorEffects
  <2> QED
    BY <2>1, <2>2, <2>3 DEF StartInv, Announced
<1>8. CASE HandlePacket
  <2>1. down # <<>> /\ down' = Tail(down) /\ up' = up
    BY <1>8, HandleEffects
  <2>2. ~Asked("C_ENTER_GAME")'
    BY <2>1 DEF StartInv, Asked
  <2>3. \A k \in DOMAIN down' : down'[k].kind # "S_ENTER_GAME"
    <3>1. \A k \in DOMAIN down' : k \in Nat \ {0} /\ k + 1 \in DOMAIN down /\ down'[k] = down[k + 1]
      BY <2>1, AfterTail DEF Channels
    <3> QED
      BY <3>1 DEF StartInv
  <2> QED
    BY <2>2, <2>3 DEF StartInv, Announced
<1>9. CASE Take
  <2>1. UNCHANGED <<players, enemys, entered>> /\ (Asked("C_ENTER_GAME")' => Asked("C_ENTER_GAME"))
    BY <1>9, TakeEffects, AskedAfterTake DEF worldVars
  <2>2. CASE down' = down
    BY <2>1, <2>2 DEF StartInv, Announced
  <2>3. CASE Head(up) = "C_ENTER_GAME" /\ down' = Append(down, Packet("S_ENTER_GAME", Own))
    <3>1. Asked("C_ENTER_GAME") /\ ~Asked("C_ENTER_GAME")'
      BY <1>1, <1>9, <2>3, AskedAfterTake, ChainTake
    <3>2. down = <<>> /\ ~entered /\ \A i \in Ids : players[i] = None
      BY <3>1 DEF StartInv
    <3>3. DOMAIN down' = {1}
      BY <2>3, <3>2
    <3> QED
      BY <2>1, <3>1, <3>2, <3>3 DEF StartInv
  <2>4. CASE Head(up) = "C_SCORE" /\ down' = Append(down, Packet("S_SCORE", Own))
    <3>1. where = "game"
      BY <1>1, <1>9, <2>4, ChainTake DEF InGame
    <3>2. ~Asked("C_ENTER_GAME") /\ ~Asked("C_ENTER_GAME")'
      BY <1>1, <2>1, <3>1, NoEnterLeft
    <3>3. Packet("S_SCORE", Own).kind = "S_SCORE" /\ Packet("S_SCORE", Own) \in Packets
      BY <1>9, TakeEffects DEF Packet
    <3>4. Announced("S_ENTER_GAME")' => Announced("S_ENTER_GAME")
      BY <2>4, <3>3, AnnouncedAfterAppend
    <3>5. \A k \in DOMAIN down' : down'[k].kind = "S_ENTER_GAME" => k = 1
      BY <2>4, <3>3, AfterAppend DEF StartInv, Channels
    <3> QED
      BY <2>1, <3>2, <3>4, <3>5 DEF StartInv
  <2> QED
    BY <1>9, <2>2, <2>3, <2>4, TakeEffects
<1>10. ASSUME NEW i \in Ids, Appears(i) \/ Vanishes(i) \/ Acts(i) PROVE StartInv'
  <2>1. UNCHANGED <<players, enemys, entered, up>> /\ where = "game"
    BY <1>10, SendsEffects DEF worldVars
  <2>2. PICK kind \in {"S_SPAWN", "S_DESPAWN", "S_AI", "S_MOVE"} :
          down' = Append(down, Packet(kind, i)) /\ Packet(kind, i) \in Packets
    BY <1>10, SendsEffects
  <2>3. ~Asked("C_ENTER_GAME")'
    BY <1>1, <2>1, NoEnterLeft DEF Asked
  <2>4. Packet(kind, i).kind = kind
    BY DEF Packet
  <2>5. Announced("S_ENTER_GAME")' => Announced("S_ENTER_GAME")
    BY <2>2, <2>4, AnnouncedAfterAppend
  <2>6. \A k \in DOMAIN down' : down'[k].kind = "S_ENTER_GAME" => k = 1
    BY <2>2, <2>4, AfterAppend DEF StartInv, Channels
  <2> QED
    BY <2>1, <2>3, <2>5, <2>6 DEF StartInv
<1> QED
  BY <1>3, <1>4, <1>5, <1>6, <1>7, <1>8, <1>9, <1>10 DEF Next

LEMMA EnterNext ==
  Channels /\ Known /\ PlayInv /\ TalkInv /\ OwnInv /\ EnterInv /\ [Next]_vars => EnterInv'
<1> SUFFICES ASSUME Channels, Known, PlayInv, TalkInv, OwnInv, EnterInv, [Next]_vars, NotLate'
             PROVE  StartInv' /\ breach' \subseteq {"enemyAgain"}
  BY DEF EnterInv
<1>1. NotLate /\ StartInv /\ breach \subseteq {"enemyAgain"}
  BY NotLateBefore DEF NotLate, EnterInv
<1>2. StartInv'
  BY <1>1, StartNext
<1>3. CASE HandlePacket
  BY <1>1, <1>2, <1>3, BreachAfterHandle DEF NotLate
<1>4. ASSUME ~HandlePacket PROVE breach' = breach
  BY <1>4, ActorEffects DEF Next, Connect, OpenDevMap, Disconnect, LoadMap, Take, Appears,
     Vanishes, Acts, Sends, vars, worldVars, World!ConnectToGameServer, World!OpenDevMap,
     World!DisconnectFromGameServer, World!LoadMap
<1> QED
  BY <1>1, <1>2, <1>3, <1>4

LEMMA FirstGameNext ==
  Channels /\ Known /\ PlayInv /\ TalkInv /\ FirstGameInv /\ [Next]_vars => FirstGameInv'
<1> SUFFICES ASSUME Channels, Known, PlayInv, TalkInv, FirstGameInv, [Next]_vars, ~left'
             PROVE  /\ NotLate' /\ travel' # "login"
                    /\ screen' = "login" => up' = <<>> /\ down' = <<>> /\ where' = "none"
                    /\ Asked("C_SCORE")' \/ Announced("S_SCORE")' => entered'
  BY DEF FirstGameInv
<1>1. ~left
  BY ActorEffects, HandleEffects, TakeEffects, SendsEffects DEF Next, Connect, OpenDevMap,
     Disconnect, LoadMap, vars
<1>2. /\ NotLate /\ Chain /\ MenuInv /\ travel # "login"
      /\ screen = "login" => up = <<>> /\ down = <<>> /\ where = "none"
      /\ Asked("C_SCORE") \/ Announced("S_SCORE") => entered
  BY <1>1 DEF FirstGameInv, TalkInv
<1>3. CASE Connect
  <2>1. /\ screen' = "select" /\ UNCHANGED <<travel, breach>>
        /\ up' = <<"C_LOGIN">> /\ down' = <<>>
    BY <1>3 DEF Connect, World!ConnectToGameServer
  <2> QED
    BY <1>2, <2>1 DEF NotLate, Asked, Announced
<1>4. CASE OpenDevMap
  BY <1>2, <1>4 DEF OpenDevMap, World!OpenDevMap, serverVars, NotLate, Asked, Announced
<1>5. CASE Disconnect
  BY <1>5 DEF Disconnect
<1>6. CASE LoadMap
  <2>1. /\ travel = "game" /\ screen = "select" /\ screen' = "game" /\ travel' = "none"
        /\ UNCHANGED <<breach, down>> /\ Asks("C_ENTER_GAME")
    BY <1>2, <1>6 DEF LoadMap, World!LoadMap, Known, World!TypeOK
  <2>2. down = <<>> /\ ~Asked("C_SCORE")
    BY <1>2, <2>1 DEF MenuInv, Asked
  <2>3. ~Asked("C_SCORE")'
    BY <2>1, <2>2, AskedAfterAsks DEF Requests
  <2> QED
    BY <1>2, <2>1, <2>2, <2>3 DEF NotLate, Announced
<1>7. ASSUME NEW a \in Actors, MoveMap(a) \/ SendMove(a) \/ RequestScore(a) \/ Local(a)
      PROVE  /\ NotLate' /\ travel' # "login"
             /\ screen' = "login" => up' = <<>> /\ down' = <<>> /\ where' = "none"
             /\ Asked("C_SCORE")' \/ Announced("S_SCORE")' => entered'
  <2>1. UNCHANGED <<screen, travel, entered, breach, down, where>>
    BY <1>7, ActorEffects
  <2>2. CASE up' = up
    BY <1>2, <2>1, <2>2 DEF NotLate, Asked, Announced
  <2>3. CASE up' # up
    BY <1>2, <1>7, <2>1, <2>3, AvatarTalks DEF NotLate
  <2> QED
    BY <2>2, <2>3
<1>8. CASE HandlePacket
  <2>1. screen = "game"
    BY <1>2, <1>8, HandleEffects DEF MenuInv, Known, World!TypeOK
  <2>2. /\ Announced("S_SCORE")' => Announced("S_SCORE")
        /\ Head(down).kind = "S_SCORE" => Announced("S_SCORE")
    BY <1>8, HandleEffects, AnnouncedAfterTail
  <2>3. Asked("C_SCORE")' => Asked("C_SCORE")
    BY <1>8, HandleEffects DEF Asked
  <2> QED
    BY <1>2, <1>8, <2>1, <2>2, <2>3, HandleEffects DEF NotLate
<1>9. CASE Take
  <2>1. /\ UNCHANGED <<screen, travel, entered, breach>> /\ up # <<>>
        /\ Asked("C_SCORE")' => Asked("C_SCORE")
        /\ Asked(Head(up))
    BY <1>9, TakeEffects, AskedAfterTake DEF worldVars
  <2>2. Packet("S_ENTER_GAME", Own).kind # "S_SCORE"
    BY DEF Packet
  <2>3. Announced("S_SCORE")' => Announced("S_SCORE") \/ Asked("C_SCORE")
    <3>1. CASE down' = down
      BY <3>1 DEF Announced
    <3>2. CASE down' = Append(down, Packet("S_ENTER_GAME", Own))
      BY <1>9, <2>2, <3>2, AnnouncedAfterAppend, TakeEffects
    <3>3. CASE Head(up) = "C_SCORE"
      BY <2>1, <3>3
    <3> QED
      BY <1>9, <3>1, <3>2, <3>3, TakeEffects
  <2> QED
    BY <1>2, <2>1, <2>3 DEF NotLate
<1>10. ASSUME NEW i \in Ids, Appears(i) \/ Vanishes(i) \/ Acts(i)
       PROVE  /\ NotLate' /\ travel' # "login"
              /\ screen' = "login" => up' = <<>> /\ down' = <<>> /\ where' = "none"
              /\ Asked("C_SCORE")' \/ Announced("S_SCORE")' => entered'
  <2>1. UNCHANGED <<screen, travel, entered, breach, up>> /\ where = "game"
    BY <1>10, SendsEffects DEF worldVars
  <2>2. PICK kind \in {"S_SPAWN", "S_DESPAWN", "S_AI", "S_MOVE"} :
          down' = Append(down, Packet(kind, i)) /\ Packet(kind, i) \in Packets
    BY <1>10, SendsEffects
  <2>3. Announced("S_SCORE")' => Announced("S_SCORE")
    BY <2>2, AnnouncedAfterAppend DEF Packet
  <2> QED
    BY <1>2, <2>1, <2>3 DEF NotLate, Asked
<1>11. CASE UNCHANGED vars
  BY <1>2, <1>11 DEF vars, worldVars, serverVars, NotLate, Asked, Announced
<1> QED
  BY <1>3, <1>4, <1>5, <1>6, <1>7, <1>8, <1>9, <1>10, <1>11 DEF Next

-----------------------------------------------------------------------------
(* Enemies and their spawns. *)

Spawn(i) == Packet("S_SPAWN", i)
Despawn(i) == Packet("S_DESPAWN", i)

LEMMA PacketFacts ==
  ASSUME NEW i
  PROVE  /\ Spawn(i).kind = "S_SPAWN" /\ Despawn(i).kind = "S_DESPAWN"
         /\ Spawn(i) # Despawn(i)
         /\ \A p \in Packets : /\ p.kind = "S_SPAWN" /\ p.id = i <=> p = Spawn(i)
                               /\ p.kind = "S_DESPAWN" /\ p.id = i <=> p = Despawn(i)
  BY DEF Spawn, Despawn, Packet, Packets

\* Nothing on the screen and nothing on the way.
LEMMA RoomEmpty ==
  ASSUME NEW i \in Ids, enemys'[i] = None, \A k \in DOMAIN down' : down'[k] # Spawn(i)
  PROVE  RoomOf(i)'
  BY DEF RoomOf, Spawn

\* The packets stay.
LEMMA RoomKept ==
  ASSUME NEW i \in Ids, RoomOf(i), down' = down,
         enemys'[i] = enemys[i] \/ enemys'[i] = None,
         where' = "game" /\ i \notin room' => where = "game" /\ i \notin room,
         Asked("C_ENTER_ROOM")' => Asked("C_ENTER_ROOM") \/ enemys'[i] = None
  PROVE  RoomOf(i)'
<1>1. \A j, k : Despawned(i, j, k)' <=> Despawned(i, j, k)
  BY DEF Despawned
<1> QED
  BY <1>1 DEF RoomOf

\* A packet is added: a spawn when the enemy has left or was never there, a
\* despawn when it leaves.
LEMMA RoomAppended ==
  ASSUME NEW i \in Ids, RoomOf(i), down \in Seq(Packets),
         NEW p \in Packets, down' = Append(down, p), enemys'[i] = enemys[i],
         p = Spawn(i) => where = "game" /\ i \notin room /\ i \in room',
         where' = "game" /\ i \notin room' => p = Despawn(i) \/ (where = "game" /\ i \notin room),
         Asked("C_ENTER_ROOM")' => Asked("C_ENTER_ROOM")
  PROVE  RoomOf(i)'
<1>0. PICK n \in Nat : n = Len(down)
  BY AfterAppend
<1>1. /\ n \in Nat /\ DOMAIN down = 1..n /\ DOMAIN down' = 1..(n + 1) /\ Len(down') = n + 1
      /\ \A k \in 1..n : down'[k] = down[k]
      /\ down'[n + 1] = p
  BY <1>0, AfterAppend
<1>2. \A k \in Nat : k <= n => \A j \in Nat \ {0} : Despawned(i, j, k) => Despawned(i, j, k)'
  BY <1>1 DEF Despawned
<1>3. \A j \in Nat \ {0} : Despawned(i, j, n) => Despawned(i, j, n + 1)'
  BY <1>1 DEF Despawned
<1>4. p = Despawn(i) => \A j \in 1..(n + 1) : Despawned(i, j, n + 1)'
  BY <1>1 DEF Despawned, Despawn
<1>5. ASSUME NEW k \in DOMAIN down', down'[k] = Spawn(i)
      PROVE  /\ enemys'[i] = None \/ Despawned(i, 1, k)'
             /\ \A j \in 1..(k - 1) : down'[j] = Spawn(i) => Despawned(i, j, k)'
             /\ where' = "game" /\ i \notin room' => Despawned(i, k, n + 1)'
  <2>1. CASE k \in 1..n
    <3>1. /\ enemys[i] = None \/ Despawned(i, 1, k)
          /\ \A j \in 1..(k - 1) : down[j] = Spawn(i) => Despawned(i, j, k)
          /\ where = "game" /\ i \notin room => Despawned(i, k, n)
      BY <1>0, <1>1, <1>5, <2>1 DEF RoomOf, Spawn
    <3>2. \A j \in 1..(k - 1) : down'[j] = Spawn(i) => Despawned(i, j, k)'
      BY <1>1, <1>2, <2>1, <3>1
    <3>3. where' = "game" /\ i \notin room' => Despawned(i, k, n + 1)'
      BY <1>1, <1>3, <1>4, <2>1, <3>1
    <3> QED
      BY <1>1, <1>2, <2>1, <3>1, <3>2, <3>3
  <2>2. CASE k = n + 1
    <3>1. where = "game" /\ i \notin room /\ i \in room'
      BY <1>1, <1>5, <2>2
    <3>2. enemys[i] = None \/ Despawned(i, 1, n)
      BY <1>0, <3>1 DEF RoomOf
    <3>3. \A j \in 1..n : down[j] = Spawn(i) => Despawned(i, j, n)
      BY <1>0, <1>1, <3>1 DEF RoomOf, Spawn
    <3>4. \A j \in 1..(k - 1) : down'[j] = Spawn(i) => Despawned(i, j, k)'
      BY <1>1, <1>3, <2>2, <3>3
    <3> QED
      BY <1>1, <1>3, <2>2, <3>1, <3>2, <3>4
  <2> QED
    BY <1>1, <2>1, <2>2
<1>6. enemys'[i] # None /\ where' = "game" /\ i \notin room' => Despawned(i, 1, n + 1)'
  <2>1. 1 \in 1..(n + 1)
    BY <1>1
  <2>2. enemys[i] # None /\ where = "game" /\ i \notin room => Despawned(i, 1, n)
    BY <1>0 DEF RoomOf
  <2> QED
    BY <1>3, <1>4, <2>1, <2>2
<1>7. Asked("C_ENTER_ROOM")' => enemys'[i] = None
  BY DEF RoomOf
<1> QED
  BY <1>1, <1>5, <1>6, <1>7 DEF RoomOf, Spawn

\* The first packet is handled.
LEMMA RoomTaken ==
  ASSUME NEW i \in Ids, RoomOf(i), down \in Seq(Packets), down # <<>>, down' = Tail(down),
         where' = where, room' = room, up' = up,
         enemys'[i] # None => enemys[i] # None \/ Head(down) = Spawn(i),
         Head(down) = Despawn(i) => enemys'[i] = None,
         Head(down) = Spawn(i) => ~Asked("C_ENTER_ROOM")
  PROVE  RoomOf(i)'
<1>0. PICK n \in Nat : n = Len(down) - 1
  BY AfterTail
<1>1. /\ n \in Nat /\ DOMAIN down = 1..(n + 1) /\ DOMAIN down' = 1..n /\ Len(down') = n
      /\ \A k \in 1..n : down'[k] = down[k + 1]
      /\ Head(down) = down[1] /\ Len(down) = n + 1
  BY <1>0, AfterTail
<1>2. ASSUME NEW j \in 1..n, NEW k \in 1..n, Despawned(i, j + 1, k + 1) PROVE Despawned(i, j, k)'
  <2>1. PICK l \in (j + 1)..(k + 1) : down[l] = Despawn(i)
    BY <1>2 DEF Despawned, Despawn
  <2>2. l - 1 \in j..k /\ l - 1 \in 1..n /\ (l - 1) + 1 = l
    BY <1>1, <2>1
  <2> QED
    BY <1>1, <2>1, <2>2 DEF Despawned, Despawn
<1>3. ASSUME NEW k \in 0..n, Despawned(i, 1, k + 1), down[1] # Despawn(i) PROVE Despawned(i, 1, k)'
  <2>1. PICK l \in 1..(k + 1) : down[l] = Despawn(i)
    BY <1>3 DEF Despawned, Despawn
  <2>2. l - 1 \in 1..k /\ l - 1 \in 1..n /\ (l - 1) + 1 = l
    BY <1>1, <1>3, <2>1
  <2> QED
    BY <1>1, <2>1, <2>2 DEF Despawned, Despawn
<1>4. down[1] = Spawn(i) =>
        /\ enemys[i] = None
        /\ down[1] # Despawn(i)
        /\ \A k \in 2..(n + 1) : down[k] = Spawn(i) => Despawned(i, 1, k)
        /\ where = "game" /\ i \notin room => Despawned(i, 1, n + 1)
  <2>1. 1 \in DOMAIN down
    BY <1>1
  <2>2. down[1] = Spawn(i) => ~Despawned(i, 1, 1)
    BY PacketFacts DEF Despawned, Despawn
  <2>3. \A k \in 2..(n + 1) : k \in DOMAIN down /\ 1 \in 1..(k - 1)
    BY <1>1
  <2> QED
    BY <1>1, <2>1, <2>2, <2>3, PacketFacts DEF RoomOf, Spawn
<1>5. ASSUME NEW k \in 1..n, down'[k] = Spawn(i)
      PROVE  /\ enemys'[i] = None \/ Despawned(i, 1, k)'
             /\ \A j \in 1..(k - 1) : down'[j] = Spawn(i) => Despawned(i, j, k)'
             /\ where' = "game" /\ i \notin room' => Despawned(i, k, n)'
  <2>1. k + 1 \in DOMAIN down /\ k + 1 \in 2..(n + 1) /\ down[k + 1] = Spawn(i) /\ k \in 0..n
    BY <1>1, <1>5
  <2>2. /\ enemys[i] = None \/ Despawned(i, 1, k + 1)
        /\ \A j \in 1..k : down[j] = Spawn(i) => Despawned(i, j, k + 1)
        /\ where = "game" /\ i \notin room => Despawned(i, k + 1, n + 1)
    BY <1>1, <2>1 DEF RoomOf, Spawn
  <2>3. enemys'[i] = None \/ Despawned(i, 1, k)'
    BY <1>1, <1>3, <1>4, <2>1, <2>2
  <2>4. ASSUME NEW j \in 1..(k - 1), down'[j] = Spawn(i) PROVE Despawned(i, j, k)'
    <3>1. j \in 1..n /\ j + 1 \in 1..k /\ down[j + 1] = Spawn(i)
      BY <1>1, <2>4
    <3> QED
      BY <1>2, <2>2, <3>1
  <2>5. where' = "game" /\ i \notin room' => Despawned(i, k, n)'
    <3>1. n \in 1..n
      BY <1>1
    <3> QED
      BY <1>2, <2>2, <3>1
  <2> QED
    BY <2>3, <2>4, <2>5
<1>6. enemys'[i] # None /\ where' = "game" /\ i \notin room' => Despawned(i, 1, n)'
  <2>1. enemys[i] # None /\ where = "game" /\ i \notin room => Despawned(i, 1, n + 1)
    BY <1>1 DEF RoomOf
  <2>2. n \in 0..n
    BY <1>1
  <2> QED
    BY <1>1, <1>3, <1>4, <2>1, <2>2
<1>7. Asked("C_ENTER_ROOM")' => enemys'[i] = None
  <2>1. Asked("C_ENTER_ROOM")' => Asked("C_ENTER_ROOM")
    BY DEF Asked
  <2> QED
    BY <2>1 DEF RoomOf
<1> QED
  BY <1>1, <1>5, <1>6, <1>7 DEF RoomOf, Spawn

\* What a handler does to an enemy's entry.
LEMMA EnemyAfterHandle ==
  ASSUME Channels, World!TypeOK, HandlePacket, NEW i \in EnemyIds \cap Ids
  PROVE  /\ enemys'[i] # None => enemys[i] # None \/ Head(down) = Spawn(i)
         /\ Head(down) = Despawn(i) => enemys'[i] = None
<1> DEFINE p == Head(down)
<1>0. PICK a \in {Address, None} : Dispatch(p, a)
  BY DEF HandlePacket, Yield
<1>1. /\ p \in Packets /\ p.id \in Ids
      /\ enemys \in [Ids -> Actors \cup {None}]
  BY HeadType DEF HandlePacket, World!TypeOK, World!Maybe
<1>2. /\ p = Spawn(i) <=> p.kind = "S_SPAWN" /\ p.id = i
      /\ p = Despawn(i) <=> p.kind = "S_DESPAWN" /\ p.id = i
  BY <1>1, PacketFacts
<1> HIDE DEF p
<1>3. CASE p.kind = "S_SPAWN"
  <2>1. ASSUME World!HandleSpawnPlayer(p.id, a) PROVE UNCHANGED enemys
    BY <2>1 DEF World!HandleSpawnPlayer, World!SpawnPlayer, World!worldVars
  <2>2. ASSUME World!HandleSpawnEnemy(p.id, a)
        PROVE  \A j \in Ids : j # p.id => enemys'[j] = enemys[j]
    BY <1>1, <2>2 DEF World!HandleSpawnEnemy, World!SpawnEnemy, World!worldVars
  <2> QED
    BY <1>0, <1>2, <1>3, <2>1, <2>2 DEF Dispatch, p
<1>4. CASE p.kind = "S_DESPAWN"
  <2>1. ASSUME World!HandleDespawnPlayer(p.id) PROVE UNCHANGED enemys
    BY <2>1 DEF World!HandleDespawnPlayer
  <2>2. ASSUME World!HandleDespawnEnemy(p.id)
        PROVE  enemys' = [enemys EXCEPT ![p.id] = None]
    BY <2>2 DEF World!HandleDespawnEnemy, World!DespawnEnemy
  <2>3. p.id = i => Kind(p.id) = "enemy"
    BY DEF Kind
  <2> QED
    BY <1>0, <1>1, <1>2, <1>4, <2>1, <2>2, <2>3 DEF Dispatch, p
<1>5. CASE p.kind \notin {"S_SPAWN", "S_DESPAWN"}
  <2>1. UNCHANGED enemys
    BY <1>0, <1>5 DEF Dispatch, World!HandleEnterGame, World!SpawnPlayer, World!HandleMove,
       World!HandleEnemyAi, World!HandleScore, World!worldVars
  <2> QED
    BY <1>2, <1>5, <2>1 DEF p
<1> QED
  BY <1>3, <1>4, <1>5

\* After MoveMap no enemy is on the screen.
LEMMA MoveMapClears ==
  ASSUME Known, NEW a \in Actors, World!MoveMap(a), ~fault', NotLate
  PROVE  \A i \in Ids : enemys'[i] = None
<1>1. /\ enemys' = World!Without(enemys, World!Keys(World!Registered(enemys)))
      /\ enemys \in [Ids -> Actors \cup {None}]
  BY DEF World!MoveMap, Known, World!TypeOK, World!Maybe
<1>2. ASSUME NEW i \in Ids, enemys[i] # None
      PROVE  i \in World!Keys(World!Registered(enemys))
  <2>1. enemys[i] \in World!Registered(enemys) /\ World!Key(actors[enemys[i]].id) = i
    BY <1>2, NarrowAssumption DEF World!Registered, Known
  <2> QED
    BY <2>1 DEF World!Keys
<1> QED
  BY <1>1, <1>2 DEF World!Without

LEMMA NotCrossedBefore ==
  ASSUME Channels, [Next]_vars, ~crossed', ~Connect, \A a \in Actors : ~MoveMap(a)
  PROVE  ~crossed
<1>1. ASSUME HandlePacket \/ Take PROVE UNCHANGED crossed
  BY <1>1, HandleEffects, TakeEffects
<1> QED
  BY <1>1 DEF Next, OpenDevMap, Disconnect, LoadMap, SendMove, RequestScore, Local, Appears,
     Vanishes, Acts, Asked, Channels, vars

LEMMA RoomNext ==
  Channels /\ Known /\ Known' /\ TalkInv /\ EnterInv /\ OwnInv /\ RoomInv /\ [Next]_vars
    => RoomInv'
<1> DEFINE Enemies == EnemyIds \cap Ids
<1> SUFFICES ASSUME Channels, Known, Known', TalkInv, EnterInv, OwnInv, RoomInv, [Next]_vars,
                    breach' = {}, ~crossed'
             PROVE  /\ \A i \in Enemies : RoomOf(i)'
                    /\ Asked("C_ENTER_ROOM")' => ~Announced("S_SPAWN")'
  BY DEF RoomInv
<1>1. breach = {} /\ NotLate /\ Chain /\ MenuInv /\ StartInv
  BY NotLateBefore DEF NotLate, TalkInv, EnterInv
<1>2. /\ up \in Seq(Requests) /\ down \in Seq(Packets) /\ World!TypeOK /\ ~fault'
  BY DEF Channels, Known
<1>3. CASE Connect
  <2>1. /\ screen = "login" /\ UNCHANGED enemys /\ up' = <<"C_LOGIN">> /\ down' = <<>>
    BY <1>3 DEF Connect, World!ConnectToGameServer, World!worldVars
  <2>2. \A i \in Ids : enemys'[i] = None
    BY <1>1, <2>1 DEF Known
  <2> QED
    BY <2>1, <2>2, RoomEmpty DEF Announced
<1>4. ASSUME NEW a \in Actors, MoveMap(a)
      PROVE  /\ \A i \in Enemies : RoomOf(i)'
             /\ ~Announced("S_SPAWN")'
  <2>1. World!MoveMap(a) /\ ~OnTheWay(Spawns) /\ down' = down
    BY <1>4 DEF MoveMap
  <2>2. \A i \in Ids : enemys'[i] = None
    BY <1>1, <1>2, <2>1, MoveMapClears
  <2>3. \A k \in DOMAIN down' : down'[k].kind # "S_SPAWN"
    <3>1. ASSUME NEW k \in DOMAIN down, down[k].kind = "S_SPAWN" PROVE down[k] \in Spawns
      <4>1. down[k] \in Packets
        BY <1>2
      <4> QED
        BY <3>1, <4>1 DEF Packets, Spawns
    <3> QED
      BY <2>1, <3>1 DEF OnTheWay
  <2> QED
    BY <2>2, <2>3, RoomEmpty, PacketFacts DEF Announced
<1> SUFFICES ASSUME ~Connect, \A a \in Actors : ~MoveMap(a)
             PROVE  /\ \A i \in Enemies : RoomOf(i)'
                    /\ Asked("C_ENTER_ROOM")' => ~Announced("S_SPAWN")'
  BY <1>3, <1>4
<1>5. /\ \A i \in Enemies : RoomOf(i)
      /\ Asked("C_ENTER_ROOM") => ~Announced("S_SPAWN")
  BY <1>1, NotCrossedBefore DEF RoomInv
<1>6. ASSUME down' = down, where' = where, room' = room,
             Asked("C_ENTER_ROOM")' => Asked("C_ENTER_ROOM"),
             \A i \in Ids : enemys'[i] = enemys[i] \/ enemys'[i] = None
      PROVE  /\ \A i \in Enemies : RoomOf(i)'
             /\ Asked("C_ENTER_ROOM")' => ~Announced("S_SPAWN")'
  <2>1. Announced("S_SPAWN")' => Announced("S_SPAWN")
    BY <1>6 DEF Announced
  <2> QED
    BY <1>5, <1>6, <2>1, RoomKept
<1>7. CASE OpenDevMap \/ UNCHANGED vars
  BY <1>6, <1>7 DEF OpenDevMap, World!OpenDevMap, World!worldVars, serverVars, vars, worldVars,
     Asked
<1>8. CASE Disconnect
  <2>1. Asks("C_LEAVE_GAME") /\ enemys' = [i \in Ids |-> None] /\ UNCHANGED <<down, where, room>>
    BY <1>8 DEF Disconnect, World!DisconnectFromGameServer, serverVars
  <2>2. Asked("C_ENTER_ROOM")' => Asked("C_ENTER_ROOM")
    BY <2>1, AskedAfterAsks DEF Requests
  <2> QED
    BY <1>6, <2>1, <2>2
<1>9. CASE LoadMap
  <2>1. UNCHANGED <<enemys, down, where, room>> /\ (Asks("C_ENTER_GAME") \/ up' = up)
    BY <1>9 DEF LoadMap, World!LoadMap, serverVars
  <2>2. Asked("C_ENTER_ROOM")' => Asked("C_ENTER_ROOM")
    <3>1. CASE up' = up
      BY <3>1 DEF Asked
    <3>2. CASE Asks("C_ENTER_GAME")
      BY <3>2, AskedAfterAsks DEF Requests
    <3> QED
      BY <2>1, <3>1, <3>2
  <2> QED
    BY <1>6, <2>1, <2>2
<1>10. ASSUME NEW a \in Actors, SendMove(a) \/ RequestScore(a) \/ Local(a)
       PROVE  /\ \A i \in Enemies : RoomOf(i)'
              /\ Asked("C_ENTER_ROOM")' => ~Announced("S_SPAWN")'
  <2>1. /\ UNCHANGED <<enemys, down, where, room>>
        /\ Asks("C_MOVE") \/ Asks("C_SCORE") \/ up' = up
    BY <1>10 DEF SendMove, RequestScore, Local, World!SendMove, World!RequestScore, World!Fire,
       World!GetEnemyFromId, World!worldVars, serverVars
  <2>2. Asked("C_ENTER_ROOM")' => Asked("C_ENTER_ROOM")
    <3>1. CASE up' = up
      BY <3>1 DEF Asked
    <3>2. ASSUME NEW r \in {"C_MOVE", "C_SCORE"}, Asks(r)
          PROVE  Asked("C_ENTER_ROOM")' => Asked("C_ENTER_ROOM")
      BY <3>2, AskedAfterAsks DEF Requests
    <3> QED
      BY <2>1, <3>1, <3>2
  <2> QED
    BY <1>6, <2>1, <2>2
<1>11. CASE HandlePacket
  <2>1. /\ down # <<>> /\ down' = Tail(down) /\ UNCHANGED <<up, where, room>>
    BY <1>11, HandleEffects
  <2>2. /\ Announced("S_SPAWN")' => Announced("S_SPAWN")
        /\ Announced(Head(down).kind)
    BY <2>1, AnnouncedAfterTail
  <2>3. Asked("C_ENTER_ROOM")' => Asked("C_ENTER_ROOM")
    BY <2>1 DEF Asked
  <2>4. ASSUME NEW i \in Enemies PROVE RoomOf(i)'
    <3>1. Head(down) = Spawn(i) => ~Asked("C_ENTER_ROOM")
      BY <1>5, <2>2, PacketFacts
    <3> QED
      BY <1>2, <1>5, <1>11, <2>1, <3>1, EnemyAfterHandle, RoomTaken
  <2> QED
    BY <1>5, <2>2, <2>3, <2>4
<1>12. CASE Take
  <2>1. /\ UNCHANGED enemys /\ Answer(Head(up)) /\ Asked(Head(up))
        /\ Asked("C_ENTER_ROOM")' => Asked("C_ENTER_ROOM")
    BY <1>12, AskedAfterTake DEF Take, worldVars
  <2>2. CASE where' # "game" /\ down' = down
    <3>1. Announced("S_SPAWN")' => Announced("S_SPAWN")
      BY <2>2 DEF Announced
    <3> QED
      BY <1>5, <2>1, <2>2, <3>1, RoomKept
  <2>3. CASE /\ Head(up) = "C_ENTER_GAME"
             /\ down' = Append(down, Packet("S_ENTER_GAME", Own))
    <3>1. down = <<>> /\ \A i \in Ids : enemys'[i] = None
      BY <1>1, <2>1, <2>3 DEF StartInv
    <3>2. \A k \in DOMAIN down' : down'[k].kind # "S_SPAWN"
      BY <2>3, <3>1 DEF Packet
    <3> QED
      BY <3>1, <3>2, RoomEmpty, PacketFacts DEF Announced
  <2>4. CASE Head(up) = "C_ENTER_ROOM" /\ down' = down
    <3>1. \A i \in Enemies : enemys'[i] = None
      BY <1>5, <2>1, <2>4 DEF RoomOf
    <3>2. \A k \in DOMAIN down' : down'[k].kind # "S_SPAWN"
      BY <1>5, <2>1, <2>4 DEF Announced
    <3> QED
      BY <3>1, <3>2, RoomEmpty, PacketFacts DEF Announced
  <2>5. CASE down' = Append(down, Packet("S_SCORE", Own)) /\ UNCHANGED <<where, room>>
    <3>1. /\ Packet("S_SCORE", Own) \in Packets /\ Packet("S_SCORE", Own).kind = "S_SCORE"
      BY <1>12, TakeEffects DEF Packet
    <3>2. Announced("S_SPAWN")' => Announced("S_SPAWN")
      BY <2>5, <3>1, AnnouncedAfterAppend
    <3>3. ASSUME NEW i \in Enemies PROVE RoomOf(i)'
      BY <1>2, <1>5, <2>1, <2>5, <3>1, RoomAppended, PacketFacts
    <3> QED
      BY <1>5, <2>1, <3>2, <3>3
  <2>6. CASE down' = down /\ UNCHANGED <<where, room>>
    BY <1>6, <2>1, <2>6
  <2> QED
    BY <2>1, <2>2, <2>3, <2>4, <2>5, <2>6 DEF Answer, serverVars
<1>13. ASSUME NEW i \in Ids, Appears(i) \/ Vanishes(i) \/ Acts(i)
       PROVE  /\ \A j \in Enemies : RoomOf(j)'
              /\ Asked("C_ENTER_ROOM")' => ~Announced("S_SPAWN")'
  <2>1. UNCHANGED <<worldVars, up, where>> /\ where = "game" /\ UNCHANGED enemys
    BY <1>13, SendsEffects DEF worldVars
  <2>2. Asked("C_ENTER_ROOM")' => Asked("C_ENTER_ROOM")
    BY <2>1 DEF Asked
  <2>3. CASE Appears(i)
    <3>1. /\ down' = Append(down, Spawn(i)) /\ Spawn(i) \in Packets /\ room' = room \cup {i}
          /\ i \notin room \/ i = Own
          /\ ~Asked("C_ENTER_ROOM")
      BY <2>3 DEF Appears, Sends, Spawn, Packet, Packets, Asked
    <3>2. ASSUME NEW j \in Enemies PROVE RoomOf(j)'
      <4>1. Spawn(i) = Spawn(j) => i = j
        BY DEF Spawn, Packet
      <4>2. j # Own
        BY OwnAssumption
      <4> QED
        BY <1>2, <1>5, <2>1, <2>2, <3>1, <4>1, <4>2, RoomAppended
    <3> QED
      BY <2>2, <3>1, <3>2
  <2>4. CASE Vanishes(i)
    <3>1. /\ down' = Append(down, Despawn(i)) /\ Despawn(i) \in Packets /\ room' = room \ {i}
      BY <2>4 DEF Vanishes, Sends, Despawn, Packet, Packets
    <3>2. Announced("S_SPAWN")' => Announced("S_SPAWN")
      BY <3>1, PacketFacts, AnnouncedAfterAppend
    <3>3. ASSUME NEW j \in Enemies PROVE RoomOf(j)'
      <4>1. Despawn(i) # Spawn(j)
        BY DEF Spawn, Despawn, Packet
      <4> QED
        BY <1>2, <1>5, <2>1, <2>2, <3>1, <4>1, RoomAppended
    <3> QED
      BY <1>5, <2>2, <3>2, <3>3
  <2>5. CASE Acts(i)
    <3>1. PICK kind \in {"S_AI", "S_MOVE"} :
            /\ down' = Append(down, Packet(kind, i)) /\ Packet(kind, i) \in Packets
            /\ Packet(kind, i).kind = kind /\ UNCHANGED room
      BY <2>5 DEF Acts, Sends, Packet, Packets
    <3>2. Announced("S_SPAWN")' => Announced("S_SPAWN")
      BY <3>1, AnnouncedAfterAppend
    <3>3. ASSUME NEW j \in Enemies PROVE RoomOf(j)'
      <4>1. Packet(kind, i) # Spawn(j)
        BY <3>1, PacketFacts
      <4> QED
        BY <1>2, <1>5, <2>1, <2>2, <3>1, <4>1, RoomAppended
    <3> QED
      BY <1>5, <2>2, <3>2, <3>3
  <2> QED
    BY <1>13, <2>3, <2>4, <2>5
<1> QED
  BY <1>7, <1>8, <1>9, <1>10, <1>11, <1>12, <1>13 DEF Next

-----------------------------------------------------------------------------
(* The screen and the room. *)

\* What GameWorldProofs shows of the avatars where the server has behaved.
OneAvatar == breach = {} => \A a \in Actors : actors[a].kind = "mine" => a = myPlayer

\* A player's entry is one of Players, an enemy's one of Enemys.
SortInv ==
  /\ \A i \in Ids : players[i] # None => i \notin EnemyIds
  /\ \A i \in Ids : enemys[i] # None => i \in EnemyIds

\* The room of a game has the avatar; the menus are left for the lobby with
\* C_LEAVE_GAME on the way.
HomeInv ==
  /\ where = "game" => Own \in room
  /\ NotLate /\ (screen = "login" \/ travel = "login") =>
       (where = "game" \/ Asked("C_ENTER_GAME") => Asked("C_LEAVE_GAME"))

\* Some packet after the j-th is one of those.
Follows(ps, some, j) == \E l \in (j + 1)..Len(ps) : ps[l] \in some

\* It is so now, or will be: what undoes it is followed by what does it.
Settles(ps, now, done, undone) ==
  /\ now \/ Follows(ps, done, 0)
  /\ \A k \in DOMAIN ps : ps[k] \in undone => Follows(ps, done, k)

Coming(i) == {Spawn(i), Packet("S_ENTER_GAME", i)}
Going(i) == {Despawn(i)}

\* When all that is on the way has been handled no object is on the screen that is
\* not in the room; a room that is about to be left is not shown any more.
GoneOf(i) ==
  /\ i \notin room => Settles(down, Entry(i) = None, Going(i), Coming(i))
  /\ i # Own /\ Asked("C_ENTER_ROOM") => Entry(i) = None
GoneInv ==
  breach = {} /\ ~crossed /\ screen = "game" /\ travel = "none" /\ where = "game" =>
    \A i \in Ids : GoneOf(i)

\* ... and what is in it is there, or has been refused an actor.  An S_SPAWN of the
\* old room does no harm to that, nor does an enemy spawned twice.
ThereOf(i) ==
  i \in room /\ (i = Own \/ ~Asked("C_ENTER_ROOM")) =>
    Settles(down, Entry(i) # None \/ i \in refused, Coming(i), Going(i))
ThereInv ==
  NotLate /\ screen = "game" /\ travel = "none" /\ where = "game" =>
    \A i \in Ids : ThereOf(i)

LEMMA OneAvatarAlways == Spec => []OneAvatar
<1>1. World!Spec => Proven!Spec
  BY SameInit, SameSteps, PTL DEF World!Spec, Proven!Spec
<1>2. Proven!Spec => []Proven!WorldInv
  BY WorldAssumption, Proven!WorldAlways
<1>3. Proven!WorldInv => OneAvatar
  BY DEF Proven!WorldInv, Proven!GameInv, Proven!AvatarInv, OneAvatar
<1> QED
  BY <1>1, <1>2, <1>3, ClientIsWorld, PTL

LEMMA SettlesAppend ==
  ASSUME NEW S, NEW ps \in Seq(S), NEW p \in S, NEW now, NEW done, NEW undone,
         p \notin undone, p \in done \/ Settles(ps, now, done, undone)
  PROVE  Settles(Append(ps, p), now, done, undone)
<1> PICK n \in Nat : n = Len(ps)
  BY AfterAppend
<1> DEFINE qs == Append(ps, p)
<1>1. /\ DOMAIN ps = 1..n /\ DOMAIN qs = 1..(n + 1) /\ Len(qs) = n + 1
      /\ \A k \in 1..n : qs[k] = ps[k]
      /\ qs[n + 1] = p
  BY AfterAppend
<1> HIDE DEF qs
<1>2. \A j \in 0..n : Follows(ps, done, j) => Follows(qs, done, j)
  BY <1>1 DEF Follows
<1>3. p \in done => \A j \in 0..n : Follows(qs, done, j)
  BY <1>1 DEF Follows
<1>4. now \/ Follows(qs, done, 0)
  BY <1>2, <1>3 DEF Settles
<1>5. ASSUME NEW k \in 1..(n + 1), qs[k] \in undone PROVE Follows(qs, done, k)
  <2>1. k \in 1..n /\ k \in 0..n /\ ps[k] \in undone
    BY <1>1, <1>5
  <2> QED
    BY <1>1, <1>2, <1>3, <2>1 DEF Settles
<1> QED
  BY <1>1, <1>4, <1>5 DEF Settles, qs

LEMMA SettlesTail ==
  ASSUME NEW S, NEW ps \in Seq(S), ps # <<>>, NEW now, NEW after, NEW done, NEW undone,
         Settles(ps, now, done, undone),
         Head(ps) \in done => after,
         Head(ps) \notin done \cup undone => (now => after)
  PROVE  Settles(Tail(ps), after, done, undone)
<1> PICK n \in Nat : n = Len(ps) - 1
  BY AfterTail
<1> DEFINE qs == Tail(ps)
<1>1. /\ DOMAIN ps = 1..(n + 1) /\ DOMAIN qs = 1..n /\ Len(qs) = n /\ Len(ps) = n + 1
      /\ \A k \in 1..n : qs[k] = ps[k + 1]
      /\ Head(ps) = ps[1] /\ 1 \in DOMAIN ps
  BY AfterTail
<1> HIDE DEF qs
<1>2. ASSUME NEW j \in 0..n, NEW l \in (j + 2)..(n + 1), ps[l] \in done PROVE Follows(qs, done, j)
  <2>1. l - 1 \in (j + 1)..n /\ l - 1 \in 1..n /\ (l - 1) + 1 = l
    BY <1>1
  <2> QED
    BY <1>1, <1>2, <2>1 DEF Follows
<1>3. ASSUME NEW j \in 0..n, Follows(ps, done, j + 1) PROVE Follows(qs, done, j)
  <2>1. PICK l \in (j + 2)..(n + 1) : ps[l] \in done
    BY <1>1, <1>3 DEF Follows
  <2> QED
    BY <1>2, <2>1
<1>4. after \/ Follows(qs, done, 0)
  <2>1. CASE ps[1] \in undone
    <3>1. Follows(ps, done, 0 + 1)
      BY <1>1, <2>1 DEF Settles
    <3> QED
      BY <1>3, <3>1
  <2>2. CASE ps[1] \notin done \cup undone
    <3>1. CASE now
      BY <1>1, <2>2, <3>1
    <3>2. CASE ~now
      <4>1. PICK l \in 1..(n + 1) : ps[l] \in done
        BY <1>1, <3>2 DEF Settles, Follows
      <4>2. l \in (0 + 2)..(n + 1)
        BY <2>2, <4>1
      <4> QED
        BY <1>2, <4>1, <4>2
    <3> QED
      BY <3>1, <3>2
  <2> QED
    BY <1>1, <2>1, <2>2
<1>5. ASSUME NEW k \in 1..n, qs[k] \in undone PROVE Follows(qs, done, k)
  <2>1. k + 1 \in DOMAIN ps /\ ps[k + 1] \in undone /\ k \in 0..n
    BY <1>1, <1>5
  <2>2. Follows(ps, done, k + 1)
    BY <2>1 DEF Settles
  <2> QED
    BY <1>3, <2>1, <2>2
<1> QED
  BY <1>1, <1>4, <1>5 DEF Settles, qs

LEMMA ComingFacts ==
  ASSUME NEW i
  PROVE  /\ Coming(i) \cap Going(i) = {}
         /\ \A p \in Packets :
              /\ p \in Going(i) <=> p.kind = "S_DESPAWN" /\ p.id = i
              /\ p \in Coming(i) <=> p.kind \in {"S_SPAWN", "S_ENTER_GAME"} /\ p.id = i
  BY DEF Coming, Going, Spawn, Despawn, Packet, Packets

LEMMA SortNext == Channels /\ World!TypeOK /\ OwnInv /\ SortInv /\ [Next]_vars => SortInv'
<1> SUFFICES ASSUME Channels, World!TypeOK, OwnInv, SortInv, [Next]_vars PROVE SortInv'
  OBVIOUS
<1>1. /\ players \in [Ids -> Actors \cup {None}] /\ enemys \in [Ids -> Actors \cup {None}]
  BY DEF World!TypeOK, World!Maybe
<1>2. CASE HandlePacket
  <2> DEFINE p == Head(down)
  <2>0. PICK a \in {Address, None} : Dispatch(p, a)
    BY <1>2 DEF HandlePacket, Yield
  <2>1. /\ p.id \in Ids
        /\ p.kind = "S_ENTER_GAME" => p.id \notin EnemyIds
    <3>1. 1 \in DOMAIN down /\ p = down[1]
      BY <1>2, AfterTail DEF HandlePacket, Channels
    <3> QED
      BY <1>2, <3>1, HeadType, OwnAssumption DEF HandlePacket, OwnInv
  <2> HIDE DEF p
  <2>2. ASSUME p.id \notin EnemyIds,
               \/ World!HandleEnterGame(p.id, a)
               \/ World!HandleSpawnPlayer(p.id, a)
        PROVE  SortInv'
    BY <1>1, <2>1, <2>2 DEF World!HandleEnterGame, World!HandleSpawnPlayer, World!SpawnPlayer,
       World!worldVars, SortInv
  <2>3. ASSUME p.id \in EnemyIds, World!HandleSpawnEnemy(p.id, a) PROVE SortInv'
    BY <1>1, <2>1, <2>3 DEF World!HandleSpawnEnemy, World!SpawnEnemy, World!worldVars, SortInv
  <2>4. ASSUME World!HandleDespawnPlayer(p.id) \/ World!HandleDespawnEnemy(p.id) PROVE SortInv'
    BY <1>1, <2>1, <2>4 DEF World!HandleDespawnPlayer, World!HandleDespawnEnemy,
       World!DespawnPlayer, World!DespawnEnemy, SortInv
  <2>5. ASSUME World!HandleMove(p.id) \/ World!HandleEnemyAi(p.id) \/ World!HandleScore
        PROVE  SortInv'
    BY <2>5 DEF World!HandleMove, World!HandleEnemyAi, World!HandleScore, World!worldVars, SortInv
  <2> QED
    BY <2>0, <2>1, <2>2, <2>3, <2>4, <2>5 DEF Dispatch, Kind, p
<1>3. CASE Disconnect
  BY <1>3 DEF Disconnect, World!DisconnectFromGameServer, SortInv
<1>4. ASSUME NEW a \in Actors, MoveMap(a) PROVE SortInv'
  BY <1>4, ActorsKept DEF MoveMap, SortInv
<1>5. ASSUME \/ Connect \/ OpenDevMap \/ LoadMap \/ Take
             \/ \E a \in Actors : SendMove(a) \/ RequestScore(a) \/ Local(a)
             \/ \E i \in Ids : Appears(i) \/ Vanishes(i) \/ Acts(i)
             \/ UNCHANGED vars
      PROVE  UNCHANGED <<players, enemys>>
  BY <1>5 DEF Connect, OpenDevMap, LoadMap, Take, SendMove, RequestScore, Local, Appears,
     Vanishes, Acts, Sends, vars, worldVars, World!ConnectToGameServer, World!OpenDevMap,
     World!LoadMap, World!SendMove, World!RequestScore, World!Fire, World!GetEnemyFromId,
     World!worldVars
<1> QED
  BY <1>2, <1>3, <1>4, <1>5 DEF Next, SortInv

LEMMA HomeNext == PipeInv /\ HomeInv /\ [Next]_vars => HomeInv'
<1> SUFFICES ASSUME PipeInv, HomeInv, [Next]_vars PROVE HomeInv'
  OBVIOUS
<1>1. Channels /\ Known /\ PlayInv
  BY DEF PipeInv
<1>2. where' = "game" => Own \in room'
  <2>1. CASE Connect
    BY <2>1 DEF Connect
  <2>2. CASE Take
    BY <2>2 DEF Take, Answer, serverVars, HomeInv
  <2>3. ASSUME NEW i \in Ids, Appears(i) \/ Vanishes(i) \/ Acts(i) PROVE Own \in room'
    BY <2>3 DEF Appears, Vanishes, Acts, Sends, HomeInv
  <2>4. ASSUME ~Connect, ~Take, ~\E i \in Ids : Appears(i) \/ Vanishes(i) \/ Acts(i)
        PROVE  UNCHANGED <<where, room>>
    BY <1>1, <2>4, ActorEffects, HandleEffects DEF Next, OpenDevMap, Disconnect, LoadMap,
       serverVars, vars
  <2> QED
    BY <2>1, <2>2, <2>3, <2>4 DEF HomeInv
<1> SUFFICES ASSUME NotLate', screen' = "login" \/ travel' = "login",
                    where' = "game" \/ Asked("C_ENTER_GAME")'
             PROVE  Asked("C_LEAVE_GAME")'
  BY <1>2 DEF HomeInv
<1>3. /\ NotLate /\ Chain /\ MenuInv
      /\ screen = "login" \/ travel = "login" =>
           (where = "game" \/ Asked("C_ENTER_GAME") => Asked("C_LEAVE_GAME"))
  BY <1>1, NotLateBefore DEF NotLate, PipeInv, TalkInv, HomeInv
<1>4. CASE Connect \/ OpenDevMap
  BY <1>3, <1>4 DEF Connect, OpenDevMap, World!ConnectToGameServer, World!OpenDevMap,
     World!Running
<1>5. CASE Disconnect
  <2>1. Asks("C_LEAVE_GAME") /\ session
    BY <1>1, <1>5 DEF Disconnect, World!DisconnectFromGameServer, Known
  <2> QED
    BY <1>1, <2>1, AskedAfterAsks DEF Requests
<1>6. CASE LoadMap
  <2>1. travel = "login" /\ UNCHANGED <<up, where>>
    BY <1>1, <1>6 DEF LoadMap, World!LoadMap, Known, World!TypeOK, serverVars
  <2> QED
    BY <1>3, <2>1 DEF Asked
<1>7. ASSUME NEW a \in Actors, MoveMap(a) \/ SendMove(a) \/ RequestScore(a) \/ Local(a)
      PROVE  Asked("C_LEAVE_GAME")'
  <2>1. UNCHANGED <<screen, travel, where>> /\ travel = "none"
    BY <1>1, <1>7, ActorEffects
  <2>2. CASE up' = up
    BY <1>3, <2>1, <2>2 DEF Asked
  <2>3. CASE up' # up
    BY <1>1, <1>3, <1>7, <2>1, <2>3, AvatarTalks
  <2> QED
    BY <2>2, <2>3
<1>8. CASE HandlePacket
  BY <1>1, <1>3, <1>8, HandleEffects DEF Asked
<1>9. CASE Take
  <2>1. UNCHANGED <<screen, travel>> /\ Head(up) \in Requests
    BY <1>1, <1>9, AfterTail DEF Take, worldVars, Channels
  <2>2. where = "game" \/ Asked("C_ENTER_GAME")
    BY <1>1, <1>3, <1>9, <2>1, ChainTake, AskedAfterTake DEF Requests, InGame
  <2>3. Head(up) # "C_LEAVE_GAME"
    <3>1. Head(up) = "C_LEAVE_GAME" => where' = "none" /\ up' = <<>>
      BY <1>1, <1>3, <1>9, ChainTake
    <3> QED
      BY <3>1 DEF Asked
  <2> QED
    BY <1>1, <1>3, <1>9, <2>1, <2>2, <2>3, AskedAfterTake
<1>10. ASSUME NEW i \in Ids, Appears(i) \/ Vanishes(i) \/ Acts(i) PROVE Asked("C_LEAVE_GAME")'
  <2>1. UNCHANGED <<screen, travel, up, where>>
    BY <1>1, <1>10, SendsEffects DEF worldVars
  <2> QED
    BY <1>3, <2>1 DEF Asked
<1>11. CASE UNCHANGED vars
  BY <1>3, <1>11 DEF vars, worldVars, serverVars, Asked
<1> QED
  BY <1>4, <1>5, <1>6, <1>7, <1>8, <1>9, <1>10, <1>11 DEF Next

\* What a handler does to the entries.
LEMMA EntryAfterHandle ==
  ASSUME Channels, World!TypeOK, OwnInv, SortInv, HandlePacket, screen = "game", NEW i \in Ids
  PROVE  /\ Head(down) \in Coming(i) => Entry(i)' # None \/ i \in refused'
         /\ Head(down) \in Going(i) => Entry(i)' = None
         /\ Head(down) \notin Coming(i) \cup Going(i) =>
              Entry(i)' = Entry(i) /\ (i \in refused => i \in refused')
<1> DEFINE p == Head(down)
<1>0. PICK a \in {Address, None} : Dispatch(p, a) /\ refused' = Refused(p, a)
  BY DEF HandlePacket, Yield
<1>1. /\ p \in Packets /\ p.id \in Ids
      /\ p.kind = "S_ENTER_GAME" => p.id \notin EnemyIds
  <2>1. 1 \in DOMAIN down /\ p = down[1]
    BY AfterTail DEF HandlePacket, Channels
  <2> QED
    BY <2>1, HeadType, OwnAssumption DEF HandlePacket, OwnInv
<1>2. /\ p \in Going(i) <=> p.kind = "S_DESPAWN" /\ p.id = i
      /\ p \in Coming(i) <=> p.kind \in {"S_SPAWN", "S_ENTER_GAME"} /\ p.id = i
  BY <1>1, ComingFacts
<1>3. /\ players \in [Ids -> Actors \cup {None}] /\ enemys \in [Ids -> Actors \cup {None}]
      /\ None \notin Actors
  BY WorldAssumption DEF World!TypeOK, World!Maybe
<1>4. /\ Entry(i) = (IF i \in EnemyIds THEN enemys[i] ELSE players[i])
      /\ Entry(i)' = (IF i \in EnemyIds THEN enemys'[i] ELSE players'[i])
  BY DEF Entry, Kind
<1>5. /\ p.kind \in {"S_SPAWN", "S_ENTER_GAME"} /\ p.id = i /\ Entry(i) = None /\ a = None
           => i \in refused'
      /\ p \notin Going(i) /\ i \in refused => i \in refused'
  BY <1>0, <1>2 DEF Refused, Spawning
<1> DEFINE Becomes ==
             /\ p \in Coming(i) => Entry(i)' # None \/ i \in refused'
             /\ p \in Going(i) => Entry(i)' = None
             /\ p \notin Coming(i) \cup Going(i) => Entry(i)' = Entry(i)
<1> HIDE DEF p
<1>6. ASSUME p.kind \in {"S_ENTER_GAME", "S_SPAWN"}, p.id \notin EnemyIds,
             \/ World!HandleEnterGame(p.id, a)
             \/ World!HandleSpawnPlayer(p.id, a)
      PROVE  Becomes
  <2>1. \/ UNCHANGED <<players, enemys>> /\ (players[p.id] # None \/ a = None)
        \/ players' = [players EXCEPT ![p.id] = a] /\ enemys' = enemys /\ a # None
    BY <1>6 DEF World!HandleEnterGame, World!HandleSpawnPlayer, World!SpawnPlayer,
       World!worldVars
  <2> QED
    BY <1>1, <1>2, <1>3, <1>4, <1>5, <1>6, <2>1
<1>7. ASSUME p.kind = "S_SPAWN", p.id \in EnemyIds, World!HandleSpawnEnemy(p.id, a)
      PROVE  Becomes
  <2>1. \/ UNCHANGED <<players, enemys>> /\ (players[p.id] # None \/ a = None)
        \/ enemys' = [enemys EXCEPT ![p.id] = a] /\ players' = players /\ a # None
    BY <1>7 DEF World!HandleSpawnEnemy, World!SpawnEnemy, World!worldVars
  <2>2. players[p.id] = None
    BY <1>1, <1>7 DEF SortInv
  <2> QED
    BY <1>1, <1>2, <1>3, <1>4, <1>5, <1>7, <2>1, <2>2
<1>8. ASSUME p.kind = "S_DESPAWN", p.id \notin EnemyIds, World!HandleDespawnPlayer(p.id)
      PROVE  Becomes
  <2>1. players' = [players EXCEPT ![p.id] = None] /\ enemys' = enemys
    BY <1>8 DEF World!HandleDespawnPlayer, World!DespawnPlayer
  <2> QED
    BY <1>1, <1>2, <1>3, <1>4, <1>8, <2>1
<1>9. ASSUME p.kind = "S_DESPAWN", p.id \in EnemyIds, World!HandleDespawnEnemy(p.id)
      PROVE  Becomes
  <2>1. enemys' = [enemys EXCEPT ![p.id] = None] /\ players' = players
    BY <1>9 DEF World!HandleDespawnEnemy, World!DespawnEnemy
  <2> QED
    BY <1>1, <1>2, <1>3, <1>4, <1>9, <2>1
<1>10. ASSUME p.kind \in {"S_MOVE", "S_AI", "S_SCORE"},
              World!HandleMove(p.id) \/ World!HandleEnemyAi(p.id) \/ World!HandleScore
       PROVE  Becomes
  <2>1. UNCHANGED <<players, enemys>>
    BY <1>10 DEF World!HandleMove, World!HandleEnemyAi, World!HandleScore, World!worldVars
  <2> QED
    BY <1>2, <1>4, <1>10, <2>1
<1>11. Becomes
  BY <1>0, <1>1, <1>6, <1>7, <1>8, <1>9, <1>10 DEF Dispatch, Kind
<1> QED
  BY <1>5, <1>11 DEF p

\* MoveMap takes the other players off the screen, and not the avatar.
LEMMA OthersGo ==
  ASSUME Known, OwnInv, NotLate, NEW a \in Actors, World!MoveMap(a), ~fault', NEW i \in Ids
  PROVE  players'[i] # None <=> players[i] # None /\ i = Own
<1>1. /\ players' = World!Without(players, World!Keys(World!Others))
      /\ players \in [Ids -> Actors \cup {None}] /\ World!Alive(myPlayer)
  BY DEF World!MoveMap, Known, World!TypeOK, World!Maybe
<1>2. actors[myPlayer].id = Own
  BY <1>1 DEF OwnInv, World!Alive
<1>3. \A j \in Ids : players[j] # None => actors[players[j]].id = j
  BY DEF Known
<1>4. \A j \in Ids : World!AsInt(j) = World!AsInt(Own) => j = Own
  BY NarrowAssumption, OwnAssumption DEF World!Key
<1>5. World!Others = {b \in World!Registered(players) :
                        World!AsInt(actors[b].id) # World!AsInt(Own)}
  BY <1>2 DEF World!Others
<1>6. World!Keys(World!Others) = {j \in Ids : players[j] # None /\ j # Own}
  <2>1. ASSUME NEW j \in World!Keys(World!Others)
        PROVE  j \in Ids /\ players[j] # None /\ j # Own
    <3>1. PICK b \in World!Others : j = World!Key(actors[b].id)
      BY <2>1 DEF World!Keys
    <3>2. PICK k \in Ids : players[k] = b /\ b # None
      BY <1>5, <3>1 DEF World!Registered
    <3> QED
      BY <1>3, <1>5, <3>1, <3>2, NarrowAssumption
  <2>2. ASSUME NEW j \in Ids, players[j] # None, j # Own PROVE j \in World!Keys(World!Others)
    <3>1. players[j] \in World!Others /\ World!Key(actors[players[j]].id) = j
      BY <1>3, <1>4, <1>5, <2>2, NarrowAssumption DEF World!Registered
    <3> QED
      BY <3>1 DEF World!Keys
  <2> QED
    BY <2>1, <2>2
<1> QED
  BY <1>1, <1>6 DEF World!Without

\* What is on the way stays, and so does what is on the screen.
LEMMA GoneKept ==
  ASSUME NEW i \in Ids, GoneOf(i), down' = down, Entry(i)' = Entry(i), room' = room,
         Asked("C_ENTER_ROOM")' <=> Asked("C_ENTER_ROOM")
  PROVE  GoneOf(i)'
  BY DEF GoneOf, Coming, Going, Spawn, Despawn

LEMMA ThereKept ==
  ASSUME NEW i \in Ids, ThereOf(i), down' = down,
         Entry(i) # None \/ i \in refused => Entry(i)' # None \/ i \in refused',
         i \in room' => i \in room,
         i = Own \/ (Asked("C_ENTER_ROOM") => Asked("C_ENTER_ROOM")') \/ i \notin room'
  PROVE  ThereOf(i)'
  BY DEF ThereOf, Settles, Coming, Going, Spawn, Despawn

\* A packet is added: it says so when the object comes or goes.
LEMMA GoneAppended ==
  ASSUME NEW i \in Ids, GoneOf(i), down \in Seq(Packets),
         NEW p \in Packets, down' = Append(down, p), Entry(i)' = Entry(i),
         Asked("C_ENTER_ROOM")' <=> Asked("C_ENTER_ROOM"),
         i \notin room' => p \notin Coming(i) /\ (i \notin room \/ p \in Going(i))
  PROVE  GoneOf(i)'
<1>1. ASSUME i \notin room' PROVE Settles(down', Entry(i) = None, Going(i), Coming(i))
  <2>1. p \in Going(i) \/ Settles(down, Entry(i) = None, Going(i), Coming(i))
    BY <1>1 DEF GoneOf
  <2> QED
    BY <1>1, <2>1, SettlesAppend
<1> QED
  BY <1>1 DEF GoneOf, Coming, Going, Spawn, Despawn

LEMMA ThereAppended ==
  ASSUME NEW i \in Ids, ThereOf(i), down \in Seq(Packets),
         NEW p \in Packets, down' = Append(down, p), Entry(i)' = Entry(i), refused' = refused,
         Asked("C_ENTER_ROOM")' <=> Asked("C_ENTER_ROOM"),
         i \in room' => p \notin Going(i) /\ (i \in room \/ p \in Coming(i))
  PROVE  ThereOf(i)'
<1> DEFINE there == Entry(i) # None \/ i \in refused
<1>1. ASSUME i \in room', i = Own \/ ~Asked("C_ENTER_ROOM")'
      PROVE  Settles(down', there, Coming(i), Going(i))
  <2>1. p \in Coming(i) \/ Settles(down, there, Coming(i), Going(i))
    BY <1>1 DEF ThereOf
  <2> HIDE DEF there
  <2> QED
    BY <1>1, <2>1, SettlesAppend
<1>2. Coming(i)' = Coming(i) /\ Going(i)' = Going(i)
  BY DEF Coming, Going, Spawn, Despawn
<1> QED
  BY <1>1, <1>2 DEF ThereOf

\* The first packet is handled.
LEMMA GoneTaken ==
  ASSUME NEW i \in Ids, GoneOf(i), down \in Seq(Packets), down # <<>>, down' = Tail(down),
         room' = room, Asked("C_ENTER_ROOM")' <=> Asked("C_ENTER_ROOM"),
         Head(down) \in Going(i) => Entry(i)' = None,
         Head(down) \notin Coming(i) \cup Going(i) => Entry(i)' = Entry(i),
         i # Own /\ Asked("C_ENTER_ROOM") => Head(down) \notin Coming(i)
  PROVE  GoneOf(i)'
<1>1. Coming(i)' = Coming(i) /\ Going(i)' = Going(i)
  BY DEF Coming, Going, Spawn, Despawn
<1>2. ASSUME i \notin room' PROVE Settles(down', Entry(i)' = None, Going(i), Coming(i))
  <2>1. Settles(down, Entry(i) = None, Going(i), Coming(i))
    BY <1>2 DEF GoneOf
  <2> QED
    BY <2>1, SettlesTail
<1>3. i # Own /\ Asked("C_ENTER_ROOM")' => Entry(i)' = None
  BY DEF GoneOf
<1> QED
  BY <1>1, <1>2, <1>3 DEF GoneOf

LEMMA ThereTaken ==
  ASSUME NEW i \in Ids, ThereOf(i), down \in Seq(Packets), down # <<>>, down' = Tail(down),
         room' = room, Asked("C_ENTER_ROOM")' <=> Asked("C_ENTER_ROOM"),
         Head(down) \in Coming(i) => Entry(i)' # None \/ i \in refused',
         Head(down) \notin Coming(i) \cup Going(i) =>
           Entry(i)' = Entry(i) /\ (i \in refused => i \in refused')
  PROVE  ThereOf(i)'
<1>1. Coming(i)' = Coming(i) /\ Going(i)' = Going(i)
  BY DEF Coming, Going, Spawn, Despawn
<1>2. ASSUME i \in room', i = Own \/ ~Asked("C_ENTER_ROOM")'
      PROVE  Settles(down', Entry(i)' # None \/ i \in refused', Coming(i), Going(i))
  <2>1. Settles(down, Entry(i) # None \/ i \in refused, Coming(i), Going(i))
    BY <1>2 DEF ThereOf
  <2> QED
    BY <2>1, SettlesTail
<1> QED
  BY <1>1, <1>2 DEF ThereOf

\* It is not on the screen and nothing brings it there.
LEMMA GoneSettled ==
  ASSUME NEW i \in Ids,
         i # Own => Entry(i)' = None /\ \A k \in DOMAIN down' : down'[k] \notin Coming(i),
         Own \in room'
  PROVE  GoneOf(i)'
<1>1. Coming(i)' = Coming(i) /\ Going(i)' = Going(i)
  BY DEF Coming, Going, Spawn, Despawn
<1>2. i # Own => Settles(down', Entry(i)' = None, Going(i), Coming(i))
  BY DEF Settles
<1> QED
  BY <1>1, <1>2 DEF GoneOf

LEMMA OwnIsOwn ==
  ASSUME Channels, OwnInv, NEW k \in DOMAIN down
  PROVE  /\ down[k] \in Packets /\ down[k] \notin Going(Own)
         /\ \A i \in Ids : i # Own /\ down[k] \in Coming(i) => down[k] = Spawn(i)
<1>1. down[k] \in Packets
  BY DEF Channels
<1> QED
  BY <1>1, ComingFacts, PacketFacts DEF OwnInv

\* The packets that no object comes or goes with.
LEMMA OtherPackets ==
  ASSUME NEW p \in Packets, p.kind \notin {"S_SPAWN", "S_DESPAWN", "S_ENTER_GAME"}
  PROVE  \A i : p \notin Coming(i) \cup Going(i)
  BY ComingFacts

\* The steps that leave the screen, the room and what is on the way as they are.
LEMMA QuietSteps ==
  ASSUME Channels, NEW a \in Actors, SendMove(a) \/ RequestScore(a) \/ Local(a)
  PROVE  /\ UNCHANGED <<down, where, room, refused>>
         /\ \A i \in Ids : Entry(i)' = Entry(i)
         /\ Asked("C_ENTER_ROOM")' <=> Asked("C_ENTER_ROOM")
<1>1. /\ UNCHANGED <<players, enemys, down, where, room, refused>>
      /\ Asks("C_MOVE") \/ Asks("C_SCORE") \/ up' = up
  BY DEF SendMove, RequestScore, Local, World!SendMove, World!RequestScore, World!Fire,
     World!GetEnemyFromId, World!worldVars, serverVars
<1>2. Asked("C_ENTER_ROOM")' <=> Asked("C_ENTER_ROOM")
  <2>1. CASE up' = up
    BY <2>1 DEF Asked
  <2>2. ASSUME NEW r \in {"C_MOVE", "C_SCORE"}, Asks(r)
        PROVE  Asked("C_ENTER_ROOM")' <=> Asked("C_ENTER_ROOM")
    BY <2>2, AskedAfterAsks DEF Requests
  <2> QED
    BY <1>1, <2>1, <2>2
<1> QED
  BY <1>1, <1>2 DEF Entry

\* What the server says of an object, as it comes, goes or acts.
LEMMA SaysSo ==
  ASSUME Channels, NEW i \in Ids, Appears(i) \/ Vanishes(i) \/ Acts(i)
  PROVE  /\ UNCHANGED <<where, refused, screen, travel, breach>> /\ where = "game"
         /\ \A j \in Ids : Entry(j)' = Entry(j)
         /\ Asked("C_ENTER_ROOM")' <=> Asked("C_ENTER_ROOM")
         /\ \E p \in Packets :
              /\ down' = Append(down, p)
              /\ \A j \in Ids :
                   /\ j \notin room' => p \notin Coming(j) /\ (j \notin room \/ p \in Going(j))
                   /\ j \in room' => p \notin Going(j) /\ (j \in room \/ p \in Coming(j))
<1>1. /\ UNCHANGED <<players, enemys, up, where, refused, screen, travel, breach>>
      /\ where = "game"
  BY DEF Appears, Vanishes, Acts, Sends, worldVars
<1>2. /\ \A j \in Ids : Entry(j)' = Entry(j)
      /\ Asked("C_ENTER_ROOM")' <=> Asked("C_ENTER_ROOM")
  BY <1>1 DEF Entry, Asked
<1> DEFINE Says(p) ==
             /\ p \in Packets /\ down' = Append(down, p)
             /\ \A j \in Ids :
                  /\ j \notin room' => p \notin Coming(j) /\ (j \notin room \/ p \in Going(j))
                  /\ j \in room' => p \notin Going(j) /\ (j \in room \/ p \in Coming(j))
<1>3. CASE Appears(i)
  <2>1. down' = Append(down, Spawn(i)) /\ Spawn(i) \in Packets /\ room' = room \cup {i}
    BY <1>3 DEF Appears, Sends, Spawn, Packet, Packets
  <2>2. \A j : /\ Spawn(i) \notin Going(j)
               /\ Spawn(i) \in Coming(j) <=> j = i
    BY <2>1, ComingFacts, PacketFacts DEF Spawn, Packet
  <2> QED
    BY <1>1, <1>2, <2>1, <2>2
<1>4. CASE Vanishes(i)
  <2>1. down' = Append(down, Despawn(i)) /\ Despawn(i) \in Packets /\ room' = room \ {i}
    BY <1>4 DEF Vanishes, Sends, Despawn, Packet, Packets
  <2>2. \A j : /\ Despawn(i) \notin Coming(j)
               /\ Despawn(i) \in Going(j) <=> j = i
    BY <2>1, ComingFacts DEF Despawn, Packet
  <2> QED
    BY <1>1, <1>2, <2>1, <2>2
<1>5. CASE Acts(i)
  <2>1. PICK kind \in {"S_AI", "S_MOVE"} :
          /\ down' = Append(down, Packet(kind, i)) /\ Packet(kind, i) \in Packets
          /\ Packet(kind, i).kind = kind /\ room' = room
    BY <1>5 DEF Acts, Sends, Packet, Packets
  <2>2. \A j : Packet(kind, i) \notin Coming(j) \cup Going(j)
    BY <2>1, OtherPackets
  <2> QED
    BY <1>1, <1>2, <2>1, <2>2
<1> QED
  BY <1>3, <1>4, <1>5

\* What the server's next step but those and but the room's change does.
LEMMA TakesSo ==
  ASSUME Channels, NotLate, Chain, StartInv, Take, where' = "game"
  PROVE  /\ UNCHANGED <<refused, screen, travel, breach, crossed>>
         /\ \A j \in Ids : Entry(j)' = Entry(j)
         /\ \/ /\ where = "game" /\ UNCHANGED <<room, down>>
               /\ Asked("C_ENTER_ROOM")' <=> Asked("C_ENTER_ROOM")
            \/ where = "game" /\ Asked("C_ENTER_ROOM") /\ room' = {Own} /\ down' = down
            \/ /\ where = "game" /\ room' = room
               /\ Asked("C_ENTER_ROOM")' <=> Asked("C_ENTER_ROOM")
               /\ \E p \in Packets : /\ down' = Append(down, p)
                                     /\ \A j \in Ids : p \notin Coming(j) \cup Going(j)
            \/ /\ room' = {Own} /\ \A j \in Ids : Entry(j) = None
               /\ down' = <<Packet("S_ENTER_GAME", Own)>>
<1>1. /\ UNCHANGED <<players, enemys, refused, screen, travel, breach, crossed>>
      /\ Answer(Head(up)) /\ Head(up) \in Requests /\ Asked(Head(up))
      /\ Head(up) # "C_ENTER_ROOM" => (Asked("C_ENTER_ROOM")' <=> Asked("C_ENTER_ROOM"))
  BY AskedAfterTake, AfterTail DEF Take, worldVars, Channels
<1>2. \A j \in Ids : Entry(j)' = Entry(j)
  BY <1>1 DEF Entry
<1>3. CASE /\ Head(up) = "C_ENTER_GAME" /\ room' = {Own}
           /\ down' = Append(down, Packet("S_ENTER_GAME", Own))
  <2>1. down = <<>> /\ \A j \in Ids : Entry(j) = None
    BY <1>1, <1>3 DEF StartInv, Entry
  <2>2. Append(<<>>, Packet("S_ENTER_GAME", Own)) = <<Packet("S_ENTER_GAME", Own)>>
    OBVIOUS
  <2> QED
    BY <1>1, <1>2, <1>3, <2>1, <2>2
<1>4. CASE /\ Head(up) = "C_SCORE" /\ where = "game" /\ room' = room
           /\ down' = Append(down, Packet("S_SCORE", Own))
  <2>1. /\ Packet("S_SCORE", Own) \in Packets
        /\ \A j \in Ids : Packet("S_SCORE", Own) \notin Coming(j) \cup Going(j)
    BY TakeEffects, OtherPackets DEF Packet
  <2> QED
    BY <1>1, <1>2, <1>4, <2>1
<1>5. CASE Head(up) = "C_ENTER_ROOM" /\ where = "game" /\ room' = {Own} /\ down' = down
  BY <1>1, <1>2, <1>5
<1>6. CASE Head(up) # "C_ENTER_ROOM" /\ where = "game" /\ UNCHANGED <<room, down>>
  BY <1>1, <1>2, <1>6
<1>7. Head(up) = "C_ENTER_ROOM" => "game" \in World!Allowed[Head(up)]
  BY DEF World!Allowed
<1> QED
  BY <1>1, <1>3, <1>4, <1>5, <1>6, <1>7 DEF Answer, serverVars

\* S_ENTER_GAME is the only packet on the way, and brings the avatar.
LEMMA OnlyEnter ==
  ASSUME NEW ps, ps = <<Packet("S_ENTER_GAME", Own)>>
  PROVE  /\ Follows(ps, Coming(Own), 0)
         /\ \A k \in DOMAIN ps : ps[k] \notin Going(Own)
         /\ \A k \in DOMAIN ps, i \in Ids : i # Own => ps[k] \notin Coming(i)
<1>1. DOMAIN ps = {1} /\ Len(ps) = 1 /\ ps[1] = Packet("S_ENTER_GAME", Own)
  OBVIOUS
<1>2. /\ Packet("S_ENTER_GAME", Own) \in Packets
      /\ Packet("S_ENTER_GAME", Own).kind = "S_ENTER_GAME"
      /\ Packet("S_ENTER_GAME", Own).id = Own
  BY OwnAssumption DEF Packet, Packets
<1> QED
  BY <1>1, <1>2, ComingFacts DEF Follows

\* The level and the server's game last: no step that begins or ends one.
LEMMA InLevel ==
  ASSUME PipeInv, [Next]_vars, NotLate', screen' = "game", travel' = "none", where' = "game"
  PROVE  /\ ~Connect /\ ~OpenDevMap /\ ~Disconnect /\ ~LoadMap
         /\ screen = "game" /\ travel = "none"
         /\ Channels /\ Known /\ NotLate /\ Chain /\ StartInv /\ PlayInv /\ OwnInv /\ RoomInv
         /\ World!TypeOK
<1>1. Channels /\ Known /\ World!TypeOK /\ NotLate /\ PlayInv /\ OwnInv /\ RoomInv
  BY NotLateBefore DEF PipeInv, NotLate, Known
<1>2. Chain /\ MenuInv /\ StartInv
  BY <1>1 DEF PipeInv, TalkInv, EnterInv
<1>3. ~Connect /\ ~OpenDevMap /\ ~Disconnect
  BY DEF Connect, OpenDevMap, Disconnect, World!ConnectToGameServer, World!OpenDevMap,
     World!DisconnectFromGameServer
<1>4. ~LoadMap
  BY <1>1, <1>2 DEF LoadMap, World!LoadMap, serverVars, Known, MenuInv
<1>5. screen = "game" /\ travel = "none"
  BY <1>1, <1>3, <1>4, ActorEffects, HandleEffects, TakeEffects, SendsEffects
     DEF Next, worldVars, vars
<1> QED
  BY <1>1, <1>2, <1>3, <1>4, <1>5

LEMMA GoneNext ==
  PipeInv /\ Known' /\ SortInv /\ HomeInv' /\ GoneInv /\ [Next]_vars => GoneInv'
<1> SUFFICES ASSUME PipeInv, Known', SortInv, HomeInv', GoneInv, [Next]_vars,
                    breach' = {}, ~crossed', screen' = "game", travel' = "none", where' = "game"
             PROVE  \A i \in Ids : GoneOf(i)'
  BY DEF GoneInv
<1>1. /\ ~Connect /\ ~OpenDevMap /\ ~Disconnect /\ ~LoadMap
      /\ screen = "game" /\ travel = "none"
      /\ Channels /\ Known /\ NotLate /\ Chain /\ StartInv /\ PlayInv /\ OwnInv /\ RoomInv
      /\ World!TypeOK
  BY InLevel DEF NotLate
<1>2. breach = {} /\ down \in Seq(Packets) /\ ~fault' /\ Own \in room'
  BY <1>1, NotLateBefore DEF Known, Channels, HomeInv
<1>3. ASSUME NEW a \in Actors, MoveMap(a) PROVE \A i \in Ids : GoneOf(i)'
  <2>1. World!MoveMap(a) /\ ~OnTheWay(Spawns) /\ down' = down
    BY <1>1, <1>3, ActorEffects DEF MoveMap
  <2>2. \A i \in Ids : i # Own => Entry(i)' = None
    BY <1>1, <1>2, <2>1, MoveMapClears, OthersGo DEF Entry
  <2>3. ASSUME NEW k \in DOMAIN down', NEW i \in Ids, i # Own PROVE down'[k] \notin Coming(i)
    <3>1. k \in DOMAIN down /\ down[k] \in Packets
      BY <1>2, <2>1
    <3>2. down[k].kind = "S_SPAWN" => down[k] \in Spawns
      BY <3>1 DEF Packets, Spawns
    <3> QED
      BY <1>1, <2>1, <2>3, <3>1, <3>2, OwnIsOwn, PacketFacts DEF OnTheWay
  <2> QED
    BY <1>2, <2>2, <2>3, GoneSettled
<1> SUFFICES ASSUME \A a \in Actors : ~MoveMap(a)
             PROVE  \A i \in Ids : GoneOf(i)'
  BY <1>3
<1>4. ~crossed /\ (where = "game" => \A i \in Ids : GoneOf(i))
  BY <1>1, <1>2, NotCrossedBefore DEF GoneInv
<1>5. ASSUME NEW a \in Actors, SendMove(a) \/ RequestScore(a) \/ Local(a)
      PROVE  \A i \in Ids : GoneOf(i)'
  BY <1>1, <1>4, <1>5, QuietSteps, GoneKept
<1>6. CASE HandlePacket
  <2>1. /\ down # <<>> /\ down' = Tail(down) /\ UNCHANGED <<up, where, room>>
    BY <1>1, <1>6, HandleEffects
  <2>2. /\ 1 \in DOMAIN down /\ Head(down) = down[1]
        /\ Asked("C_ENTER_ROOM")' <=> Asked("C_ENTER_ROOM")
    BY <1>2, <2>1, AfterTail DEF Asked
  <2>3. ASSUME NEW i \in Ids, i # Own, Asked("C_ENTER_ROOM") PROVE Head(down) \notin Coming(i)
    <3>1. Head(down).kind # "S_SPAWN"
      BY <1>2, <1>4, <1>1, <2>2, <2>3 DEF RoomInv, Announced
    <3> QED
      BY <1>1, <2>2, <2>3, <3>1, OwnIsOwn, PacketFacts
  <2> QED
    BY <1>1, <1>2, <1>4, <1>6, <2>1, <2>2, <2>3, EntryAfterHandle, GoneTaken
<1>7. CASE Take
  <2>1. CASE where = "game" /\ Asked("C_ENTER_ROOM") /\ room' = {Own} /\ down' = down
    <3>1. ~Announced("S_SPAWN")
      BY <1>1, <1>2, <1>4, <2>1 DEF RoomInv
    <3>2. ASSUME NEW i \in Ids, i # Own
          PROVE  Entry(i)' = None /\ \A k \in DOMAIN down' : down'[k] \notin Coming(i)
      <4>1. Entry(i)' = None
        BY <1>1, <1>4, <1>7, <2>1, <3>2, TakesSo DEF GoneOf
      <4> QED
        BY <1>1, <2>1, <3>1, <3>2, <4>1, OwnIsOwn, PacketFacts DEF Announced
    <3> QED
      BY <1>2, <3>2, GoneSettled
  <2>2. CASE /\ room' = {Own} /\ \A j \in Ids : Entry(j)' = None
             /\ down' = <<Packet("S_ENTER_GAME", Own)>>
    BY <2>2, OnlyEnter, GoneSettled
  <2>3. ASSUME where = "game", room' = room, Asked("C_ENTER_ROOM")' <=> Asked("C_ENTER_ROOM"),
               NEW p \in Packets, down' = Append(down, p),
               \A j \in Ids : p \notin Coming(j) \cup Going(j)
        PROVE  \A i \in Ids : GoneOf(i)'
    BY <1>1, <1>2, <1>4, <1>7, <2>3, TakesSo, GoneAppended
  <2>4. CASE /\ where = "game" /\ UNCHANGED <<room, down>>
             /\ Asked("C_ENTER_ROOM")' <=> Asked("C_ENTER_ROOM")
    BY <1>1, <1>4, <1>7, <2>4, TakesSo, GoneKept
  <2> QED
    BY <1>1, <1>7, <2>1, <2>2, <2>3, <2>4, TakesSo
<1>8. ASSUME NEW i \in Ids, Appears(i) \/ Vanishes(i) \/ Acts(i)
      PROVE  \A j \in Ids : GoneOf(j)'
  BY <1>1, <1>2, <1>4, <1>8, SaysSo, GoneAppended
<1>9. CASE UNCHANGED vars
  BY <1>4, <1>9, GoneKept DEF vars, worldVars, serverVars, Asked, Entry
<1> QED
  BY <1>1, <1>5, <1>6, <1>7, <1>8, <1>9 DEF Next

LEMMA ThereNext ==
  PipeInv /\ SortInv /\ HomeInv /\ ThereInv /\ [Next]_vars => ThereInv'
<1> SUFFICES ASSUME PipeInv, SortInv, HomeInv, ThereInv, [Next]_vars,
                    NotLate', screen' = "game", travel' = "none", where' = "game"
             PROVE  \A i \in Ids : ThereOf(i)'
  BY DEF ThereInv
<1>1. /\ ~Connect /\ ~OpenDevMap /\ ~Disconnect /\ ~LoadMap
      /\ Channels /\ Known /\ NotLate /\ Chain /\ StartInv /\ PlayInv /\ OwnInv /\ World!TypeOK
      /\ down \in Seq(Packets) /\ screen = "game"
  BY InLevel DEF Channels
<1>2. where = "game" => \A i \in Ids : ThereOf(i)
  BY InLevel DEF ThereInv
<1>3. ASSUME NEW a \in Actors, MoveMap(a) PROVE \A i \in Ids : ThereOf(i)'
  <2>1. /\ World!MoveMap(a) /\ Asks("C_ENTER_ROOM") /\ UNCHANGED <<down, where, room>>
        /\ refused' = refused \cap {Own}
    BY <1>1, <1>3, ActorEffects DEF MoveMap, serverVars
  <2>2. Asked("C_ENTER_ROOM")'
    <3>1. session
      BY <1>1, <2>1 DEF World!MoveMap, World!Running, PlayInv, Known
    <3> QED
      BY <1>1, <2>1, <3>1, AskedAfterAsks DEF Requests
  <2>3. \A i \in Ids : i # Own => ThereOf(i)'
    BY <2>2 DEF ThereOf
  <2>4. Entry(Own) # None => Entry(Own)' # None
    <3>1. Entry(Own) = players[Own] /\ Entry(Own)' = players'[Own]
      BY OwnAssumption DEF Entry, Kind
    <3>2. CASE fault'
      BY <2>1, <3>1, <3>2 DEF World!MoveMap
    <3>3. CASE ~fault'
      BY <1>1, <2>1, <3>1, <3>3, OthersGo, OwnAssumption
    <3> QED
      BY <3>2, <3>3
  <2>5. ThereOf(Own)'
    BY <1>2, <2>1, <2>4, OwnAssumption, ThereKept
  <2> QED
    BY <2>3, <2>5
<1>4. ASSUME NEW a \in Actors, SendMove(a) \/ RequestScore(a) \/ Local(a)
      PROVE  \A i \in Ids : ThereOf(i)'
  BY <1>1, <1>2, <1>4, QuietSteps, ThereKept
<1>5. CASE HandlePacket
  <2>1. /\ down # <<>> /\ down' = Tail(down) /\ UNCHANGED <<up, where, room>>
        /\ Asked("C_ENTER_ROOM")' <=> Asked("C_ENTER_ROOM")
    BY <1>1, <1>5, HandleEffects DEF Asked
  <2> QED
    BY <1>1, <1>2, <1>5, <2>1, EntryAfterHandle, ThereTaken
<1>6. CASE Take
  <2>1. CASE where = "game" /\ Asked("C_ENTER_ROOM") /\ room' = {Own} /\ down' = down
    <3>1. ThereOf(Own)'
      <4>1. Own \in room
        BY <2>1 DEF HomeInv
      <4> QED
        BY <1>1, <1>2, <1>6, <2>1, <4>1, OwnAssumption, TakesSo, ThereKept
    <3> QED
      BY <2>1, <3>1 DEF ThereOf
  <2>2. CASE room' = {Own} /\ down' = <<Packet("S_ENTER_GAME", Own)>>
    <3>1. Coming(Own)' = Coming(Own) /\ Going(Own)' = Going(Own)
      BY DEF Coming, Going, Spawn, Despawn
    <3>2. ThereOf(Own)'
      BY <2>2, <3>1, OnlyEnter DEF ThereOf, Settles
    <3> QED
      BY <2>2, <3>2 DEF ThereOf
  <2>3. ASSUME where = "game", room' = room, Asked("C_ENTER_ROOM")' <=> Asked("C_ENTER_ROOM"),
               NEW p \in Packets, down' = Append(down, p),
               \A j \in Ids : p \notin Coming(j) \cup Going(j)
        PROVE  \A i \in Ids : ThereOf(i)'
    BY <1>1, <1>2, <1>6, <2>3, TakesSo, ThereAppended
  <2>4. CASE /\ where = "game" /\ UNCHANGED <<room, down>>
             /\ Asked("C_ENTER_ROOM")' <=> Asked("C_ENTER_ROOM")
    BY <1>1, <1>2, <1>6, <2>4, TakesSo, ThereKept
  <2> QED
    BY <1>1, <1>6, <2>1, <2>2, <2>3, <2>4, TakesSo
<1>7. ASSUME NEW i \in Ids, Appears(i) \/ Vanishes(i) \/ Acts(i)
      PROVE  \A j \in Ids : ThereOf(j)'
  BY <1>1, <1>2, <1>7, SaysSo, ThereAppended
<1>8. CASE UNCHANGED vars
  BY <1>2, <1>8, ThereKept DEF vars, worldVars, serverVars, Asked, Entry
<1> QED
  BY <1>1, <1>3, <1>4, <1>5, <1>6, <1>7, <1>8 DEF Next

-----------------------------------------------------------------------------
(* The avatar is asked for, on its way, or there. *)

\* The avatar has been asked for, and not been made.
Due == Asked("C_ENTER_GAME") \/ Announced("S_ENTER_GAME")

\* It finds an empty level, and is made or refused.  Once made it stays: nothing the
\* server says is about it, and a map change spares it.
GivenInv ==
  NotLate =>
    /\ Due => /\ \A a \in Actors : actors[a].kind = "none"
              /\ \A i \in Ids : enemys[i] = None
    /\ screen = "game" /\ travel = "none" => entered \/ Due \/ Own \in refused
    /\ entered /\ travel = "none" => myPlayer # None /\ actors[myPlayer].kind = "mine"

\* S_ENTER_GAME makes the avatar, unless it is refused.
LEMMA AvatarMade ==
  ASSUME Channels, Known, OwnInv, StartInv, ~entered, HandlePacket, screen = "game",
         Head(down).kind = "S_ENTER_GAME"
  PROVE  \/ entered' /\ myPlayer' # None /\ actors'[myPlayer'].kind = "mine"
         \/ ~entered' /\ Own \in refused'
<1> DEFINE p == Head(down)
<1>1. PICK a \in {Address, None} : Dispatch(p, a) /\ refused' = Refused(p, a)
  BY DEF HandlePacket, Yield
<1>2. 1 \in DOMAIN down /\ p = down[1]
  BY AfterTail DEF HandlePacket, Channels
<1>3. p.id = Own /\ Own \in Ids /\ players[Own] = None
  BY <1>2, OwnAssumption DEF OwnInv, StartInv, Announced
<1>4. World!HandleEnterGame(Own, a)
  BY <1>1, <1>3 DEF Dispatch
<1>5. CASE a = None
  <2>1. ~entered'
    BY <1>4, <1>5 DEF World!HandleEnterGame
  <2>2. Entry(Own) = None
    BY <1>3, OwnAssumption DEF Entry, Kind
  <2>3. Own \in refused'
    BY <1>1, <1>3, <1>5, <2>2 DEF Refused, Spawning
  <2> QED
    BY <2>1, <2>3
<1>6. CASE a # None
  <2>1. /\ actors' = [actors EXCEPT ![a] = [kind |-> "mine", id |-> Own]]
        /\ myPlayer' = a /\ entered' /\ a \in Actors
    BY <1>3, <1>4, <1>6, AddressFacts DEF World!HandleEnterGame, World!SpawnPlayer
  <2>2. actors'[a].kind = "mine"
    BY <2>1 DEF Known, World!TypeOK
  <2> QED
    BY <1>6, <2>1, <2>2
<1> QED
  BY <1>5, <1>6

\* Who has been refused stays so: nothing despawns the avatar.
LEMMA OwnRefused ==
  ASSUME Channels, OwnInv, Own \in refused
  PROVE  /\ HandlePacket => Own \in refused'
         /\ \A a \in Actors :
              MoveMap(a) \/ SendMove(a) \/ RequestScore(a) \/ Local(a) => Own \in refused'
<1>1. ASSUME HandlePacket PROVE Own \in refused'
  <2>1. 1 \in DOMAIN down /\ Head(down) = down[1]
    BY <1>1, AfterTail DEF HandlePacket, Channels
  <2> QED
    BY <1>1, <2>1 DEF HandlePacket, Refused, OwnInv
<1> QED
  BY <1>1 DEF MoveMap, SendMove, RequestScore, Local

\* No packet but S_ENTER_GAME is about it.
LEMMA AvatarLives ==
  ASSUME Channels, Known, OwnInv, SortInv, NotLate, HandlePacket,
         Head(down).kind # "S_ENTER_GAME", myPlayer # None, actors[myPlayer].kind = "mine"
  PROVE  myPlayer' = myPlayer /\ actors'[myPlayer].kind = "mine"
<1> DEFINE p == Head(down)
<1>0. PICK a \in {Address, None} : Dispatch(p, a)
  BY DEF HandlePacket, Yield
<1>1. /\ p.id \in Ids
      /\ p.kind = "S_DESPAWN" => p.id # Own
  <2>1. 1 \in DOMAIN down /\ p = down[1]
    BY AfterTail DEF HandlePacket, Channels
  <2> QED
    BY <2>1, HeadType DEF HandlePacket, OwnInv
<1> HIDE DEF p
<1>2. /\ myPlayer \in Actors /\ actors[myPlayer].id = Own
      /\ actors \in [Actors -> World!Slots]
  BY DEF Known, World!TypeOK, World!Maybe, OwnInv
<1>3. /\ players[p.id] # None => actors[players[p.id]].id = p.id
      /\ enemys[p.id] # None => actors[enemys[p.id]].id = p.id
  BY <1>1 DEF Known
<1>4. ASSUME World!HandleSpawnPlayer(p.id, a) \/ World!HandleSpawnEnemy(p.id, a)
      PROVE  myPlayer' = myPlayer /\ actors'[myPlayer] = actors[myPlayer]
  <2>1. a # None => World!Fresh(a)
    BY AddressFacts
  <2> QED
    BY <1>2, <1>4, <2>1 DEF World!HandleSpawnPlayer, World!HandleSpawnEnemy,
       World!SpawnPlayer, World!SpawnEnemy, World!Fresh, World!worldVars
<1>5. ASSUME p.kind = "S_DESPAWN", World!HandleDespawnPlayer(p.id) \/ World!HandleDespawnEnemy(p.id)
      PROVE  myPlayer' = myPlayer /\ actors'[myPlayer] = actors[myPlayer]
  <2>1. players[p.id] # myPlayer /\ enemys[p.id] # myPlayer
    BY <1>1, <1>2, <1>3, <1>5
  <2> QED
    BY <1>2, <1>5, <2>1 DEF World!HandleDespawnPlayer, World!HandleDespawnEnemy,
       World!DespawnPlayer, World!DespawnEnemy
<1>6. ASSUME World!HandleMove(p.id) \/ World!HandleEnemyAi(p.id) \/ World!HandleScore
      PROVE  myPlayer' = myPlayer /\ actors'[myPlayer] = actors[myPlayer]
  BY <1>6 DEF World!HandleMove, World!HandleEnemyAi, World!HandleScore, World!worldVars
<1>7. p.kind # "S_ENTER_GAME"
  BY DEF p
<1>8. myPlayer' = myPlayer /\ actors'[myPlayer] = actors[myPlayer]
  BY <1>0, <1>4, <1>5, <1>6, <1>7 DEF Dispatch
<1> QED
  BY <1>8

\* A map change spares it, for another's id is another int.
LEMMA AvatarSpared ==
  ASSUME Known, OwnInv, SortInv, NotLate, NEW a \in Actors, World!MoveMap(a),
         myPlayer # None, actors[myPlayer].kind = "mine"
  PROVE  myPlayer' = myPlayer /\ actors'[myPlayer].kind = "mine"
<1>1. /\ myPlayer' = myPlayer /\ myPlayer \in Actors /\ actors[myPlayer].id = Own
      /\ None \notin Actors
  BY WorldAssumption DEF World!MoveMap, Known, World!TypeOK, World!Maybe, OwnInv
<1>2. \A j \in Ids : /\ players[j] # None => actors[players[j]].id = j
                     /\ enemys[j] # None => actors[enemys[j]].id = j
  BY DEF Known
<1>3. CASE fault'
  BY <1>1, <1>3 DEF World!MoveMap
<1>4. CASE ~fault'
  <2> DEFINE P == World!Keys(World!Others)
             E == World!Keys(World!Registered(enemys))
  <2>1. actors' = [b \in Actors |->
          IF \/ \E i \in Ids : players[i] = b /\ i \in P
             \/ \E i \in Ids : enemys[i] = b /\ i \in E
          THEN World!NoActor ELSE actors[b]]
    BY <1>4 DEF World!MoveMap
  <2>2. Own \notin P
    <3> SUFFICES ASSUME NEW b \in World!Others, World!Key(actors[b].id) = Own PROVE FALSE
      BY DEF World!Keys
    <3>1. PICK j \in Ids : players[j] = b /\ b # None
      BY DEF World!Others, World!Registered
    <3>2. actors[b].id = Own
      BY <1>2, <3>1, NarrowAssumption
    <3> QED
      BY <1>1, <3>2 DEF World!Others
  <2> HIDE DEF P, E
  <2>3. ASSUME NEW i \in Ids, players[i] = myPlayer PROVE i \notin P
    BY <1>1, <1>2, <2>2, <2>3
  <2>4. ASSUME NEW i \in Ids PROVE enemys[i] # myPlayer
    BY <1>1, <1>2, OwnAssumption DEF SortInv
  <2> QED
    BY <1>1, <2>1, <2>3, <2>4
<1> QED
  BY <1>3, <1>4

\* What the steps do to the request and its answer.
LEMMA DueAfterAsks ==
  ASSUME Channels, UNCHANGED down,
         up' = up \/ \E r \in Requests \ {"C_ENTER_GAME"} : Asks(r)
  PROVE  Due' <=> Due
<1>1. Announced("S_ENTER_GAME")' <=> Announced("S_ENTER_GAME")
  BY DEF Announced
<1>2. CASE up' = up
  BY <1>1, <1>2 DEF Due, Asked
<1>3. ASSUME NEW r \in Requests \ {"C_ENTER_GAME"}, Asks(r) PROVE Due' <=> Due
  BY <1>1, <1>3, AskedAfterAsks DEF Due
<1> QED
  BY <1>2, <1>3

LEMMA DueAfterTake ==
  ASSUME Channels, Chain, Take
  PROVE  Due' <=> Due
<1>1. /\ up # <<>> /\ Answer(Head(up)) /\ Asked(Head(up))
      /\ Asked("C_ENTER_GAME")' => Asked("C_ENTER_GAME")
      /\ Asked("C_ENTER_GAME") /\ Head(up) # "C_ENTER_GAME" => Asked("C_ENTER_GAME")'
      /\ Packet("S_ENTER_GAME", Own) \in Packets /\ Packet("S_SCORE", Own) \in Packets
      /\ Packet("S_ENTER_GAME", Own).kind = "S_ENTER_GAME"
      /\ Packet("S_SCORE", Own).kind = "S_SCORE"
  BY AskedAfterTake, TakeEffects DEF Take, Packet
<1>2. CASE Head(up) = "C_ENTER_GAME"
  <2>1. where \in World!Allowed["C_ENTER_GAME"]
    BY <1>1, <1>2, HeadWelcome
  <2>2. down' = Append(down, Packet("S_ENTER_GAME", Own))
    BY <1>1, <1>2, <2>1 DEF Answer
  <2> QED
    BY <1>1, <1>2, <2>2, AnnouncedAfterAppend DEF Due
<1>3. CASE Head(up) # "C_ENTER_GAME"
  <2>1. Announced("S_ENTER_GAME")' <=> Announced("S_ENTER_GAME")
    <3>1. CASE down' = down
      BY <3>1 DEF Announced
    <3>2. CASE down' = Append(down, Packet("S_SCORE", Own))
      BY <1>1, <3>2, AnnouncedAfterAppend
    <3> QED
      BY <1>3, <3>1, <3>2, TakeEffects
  <2> QED
    BY <1>1, <1>3, <2>1 DEF Due
<1> QED
  BY <1>2, <1>3

LEMMA DueAfterSends ==
  ASSUME Channels, NEW i \in Ids, Appears(i) \/ Vanishes(i) \/ Acts(i)
  PROVE  Due' <=> Due
<1>1. PICK kind \in {"S_SPAWN", "S_DESPAWN", "S_AI", "S_MOVE"} :
        /\ down' = Append(down, Packet(kind, i)) /\ Packet(kind, i) \in Packets
        /\ Packet(kind, i).kind = kind /\ up' = up
  BY SendsEffects DEF Packet
<1>2. Announced("S_ENTER_GAME")' <=> Announced("S_ENTER_GAME")
  BY <1>1, AnnouncedAfterAppend
<1> QED
  BY <1>1, <1>2 DEF Due, Asked

LEMMA GivenNext == PipeInv /\ SortInv /\ GivenInv /\ [Next]_vars => GivenInv'
<1> SUFFICES ASSUME PipeInv, SortInv, GivenInv, [Next]_vars, NotLate'
             PROVE  /\ Due' => /\ \A a \in Actors : actors'[a].kind = "none"
                               /\ \A i \in Ids : enemys'[i] = None
                    /\ screen' = "game" /\ travel' = "none" =>
                         entered' \/ Due' \/ Own \in refused'
                    /\ entered' /\ travel' = "none" =>
                         myPlayer' # None /\ actors'[myPlayer'].kind = "mine"
  BY DEF GivenInv
<1>1. /\ Channels /\ Known /\ PlayInv /\ OwnInv /\ TalkInv /\ World!TypeOK
      /\ NotLate /\ Chain /\ MenuInv /\ StartInv /\ StartInv'
  <2>1. Channels /\ Known /\ PlayInv /\ OwnInv /\ TalkInv /\ EnterInv /\ World!TypeOK
    BY DEF PipeInv, Known
  <2>2. NotLate
    BY <2>1, NotLateBefore DEF NotLate
  <2> QED
    BY <2>1, <2>2, StartNext DEF TalkInv, EnterInv
<1>2. /\ Due => /\ \A a \in Actors : actors[a].kind = "none"
                /\ \A i \in Ids : enemys[i] = None
      /\ screen = "game" /\ travel = "none" => entered \/ Due \/ Own \in refused
      /\ entered /\ travel = "none" => myPlayer # None /\ actors[myPlayer].kind = "mine"
  BY <1>1 DEF GivenInv
<1>3. CASE Connect
  <2>1. up' = <<"C_LOGIN">> /\ down' = <<>> /\ ~entered /\ screen' # "game" /\ entered' = entered
    BY <1>1, <1>3 DEF Connect, World!ConnectToGameServer, MenuInv
  <2>2. ~Due'
    BY <2>1 DEF Due, Asked, Announced
  <2> QED
    BY <2>1, <2>2
<1>4. CASE OpenDevMap \/ Disconnect
  <2>1. /\ travel' # "none" /\ UNCHANGED <<actors, down>>
        /\ enemys' = enemys \/ enemys' = [i \in Ids |-> None]
        /\ up' = up \/ Asks("C_LEAVE_GAME")
    BY <1>4 DEF OpenDevMap, Disconnect, World!OpenDevMap, World!DisconnectFromGameServer,
       World!worldVars
  <2>2. Due' <=> Due
    BY <1>1, <2>1, DueAfterAsks DEF Requests
  <2> QED
    BY <1>2, <2>1, <2>2
<1>5. CASE LoadMap
  <2>1. /\ \A a \in Actors : actors'[a].kind = "none"
        /\ \A i \in Ids : enemys'[i] = None
        /\ ~entered' /\ screen' = travel
    BY <1>1, <1>5 DEF LoadMap, World!LoadMap, World!NoActor, Known
  <2>2. screen' = "game" => Asked("C_ENTER_GAME")'
    <3>1. ASSUME travel = "game" PROVE Asks("C_ENTER_GAME") /\ session
      BY <1>1, <1>5, <3>1 DEF LoadMap, Known
    <3> QED
      BY <1>1, <2>1, <3>1, AskedAfterAsks DEF Requests
  <2> QED
    BY <2>1, <2>2 DEF Due
<1>6. ASSUME NEW a \in Actors, MoveMap(a) \/ SendMove(a) \/ RequestScore(a) \/ Local(a)
      PROVE  /\ Due' => /\ \A b \in Actors : actors'[b].kind = "none"
                        /\ \A i \in Ids : enemys'[i] = None
             /\ screen' = "game" /\ travel' = "none" =>
                  entered' \/ Due' \/ Own \in refused'
             /\ entered' /\ travel' = "none" =>
                  myPlayer' # None /\ actors'[myPlayer'].kind = "mine"
  <2>1. /\ UNCHANGED <<screen, travel, entered, down>>
        /\ up' = up \/ \E r \in Requests \ {"C_ENTER_GAME"} : Asks(r)
    BY <1>1, <1>6, ActorEffects DEF Requests
  <2>2. Due' <=> Due
    BY <1>1, <2>1, DueAfterAsks
  <2>3. Own \in refused => Own \in refused'
    BY <1>1, <1>6, OwnRefused
  <2>4. CASE UNCHANGED <<actors, enemys, myPlayer>>
    BY <1>2, <2>1, <2>2, <2>3, <2>4
  <2>5. CASE World!MoveMap(a)
    BY <1>1, <1>2, <2>1, <2>2, <2>3, <2>5, ActorsKept, AvatarSpared
  <2> QED
    BY <1>6, <2>4, <2>5 DEF MoveMap, SendMove, RequestScore, Local, World!SendMove,
       World!RequestScore, World!Fire, World!GetEnemyFromId, World!worldVars
<1>7. CASE HandlePacket
  <2>1. /\ down # <<>> /\ travel = "none" /\ screen = "game"
        /\ UNCHANGED <<screen, travel, up>>
        /\ entered => entered'
        /\ entered' # entered => Head(down).kind = "S_ENTER_GAME"
        /\ Announced(Head(down).kind)
        /\ Announced("S_ENTER_GAME")' => Announced("S_ENTER_GAME")
        /\ Head(down) = down[1] /\ 1 \in DOMAIN down
    BY <1>1, <1>7, HandleEffects, AnnouncedAfterTail, AfterTail DEF NotLate, HandlePacket, Channels
  <2>2. CASE Due
    <3>1. Head(down).kind = "S_ENTER_GAME"
      BY <1>1, <2>1, <2>2 DEF Due, StartInv, Announced
    <3>2. ~entered
      BY <1>1, <2>2 DEF Due, StartInv
    <3>3. \/ entered' /\ myPlayer' # None /\ actors'[myPlayer'].kind = "mine"
          \/ ~entered' /\ Own \in refused'
      BY <1>1, <1>7, <2>1, <3>1, <3>2, AvatarMade
    <3>4. ~Due'
      <4>1. ~Asked("C_ENTER_GAME")'
        BY <1>1, <2>1, <3>1 DEF StartInv, Asked
      <4>2. ASSUME NEW k \in DOMAIN down', down'[k].kind = "S_ENTER_GAME" PROVE FALSE
        <5>1. k + 1 \in DOMAIN down /\ down'[k] = down[k + 1] /\ k + 1 # 1
          BY <1>1, <1>7, AfterTail DEF HandlePacket, Channels
        <5> QED
          BY <1>1, <4>2, <5>1 DEF StartInv
      <4> QED
        BY <4>1, <4>2 DEF Due, Announced
    <3> QED
      BY <3>3, <3>4
  <2>3. CASE ~Due
    <3>1. ~Due' /\ Head(down).kind # "S_ENTER_GAME"
      BY <2>1, <2>3 DEF Due, Asked
    <3>2. entered' = entered
      BY <2>1, <3>1
    <3>3. Own \in refused => Own \in refused'
      BY <1>1, <1>7, OwnRefused
    <3> QED
      BY <1>1, <1>2, <1>7, <2>1, <2>3, <3>1, <3>2, <3>3, AvatarLives
  <2> QED
    BY <2>2, <2>3
<1>8. CASE Take
  BY <1>1, <1>2, <1>8, DueAfterTake DEF Take, worldVars
<1>9. ASSUME NEW i \in Ids, Appears(i) \/ Vanishes(i) \/ Acts(i)
      PROVE  UNCHANGED worldVars /\ UNCHANGED refused /\ (Due' <=> Due)
  BY <1>1, <1>9, SendsEffects, DueAfterSends DEF Appears, Vanishes, Acts, Sends
<1>10. CASE UNCHANGED vars
  BY <1>2, <1>10 DEF vars, worldVars, Due, Asked, Announced
<1>11. CASE \E i \in Ids : Appears(i) \/ Vanishes(i) \/ Acts(i)
  BY <1>2, <1>9, <1>11 DEF worldVars
<1> QED
  BY <1>3, <1>4, <1>5, <1>6, <1>7, <1>8, <1>10, <1>11 DEF Next

-----------------------------------------------------------------------------
(* The theorems. *)

LEMMA PipeInit ==
  Init => PlayInv /\ TalkInv /\ EnterInv /\ OwnInv /\ FirstGameInv /\ RoomInv
<1> SUFFICES ASSUME Init
             PROVE  PlayInv /\ TalkInv /\ EnterInv /\ OwnInv /\ FirstGameInv /\ RoomInv
  OBVIOUS
<1>1. /\ up = <<>> /\ down = <<>> /\ where = "none" /\ screen = "login" /\ travel = "none"
      /\ actors = [a \in Actors |-> World!NoActor] /\ enemys = [i \in Ids |-> None]
      /\ myPlayer = None /\ ~entered /\ ~bullet /\ breach = {}
      /\ players = [i \in Ids |-> None]
  BY DEF Init, World!Init
<1>2. PlayInv
  BY <1>1 DEF PlayInv, World!NoActor
<1>3. TalkInv /\ EnterInv
  BY <1>1 DEF TalkInv, Chain, MenuInv, EnterInv, StartInv, Asked, Announced
<1>4. OwnInv /\ FirstGameInv
  BY <1>1 DEF OwnInv, FirstGameInv, NotLate, Asked, Announced
<1>5. RoomInv
  BY <1>1 DEF RoomInv, RoomOf, Asked, Announced
<1> QED
  BY <1>2, <1>3, <1>4, <1>5

LEMMA PipeNext == PipeInv /\ Known' /\ [Next]_vars => PipeInv'
<1> SUFFICES ASSUME PipeInv, Known', [Next]_vars PROVE PipeInv'
  OBVIOUS
<1>1. /\ Channels /\ Known /\ PlayInv /\ TalkInv /\ EnterInv /\ OwnInv /\ FirstGameInv /\ RoomInv
      /\ World!TypeOK
  BY DEF PipeInv, Known
<1> QED
  BY <1>1, ChannelsNext, StepIsWorld, PlayNext, TalkNext, EnterNext, OwnNext, FirstGameNext,
     RoomNext DEF PipeInv

LEMMA PipeAlways == Spec => []PipeInv
<1>1. Init /\ Known => PipeInv
  BY ChannelsInit, PipeInit DEF PipeInv
<1> QED
  BY <1>1, PipeNext, KnownAlways, PTL DEF Spec

\* Null and dangling pointers take a late packet or an enemy spawned twice, and
\* no packet is late before the player has left a game.
THEOREM SafeTheorem == Spec => []SafeUntilLeft
<1>1. PipeInv => SafeUntilLeft
  <2> SUFFICES ASSUME PipeInv PROVE SafeUntilLeft
    OBVIOUS
  <2>1. "late" \in breach => left
    BY DEF PipeInv, FirstGameInv, NotLate
  <2>2. ASSUME fault, NotLate PROVE "enemyAgain" \in breach
    BY <2>2 DEF PipeInv, Known, EnterInv
  <2> QED
    BY <2>1, <2>2 DEF SafeUntilLeft, NotLate
<1> QED
  BY <1>1, PipeAlways, PTL

\* While no packet has been late, every request the server takes is one it has a
\* use for, whatever was on the way when the player clicked.
THEOREM WelcomeTheorem == Spec => RequestsWelcome
<1>1. PipeInv /\ [Next]_vars =>
        [ (Take /\ Head(up) # "C_LOGIN" /\ where \notin World!Allowed[Head(up)])
          => "late" \in breach ]_vars
  BY HeadWelcome DEF PipeInv, TalkInv, NotLate, Take
<1> QED
  BY <1>1, PipeAlways, PTL DEF Spec, RequestsWelcome

\* Of all that GameWorld asks of the server, a server that behaves first fails to
\* have its packets in time, or spawns an enemy twice after an S_SPAWN of the old
\* room has outlived a map change.
THEOREM FirstBreachTheorem == Spec => FirstBreach
<1>1. ASSUME PipeInv, [Next]_vars, breach = {}, breach' # {}, "late" \notin breach'
      PROVE  crossed /\ breach' = {"enemyAgain"}
  <2>1. Channels /\ Known /\ OwnInv /\ NotLate /\ StartInv /\ RoomInv
    BY <1>1 DEF PipeInv, EnterInv, NotLate
  <2>2. HandlePacket
    BY <1>1, <2>1, ActorEffects DEF Next, Connect, OpenDevMap, Disconnect, LoadMap, Take,
       Appears, Vanishes, Acts, Sends, vars, worldVars, World!ConnectToGameServer,
       World!OpenDevMap, World!DisconnectFromGameServer, World!LoadMap
  <2>3. breach' = {"enemyAgain"}
    BY <1>1, <2>1, <2>2, BreachAfterHandle
  <2>4. /\ Head(down).kind = "S_SPAWN" /\ Kind(Head(down).id) = "enemy"
        /\ enemys[Head(down).id] # None
    BY <1>1, <2>1, <2>2, <2>3, BreachAfterHandle
  <2> DEFINE i == Head(down).id
  <2>5. ASSUME ~crossed PROVE FALSE
    <3>1. /\ 1 \in DOMAIN down /\ down[1] = Head(down) /\ Head(down) \in Packets
          /\ i \in EnemyIds \cap Ids
      BY <2>1, <2>2, <2>4, AfterTail, HeadType DEF Channels, HandlePacket, Kind
    <3>2. down[1] = Spawn(i)
      BY <2>4, <3>1, PacketFacts
    <3>3. Despawned(i, 1, 1)
      BY <1>1, <2>1, <2>4, <2>5, <3>1, <3>2 DEF RoomInv, RoomOf, Spawn
    <3> QED
      BY <3>2, <3>3, PacketFacts DEF Despawned, Despawn
  <2> QED
    BY <2>1, <2>3, <2>5 DEF Channels
<1>2. PipeInv /\ [Next]_vars =>
        [ (breach = {} /\ breach' # {})
          => "late" \in breach' \/ (crossed /\ breach' = {"enemyAgain"}) ]_vars
  BY <1>1
<1> QED
  BY <1>2, PipeAlways, PTL DEF Spec, FirstBreach

\* GameWorld's assumptions, discharged: whatever the delay does, ids stay narrow,
\* the avatar comes once and is not despawned, so that a late packet apart only an
\* enemy can be spawned twice, and then no request is out of order.
OnlyAgain == NotLate => breach \subseteq {"enemyAgain"} /\ phase # "error"

THEOREM OnlyAgainTheorem == Spec => []OnlyAgain
<1>1. World!Spec => Proven!Spec
  BY SameInit, SameSteps, PTL DEF World!Spec, Proven!Spec
<1>2. Proven!Spec => []Proven!OnlyLate
  BY WorldAssumption, Proven!OnlyLateTheorem
<1>3. PipeInv /\ Proven!OnlyLate => OnlyAgain
  BY DEF PipeInv, EnterInv, NotLate, Proven!OnlyLate, OnlyAgain
<1> QED
  BY <1>1, <1>2, <1>3, ClientIsWorld, PipeAlways, PTL

ScreenInv == SortInv /\ HomeInv /\ GoneInv /\ ThereInv /\ GivenInv

LEMMA ScreenAlways == Spec => [](PipeInv /\ OneAvatar /\ ScreenInv)
<1>1. Init => ScreenInv
  BY DEF Init, World!Init, SortInv, HomeInv, GoneInv, ThereInv, GivenInv, Due, Asked, Announced,
     ScreenInv
<1>2. PipeInv /\ Known' /\ ScreenInv /\ [Next]_vars => ScreenInv'
  BY SortNext, HomeNext, GoneNext, ThereNext, GivenNext DEF PipeInv, Known, ScreenInv
<1> QED
  BY <1>1, <1>2, PipeAlways, KnownAlways, OneAvatarAlways, PTL DEF Spec

\* The safety part of AvatarGiven, and more of it, for an enemy spawned twice does
\* no harm: in the game's level the avatar lives, or C_ENTER_GAME is on its way up
\* or S_ENTER_GAME on its way down, or SpawnActor has refused the avatar.  What is
\* left to liveness is that the two arrive.
AvatarOnItsWay ==
  NotLate /\ screen = "game" /\ travel = "none" =>
    \/ Asked("C_ENTER_GAME")
    \/ OnTheWay({Packet("S_ENTER_GAME", Own)})
    \/ World!Alive(myPlayer) /\ actors[myPlayer] = [kind |-> "mine", id |-> Own]
    \/ Own \in refused

THEOREM AvatarOnItsWayTheorem == Spec => []AvatarOnItsWay
<1>1. ASSUME PipeInv, GivenInv PROVE AvatarOnItsWay
  <2> SUFFICES ASSUME NotLate, screen = "game", travel = "none", ~Asked("C_ENTER_GAME"),
                      ~OnTheWay({Packet("S_ENTER_GAME", Own)}), Own \notin refused
               PROVE  World!Alive(myPlayer) /\ actors[myPlayer] = [kind |-> "mine", id |-> Own]
    BY DEF AvatarOnItsWay
  <2>1. Channels /\ OwnInv /\ World!TypeOK
    BY <1>1 DEF PipeInv, Known
  <2>2. ~Announced("S_ENTER_GAME")
    <3> SUFFICES ASSUME NEW k \in DOMAIN down, down[k].kind = "S_ENTER_GAME" PROVE FALSE
      BY DEF Announced
    <3>1. down[k] \in Packets /\ down[k].id = Own
      BY <2>1 DEF Channels, OwnInv
    <3>2. down[k] = Packet("S_ENTER_GAME", Own)
      BY <3>1 DEF Packets, Packet
    <3> QED
      BY <3>2 DEF OnTheWay
  <2>3. myPlayer # None /\ actors[myPlayer].kind = "mine" /\ myPlayer \in Actors
    BY <1>1, <2>1, <2>2 DEF GivenInv, Due, World!TypeOK, World!Maybe
  <2>4. actors[myPlayer].id = Own /\ actors[myPlayer] \in World!Slots
    BY <2>1, <2>3 DEF OwnInv, World!TypeOK
  <2>5. actors[myPlayer] = [kind |-> "mine", id |-> Own]
    BY <2>3, <2>4 DEF World!Slots, World!NoActor
  <2> QED
    BY <2>3, <2>5 DEF World!Alive
<1> QED
  BY <1>1, ScreenAlways, PTL DEF ScreenInv

\* At any time the screen lacks nothing of the room but what a packet on the way
\* brings or SpawnActor has refused, the others of a room about to be left aside;
\* and it shows nothing more but what a packet on the way takes off it, unless an
\* S_SPAWN of the old room has outlived a map change.
NothingMissed ==
  NotLate /\ screen = "game" /\ travel = "none" /\ where = "game" =>
    \A i \in Ids :
      /\ i \in room /\ Entry(i) = None =>
           \/ i \in refused
           \/ i # Own /\ Asked("C_ENTER_ROOM")
           \/ OnTheWay(Coming(i))
      /\ breach = {} /\ ~crossed /\ i \notin room /\ Entry(i) # None => OnTheWay(Going(i))

THEOREM NothingMissedTheorem == Spec => []NothingMissed
<1>1. ASSUME PipeInv, ScreenInv PROVE NothingMissed
  <2>1. \A some : Follows(down, some, 0) => OnTheWay(some)
    BY <1>1 DEF PipeInv, Channels, Follows, OnTheWay
  <2> QED
    BY <1>1, <2>1 DEF NothingMissed, ScreenInv, GoneInv, GoneOf, ThereInv, ThereOf, Settles
<1> QED
  BY <1>1, ScreenAlways, PTL

\* When all that was on the way has been handled the screen shows the server's
\* room: each S_SPAWN, S_DESPAWN and map change has had its effect, for any
\* number of objects, but for those that SpawnActor has refused since they came in.
LEMMA WorldIsRoom ==
  ASSUME PipeInv, ScreenInv, up = <<>>, down = <<>>, where = "game", NotLate
  PROVE  /\ screen = "game" /\ travel = "none" /\ (entered \/ Own \in refused)
         /\ \A i \in room : Entry(i) = None => i \in refused
         /\ breach = {} /\ ~crossed =>
              /\ {i \in Ids : players[i] # None} \subseteq room \ EnemyIds
              /\ {i \in Ids : enemys[i] # None} \subseteq room \cap EnemyIds
<1>1. MenuInv /\ room \subseteq Ids /\ Known /\ ~Due
      /\ ~Asked("C_ENTER_ROOM") /\ ~Asked("C_LEAVE_GAME")
  BY DEF PipeInv, TalkInv, Channels, Asked, Due, Announced
<1>2. screen = "game" /\ travel = "none"
  BY <1>1 DEF MenuInv, HomeInv, Known, World!TypeOK, ScreenInv
<1>3. \A i \in Ids : ThereOf(i) /\ (breach = {} /\ ~crossed => GoneOf(i))
  BY <1>2 DEF GoneInv, ThereInv, ScreenInv
<1>4. \A some : ~Follows(down, some, 0)
  BY DEF Follows
<1>5. \A i \in room : Entry(i) = None => i \in refused
  BY <1>1, <1>3, <1>4 DEF ThereOf, Settles
<1>6. ASSUME breach = {}, ~crossed, NEW i \in Ids, Entry(i) # None PROVE i \in room
  BY <1>3, <1>4, <1>6 DEF GoneOf, Settles
<1>7. entered \/ Own \in refused
  BY <1>1, <1>2 DEF GivenInv, ScreenInv
<1> QED
  BY <1>2, <1>5, <1>6, <1>7 DEF Entry, Kind, SortInv, ScreenInv

THEOREM SameWorldTheorem == Spec => []SameWorld
<1>1. PipeInv /\ ScreenInv => SameWorld
  BY WorldIsRoom DEF SameWorld, NotLate
<1> QED
  BY <1>1, ScreenAlways, PTL

\* ... and so do the actors themselves: each is of an object of the room, as what it
\* is, and the only one of that object; whose actor is not there has been refused one;
\* and the avatar is the player's own unless it has been refused.
ScreenIsRoom ==
  (up = <<>> /\ down = <<>> /\ where = "game" /\ breach = {} /\ ~crossed) =>
    LET seen == {a \in Actors : World!Alive(a)}
        ids  == {actors[a].id : a \in seen}
    IN  /\ ids \subseteq room /\ room \ ids \subseteq refused
        /\ \A a, b \in seen : actors[a].id = actors[b].id => a = b
        /\ \A a \in seen : /\ actors[a].kind = "enemy" <=> actors[a].id \in EnemyIds
                           /\ actors[a].kind = "mine" => actors[a].id = Own /\ a = myPlayer
        /\ Own \notin refused =>
             myPlayer \in seen /\ actors[myPlayer] = [kind |-> "mine", id |-> Own]

THEOREM ScreenIsRoomTheorem == Spec => []ScreenIsRoom
<1>1. World!Spec => Proven!Spec
  BY SameInit, SameSteps, PTL DEF World!Spec, Proven!Spec
<1>2. Proven!Spec => []Proven!MapsAreScreen
  BY WorldAssumption, Proven!MapsTheorem
<1>3. ASSUME PipeInv, OneAvatar, ScreenInv, Proven!MapsAreScreen
      PROVE  ScreenIsRoom
  <2> SUFFICES ASSUME up = <<>>, down = <<>>, where = "game", breach = {}, ~crossed
               PROVE  LET seen == {a \in Actors : World!Alive(a)}
                          ids  == {actors[a].id : a \in seen}
                      IN  /\ ids \subseteq room /\ room \ ids \subseteq refused
                          /\ \A a, b \in seen : actors[a].id = actors[b].id => a = b
                          /\ \A a \in seen :
                               /\ actors[a].kind = "enemy" <=> actors[a].id \in EnemyIds
                               /\ actors[a].kind = "mine" => actors[a].id = Own /\ a = myPlayer
                          /\ Own \notin refused =>
                               /\ myPlayer \in seen
                               /\ actors[myPlayer] = [kind |-> "mine", id |-> Own]
    BY DEF ScreenIsRoom
  <2> DEFINE seen == {a \in Actors : World!Alive(a)}
             ids  == {actors[a].id : a \in seen}
  <2>1. /\ travel = "none" /\ (entered \/ Own \in refused)
        /\ \A i \in room : Entry(i) = None => i \in refused
        /\ {i \in Ids : players[i] # None} \subseteq room \ EnemyIds
        /\ {i \in Ids : enemys[i] # None} \subseteq room \cap EnemyIds
    BY <1>3, WorldIsRoom DEF NotLate
  <2>2. \A a \in Actors, i \in Ids :
          /\ players[i] = a <=> actors[a].kind \in {"mine", "other"} /\ actors[a].id = i
          /\ enemys[i] = a <=> actors[a].kind = "enemy" /\ actors[a].id = i
    BY <1>3, <2>1 DEF Proven!MapsAreScreen, Proven!IsPlayer
  <2>3. /\ players \in [Ids -> Actors \cup {None}] /\ enemys \in [Ids -> Actors \cup {None}]
        /\ myPlayer \in Actors \cup {None} /\ actors \in [Actors -> World!Slots]
        /\ room \subseteq Ids /\ None \notin Actors /\ OwnInv /\ NotLate
    BY <1>3, WorldAssumption
       DEF PipeInv, Known, Channels, World!TypeOK, World!Maybe, NotLate
  <2>4. \A a \in seen : /\ a \in Actors /\ actors[a].id \in Ids
                        /\ actors[a].kind \in {"mine", "other", "enemy"}
    BY <2>3 DEF World!Alive, World!Slots, World!NoActor
  <2>5. \A a \in Actors : actors[a].kind \in {"mine", "other", "enemy"} => a \in seen
    BY <2>3 DEF World!Alive
  <2> HIDE DEF seen
  <2>6. \A a \in seen : /\ actors[a].id \in room
                        /\ actors[a].kind = "enemy" <=> actors[a].id \in EnemyIds
    BY <2>1, <2>2, <2>3, <2>4
  <2>7. ASSUME NEW i \in room, i \notin refused PROVE \E a \in seen : actors[a].id = i
    <3>1. Entry(i) \in Actors
      BY <2>1, <2>3, <2>7 DEF Entry
    <3>2. actors[Entry(i)].id = i /\ actors[Entry(i)].kind \in {"mine", "other", "enemy"}
      BY <2>2, <2>3, <3>1 DEF Entry
    <3> QED
      BY <2>5, <3>1, <3>2
  <2>8. ASSUME NEW a \in seen, NEW b \in seen, actors[a].id = actors[b].id PROVE a = b
    BY <2>2, <2>4, <2>6, <2>8
  <2>9. ASSUME Own \notin refused
        PROVE  myPlayer \in seen /\ actors[myPlayer] = [kind |-> "mine", id |-> Own]
    <3>1. myPlayer \in Actors /\ actors[myPlayer].kind = "mine"
      BY <1>3, <2>1, <2>3, <2>9 DEF GivenInv, ScreenInv
    <3>2. actors[myPlayer].id = Own /\ actors[myPlayer] \in World!Slots
      BY <2>3, <3>1 DEF OwnInv
    <3> QED
      BY <2>5, <3>1, <3>2 DEF World!Slots, World!NoActor
  <2>10. ASSUME NEW a \in seen, actors[a].kind = "mine"
         PROVE  actors[a].id = Own /\ a = myPlayer
    BY <1>3, <2>3, <2>4, <2>10 DEF OneAvatar, OwnInv
  <2> QED
    BY <2>6, <2>7, <2>8, <2>9, <2>10 DEF seen
<1> QED
  BY <1>1, <1>2, <1>3, ClientIsWorld, ScreenAlways, PTL

===============================================================================
