----------------------------- MODULE PlayerMotion -----------------------------
(***************************************************************************)
(* One player seen from two clients.  On its own client it is the avatar,  *)
(* which reports its position from time to time (Game/S1MyPlayer.cpp); on  *)
(* another one it is an image, which walks to the last position it has     *)
(* heard of (Game/S1Player.cpp, S1GameInstance.cpp).  In between are two   *)
(* TCP connections and the server.                                         *)
(*                                                                         *)
(* Positions are points of a line and times are counted in ticks of an     *)
(* integer clock; a frame takes one or more of them.                       *)
(***************************************************************************)
EXTENDS Integers, Sequences

CONSTANTS
  Length,       \* the line is 0..Length
  Speed,        \* how far an image walks per unit of time, 600.f in the code
  SendDelay,    \* MOVE_PACKET_SEND_DELAY
  MaxFrame,     \* the longest frame
  Push,         \* how far SpawnActor may put an actor from where it was asked to
  MaxInFlight   \* bound: packets on one connection

ASSUME LineAssumption ==
  Length \in Nat /\ Push \in Nat /\ Speed \in Nat \ {0}
ASSUME TimeAssumption ==
  SendDelay \in Nat \ {0} /\ MaxFrame \in Nat \ {0} /\ MaxInFlight \in Nat

VARIABLES
  avatar,   \* the avatar's location
  posInfo,  \* its PosInfo
  timer,    \* MovePacketSendTimer
  since,    \* history: time since the last C_MOVE, or since the avatar is there
  gap,      \* history: the time between the last two C_MOVEs
  up,       \* C_MOVEs on their way to the server
  known,    \* where the server thinks the player is
  watched,  \* the other client is in the same room, says the server
  down,     \* packets about the player on their way to the other client
  image,    \* the image's location
  dest,     \* its DestInfo
  refused,  \* history: SpawnActor has made no image for the last S_SPAWN
  walked    \* history: the part of the line where the avatar has been

vars == <<avatar, posInfo, timer, since, gap, up, known, watched, down, image, dest, refused,
          walked>>
ownVars    == <<avatar, posInfo, timer, since, gap, walked>>
imageVars  == <<image, dest, refused>>
serverVars == <<known, watched>>

Line    == 0..Length
NoImage == -1
Frames  == 1..MaxFrame

Smaller(x, y) == IF x < y THEN x ELSE y
Larger(x, y)  == IF x > y THEN x ELSE y

Init ==
  /\ avatar \in Line /\ posInfo = avatar /\ known = avatar
  /\ walked = [lo |-> avatar, hi |-> avatar]
  /\ timer = SendDelay /\ since = 0 /\ gap = SendDelay
  /\ up = <<>> /\ down = <<>>
  /\ watched = FALSE /\ image = NoImage /\ dest = NoImage /\ refused = FALSE

-----------------------------------------------------------------------------
(* The player's own client. *)

\* The player's input.
Walk(p) ==
  /\ p # avatar /\ avatar' = p
  /\ walked' = [lo |-> Smaller(walked.lo, p), hi |-> Larger(walked.hi, p)]
  /\ UNCHANGED <<posInfo, timer, since, gap, up, serverVars, down, imageVars>>

\* Mutant: the timer is only set when the avatar has moved.
AvatarTick_KeepsTimer(dt) ==
  /\ timer - dt <= 0 => Len(up) < MaxInFlight
  /\ posInfo' = avatar
  /\ IF timer - dt <= 0
     THEN /\ timer' = IF posInfo = avatar THEN timer - dt ELSE SendDelay
          /\ since' = 0 /\ gap' = since + dt
          /\ up' = Append(up, posInfo')
     ELSE /\ timer' = timer - dt
          /\ since' = since + dt
          /\ UNCHANGED <<gap, up>>
  /\ UNCHANGED <<avatar, walked, serverVars, down, imageVars>>

\* AS1MyPlayer::Tick: the position is noted, and reported when it is time to.
AvatarTick(dt) ==
  /\ timer - dt <= 0 => Len(up) < MaxInFlight
  /\ posInfo' = avatar
  /\ IF timer - dt <= 0
     THEN /\ timer' = SendDelay
          /\ since' = 0 /\ gap' = since + dt
          /\ up' = Append(up, posInfo')
     ELSE /\ timer' = timer - dt
          /\ since' = since + dt
          /\ UNCHANGED <<gap, up>>
  /\ UNCHANGED <<avatar, walked, serverVars, down, imageVars>>

-----------------------------------------------------------------------------
(* The server. *)

Packet(kind, at) == [kind |-> kind, at |-> at]

Relay ==
  /\ up # <<>> /\ Len(down) < MaxInFlight
  /\ known' = Head(up) /\ up' = Tail(up)
  /\ down' = IF watched THEN Append(down, Packet("S_MOVE", Head(up))) ELSE down
  /\ UNCHANGED <<ownVars, watched, imageVars>>

Join ==
  /\ ~watched /\ watched' = TRUE /\ Len(down) < MaxInFlight
  /\ down' = Append(down, Packet("S_SPAWN", known))
  /\ UNCHANGED <<ownVars, up, known, imageVars>>

Leave ==
  /\ watched /\ watched' = FALSE /\ Len(down) < MaxInFlight
  /\ down' = Append(down, Packet("S_DESPAWN", known))
  /\ UNCHANGED <<ownVars, up, known, imageVars>>

-----------------------------------------------------------------------------
(* The other client. *)

Arriving(kind) == down # <<>> /\ Head(down).kind = kind /\ down' = Tail(down)

\* Mutant: DestInfo is left as the constructor made it.
HandleSpawn_NoDest(p) ==
  /\ Arriving("S_SPAWN")
  /\ \/ image # NoImage /\ UNCHANGED imageVars
     \/ image = NoImage /\ refused' = TRUE /\ UNCHANGED <<image, dest>>
     \/ /\ image = NoImage /\ p - Head(down).at \in -Push..Push
        /\ image' = Head(down).at /\ dest' = 0 /\ refused' = FALSE
  /\ UNCHANGED <<ownVars, up, serverVars>>

\* SpawnPlayer: the duplicate check; SpawnActor, which may yield null; or the
\* actor gets to p, which BeginPlay takes for its destination, and from there to
\* the place the packet says.
HandleSpawn(p) ==
  /\ Arriving("S_SPAWN")
  /\ \/ image # NoImage /\ UNCHANGED imageVars
     \/ image = NoImage /\ refused' = TRUE /\ UNCHANGED <<image, dest>>
     \/ /\ image = NoImage /\ p - Head(down).at \in -Push..Push
        /\ image' = Head(down).at /\ dest' = p /\ refused' = FALSE
  /\ UNCHANGED <<ownVars, up, serverVars>>

HandleDespawn ==
  /\ Arriving("S_DESPAWN")
  /\ image' = NoImage /\ dest' = NoImage /\ refused' = FALSE
  /\ UNCHANGED <<ownVars, up, serverVars>>

\* Dropped where there is no image: whoever was refused stays away.
HandleMove ==
  /\ Arriving("S_MOVE")
  /\ dest' = IF image = NoImage THEN dest ELSE Head(down).at
  /\ UNCHANGED <<ownVars, up, serverVars, image, refused>>

\* Mutant: the step is not cut to the distance.
MoveDist_Uncut(dt) == Speed * dt

\* How far an image walks in a frame.
MoveDist(dt) ==
  LET DistToDest == Larger(dest - image, image - dest) IN
  Smaller(Speed * dt, DistToDest)

\* AS1Player::Tick of a player that is not the client's own.
ImageTick(dt) ==
  /\ image # NoImage
  /\ image' = IF image <= dest THEN image + MoveDist(dt) ELSE image - MoveDist(dt)
  /\ UNCHANGED <<ownVars, up, serverVars, down, dest, refused>>

-----------------------------------------------------------------------------
OwnTick   == \E dt \in Frames : AvatarTick(dt)
OtherTick == \E dt \in Frames : ImageTick(dt)
Handle    == (\E p \in Line : HandleSpawn(p)) \/ HandleDespawn \/ HandleMove

Next ==
  \/ \E p \in Line : Walk(p)
  \/ OwnTick \/ OtherTick \/ Handle
  \/ Relay \/ Join \/ Leave

SafeSpec == Init /\ [][Next]_vars

\* Both clients' worlds tick, each tick handles packets, the server and TCP
\* pass them on.
Spec == SafeSpec /\ WF_vars(OwnTick) /\ WF_vars(OtherTick) /\ WF_vars(Handle) /\ WF_vars(Relay)

-----------------------------------------------------------------------------
Packets == [kind : {"S_SPAWN", "S_DESPAWN", "S_MOVE"}, at : Line]

TypeOK ==
  /\ avatar \in Line /\ posInfo \in Line /\ known \in Line
  /\ timer \in 1..SendDelay /\ since \in Nat /\ gap \in Nat
  /\ up \in Seq(Line) /\ down \in Seq(Packets)
  /\ Len(up) <= MaxInFlight /\ Len(down) <= MaxInFlight
  /\ watched \in BOOLEAN
  /\ image \in Line \cup {NoImage} /\ dest \in Line \cup {NoImage} /\ refused \in BOOLEAN
  /\ walked \in [lo : Line, hi : Line]

\* However long the frames are, C_MOVEs are at least the delay of 0.2 s apart, and
\* never farther than that and a frame; a report is never due longer than that.
ReportsRegular ==
  /\ gap >= SendDelay /\ gap < SendDelay + MaxFrame
  /\ since < SendDelay

\* An image is somewhere the player has been or between two such places, up to
\* what SpawnActor may push it: no long frame carries it past its destination, also
\* where that changes under way or the image is made in the middle of a walk.
OnPath ==
  image # NoImage => image \in (walked.lo - Push)..(walked.hi + Push)

\* When the player comes to rest, so does the image, in the same place, whatever
\* was on its way and wherever the image was made; unless SpawnActor refused it,
\* after which nothing asks for it again.
CatchesUp ==
  \A p \in Line : <>[](avatar = p /\ watched) => <>[](image = p) \/ <>[]refused

=============================================================================
