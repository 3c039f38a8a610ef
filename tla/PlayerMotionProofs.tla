-------------------------- MODULE PlayerMotionProofs --------------------------
(***************************************************************************)
(* What PlayerMotion does for every speed, frame time, delay and line.     *)
(***************************************************************************)
EXTENDS PlayerMotion, TLAPS

\* Where the avatar has been, from the first such place to the last.
Been(x) == walked.lo <= x /\ x <= walked.hi

\* All that anybody knows of the player's place is a place it has been at.
KnownInv ==
  /\ Been(avatar) /\ Been(posInfo) /\ Been(known)
  /\ \A i \in 1..Len(up) : Been(up[i])
  /\ \A i \in 1..Len(down) : Been(down[i].at)

\* An image is on its way from such a place to another, or from or to where it
\* was pushed.
Near(x) == walked.lo - Push <= x /\ x <= walked.hi + Push

ImageInv == image # NoImage => dest # NoImage /\ Near(image) /\ Near(dest)

\* The timer is what is left of the delay.
TimerInv ==
  /\ timer + since = SendDelay
  /\ gap >= SendDelay /\ gap < SendDelay + MaxFrame

IInv == TypeOK /\ KnownInv /\ ImageInv /\ TimerInv

-----------------------------------------------------------------------------
LEMMA Constants ==
  /\ Length \in Nat /\ Push \in Nat /\ Speed \in Nat /\ SendDelay \in Nat /\ SendDelay > 0
  /\ MaxFrame \in Nat /\ MaxInFlight \in Nat /\ Line \subseteq Nat /\ NoImage \notin Line
  BY LineAssumption, TimeAssumption DEF Line, NoImage

LEMMA InitInv == ASSUME Init PROVE IInv
<1> USE Constants
<1>1. TypeOK
  <2>1. Len(up) <= MaxInFlight /\ Len(down) <= MaxInFlight
    BY DEF Init
  <2>2. up \in Seq(Line) /\ down \in Seq(Packets)
    BY DEF Init
  <2>3. timer \in 1..SendDelay /\ since \in Nat /\ gap \in Nat
    BY DEF Init
  <2> QED
    BY <2>1, <2>2, <2>3 DEF Init, TypeOK
<1>2. KnownInv
  BY DEF Init, KnownInv, Been
<1>3. ImageInv /\ TimerInv
  BY TimeAssumption DEF Init, ImageInv, TimerInv
<1> QED
  BY <1>1, <1>2, <1>3 DEF IInv

LEMMA WalkInv == ASSUME IInv, NEW p \in Line, Walk(p) PROVE IInv'
<1> USE Constants
<1>1. /\ avatar' = p
      /\ walked' = [lo |-> Smaller(walked.lo, p), hi |-> Larger(walked.hi, p)]
      /\ UNCHANGED <<posInfo, timer, since, gap, up, known, watched, down, image, dest,
                  refused>>
  BY DEF Walk, serverVars, imageVars
<1>2. walked.lo \in Nat /\ walked.hi \in Nat /\ p \in Nat /\ walked.lo \in Line /\ walked.hi \in Line
  BY DEF IInv, TypeOK
<1>3. /\ walked'.lo <= walked.lo /\ walked'.lo <= p /\ walked.hi <= walked'.hi /\ p <= walked'.hi
      /\ walked' \in [lo : Line, hi : Line] /\ walked'.lo \in Nat /\ walked'.hi \in Nat
  BY <1>1, <1>2 DEF Smaller, Larger
<1>4. TypeOK'
  BY <1>1, <1>3 DEF IInv, TypeOK
<1>6. KnownInv'
  <2>1. Been(avatar)'
    BY <1>1, <1>3 DEF Been
  <2>2. Been(posInfo)' /\ Been(known)'
    BY <1>1, <1>2, <1>3 DEF IInv, TypeOK, KnownInv, Been
  <2>3. ASSUME NEW i \in 1..Len(up) PROVE Been(up[i])'
    <3>1. up \in Seq(Line) /\ Been(up[i])
      BY DEF IInv, TypeOK, KnownInv
    <3>2. up[i] \in Line
      BY <3>1
    <3>3. up[i] \in Nat
      BY <3>2
    <3> QED
      BY <1>1, <1>2, <1>3, <3>1, <3>3 DEF Been
  <2>4. ASSUME NEW i \in 1..Len(down) PROVE Been(down[i].at)'
    <3>1. down \in Seq(Packets) /\ Been(down[i].at)
      BY DEF IInv, TypeOK, KnownInv
    <3>2. down[i] \in Packets
      BY <3>1
    <3>3. down[i].at \in Nat
      BY <3>2 DEF Packets
    <3> QED
      BY <1>1, <1>2, <1>3, <3>1, <3>3 DEF Been
  <2> QED
    BY <1>1, <2>1, <2>2, <2>3, <2>4 DEF KnownInv
<1>7. ImageInv'
  <2>1. CASE image = NoImage
    BY <1>1, <2>1 DEF ImageInv
  <2>2. CASE image # NoImage
    <3>1. image \in Line /\ dest \in Line /\ dest # NoImage /\ Near(image) /\ Near(dest)
      BY <2>2 DEF IInv, TypeOK, ImageInv
    <3>2. image \in Nat /\ dest \in Nat
      BY <3>1
    <3> QED
      BY <1>1, <1>2, <1>3, <3>1, <3>2 DEF ImageInv, Near
  <2> QED
    BY <2>1, <2>2
<1> QED
  BY <1>1, <1>4, <1>6, <1>7 DEF IInv, TimerInv

LEMMA AvatarTickInv == ASSUME IInv, NEW dt \in Frames, AvatarTick(dt) PROVE IInv'
<1> USE Constants
<1>1. /\ posInfo' = avatar
      /\ UNCHANGED <<avatar, walked, known, watched, down, image, dest, refused>>
      /\ dt \in Nat /\ dt > 0 /\ dt <= MaxFrame
  BY DEF AvatarTick, Frames, serverVars, imageVars
<1>2. timer \in 1..SendDelay /\ since \in Nat /\ avatar \in Line /\ up \in Seq(Line)
  BY DEF IInv, TypeOK
<1>3. CASE timer - dt <= 0
  <2>1. /\ timer' = SendDelay /\ since' = 0 /\ gap' = since + dt
        /\ up' = Append(up, avatar) /\ Len(up) < MaxInFlight
    BY <1>1, <1>3 DEF AvatarTick
  <2>2. TimerInv' /\ timer' \in 1..SendDelay /\ since' \in Nat /\ gap' \in Nat
    BY <1>1, <1>2, <1>3, <2>1 DEF IInv, TimerInv
  <2>3. /\ up' \in Seq(Line) /\ Len(up') = Len(up) + 1 /\ Len(up') <= MaxInFlight
        /\ \A i \in 1..Len(up') : up'[i] = IF i <= Len(up) THEN up[i] ELSE avatar
    BY <1>2, <2>1
  <2>4. TypeOK'
    BY <1>1, <1>2, <2>2, <2>3 DEF IInv, TypeOK
  <2>5. KnownInv'
    <3>1. ASSUME NEW i \in 1..Len(up') PROVE Been(up'[i])
      BY <1>2, <2>3 DEF IInv, KnownInv
    <3> QED
      BY <1>1, <3>1 DEF IInv, KnownInv, Been
  <2> QED
    BY <1>1, <2>2, <2>4, <2>5 DEF IInv, ImageInv, Near
<1>4. CASE ~(timer - dt <= 0)
  <2>1. timer' = timer - dt /\ since' = since + dt /\ UNCHANGED <<gap, up>>
    BY <1>4 DEF AvatarTick
  <2>2. TimerInv' /\ timer' \in 1..SendDelay /\ since' \in Nat
    BY <1>1, <1>2, <1>4, <2>1 DEF IInv, TimerInv
  <2>3. TypeOK'
    BY <1>1, <1>2, <2>1, <2>2 DEF IInv, TypeOK
  <2> QED
    BY <1>1, <2>1, <2>2, <2>3 DEF IInv, ImageInv, Near, KnownInv, Been
<1> QED
  BY <1>3, <1>4

\* A packet about a place where the player has been joins those on their way.
LEMMA Sent ==
  ASSUME IInv, NEW kind \in {"S_SPAWN", "S_DESPAWN", "S_MOVE"}, NEW at \in Line, Been(at),
         Len(down) < MaxInFlight
  PROVE  LET d == Append(down, Packet(kind, at)) IN
         /\ d \in Seq(Packets) /\ Len(d) <= MaxInFlight
         /\ \A i \in 1..Len(d) : Been(d[i].at)
<1> DEFINE d == Append(down, Packet(kind, at))
<1>1. Packet(kind, at) \in Packets /\ down \in Seq(Packets) /\ Packet(kind, at).at = at
  BY DEF Packet, Packets, IInv, TypeOK
<1>2. /\ d \in Seq(Packets) /\ Len(d) = Len(down) + 1
      /\ \A i \in 1..Len(d) : d[i] = IF i <= Len(down) THEN down[i] ELSE Packet(kind, at)
  BY <1>1
<1>3. ASSUME NEW i \in 1..Len(d) PROVE Been(d[i].at)
  BY <1>1, <1>2 DEF IInv, KnownInv
<1> QED
  BY <1>1, <1>2, <1>3, Constants

LEMMA RelayInv == ASSUME IInv, Relay PROVE IInv'
<1> USE Constants
<1>1. /\ UNCHANGED <<avatar, posInfo, timer, since, gap, walked, watched, image, dest, refused>>
      /\ known' = Head(up) /\ up' = Tail(up) /\ up # <<>> /\ Len(down) < MaxInFlight
      /\ down' = IF watched THEN Append(down, Packet("S_MOVE", Head(up))) ELSE down
  BY DEF Relay, ownVars, imageVars
<1>2. up \in Seq(Line) /\ Len(up) <= MaxInFlight /\ down \in Seq(Packets) /\ Len(down) <= MaxInFlight
  BY DEF IInv, TypeOK
<1>3. /\ Head(up) = up[1] /\ Head(up) \in Line /\ 1 \in 1..Len(up)
      /\ up' \in Seq(Line) /\ Len(up') <= MaxInFlight
      /\ \A i \in 1..Len(up') : i + 1 \in 1..Len(up) /\ up'[i] = up[i + 1]
  BY <1>1, <1>2
<1>4. Been(Head(up)) /\ \A i \in 1..Len(up') : Been(up'[i])
  BY <1>3 DEF IInv, KnownInv
<1>5. /\ down' \in Seq(Packets) /\ Len(down') <= MaxInFlight
      /\ \A i \in 1..Len(down') : Been(down'[i].at)
  BY <1>1, <1>2, <1>3, <1>4, Sent DEF IInv, KnownInv
<1>6. TypeOK'
  BY <1>1, <1>3, <1>5 DEF IInv, TypeOK
<1>7. KnownInv'
  BY <1>1, <1>4, <1>5 DEF IInv, KnownInv, Been
<1> QED
  BY <1>1, <1>6, <1>7 DEF IInv, ImageInv, Near, TimerInv

LEMMA RoomInv == ASSUME IInv, Join \/ Leave PROVE IInv'
<1> USE Constants
<1>1. PICK kind \in {"S_SPAWN", "S_DESPAWN", "S_MOVE"} :
        down' = Append(down, Packet(kind, known))
  BY DEF Join, Leave
<1>2. /\ UNCHANGED <<avatar, posInfo, timer, since, gap, walked, known, up, image, dest, refused>>
      /\ watched' \in BOOLEAN /\ Len(down) < MaxInFlight
  BY DEF Join, Leave, ownVars, imageVars
<1>3. known \in Line /\ Been(known)
  BY DEF IInv, TypeOK, KnownInv
<1>4. /\ down' \in Seq(Packets) /\ Len(down') <= MaxInFlight
      /\ \A i \in 1..Len(down') : Been(down'[i].at)
  BY <1>1, <1>2, <1>3, Sent
<1>5. TypeOK'
  BY <1>2, <1>4 DEF IInv, TypeOK
<1>6. KnownInv'
  BY <1>2, <1>4 DEF IInv, KnownInv, Been
<1> QED
  BY <1>2, <1>5, <1>6 DEF IInv, ImageInv, Near, TimerInv

LEMMA HandleInv == ASSUME IInv, Handle PROVE IInv'
<1> USE Constants
<1>1. /\ UNCHANGED <<avatar, posInfo, timer, since, gap, walked, known, watched, up>>
      /\ down # <<>> /\ down' = Tail(down)
  BY DEF Handle, HandleSpawn, HandleDespawn, HandleMove, Arriving, ownVars, serverVars
<1>2. down \in Seq(Packets) /\ Len(down) <= MaxInFlight
  BY DEF IInv, TypeOK
<1>3. /\ Head(down) = down[1] /\ Head(down) \in Packets /\ 1 \in 1..Len(down)
      /\ down' \in Seq(Packets) /\ Len(down') <= MaxInFlight
      /\ \A i \in 1..Len(down') : i + 1 \in 1..Len(down) /\ down'[i] = down[i + 1]
  BY <1>1, <1>2
<1>4. Been(Head(down).at) /\ \A i \in 1..Len(down') : Been(down'[i].at)
  BY <1>3 DEF IInv, KnownInv
<1>5. KnownInv'
  BY <1>1, <1>4 DEF IInv, KnownInv, Been
<1>6. /\ Head(down).at \in Line /\ Head(down).at \in Nat
      /\ walked.lo \in Nat /\ walked.hi \in Nat
  BY <1>3 DEF Packets, IInv, TypeOK
<1>7. Near(Head(down).at)
  BY <1>4, <1>6 DEF Been, Near
<1>8. /\ ImageInv' /\ image' \in Line \cup {NoImage} /\ dest' \in Line \cup {NoImage}
      /\ refused' \in BOOLEAN
  <2>1. ASSUME NEW p \in Line, HandleSpawn(p)
        PROVE  /\ ImageInv' /\ image' \in Line \cup {NoImage} /\ dest' \in Line \cup {NoImage}
               /\ refused' \in BOOLEAN
    <3>1. CASE image = NoImage /\ image' # NoImage
      <4>1. /\ image' = Head(down).at /\ dest' = p /\ p - Head(down).at \in -Push..Push
            /\ refused' = FALSE
        BY <2>1, <3>1 DEF HandleSpawn
      <4>2. Near(p)
        <5>1. p \in Nat /\ Head(down).at - Push <= p /\ p <= Head(down).at + Push
          BY <1>6, <4>1
        <5> QED
          BY <1>4, <1>6, <5>1 DEF Been, Near
      <4> QED
        BY <1>1, <1>6, <1>7, <4>1, <4>2 DEF ImageInv, Near
    <3>2. CASE image # NoImage
      BY <1>1, <2>1, <3>2 DEF HandleSpawn, imageVars, IInv, TypeOK, ImageInv, Near
    <3>3. CASE image = NoImage /\ image' = NoImage
      <4>1. dest' = dest \/ dest' = p
        BY <2>1, <3>3 DEF HandleSpawn
      <4>2. refused' \in BOOLEAN
        BY <2>1, <3>3 DEF HandleSpawn
      <4> QED
        BY <3>3, <4>1, <4>2 DEF IInv, TypeOK, ImageInv
    <3> QED
      BY <3>1, <3>2, <3>3
  <2>2. CASE HandleDespawn
    BY <2>2 DEF HandleDespawn, ImageInv
  <2>3. CASE HandleMove
    <3>1. /\ image' = image /\ dest' = IF image = NoImage THEN dest ELSE Head(down).at
          /\ refused' = refused
      BY <2>3 DEF HandleMove
    <3> QED
      BY <1>1, <1>6, <1>7, <3>1 DEF IInv, TypeOK, ImageInv, Near
  <2> QED
    BY <2>1, <2>2, <2>3 DEF Handle
<1>9. TypeOK'
  BY <1>1, <1>3, <1>8 DEF IInv, TypeOK
<1> QED
  BY <1>1, <1>5, <1>8, <1>9 DEF IInv, TimerInv

\* A walk that is cut to the distance ends between where it began and its destination.
LEMMA ImageTickBetween ==
  ASSUME NEW dt \in Frames, image \in Line, dest \in Line, ImageTick(dt)
  PROVE  \/ image <= image' /\ image' <= dest
         \/ dest <= image' /\ image' <= image
<1> USE Constants
<1>1. Speed * dt \in Nat
  BY DEF Frames
<1>2. image \in Nat /\ dest \in Nat
  OBVIOUS
<1>3. CASE image <= dest
  <2>1. Larger(dest - image, image - dest) = dest - image
    BY <1>2, <1>3 DEF Larger
  <2>2. MoveDist(dt) \in Nat /\ MoveDist(dt) <= dest - image
    BY <1>1, <1>2, <1>3, <2>1 DEF MoveDist, Smaller
  <2>3. image' = image + MoveDist(dt)
    BY <1>3 DEF ImageTick
  <2> QED
    BY <1>2, <2>2, <2>3
<1>4. CASE ~(image <= dest)
  <2>1. Larger(dest - image, image - dest) = image - dest
    BY <1>2, <1>4 DEF Larger
  <2>2. MoveDist(dt) \in Nat /\ MoveDist(dt) <= image - dest
    BY <1>1, <1>2, <1>4, <2>1 DEF MoveDist, Smaller
  <2>3. image' = image - MoveDist(dt)
    BY <1>4 DEF ImageTick
  <2> QED
    BY <1>2, <2>2, <2>3
<1> QED
  BY <1>3, <1>4

LEMMA ImageTickInv == ASSUME IInv, NEW dt \in Frames, ImageTick(dt) PROVE IInv'
<1> USE Constants
<1>1. /\ UNCHANGED <<avatar, posInfo, timer, since, gap, walked, known, watched, up, down, dest,
                  refused>>
      /\ image # NoImage
  BY DEF ImageTick, ownVars, serverVars
<1>2. /\ image \in Line /\ dest \in Line /\ image \in Nat /\ dest \in Nat
      /\ walked.lo \in Nat /\ walked.hi \in Nat
  BY <1>1 DEF IInv, TypeOK, ImageInv
<1>3. image' \in Int
  <2>1. MoveDist(dt) \in Int
    BY <1>2 DEF MoveDist, Smaller, Larger, Frames
  <2> QED
    BY <1>2, <2>1 DEF ImageTick
<1>4. image' \in Line
  BY <1>2, <1>3, ImageTickBetween DEF Line
<1>5. ImageInv'
  <2>1. Near(image) /\ Near(dest)
    BY <1>1 DEF IInv, ImageInv
  <2>2. Near(image')
    BY <1>2, <1>3, <2>1, ImageTickBetween DEF Near
  <2> QED
    BY <1>1, <1>2, <2>1, <2>2 DEF ImageInv, Near
<1>6. TypeOK'
  BY <1>1, <1>4 DEF IInv, TypeOK
<1> QED
  BY <1>1, <1>5, <1>6 DEF IInv, KnownInv, Been, TimerInv

LEMMA StutterInv == ASSUME IInv, UNCHANGED vars PROVE IInv'
<1>1. TypeOK'
  BY DEF vars, IInv, TypeOK
<1>2. KnownInv' /\ ImageInv' /\ TimerInv'
  BY DEF vars, IInv, KnownInv, ImageInv, TimerInv, Been, Near
<1> QED
  BY <1>1, <1>2 DEF IInv

LEMMA Invariance == SafeSpec => []IInv
<1>1. Init => IInv
  BY InitInv
<1>2. ASSUME IInv, [Next]_vars PROVE IInv'
  BY <1>2, WalkInv, AvatarTickInv, ImageTickInv, HandleInv, RelayInv, RoomInv, StutterInv
     DEF Next, OwnTick, OtherTick
<1> QED
  BY <1>1, <1>2, PTL DEF SafeSpec

-----------------------------------------------------------------------------
\* Locations, destinations and the timer stay within their ranges.
THEOREM TypeCorrect == SafeSpec => []TypeOK
<1>1. IInv => TypeOK
  BY DEF IInv
<1> QED
  BY <1>1, Invariance, PTL

\* For every delay and frame time, C_MOVEs leave at intervals of the delay at least
\* and the delay and a frame at most.
THEOREM RegularTheorem == SafeSpec => []ReportsRegular
<1>1. ASSUME IInv PROVE ReportsRegular
  BY <1>1, Constants DEF IInv, TypeOK, TimerInv, ReportsRegular
<1> QED
  BY <1>1, Invariance, PTL

\* For every speed and frame time, an image keeps to where its player has been.
THEOREM PathTheorem == SafeSpec => []OnPath
<1>1. ASSUME IInv PROVE OnPath
  BY <1>1, Constants DEF IInv, TypeOK, ImageInv, Near, OnPath
<1> QED
  BY <1>1, Invariance, PTL

-----------------------------------------------------------------------------
(* The packets about the player and what they make of them. *)

\* The last S_SPAWN has been handled: there is an image, or SpawnActor has refused it.
Seen == image # NoImage \/ refused

\* Every packet comes to the state it was sent for: an S_SPAWN where none has been
\* handled, S_MOVE and S_DESPAWN after one.  At their end is what the server knows.
InTurn ==
  /\ down # <<>> => (Head(down).kind = "S_SPAWN" <=> ~Seen)
  /\ \A i \in 1..(Len(down) - 1) :
       down[i + 1].kind = "S_SPAWN" <=> down[i].kind = "S_DESPAWN"
  /\ watched <=> IF down = <<>> THEN Seen ELSE down[Len(down)].kind # "S_DESPAWN"

\* A refusal is of an image that is not there.
NoneRefused == refused => image = NoImage

\* The last place sent is where the server has the player.
Latest ==
  watched => IF down = <<>> THEN image # NoImage => dest - known \in -Push..Push
                            ELSE down[Len(down)].at = known

NewsInv == InTurn /\ NoneRefused /\ Latest

\* A packet sent in its turn, about the place the server knows, is the latest news.
LEMMA SentNews ==
  ASSUME IInv, NewsInv, NEW kind \in {"S_SPAWN", "S_DESPAWN", "S_MOVE"}, NEW at \in Line,
         kind = "S_SPAWN" <=> ~watched,
         down' = Append(down, Packet(kind, at)), known' = at,
         image' = image, dest' = dest, refused' = refused, watched' <=> kind # "S_DESPAWN"
  PROVE  NewsInv'
<1>1. /\ down \in Seq(Packets) /\ Packet(kind, at) \in Packets
      /\ Packet(kind, at).kind = kind /\ Packet(kind, at).at = at
  BY DEF IInv, TypeOK, Packet, Packets
<1>2. PICK n \in Nat : n = Len(down)
  BY <1>1
<1>3. /\ Len(down') = n + 1 /\ down' # <<>> /\ down'[n + 1] = Packet(kind, at)
      /\ \A i \in 1..n : down'[i] = down[i]
      /\ Head(down') = IF n = 0 THEN Packet(kind, at) ELSE Head(down)
      /\ down = <<>> <=> n = 0
  BY <1>1, <1>2
<1>4. down' # <<>> => (Head(down').kind = "S_SPAWN" <=> ~Seen')
  <2>0. Seen' <=> Seen
    BY DEF Seen
  <2>1. CASE n = 0
    BY <1>1, <1>3, <2>0, <2>1 DEF NewsInv, InTurn
  <2>2. CASE n # 0
    BY <1>3, <2>0, <2>2 DEF NewsInv, InTurn
  <2> QED
    BY <2>1, <2>2
<1>5. ASSUME NEW i \in 1..n
      PROVE  down'[i + 1].kind = "S_SPAWN" <=> down'[i].kind = "S_DESPAWN"
  <2>1. CASE i = n
    <3>1. down[n].kind # "S_DESPAWN" <=> watched
      BY <1>2, <1>3, <2>1 DEF NewsInv, InTurn
    <3> QED
      BY <1>1, <1>3, <2>1, <3>1
  <2>2. CASE i # n
    <3>1. i \in 1..(n - 1) /\ i + 1 \in 1..n
      BY <1>2, <2>2
    <3>2. down[i + 1].kind = "S_SPAWN" <=> down[i].kind = "S_DESPAWN"
      BY <1>2, <3>1 DEF NewsInv, InTurn
    <3> QED
      BY <1>3, <3>1, <3>2
  <2> QED
    BY <2>1, <2>2
<1>6. 1..(Len(down') - 1) = 1..n
  BY <1>2, <1>3
<1>7. InTurn'
  BY <1>1, <1>3, <1>4, <1>5, <1>6 DEF InTurn
<1>8. Latest' /\ NoneRefused'
  BY <1>1, <1>3 DEF Latest, NewsInv, NoneRefused
<1> QED
  BY <1>7, <1>8 DEF NewsInv

LEMMA RelayNews == ASSUME IInv, NewsInv, Relay PROVE NewsInv'
<1>1. Head(up) \in Line /\ watched \in BOOLEAN
  <2>1. up \in Seq(Line) /\ up # <<>>
    BY DEF IInv, TypeOK, Relay
  <2> QED
    BY <2>1 DEF IInv, TypeOK
<1>2. /\ known' = Head(up) /\ watched' = watched
      /\ image' = image /\ dest' = dest /\ refused' = refused
  BY DEF Relay, imageVars
<1>3. CASE watched
  BY <1>1, <1>2, <1>3, SentNews DEF Relay
<1>4. CASE ~watched
  BY <1>1, <1>2, <1>4 DEF Relay, NewsInv, InTurn, NoneRefused, Latest, Seen
<1> QED
  BY <1>3, <1>4

LEMMA RoomNews == ASSUME IInv, NewsInv, Join \/ Leave PROVE NewsInv'
<1>1. /\ known \in Line /\ known' = known
      /\ image' = image /\ dest' = dest /\ refused' = refused
  BY DEF IInv, TypeOK, Join, Leave, imageVars
<1>2. CASE Join
  BY <1>1, <1>2, SentNews DEF Join
<1>3. CASE Leave
  BY <1>1, <1>3, SentNews DEF Leave
<1> QED
  BY <1>2, <1>3

\* What a packet does to the image, coming in its turn.
LEMMA Handled ==
  ASSUME IInv, NewsInv, Handle
  PROVE  /\ Seen' <=> Head(down).kind # "S_DESPAWN"
         /\ NoneRefused'
         /\ image' # NoImage => dest' - Head(down).at \in -Push..Push
<1> USE Constants
<1>1. /\ down # <<>> /\ down \in Seq(Packets)
      /\ Head(down).kind = "S_SPAWN" <=> ~Seen
      /\ NoneRefused
  BY DEF Handle, HandleSpawn, HandleDespawn, HandleMove, Arriving, IInv, TypeOK, NewsInv, InTurn
<1>2. Head(down) \in Packets
  BY <1>1
<1>3. Head(down).at \in Line /\ Head(down).at \in Nat /\ Head(down).at # NoImage
  BY <1>2 DEF Packets
<1>4. ASSUME NEW p \in Line, HandleSpawn(p)
      PROVE  /\ Seen' <=> Head(down).kind # "S_DESPAWN"
             /\ NoneRefused'
             /\ image' # NoImage => dest' - Head(down).at \in -Push..Push
  <2>1. Head(down).kind = "S_SPAWN" /\ image = NoImage
    BY <1>1, <1>4 DEF HandleSpawn, Arriving, Seen
  <2>2. CASE refused' = TRUE /\ image' = image
    BY <2>1, <2>2 DEF Seen, NoneRefused
  <2>3. CASE /\ p - Head(down).at \in -Push..Push
             /\ image' = Head(down).at /\ dest' = p /\ refused' = FALSE
    BY <1>3, <2>1, <2>3 DEF Seen, NoneRefused
  <2> QED
    BY <1>4, <2>1, <2>2, <2>3 DEF HandleSpawn
<1>5. CASE HandleDespawn
  BY <1>5 DEF HandleDespawn, Arriving, Seen, NoneRefused
<1>6. CASE HandleMove
  <2>1. /\ Head(down).kind = "S_MOVE" /\ image' = image /\ refused' = refused
        /\ image # NoImage => dest' = Head(down).at
    BY <1>6 DEF HandleMove, Arriving
  <2>2. Head(down).at - Head(down).at \in -Push..Push
    BY <1>3
  <2> QED
    BY <1>1, <2>1, <2>2 DEF Seen, NoneRefused
<1> QED
  BY <1>4, <1>5, <1>6 DEF Handle

LEMMA HandleNews == ASSUME IInv, NewsInv, Handle PROVE NewsInv'
<1>1. /\ UNCHANGED <<known, watched>> /\ down # <<>> /\ down' = Tail(down)
      /\ down \in Seq(Packets)
  BY DEF Handle, HandleSpawn, HandleDespawn, HandleMove, Arriving, serverVars, IInv, TypeOK
<1>2. PICK n \in Nat : n + 1 = Len(down)
  <2>1. Len(down) \in Nat /\ Len(down) > 0
    BY <1>1
  <2>2. Len(down) - 1 \in Nat /\ (Len(down) - 1) + 1 = Len(down)
    BY <2>1
  <2> QED
    BY <2>2
<1>3. /\ Len(down') = n /\ Head(down) = down[1]
      /\ \A i \in 1..n : down'[i] = down[i + 1]
      /\ down' = <<>> <=> n = 0
      /\ n # 0 => Head(down') = down[2]
  <2>1. /\ Len(down') = n /\ Head(down) = down[1] /\ down' \in Seq(Packets)
        /\ \A i \in 1..n : down'[i] = down[i + 1]
    BY <1>1, <1>2
  <2>2. down' = <<>> <=> n = 0
    BY <2>1
  <2>3. n # 0 => Head(down') = down'[1] /\ 1 \in 1..n
    BY <2>1, <2>2
  <2> QED
    BY <2>1, <2>2, <2>3
<1>4. down' # <<>> => (Head(down').kind = "S_SPAWN" <=> ~Seen')
  <2> SUFFICES ASSUME n # 0 PROVE Head(down').kind = "S_SPAWN" <=> ~Seen'
    BY <1>3
  <2>1. down[1 + 1].kind = "S_SPAWN" <=> down[1].kind = "S_DESPAWN"
    <3>1. 1 \in 1..(Len(down) - 1)
      BY <1>2
    <3> QED
      BY <3>1 DEF NewsInv, InTurn
  <2> QED
    BY <1>3, <2>1, Handled
<1>5. ASSUME NEW i \in 1..(Len(down') - 1)
      PROVE  down'[i + 1].kind = "S_SPAWN" <=> down'[i].kind = "S_DESPAWN"
  <2>1. i \in 1..n /\ i + 1 \in 1..n /\ i + 1 \in 1..(Len(down) - 1)
    BY <1>2, <1>3
  <2>2. down[(i + 1) + 1].kind = "S_SPAWN" <=> down[i + 1].kind = "S_DESPAWN"
    BY <2>1 DEF NewsInv, InTurn
  <2> QED
    BY <1>3, <2>1, <2>2
<1>6. CASE n = 0
  <2>1. watched <=> Head(down).kind # "S_DESPAWN"
    BY <1>1, <1>2, <1>3, <1>6 DEF NewsInv, InTurn
  <2>2. watched => Head(down).at = known
    BY <1>1, <1>2, <1>3, <1>6 DEF NewsInv, Latest
  <2>3. watched' <=> Seen'
    BY <1>1, <2>1, Handled
  <2>4. watched' /\ image' # NoImage => dest' - known' \in -Push..Push
    BY <1>1, <2>1, <2>2, Handled
  <2> QED
    BY <1>3, <1>4, <1>5, <1>6, <2>3, <2>4, Handled DEF NewsInv, InTurn, Latest
<1>7. CASE n # 0
  <2>1. n \in 1..n /\ down'[n] = down[Len(down)]
    BY <1>2, <1>3, <1>7
  <2>2. watched' <=> down'[Len(down')].kind # "S_DESPAWN"
    BY <1>1, <1>3, <2>1 DEF NewsInv, InTurn
  <2>3. watched' => down'[Len(down')].at = known'
    BY <1>1, <1>3, <2>1 DEF NewsInv, Latest
  <2> QED
    BY <1>3, <1>4, <1>5, <1>7, <2>2, <2>3, Handled DEF NewsInv, InTurn, Latest
<1> QED
  BY <1>6, <1>7

\* Neither the avatar's own movements nor the image's walk is news.
LEMMA OtherNews ==
  ASSUME IInv, IInv', NewsInv,
         \/ \E p \in Line : Walk(p)
         \/ OwnTick \/ OtherTick \/ UNCHANGED vars
  PROVE  NewsInv'
<1>1. UNCHANGED <<known, watched, down, dest, refused>>
  BY DEF Walk, OwnTick, OtherTick, AvatarTick, ImageTick, vars, serverVars, imageVars
<1>2. image' = NoImage <=> image = NoImage
  <2>1. CASE OtherTick
    <3>1. PICK dt \in Frames : ImageTick(dt)
      BY <2>1 DEF OtherTick
    <3>2. image \in Line /\ dest \in Line
      BY <3>1 DEF ImageTick, IInv, TypeOK, ImageInv
    <3>3. \/ image <= image' /\ image' <= dest
          \/ dest <= image' /\ image' <= image
      BY <3>1, <3>2, ImageTickBetween
    <3>4. image' # NoImage
      BY <3>2, <3>3, Constants DEF NoImage, IInv, TypeOK
    <3> QED
      BY <3>1, <3>4 DEF ImageTick
  <2>2. CASE UNCHANGED image
    BY <2>2
  <2> QED
    BY <2>1, <2>2 DEF Walk, OwnTick, AvatarTick, vars, imageVars
<1> QED
  BY <1>1, <1>2 DEF NewsInv, InTurn, NoneRefused, Latest, Seen

LEMMA NewsInvariance == SafeSpec => [](IInv /\ NewsInv)
<1>1. ASSUME Init PROVE NewsInv
  <2>1. down = <<>> /\ watched = FALSE /\ image = NoImage /\ refused = FALSE /\ Len(down) = 0
    BY <1>1 DEF Init
  <2> QED
    BY <2>1 DEF NewsInv, InTurn, NoneRefused, Latest, Seen
<1>2. ASSUME IInv, IInv', NewsInv, [Next]_vars PROVE NewsInv'
  BY <1>2, RelayNews, RoomNews, HandleNews, OtherNews DEF Next
<1>3. SafeSpec => []IInv
  BY Invariance
<1> QED
  BY <1>1, <1>2, <1>3, PTL DEF SafeSpec

-----------------------------------------------------------------------------
(* The safe half of CatchesUp. *)

\* Once the packets are handled there is an image exactly if the server has the player in
\* the room and SpawnActor has not refused it, and it is bound for where the server has
\* the player, up to where it was put.
BoundForKnown ==
  down = <<>> =>
    /\ image # NoImage <=> watched /\ ~refused
    /\ image # NoImage => dest - known \in -Push..Push

\* The handlers of S_SPAWN, S_MOVE and S_DESPAWN find what their packet is about as the
\* server left it, or as SpawnActor refused it, in whatever order joins, reports and
\* departures come: a refusal costs that one image, and none after the next S_DESPAWN.
THEOREM NewsTheorem == SafeSpec => [](InTurn /\ BoundForKnown)
<1>1. NewsInv => InTurn /\ BoundForKnown
  BY DEF NewsInv, InTurn, NoneRefused, Latest, BoundForKnown, Seen
<1> QED
  BY <1>1, NewsInvariance, PTL

\* How far an image has to go.
DistToDest == Larger(dest - image, image - dest)

\* AS1Player::Tick brings an image nearer to its destination in each frame, however
\* short, and leaves it there: what CatchesUp rests on once the packets are handled.
Nearer ==
  [][OtherTick => /\ dest' = dest
                  /\ IF image = dest THEN image' = image ELSE DistToDest' < DistToDest]_vars

THEOREM NearerTheorem == SafeSpec => Nearer
<1> USE Constants
<1>1. ASSUME IInv, OtherTick
      PROVE  /\ dest' = dest
             /\ IF image = dest THEN image' = image ELSE DistToDest' < DistToDest
  <2>1. PICK dt \in Frames : ImageTick(dt)
    BY <1>1 DEF OtherTick
  <2>2. /\ image \in Line /\ dest \in Line /\ image \in Nat /\ dest \in Nat
        /\ dest' = dest
    BY <1>1, <2>1 DEF ImageTick, IInv, TypeOK, ImageInv
  <2>3. Speed * dt \in Nat /\ Speed * dt > 0
    BY LineAssumption DEF Frames
  <2>4. CASE image <= dest
    <3>1. DistToDest = dest - image /\ image' = image + Smaller(Speed * dt, dest - image)
      BY <2>1, <2>2, <2>4 DEF DistToDest, Larger, ImageTick, MoveDist
    <3>2. /\ Smaller(Speed * dt, dest - image) \in Nat
          /\ Smaller(Speed * dt, dest - image) <= dest - image
          /\ image # dest => Smaller(Speed * dt, dest - image) > 0
      BY <2>2, <2>3, <2>4 DEF Smaller
    <3>3. DistToDest' = dest - image'
      BY <2>2, <3>1, <3>2 DEF DistToDest, Larger
    <3> QED
      BY <2>2, <3>1, <3>2, <3>3
  <2>5. CASE ~(image <= dest)
    <3>1. DistToDest = image - dest /\ image' = image - Smaller(Speed * dt, image - dest)
      BY <2>1, <2>2, <2>5 DEF DistToDest, Larger, ImageTick, MoveDist
    <3>2. /\ Smaller(Speed * dt, image - dest) \in Nat
          /\ Smaller(Speed * dt, image - dest) <= image - dest
          /\ Smaller(Speed * dt, image - dest) > 0
      BY <2>2, <2>3, <2>5 DEF Smaller
    <3>3. DistToDest' = image' - dest
      BY <2>2, <3>1, <3>2 DEF DistToDest, Larger
    <3> QED
      BY <2>2, <3>1, <3>2, <3>3
  <2> QED
    BY <2>4, <2>5
<1>2. IInv /\ [Next]_vars =>
        [OtherTick => /\ dest' = dest
                      /\ IF image = dest THEN image' = image
                                         ELSE DistToDest' < DistToDest]_vars
  BY <1>1
<1> QED
  BY <1>2, Invariance, PTL DEF SafeSpec, Nearer

=============================================================================
