------------------------------- MODULE SendPath -------------------------------
(***************************************************************************)
(* The sending half of one connection: MakeSendBuffer                      *)
(* (ClientPacketHandler.h) and SendBuffer (S1.cpp), the SendPacketQueue of *)
(* the session, and the SendWorker thread that writes its buffers to the   *)
(* socket (Network/NetworkWorker.cpp).                                     *)
(*                                                                         *)
(* A message is a number of bytes and an id.  What the socket has taken is *)
(* kept packet by packet, with the number of bytes of each: a packet cut   *)
(* short is one with fewer bytes than its header says.                     *)
(***************************************************************************)
EXTENDS Integers, Sequences

CONSTANTS
  HeaderSize,       \* sizeof(PacketHeader)
  SizeMod,          \* 2^16, the width of the size field
  Data,             \* what ByteSizeLong gives for the messages the game sends
  Ids,              \* packet ids
  MaxRequests,      \* bound: messages the game sends in a run
  TransientErrors   \* may Send fail on a connection that stands?

ASSUME WidthAssumption ==
  HeaderSize \in Nat \ {0} /\ SizeMod \in Nat /\ HeaderSize < SizeMod
ASSUME DataAssumption == Data \subseteq Nat
ASSUME LimitsAssumption == MaxRequests \in Nat /\ TransientErrors \in BOOLEAN

Messages == [data : Data, id : Ids]

VARIABLES
  requested,  \* the messages given to SendPacket, in order
  queue,      \* SendPacketQueue
  worker,     \* where the SendWorker thread is
  buffer,     \* the SendBuffer in SendPacket
  left,       \* Size in SendDesiredBytes
  wire,       \* the packets the socket has taken, the last perhaps in part
  session,    \* GameServerSession: held, dropped by the game, or destroyed
  connected,  \* the connection stands
  overrun     \* MakeSendBuffer wrote past the end of its buffer

vars == <<requested, queue, worker, buffer, left, wire, session, connected, overrun>>
gameVars   == <<requested, overrun>>
workerVars == <<worker, buffer, left>>

-----------------------------------------------------------------------------
(* MakeSendBuffer. *)

DataSize(m)   == m.data % SizeMod
PacketSize(m) == (DataSize(m) + HeaderSize) % SizeMod

\* Mutant: the buffer is closed at the size of its payload.
MakeSendBuffer_PayloadSize(m, k) ==
  [no |-> k, id |-> m.id, size |-> PacketSize(m), write |-> DataSize(m),
   payload |-> IF m.data <= DataSize(m) THEN "written" ELSE "zeros"]

\* Mutant: the header counts the payload only.
MakeSendBuffer_PayloadInHeader(m, k) ==
  [no |-> k, id |-> m.id, size |-> DataSize(m), write |-> PacketSize(m),
   payload |-> IF m.data <= DataSize(m) THEN "written" ELSE "zeros"]

\* Mutant: the sizes are kept in ints.
MakeSendBuffer_NotNarrowed(m, k) ==
  [no |-> k, id |-> m.id, size |-> m.data + HeaderSize, write |-> m.data + HeaderSize,
   payload |-> "written"]

\* The buffer of the k-th message.  SerializeToArray writes nothing when the
\* message is longer than the room it is told of.
MakeSendBuffer(m, k) ==
  [no |-> k, id |-> m.id, size |-> PacketSize(m), write |-> PacketSize(m),
   payload |-> IF m.data <= DataSize(m) THEN "written" ELSE "zeros"]

\* A packet size that has wrapped is less than what is written: the header,
\* and the payload when SerializeToArray does write it.
WritesPastEnd(m) == DataSize(m) + HeaderSize >= SizeMod

Buffers ==
  [no : 1..MaxRequests, id : Ids, size : 0..(SizeMod - 1), write : 0..(SizeMod - 1),
   payload : {"written", "zeros"}]

NoBuffer == [no |-> 0]

Init ==
  /\ requested = <<>> /\ queue = <<>> /\ wire = <<>>
  /\ worker = "poll" /\ buffer = NoBuffer /\ left = 0
  /\ session = "held" /\ connected = TRUE /\ overrun = FALSE

-----------------------------------------------------------------------------
(* The game thread and the peer. *)

Alive == ~overrun

\* SEND_PACKET: the message becomes a buffer and the buffer joins the queue.
SendPacket(m) ==
  /\ Alive /\ session = "held" /\ Len(requested) < MaxRequests
  /\ requested' = Append(requested, m)
  /\ IF WritesPastEnd(m)
     THEN overrun' = TRUE /\ UNCHANGED queue
     ELSE /\ queue' = Append(queue, MakeSendBuffer(m, Len(requested')))
          /\ UNCHANGED overrun
  /\ UNCHANGED <<workerVars, wire, session, connected>>

\* ConnectToGameServer replaces GameServerSession, or the game ends.
DropSession ==
  /\ Alive /\ session = "held" /\ session' = "dropped"
  /\ UNCHANGED <<gameVars, queue, workerVars, wire, connected>>

\* The last reference goes, the RecvWorker's or this worker's own included.
SessionDestroyed ==
  /\ Alive /\ session = "dropped" /\ worker = "poll"
  /\ session' = "destroyed" /\ queue' = <<>>
  /\ UNCHANGED <<gameVars, workerVars, wire, connected>>

ConnectionLost ==
  /\ Alive /\ connected /\ connected' = FALSE
  /\ UNCHANGED <<gameVars, queue, workerVars, wire, session>>

-----------------------------------------------------------------------------
(* The SendWorker thread. *)

\* SessionRef.Pin() succeeds and Dequeue finds a buffer.
Dequeue ==
  /\ Alive /\ worker = "poll" /\ session # "destroyed" /\ queue # <<>>
  /\ buffer' = Head(queue) /\ queue' = Tail(queue)
  /\ left' = Head(queue).write
  /\ worker' = "send"
  /\ UNCHANGED <<gameVars, wire, session, connected>>

\* n more bytes of the buffer are on the wire.
Written(n) ==
  IF left = buffer.write
  THEN Append(wire, [packet |-> buffer, out |-> n])
  ELSE [wire EXCEPT ![Len(wire)] = [packet |-> buffer, out |-> @.out + n]]

\* Mutant: one Send is taken to have sent it all.
Send_Once(n) ==
  /\ Alive /\ worker = "send" /\ connected /\ left > 0 /\ n <= left
  /\ wire' = Written(n)
  /\ left' = 0
  /\ UNCHANGED <<gameVars, queue, worker, buffer, session, connected>>

\* Mutant: the buffer pointer stays where it is.
Send_SameBytes(n) ==
  /\ Alive /\ worker = "send" /\ connected /\ left > 0 /\ n <= left
  /\ wire' = Append(wire, [packet |-> buffer, out |-> n])
  /\ left' = left - n
  /\ UNCHANGED <<gameVars, queue, worker, buffer, session, connected>>

\* One Send that takes n bytes.
Send(n) ==
  /\ Alive /\ worker = "send" /\ connected /\ left > 0 /\ n <= left
  /\ wire' = Written(n)
  /\ left' = left - n
  /\ UNCHANGED <<gameVars, queue, worker, buffer, session, connected>>

\* SendDesiredBytes returns true.
SendDone ==
  /\ Alive /\ worker = "send" /\ left = 0
  /\ worker' = "poll" /\ buffer' = NoBuffer
  /\ UNCHANGED <<gameVars, queue, left, wire, session, connected>>

\* Mutant: a buffer that could not be sent goes back to the queue.
SendFails_Requeue ==
  /\ Alive /\ worker = "send" /\ left > 0 /\ (~connected \/ TransientErrors)
  /\ worker' = "poll" /\ buffer' = NoBuffer /\ left' = 0
  /\ queue' = Append(queue, buffer)
  /\ UNCHANGED <<gameVars, wire, session, connected>>

\* Send fails: SendDesiredBytes and SendPacket return false, which Run ignores.
SendFails ==
  /\ Alive /\ worker = "send" /\ left > 0 /\ (~connected \/ TransientErrors)
  /\ worker' = "poll" /\ buffer' = NoBuffer /\ left' = 0
  /\ UNCHANGED <<gameVars, queue, wire, session, connected>>

\* Destroy() has cleared Running.
Exit ==
  /\ Alive /\ worker = "poll" /\ session = "destroyed"
  /\ worker' = "stopped"
  /\ UNCHANGED <<gameVars, queue, buffer, left, wire, session, connected>>

-----------------------------------------------------------------------------
Worker ==
  \/ Dequeue \/ SendDone \/ SendFails \/ Exit
  \/ \E n \in 1..(SizeMod - 1) : Send(n)

Next ==
  \/ \E m \in Messages : SendPacket(m)
  \/ DropSession
  \/ SessionDestroyed
  \/ ConnectionLost
  \/ Worker

SafeSpec == Init /\ [][Next]_vars

\* The worker spins, and the peer reads, so that a Send does not block for good.
Spec == SafeSpec /\ WF_vars(Worker)

-----------------------------------------------------------------------------
Pieces == [packet : Buffers, out : 1..(SizeMod - 1)]

TypeOK ==
  /\ requested \in Seq(Messages) /\ Len(requested) <= MaxRequests
  /\ queue \in Seq(Buffers) /\ wire \in Seq(Pieces)
  /\ worker \in {"poll", "send", "stopped"}
  /\ buffer \in Buffers \cup {NoBuffer} /\ left \in 0..(SizeMod - 1)
  /\ session \in {"held", "dropped", "destroyed"}
  /\ connected \in BOOLEAN /\ overrun \in BOOLEAN

Complete(p) == p.out = p.packet.size

\* As long as a failing Send means that the connection is lost, the server can
\* find every packet's end by its size field: SendDesiredBytes goes on until the
\* buffer is out, whatever the socket takes of it each time.
OnlyLastInPart ==
  ~TransientErrors => \A i \in 1..(Len(wire) - 1) : Complete(wire[i])

\* Packets go out in the order of the game's calls of SendPacket and none twice,
\* even where Send fails and SendPacket's result is ignored.
InOrderOnce ==
  \A i, j \in DOMAIN wire : i < j => wire[i].packet.no < wire[j].packet.no

\* The 16 bits of MakeSendBuffer's sizes are enough for every message that fits
\* a packet: what is on the wire for it has the right size field and its payload,
\* and only a message that does not fit makes it write past its buffer.
SizeHonest ==
  LET Fits(m) == m.data + HeaderSize < SizeMod IN
  /\ \A i \in DOMAIN wire :
       LET p == wire[i].packet
           m == requested[p.no] IN
       Fits(m) => p.id = m.id /\ p.size = m.data + HeaderSize /\ p.payload = "written"
  /\ overrun => \E k \in DOMAIN requested : ~Fits(requested[k])

\* Each message the game sends gets to the server whole, as long as the
\* connection and the session last: the header-only C_LEAVE_GAME too.
EveryRequestSent ==
  \A k \in 1..MaxRequests :
    (Len(requested) >= k) ~>
      \/ \E i \in DOMAIN wire : wire[i].packet.no = k /\ Complete(wire[i])
      \/ ~connected \/ session # "held" \/ overrun

\* The packets the server can have read.
Readable ==
  IF wire # <<>> /\ ~Complete(wire[Len(wire)]) THEN Len(wire) - 1 ELSE Len(wire)

Delivered == [i \in 1..Readable |-> requested[wire[i].packet.no]]

\* Seen from the server, all this is a channel that delivers in order.
Channel == INSTANCE PacketChannel WITH
  Packets <- Messages, written <- requested, delivered <- Delivered,
  open <- session = "held" /\ connected
ImplementsChannel == Channel!SafeSpec

=============================================================================
