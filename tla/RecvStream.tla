------------------------------ MODULE RecvStream ------------------------------
(***************************************************************************)
(* The receiving half of one connection: the byte stream the server        *)
(* writes, the RecvWorker thread that cuts it into packets                 *)
(* (Network/NetworkWorker.cpp), the RecvPacketQueue of the session and the *)
(* game thread that empties it (Network/PacketSession.cpp).                *)
(*                                                                         *)
(* A packet is its header: the size field, which counts the header's own   *)
(* bytes, and the packet id, which here stands for the payload too.  A     *)
(* position in the stream is a frame number and an offset into that frame, *)
(* so that it stays meaningful when the reader has lost the frame          *)
(* boundaries.                                                             *)
(***************************************************************************)
EXTENDS Integers, Sequences

CONSTANTS
  HeaderSize,        \* sizeof(FPacketHeader)
  MaxPacketSize,     \* bound: largest size the server writes
  Ids,               \* packet ids
  MaxFrames,         \* bound: packets the server writes in a run
  SplitAfterHeader   \* may TCP deliver a header and, later, its payload?

ASSUME SizesAssumption ==
  /\ HeaderSize \in Nat \ {0}
  /\ MaxPacketSize \in Nat
  /\ MaxPacketSize >= HeaderSize
ASSUME BoundsAssumption == MaxFrames \in Nat /\ SplitAfterHeader \in BOOLEAN

Frames  == [size : HeaderSize..MaxPacketSize, id : Ids]
Headers == [size : 0..MaxPacketSize, id : Ids]
Positions == [frame : Nat, off : Nat]

VARIABLES
  sent,      \* the packets the server wrote, in order
  closed,    \* the server closed the connection, or it broke
  arrived,   \* end of the bytes the local socket has received
  consumed,  \* end of the bytes the worker has taken from the socket
  worker,    \* where the RecvWorker thread is
  start,     \* where the header being read, or read last, began
  need,      \* bytes ReceiveDesiredBytes still waits for
  header,    \* the header read last
  queue,     \* RecvPacketQueue
  handled,   \* packets given to ClientPacketHandler::HandlePacket
  session,   \* the PacketSession exists
  desync     \* a header has been thrown away with its payload still to come

vars == <<sent, closed, arrived, consumed, worker, start, need, header, queue,
          handled, session, desync>>
netVars    == <<sent, closed, arrived>>
workerVars == <<consumed, worker, start, need, header, desync>>
gameVars   == <<handled, session>>

Origin == [frame |-> 1, off |-> 0]

Init ==
  /\ sent = <<>> /\ closed = FALSE
  /\ arrived = Origin /\ consumed = Origin /\ start = Origin
  /\ worker = "poll" /\ need = 0
  /\ header \in [size : {0}, id : Ids]
  /\ queue = <<>> /\ handled = <<>>
  /\ session = TRUE /\ desync = FALSE

-----------------------------------------------------------------------------
(* The stream. *)

\* The position n bytes after p, n reaching no further than the end of p's frame.
Advance(p, n) ==
  IF p.off + n = sent[p.frame].size
  THEN [frame |-> p.frame + 1, off |-> 0]
  ELSE [frame |-> p.frame, off |-> p.off + n]

\* Socket->HasPendingData
Pending == consumed # arrived

\* The pending bytes that lie in the frame the worker is in.
Readable ==
  IF consumed.frame = arrived.frame
  THEN arrived.off - consumed.off
  ELSE sent[consumed.frame].size - consumed.off

ServerWrite(f) ==
  /\ ~closed /\ Len(sent) < MaxFrames
  /\ sent' = Append(sent, f)
  /\ UNCHANGED <<closed, arrived, workerVars, queue, gameVars>>

\* n more bytes reach the local socket.
Arrive(n) ==
  /\ ~closed /\ arrived.frame <= Len(sent)
  /\ arrived.off + n <= sent[arrived.frame].size
  /\ arrived' = Advance(arrived, n)
  /\ SplitAfterHeader \/ arrived'.off # HeaderSize
  /\ UNCHANGED <<sent, closed, workerVars, queue, gameVars>>

\* What has not arrived by then never does.
PeerClose ==
  /\ ~closed /\ closed' = TRUE
  /\ UNCHANGED <<sent, arrived, workerVars, queue, gameVars>>

-----------------------------------------------------------------------------
(* The RecvWorker thread. *)

\* ReceivePacket asks for a header: with nothing pending ReceiveDesiredBytes
\* returns false at once and Run calls it again, a step that changes nothing.
BeginHeader ==
  /\ worker = "poll" /\ Pending
  /\ worker' = "header" /\ start' = consumed /\ need' = HeaderSize
  /\ UNCHANGED <<netVars, consumed, header, desync, queue, gameVars>>

\* Mutant: Size is not taken down as bytes come in, Recv overruns the buffer.
Take_Overrun(n) ==
  /\ Pending /\ n <= Readable
  /\ consumed' = Advance(consumed, n)
  /\ need' = need - n

\* One blocking Recv of n bytes.
Take(n) ==
  /\ Pending /\ n <= need /\ n <= Readable
  /\ consumed' = Advance(consumed, n)
  /\ need' = need - n

RecvHeader(n) ==
  /\ worker = "header" /\ Take(n)
  /\ IF n < need
     THEN UNCHANGED <<worker, header>>
     ELSE /\ worker' = "parsed"
          /\ \/ start.off = 0 /\ header' = sent[start.frame]
             \/ start.off # 0 /\ header' \in Headers
  /\ UNCHANGED <<netVars, start, desync, queue, gameVars>>

\* Mutant: a packet without payload is taken for no packet at all.
NoPayload_NotAPacket ==
  /\ worker = "parsed" /\ header.size = HeaderSize
  /\ worker' = "poll"
  /\ UNCHANGED <<netVars, consumed, start, need, header, desync, queue, gameVars>>

\* Payloadsize == 0: the header is the packet.
NoPayload ==
  /\ worker = "parsed" /\ header.size = HeaderSize
  /\ worker' = "enqueue"
  /\ UNCHANGED <<netVars, consumed, start, need, header, desync, queue, gameVars>>

\* Mutant: the size is read as that of the payload alone.
BeginPayload_WholeSize ==
  /\ worker = "parsed" /\ header.size > HeaderSize /\ Pending
  /\ worker' = "payload" /\ need' = header.size
  /\ UNCHANGED <<netVars, consumed, start, header, desync, queue, gameVars>>

BeginPayload ==
  /\ worker = "parsed" /\ header.size > HeaderSize /\ Pending
  /\ worker' = "payload" /\ need' = header.size - HeaderSize
  /\ UNCHANGED <<netVars, consumed, start, header, desync, queue, gameVars>>

\* The second ReceiveDesiredBytes finds nothing pending: ReceivePacket returns
\* false and the header it has taken from the socket is forgotten.
DropHeader ==
  /\ worker = "parsed" /\ header.size > HeaderSize /\ ~Pending
  /\ worker' = "poll" /\ desync' = TRUE
  /\ UNCHANGED <<netVars, consumed, start, need, header, queue, gameVars>>

\* Mutant: no early return for an empty payload, OutPacket[HeaderSize] is out of range.
BadSize_NoEarlyReturn ==
  /\ worker = "parsed" /\ header.size <= HeaderSize
  /\ worker' = "fatal"
  /\ UNCHANGED <<netVars, consumed, start, need, header, desync, queue, gameVars>>

\* AddZeroed with a negative count.
BadSize ==
  /\ worker = "parsed" /\ header.size < HeaderSize
  /\ worker' = "fatal"
  /\ UNCHANGED <<netVars, consumed, start, need, header, desync, queue, gameVars>>

RecvPayload(n) ==
  /\ worker = "payload" /\ Take(n)
  /\ worker' = IF n < need THEN "payload" ELSE "enqueue"
  /\ UNCHANGED <<netVars, start, header, desync, queue, gameVars>>

\* Mutant: the result of Recv is not looked at.
RecvFails_Ignored ==
  /\ worker \in {"header", "payload"} /\ closed /\ ~Pending
  /\ worker' = "enqueue"
  /\ UNCHANGED <<netVars, consumed, start, need, header, desync, queue, gameVars>>

\* Recv yields no bytes: ReceivePacket gives up what it has read so far.
RecvFails ==
  /\ worker \in {"header", "payload"} /\ closed /\ ~Pending
  /\ worker' = "poll"
  /\ UNCHANGED <<netVars, consumed, start, need, header, desync, queue, gameVars>>

\* The weak reference is pinned; without a session the packet is dropped.
Enqueue ==
  /\ worker = "enqueue" /\ worker' = "poll"
  /\ queue' = IF session THEN Append(queue, header) ELSE queue
  /\ UNCHANGED <<netVars, consumed, start, need, header, desync, gameVars>>

\* Destroy() has cleared Running.  The worker object is freed with the session,
\* so the thread may also read a stale TRUE and go round again.
Exit ==
  /\ worker = "poll" /\ ~session
  /\ worker' = "stopped"
  /\ UNCHANGED <<netVars, consumed, start, need, header, desync, queue, gameVars>>

-----------------------------------------------------------------------------
(* The game thread. *)

Alive == session /\ worker # "fatal"

\* Mutant: the packet is peeked at, not dequeued.
HandleRecvPacket_Peek ==
  /\ Alive /\ queue # <<>> /\ Len(handled) < MaxFrames
  /\ handled' = Append(handled, Head(queue))
  /\ UNCHANGED <<netVars, workerVars, session, queue>>

\* One round of PacketSession::HandleRecvPackets.
HandleRecvPacket ==
  /\ Alive /\ queue # <<>>
  /\ handled' = Append(handled, Head(queue))
  /\ queue' = Tail(queue)
  /\ UNCHANGED <<netVars, workerVars, session>>

\* The last reference goes: ~PacketSession, with the queue in it.
SessionDestroyed ==
  /\ Alive
  /\ session' = FALSE /\ queue' = <<>>
  /\ UNCHANGED <<netVars, workerVars, handled>>

-----------------------------------------------------------------------------
Network == \E n \in 1..MaxPacketSize : Arrive(n)

Worker ==
  \/ BeginHeader \/ NoPayload \/ BeginPayload \/ DropHeader \/ BadSize
  \/ RecvFails \/ Enqueue \/ Exit
  \/ \E n \in 1..MaxPacketSize : RecvHeader(n) \/ RecvPayload(n)

Next ==
  \/ \E f \in Frames : ServerWrite(f)
  \/ PeerClose
  \/ Network
  \/ Worker
  \/ HandleRecvPacket
  \/ SessionDestroyed

SafeSpec == Init /\ [][Next]_vars

\* The worker spins, the game calls HandleRecvPackets on every tick, and TCP
\* delivers what was written as long as the connection stands.
Spec ==
  /\ SafeSpec
  /\ WF_vars(Network) /\ WF_vars(Worker) /\ WF_vars(HandleRecvPacket)

-----------------------------------------------------------------------------
TypeOK ==
  /\ sent \in Seq(Frames) /\ closed \in BOOLEAN
  /\ arrived \in Positions /\ consumed \in Positions /\ start \in Positions
  /\ worker \in {"poll", "header", "parsed", "payload", "enqueue", "stopped", "fatal"}
  /\ need \in Nat /\ header \in Headers
  /\ queue \in Seq(Headers) /\ handled \in Seq(Headers)
  /\ session \in BOOLEAN /\ desync \in BOOLEAN

\* The packets that have left the worker, handled ones first.
Received == handled \o queue

\* Until a header has been thrown away, what the game gets is the packets the
\* server wrote, in order, none missing or twice: ReceivePacket's two calls of
\* ReceiveDesiredBytes cut the stream where the server joined it.
FramedUntilDesync ==
  ~desync =>
    /\ Len(Received) <= Len(sent)
    /\ \A i \in DOMAIN Received : Received[i] = sent[i]

\* The negative count that kills the process in ReceivePacket is never the
\* server's doing: it takes a header read from the middle of a packet.
FatalOnlyAfterDesync == worker = "fatal" => desync

\* Between two packets the worker has taken from the socket exactly the packets
\* it has queued: none sits half read or half thrown away.
NothingSkipped ==
  (worker = "poll" /\ session /\ ~closed) =>
    consumed = [frame |-> Len(Received) + 1, off |-> 0]

\* What ReceivePacket parses as a header is a header (the comment of
\* NetworkWorker.cpp:58): it starts where the server began a packet.
HeaderAtPacketStart == worker \in {"header", "parsed"} => start.off = 0

\* Every packet the server wrote reaches a handler, as long as the connection
\* and the session last.
EveryPacketHandled ==
  \A k \in 1..MaxFrames :
    (Len(sent) >= k) ~> (Len(handled) >= k \/ closed \/ ~session)

\* Seen from the game, all this is a channel that delivers in order.
Channel == INSTANCE PacketChannel WITH
  Packets <- Frames, written <- sent, delivered <- handled,
  open <- session /\ ~closed
ImplementsChannel == Channel!SafeSpec

=============================================================================
