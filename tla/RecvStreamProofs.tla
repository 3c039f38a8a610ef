--------------------------- MODULE RecvStreamProofs ---------------------------
(***************************************************************************)
(* What RecvStream does for every header size, packet size, set of ids and *)
(* number of packets.                                                      *)
(***************************************************************************)
EXTENDS RecvStream, TLAPS

\* A position is that of a byte of a packet the server wrote, or the end of them all.
InStream(p) ==
  /\ p.frame \in 1..(Len(sent) + 1)
  /\ p.frame <= Len(sent) => p.off < sent[p.frame].size
  /\ p.frame = Len(sent) + 1 => p.off = 0

\* The worker is not ahead of the socket.
Behind ==
  \/ consumed.frame < arrived.frame
  \/ consumed.frame = arrived.frame /\ consumed.off <= arrived.off

\* A header is only read where there are bytes to read.
Started == worker = "header" => start.frame \in 1..Len(sent)

StreamInv ==
  /\ InStream(arrived) /\ InStream(consumed) /\ Behind /\ Started

\* The packets that left the worker, without the concatenation of Received.
Content ==
  /\ Len(handled) + Len(queue) <= Len(sent)
  /\ \A i \in 1..Len(handled) : handled[i] = sent[i]
  /\ \A i \in 1..Len(queue) : queue[i] = sent[Len(handled) + i]

\* The packets that left the worker are those it read before the current one.
Counted(n) == session => Len(handled) + Len(queue) = n

\* Where the worker is in the packet that began at start.
Aligned ==
  /\ worker # "fatal"
  /\ worker = "poll" =>
       \/ consumed.off = 0 /\ Counted(consumed.frame - 1)
       \/ closed /\ consumed = arrived
  /\ worker \in {"header", "parsed", "payload", "enqueue"} =>
       /\ start.off = 0 /\ start.frame \in 1..Len(sent)
       /\ Counted(start.frame - 1)
  /\ worker = "header" =>
       consumed.frame = start.frame /\ consumed.off + need = HeaderSize /\ need > 0
  /\ worker \in {"parsed", "payload", "enqueue"} => header = sent[start.frame]
  /\ worker = "parsed" =>
       consumed = IF header.size = HeaderSize
                  THEN [frame |-> start.frame + 1, off |-> 0]
                  ELSE [frame |-> start.frame, off |-> HeaderSize]
  /\ worker = "payload" =>
       consumed.frame = start.frame /\ consumed.off + need = header.size /\ need > 0
  /\ worker = "enqueue" => consumed = [frame |-> start.frame + 1, off |-> 0]

\* The socket never stops between a header and its payload.
Whole == ~SplitAfterHeader => arrived.off # HeaderSize /\ ~desync

-----------------------------------------------------------------------------
(* The stream. *)

\* A packet is as long as its header at least, and is what a header may say.
LEMMA FrameSize ==
  ASSUME NEW f \in Frames
  PROVE  /\ f \in Headers
         /\ f.size \in Nat /\ f.size >= HeaderSize /\ f.size <= MaxPacketSize /\ f.size > 0
  BY SizesAssumption DEF Frames, Headers

\* The same of the packets in the stream.
LEMMA SentSize ==
  ASSUME sent \in Seq(Frames), NEW k \in 1..Len(sent)
  PROVE  /\ sent[k] \in Frames /\ sent[k] \in Headers
         /\ sent[k].size \in Nat /\ sent[k].size >= HeaderSize
         /\ sent[k].size <= MaxPacketSize /\ sent[k].size > 0
<1>1. sent[k] \in Frames
  OBVIOUS
<1> QED
  BY <1>1, FrameSize

\* Advancing within the frame of a position gives a position of the stream.
LEMMA AdvanceInStream ==
  ASSUME sent \in Seq(Frames),
         NEW p \in Positions, InStream(p), p.frame <= Len(sent),
         NEW n \in Nat, p.off + n <= sent[p.frame].size
  PROVE  Advance(p, n) \in Positions /\ InStream(Advance(p, n))
<1>1. p.frame \in 1..Len(sent)
  BY DEF InStream, Positions
<1>2. sent[p.frame].size \in Nat /\ sent[p.frame].size > 0
  BY <1>1, SentSize
<1>3. CASE p.off + n = sent[p.frame].size
  <2>1. Advance(p, n) = [frame |-> p.frame + 1, off |-> 0]
    BY <1>3 DEF Advance
  <2>2. p.frame + 1 \in 1..(Len(sent) + 1)
    BY DEF InStream, Positions
  <2>3. p.frame + 1 <= Len(sent) => 0 < sent[p.frame + 1].size
    <3>1. CASE p.frame + 1 <= Len(sent)
      BY <3>1, <2>2, SentSize
    <3> QED
      BY <3>1
  <2> QED
    BY <2>1, <2>2, <2>3 DEF InStream, Positions
<1>4. CASE p.off + n # sent[p.frame].size
  <2>1. Advance(p, n) = [frame |-> p.frame, off |-> p.off + n]
    BY <1>4 DEF Advance
  <2> QED
    BY <2>1, <1>2, <1>4 DEF InStream, Positions
<1> QED
  BY <1>3, <1>4

\* A worker with bytes to read is within a frame, and Recv leaves it in the
\* stream and behind the socket.
LEMMA TakeInStream ==
  ASSUME TypeOK, StreamInv, NEW n \in 1..MaxPacketSize, Take(n)
  PROVE  /\ consumed.frame \in 1..Len(sent)
         /\ consumed.off + n <= sent[consumed.frame].size
         /\ consumed' \in Positions /\ need' \in Nat
         /\ InStream(consumed')
         /\ \/ consumed'.frame < arrived.frame
            \/ consumed'.frame = arrived.frame /\ consumed'.off <= arrived.off
<1>0. /\ consumed \in Positions /\ arrived \in Positions /\ sent \in Seq(Frames)
      /\ need \in Nat /\ n \in Nat /\ n > 0 /\ n <= need
  BY SizesAssumption DEF TypeOK, Take
<1>1. /\ consumed.frame \in Nat /\ consumed.off \in Nat
      /\ arrived.frame \in Nat /\ arrived.off \in Nat
      /\ consumed = [frame |-> consumed.frame, off |-> consumed.off]
      /\ arrived = [frame |-> arrived.frame, off |-> arrived.off]
  BY <1>0 DEF Positions
<1>2. consumed.frame # arrived.frame \/ consumed.off # arrived.off
  BY <1>1 DEF Take, Pending
<1>3. consumed.frame \in 1..Len(sent)
  BY <1>0, <1>1, <1>2 DEF StreamInv, InStream, Behind
<1>4. sent[consumed.frame] \in Frames /\ sent[consumed.frame].size \in Nat
  BY <1>0, <1>3, SentSize
<1>5. consumed.off + n <= sent[consumed.frame].size
  <2>1. CASE consumed.frame = arrived.frame
    <3>1. n <= arrived.off - consumed.off
      BY <2>1 DEF Take, Readable
    <3>2. arrived.off < sent[arrived.frame].size
      BY <2>1, <1>3 DEF StreamInv, InStream
    <3> QED
      BY <2>1, <3>1, <3>2, <1>0, <1>1, <1>4
  <2>2. CASE consumed.frame # arrived.frame
    BY <2>2, <1>0, <1>1, <1>4 DEF Take, Readable
  <2> QED
    BY <2>1, <2>2
<1>6. consumed' = Advance(consumed, n) /\ need' = need - n
  BY DEF Take
<1>7. consumed' \in Positions /\ InStream(consumed')
  BY <1>0, <1>3, <1>5, <1>6, AdvanceInStream DEF StreamInv
<1>8. \/ consumed'.frame < arrived.frame
      \/ consumed'.frame = arrived.frame /\ consumed'.off <= arrived.off
  <2>1. CASE consumed.frame = arrived.frame
    <3>1. n <= arrived.off - consumed.off
      BY <2>1 DEF Take, Readable
    <3>2. arrived.off < sent[arrived.frame].size
      BY <2>1, <1>3 DEF StreamInv, InStream
    <3>3. consumed' = [frame |-> consumed.frame, off |-> consumed.off + n]
      BY <2>1, <3>1, <3>2, <1>0, <1>1, <1>4, <1>6 DEF Advance
    <3> QED
      BY <2>1, <3>1, <3>3, <1>0, <1>1
  <2>2. CASE consumed.frame # arrived.frame
    <3>1. consumed.frame < arrived.frame
      BY <2>2 DEF StreamInv, Behind
    <3>2. CASE consumed.off + n = sent[consumed.frame].size
      <4>1. consumed' = [frame |-> consumed.frame + 1, off |-> 0]
        BY <3>2, <1>6 DEF Advance
      <4> QED
        BY <4>1, <3>1, <1>1
    <3>3. CASE consumed.off + n # sent[consumed.frame].size
      <4>1. consumed' = [frame |-> consumed.frame, off |-> consumed.off + n]
        BY <3>3, <1>6 DEF Advance
      <4> QED
        BY <4>1, <3>1
    <3> QED
      BY <3>2, <3>3
  <2> QED
    BY <2>1, <2>2
<1> QED
  BY <1>0, <1>3, <1>5, <1>6, <1>7, <1>8

-----------------------------------------------------------------------------
(* Types and positions. *)

PosInv == TypeOK /\ StreamInv

\* A worker that sees something pending is at a byte of a packet.
LEMMA PendingInStream ==
  ASSUME PosInv, Pending
  PROVE  consumed.frame \in 1..Len(sent)
<1>1. consumed \in Positions /\ arrived \in Positions /\ sent \in Seq(Frames)
  BY DEF PosInv, TypeOK
<1>2. consumed.frame # arrived.frame \/ consumed.off # arrived.off
  BY <1>1 DEF Pending, Positions
<1> QED
  BY <1>1, <1>2 DEF PosInv, StreamInv, InStream, Behind, Positions

LEMMA PosInit == Init => PosInv
<1> SUFFICES ASSUME Init PROVE PosInv
  OBVIOUS
<1>1. TypeOK
  <2>1. header \in Headers
    BY SizesAssumption DEF Init, Headers
  <2>2. Origin \in Positions
    BY DEF Origin, Positions
  <2>3. sent \in Seq(Frames) /\ queue \in Seq(Headers) /\ handled \in Seq(Headers)
    BY DEF Init
  <2> QED
    BY <2>1, <2>2, <2>3 DEF Init, TypeOK
<1>2. StreamInv
  BY DEF Init, StreamInv, InStream, Behind, Started, Origin
<1> QED
  BY <1>1, <1>2 DEF PosInv

LEMMA PosServerWrite ==
  ASSUME PosInv, NEW f \in Frames, ServerWrite(f)
  PROVE  PosInv'
<1>1. /\ sent \in Seq(Frames) /\ arrived \in Positions /\ consumed \in Positions
      /\ sent' = Append(sent, f) /\ UNCHANGED <<arrived, consumed>>
  BY DEF PosInv, TypeOK, ServerWrite, workerVars
<1>2. TypeOK'
  BY DEF PosInv, TypeOK, ServerWrite, workerVars, gameVars
<1>3. ASSUME NEW p \in Positions, InStream(p)
      PROVE  /\ p.frame \in 1..(Len(sent') + 1)
             /\ p.frame <= Len(sent') => p.off < sent'[p.frame].size
             /\ p.frame = Len(sent') + 1 => p.off = 0
  <2>1. p.frame \in Nat /\ Len(sent') = Len(sent) + 1 /\ Len(sent) \in Nat
    BY <1>1 DEF Positions
  <2>2. CASE p.frame <= Len(sent)
    <3>1. sent'[p.frame] = sent[p.frame]
      BY <1>1, <1>3, <2>1, <2>2 DEF InStream
    <3> QED
      BY <1>3, <2>1, <2>2, <3>1 DEF InStream
  <2>3. CASE p.frame = Len(sent) + 1
    <3>1. sent'[p.frame] = f
      BY <1>1, <2>1, <2>3
    <3> QED
      BY <1>3, <2>1, <2>3, <3>1, FrameSize DEF InStream
  <2> QED
    BY <1>3, <2>1, <2>2, <2>3 DEF InStream
<1>4. InStream(arrived)' /\ InStream(consumed)'
  BY <1>1, <1>3 DEF PosInv, StreamInv, InStream
<1>5. Behind' /\ Started'
  BY <1>1 DEF PosInv, StreamInv, Behind, Started, ServerWrite, workerVars
<1> QED
  BY <1>2, <1>4, <1>5 DEF PosInv, StreamInv

LEMMA PosArrive ==
  ASSUME PosInv, NEW n \in 1..MaxPacketSize, Arrive(n)
  PROVE  PosInv'
<1>1. /\ sent \in Seq(Frames) /\ arrived \in Positions /\ consumed \in Positions
      /\ arrived' = Advance(arrived, n) /\ UNCHANGED <<sent, consumed>>
      /\ arrived.frame <= Len(sent) /\ arrived.off + n <= sent[arrived.frame].size
      /\ n \in Nat /\ n > 0
  BY SizesAssumption DEF PosInv, TypeOK, Arrive, workerVars
<1>2. arrived' \in Positions /\ InStream(arrived')
  BY <1>1, AdvanceInStream DEF PosInv, StreamInv
<1>3. TypeOK'
  BY <1>2 DEF PosInv, TypeOK, Arrive, workerVars, gameVars
<1>4. InStream(arrived)' /\ InStream(consumed)'
  BY <1>1, <1>2 DEF PosInv, StreamInv, InStream
<1>5. Behind'
  BY <1>1 DEF PosInv, StreamInv, Behind, Advance, Positions
<1>6. Started'
  BY DEF PosInv, StreamInv, Started, Arrive, workerVars
<1> QED
  BY <1>3, <1>4, <1>5, <1>6 DEF PosInv, StreamInv

LEMMA PosRecvHeader ==
  ASSUME PosInv, NEW n \in 1..MaxPacketSize, RecvHeader(n)
  PROVE  PosInv'
<1>1. /\ consumed' \in Positions /\ need' \in Nat /\ InStream(consumed')
      /\ \/ consumed'.frame < arrived.frame
         \/ consumed'.frame = arrived.frame /\ consumed'.off <= arrived.off
      /\ consumed.frame \in 1..Len(sent)
  BY TakeInStream DEF PosInv, RecvHeader
<1>2. UNCHANGED <<sent, closed, arrived, start, queue, handled, session, desync>>
  BY DEF RecvHeader, netVars, gameVars
<1>3. worker' \in {"header", "parsed"}
  BY DEF RecvHeader
<1>4. header' \in Headers
  <2>1. start.frame \in 1..Len(sent) /\ sent \in Seq(Frames) /\ header \in Headers
    BY DEF RecvHeader, PosInv, StreamInv, Started, TypeOK
  <2> QED
    BY <2>1, SentSize DEF RecvHeader
<1>5. TypeOK'
  BY <1>1, <1>2, <1>3, <1>4 DEF PosInv, TypeOK
<1>6. InStream(arrived)' /\ InStream(consumed)' /\ Behind'
  BY <1>1, <1>2 DEF PosInv, StreamInv, InStream, Behind
<1>7. Started'
  BY <1>2 DEF RecvHeader, PosInv, StreamInv, Started
<1> QED
  BY <1>5, <1>6, <1>7 DEF PosInv, StreamInv

LEMMA PosRecvPayload ==
  ASSUME PosInv, NEW n \in 1..MaxPacketSize, RecvPayload(n)
  PROVE  PosInv'
<1>1. /\ consumed' \in Positions /\ need' \in Nat /\ InStream(consumed')
      /\ \/ consumed'.frame < arrived.frame
         \/ consumed'.frame = arrived.frame /\ consumed'.off <= arrived.off
  BY TakeInStream DEF PosInv, RecvPayload
<1>2. /\ UNCHANGED <<sent, closed, arrived, start, header, queue, handled, session, desync>>
      /\ worker' \in {"payload", "enqueue"}
  BY DEF RecvPayload, netVars, gameVars
<1>3. TypeOK'
  BY <1>1, <1>2 DEF PosInv, TypeOK
<1>4. InStream(arrived)' /\ InStream(consumed)' /\ Behind' /\ Started'
  BY <1>1, <1>2 DEF PosInv, StreamInv, InStream, Behind, Started
<1> QED
  BY <1>3, <1>4 DEF PosInv, StreamInv

LEMMA PosBeginHeader == ASSUME PosInv, BeginHeader PROVE PosInv'
<1>1. /\ UNCHANGED <<sent, closed, arrived, consumed, header, queue, handled, session, desync>>
      /\ worker' = "header" /\ start' = consumed /\ need' = HeaderSize
  BY DEF BeginHeader, netVars, gameVars
<1>2. consumed.frame \in 1..Len(sent)
  BY PendingInStream DEF BeginHeader
<1>3. TypeOK'
  BY <1>1, SizesAssumption DEF PosInv, TypeOK
<1>4. InStream(arrived)' /\ InStream(consumed)' /\ Behind' /\ Started'
  BY <1>1, <1>2 DEF PosInv, StreamInv, InStream, Behind, Started
<1> QED
  BY <1>3, <1>4 DEF PosInv, StreamInv

LEMMA PosBeginPayload == ASSUME PosInv, BeginPayload PROVE PosInv'
<1>1. /\ UNCHANGED <<sent, closed, arrived, consumed, start, header, queue, handled, session, desync>>
      /\ worker' = "payload" /\ need' = header.size - HeaderSize
      /\ header.size > HeaderSize
  BY DEF BeginPayload, netVars, gameVars
<1>2. need' \in Nat
  BY <1>1, SizesAssumption DEF PosInv, TypeOK, Headers
<1>3. TypeOK'
  BY <1>1, <1>2 DEF PosInv, TypeOK
<1>4. InStream(arrived)' /\ InStream(consumed)' /\ Behind' /\ Started'
  BY <1>1 DEF PosInv, StreamInv, InStream, Behind, Started
<1> QED
  BY <1>3, <1>4 DEF PosInv, StreamInv

\* The steps that only move the worker or the packets.
LEMMA PosOther ==
  ASSUME PosInv,
         \/ PeerClose \/ NoPayload \/ DropHeader \/ BadSize \/ RecvFails \/ Enqueue
         \/ Exit \/ HandleRecvPacket \/ SessionDestroyed \/ UNCHANGED vars
  PROVE  PosInv'
<1>1. /\ UNCHANGED <<sent, arrived, consumed, start, need, header>>
      /\ closed' \in BOOLEAN /\ session' \in BOOLEAN /\ desync' \in BOOLEAN
      /\ worker' \in {"poll", "header", "parsed", "payload", "enqueue", "stopped", "fatal"}
      /\ worker' = "header" => worker = "header"
  BY DEF PosInv, TypeOK, PeerClose, NoPayload, DropHeader, BadSize, RecvFails, Enqueue,
     Exit, HandleRecvPacket, SessionDestroyed, vars, netVars, workerVars, gameVars
<1>2. queue' \in Seq(Headers) /\ handled' \in Seq(Headers)
  <2>0. queue \in Seq(Headers) /\ handled \in Seq(Headers) /\ header \in Headers
    BY DEF PosInv, TypeOK
  <2>1. CASE Enqueue
    BY <2>0, <2>1 DEF Enqueue, gameVars
  <2>2. CASE HandleRecvPacket
    BY <2>0, <2>2 DEF HandleRecvPacket
  <2>3. CASE SessionDestroyed
    BY <2>0, <2>3 DEF SessionDestroyed
  <2>4. CASE UNCHANGED <<queue, handled>>
    BY <2>0, <2>4
  <2> QED
    BY <2>1, <2>2, <2>3, <2>4 DEF PeerClose, NoPayload, DropHeader, BadSize, RecvFails,
       Exit, vars, gameVars
<1>3. TypeOK'
  BY <1>1, <1>2 DEF PosInv, TypeOK
<1>4. InStream(arrived)' /\ InStream(consumed)' /\ Behind' /\ Started'
  BY <1>1 DEF PosInv, StreamInv, InStream, Behind, Started
<1> QED
  BY <1>3, <1>4 DEF PosInv, StreamInv

LEMMA PosNext == PosInv /\ [Next]_vars => PosInv'
  BY PosServerWrite, PosArrive, PosRecvHeader, PosRecvPayload, PosBeginHeader,
     PosBeginPayload, PosOther DEF Next, Network, Worker

\* Every variable keeps its type: in particular a header comes out of a packet
\* the server wrote, or is one the 16-bit size field can hold, and no Recv is
\* asked for a negative number of bytes.
THEOREM TypeCorrect == SafeSpec => []TypeOK
<1>1. PosInv => TypeOK
  BY DEF PosInv
<1> QED
  BY PosInit, PosNext, <1>1, PTL DEF SafeSpec

-----------------------------------------------------------------------------
(* Framing. *)

Framing == Content /\ Aligned

\* As long as no header has been thrown away the stream is framed, and nothing
\* throws one away if the socket never stops after a header.
IInv == PosInv /\ Whole /\ (~desync => Framing)

LEMMA FramingInit == Init => Whole /\ Framing
<1> SUFFICES ASSUME Init PROVE Whole /\ Framing
  OBVIOUS
<1>1. Whole
  BY SizesAssumption DEF Init, Whole, Origin
<1>2. Content
  BY DEF Init, Content
<1>3. Aligned
  BY DEF Init, Aligned, Counted, Origin
<1> QED
  BY <1>1, <1>2, <1>3 DEF Framing

LEMMA FramingServerWrite ==
  ASSUME PosInv, Framing, NEW f \in Frames, ServerWrite(f)
  PROVE  Framing'
<1>1. /\ sent \in Seq(Frames) /\ sent' = Append(sent, f)
      /\ UNCHANGED <<closed, arrived, consumed, worker, start, need, header,
                     queue, handled, session>>
      /\ queue \in Seq(Headers) /\ handled \in Seq(Headers)
  BY DEF PosInv, TypeOK, ServerWrite, workerVars, gameVars
<1>2. /\ Len(sent') = Len(sent) + 1 /\ Len(sent) \in Nat
      /\ \A i \in 1..Len(sent) : sent'[i] = sent[i]
  BY <1>1
<1>3. Content'
  <2>1. Len(handled) \in Nat /\ Len(queue) \in Nat
    BY <1>1
  <2> QED
    BY <1>1, <1>2, <2>1 DEF Framing, Content
<1>4. Aligned'
  BY <1>1, <1>2 DEF Framing, Aligned, Counted
<1> QED
  BY <1>3, <1>4 DEF Framing

\* What the network does does not concern a framed worker, except that a
\* worker without bytes to come may stop anywhere.
LEMMA FramingNetwork ==
  ASSUME PosInv, Framing,
         \/ PeerClose
         \/ \E n \in 1..MaxPacketSize : Arrive(n)
         \/ UNCHANGED vars
  PROVE  Framing'
<1>1. /\ UNCHANGED <<sent, consumed, worker, start, need, header, queue, handled, session>>
      /\ closed /\ consumed = arrived => closed' /\ consumed' = arrived'
  BY DEF PeerClose, Arrive, vars, workerVars, gameVars
<1>2. Content'
  BY <1>1 DEF Framing, Content
<1>3. Aligned'
  BY <1>1 DEF Framing, Aligned, Counted
<1> QED
  BY <1>2, <1>3 DEF Framing

LEMMA FramingBeginHeader == ASSUME PosInv, Framing, BeginHeader PROVE Framing'
<1>1. /\ UNCHANGED <<sent, closed, arrived, consumed, header, queue, handled, session>>
      /\ worker = "poll" /\ worker' = "header" /\ start' = consumed
      /\ need' = HeaderSize /\ consumed # arrived
  BY DEF BeginHeader, Pending, netVars, gameVars
<1>2. consumed.frame \in 1..Len(sent)
  BY PendingInStream DEF BeginHeader
<1>3. consumed.off = 0 /\ Counted(consumed.frame - 1)
  BY <1>1 DEF Framing, Aligned
<1>4. Content'
  BY <1>1 DEF Framing, Content
<1>5. Aligned'
  BY <1>1, <1>2, <1>3, SizesAssumption DEF Aligned, Counted
<1> QED
  BY <1>4, <1>5 DEF Framing

LEMMA FramingRecvHeader ==
  ASSUME PosInv, Framing, NEW n \in 1..MaxPacketSize, RecvHeader(n)
  PROVE  Framing'
<1>1. /\ UNCHANGED <<sent, closed, arrived, start, queue, handled, session>>
      /\ worker = "header" /\ n <= need /\ need' = need - n
      /\ consumed' = Advance(consumed, n)
  BY DEF RecvHeader, Take, netVars, gameVars
<1>2. /\ start.off = 0 /\ start.frame \in 1..Len(sent) /\ Counted(start.frame - 1)
      /\ consumed.frame = start.frame /\ consumed.off + need = HeaderSize
  BY <1>1 DEF Framing, Aligned
<1>3. /\ sent[start.frame].size \in Nat /\ sent[start.frame].size >= HeaderSize
      /\ need \in Nat /\ n \in Nat /\ n > 0
      /\ consumed.off \in Nat /\ start.frame \in Nat /\ HeaderSize \in Nat
  BY <1>2, SentSize, SizesAssumption DEF PosInv, TypeOK, Positions
<1>4. Content'
  BY <1>1 DEF Framing, Content
<1>5. CASE n < need
  <2>0. consumed.off + n # sent[consumed.frame].size
    BY <1>2, <1>3, <1>5
  <2>1. consumed' = [frame |-> consumed.frame, off |-> consumed.off + n]
    BY <1>1, <2>0 DEF Advance
  <2>2. worker' = "header"
    BY <1>1, <1>5 DEF RecvHeader
  <2>3. consumed'.frame = start.frame /\ consumed'.off + need' = HeaderSize /\ need' > 0
    <3>1. consumed'.frame = start.frame /\ consumed'.off = consumed.off + n
      BY <2>1, <1>2
    <3>2. (consumed.off + n) + (need - n) = consumed.off + need /\ need - n > 0
      BY <1>3, <1>5
    <3> QED
      BY <3>1, <3>2, <1>1, <1>2
  <2>4. Aligned'
    BY <1>1, <1>2, <2>2, <2>3 DEF Aligned, Counted
  <2> QED
    BY <1>4, <2>4 DEF Framing
<1>6. CASE n = need
  <2>1. worker' = "parsed" /\ header' = sent[start.frame]
    BY <1>2, <1>6, <1>3 DEF RecvHeader
  <2>2. consumed' = IF sent[start.frame].size = HeaderSize
                    THEN [frame |-> start.frame + 1, off |-> 0]
                    ELSE [frame |-> start.frame, off |-> HeaderSize]
    BY <1>1, <1>2, <1>3, <1>6 DEF Advance
  <2>3. Aligned'
    BY <1>1, <1>2, <2>1, <2>2 DEF Aligned, Counted
  <2> QED
    BY <1>4, <2>3 DEF Framing
<1> QED
  BY <1>1, <1>3, <1>5, <1>6

LEMMA FramingRecvPayload ==
  ASSUME PosInv, Framing, NEW n \in 1..MaxPacketSize, RecvPayload(n)
  PROVE  Framing'
<1>1. /\ UNCHANGED <<sent, closed, arrived, start, header, queue, handled, session>>
      /\ worker = "payload" /\ n <= need /\ need' = need - n
      /\ worker' = IF n < need THEN "payload" ELSE "enqueue"
      /\ consumed' = Advance(consumed, n)
  BY DEF RecvPayload, Take, netVars, gameVars
<1>2. /\ start.off = 0 /\ start.frame \in 1..Len(sent) /\ Counted(start.frame - 1)
      /\ consumed.frame = start.frame /\ consumed.off + need = header.size
      /\ header = sent[start.frame]
  BY <1>1 DEF Framing, Aligned
<1>3. /\ header.size \in Nat /\ need \in Nat /\ n \in Nat /\ n > 0
      /\ consumed.off \in Nat /\ start.frame \in Nat
  BY <1>2, SentSize, SizesAssumption DEF PosInv, TypeOK, Positions
<1>4. Content'
  BY <1>1 DEF Framing, Content
<1>5. consumed' = IF consumed.off + n = header.size
                  THEN [frame |-> start.frame + 1, off |-> 0]
                  ELSE [frame |-> start.frame, off |-> consumed.off + n]
  BY <1>1, <1>2 DEF Advance
<1>6. CASE n = need
  <2>1. consumed' = [frame |-> start.frame + 1, off |-> 0] /\ worker' = "enqueue"
    BY <1>1, <1>2, <1>3, <1>5, <1>6
  <2>2. Aligned'
    BY <1>1, <1>2, <2>1 DEF Aligned, Counted
  <2> QED
    BY <1>4, <2>2 DEF Framing
<1>7. CASE n < need
  <2>1. consumed.off + n # header.size /\ (consumed.off + n) + (need - n) = header.size
    BY <1>2, <1>3, <1>7
  <2>2. consumed' = [frame |-> start.frame, off |-> consumed.off + n] /\ worker' = "payload"
    BY <1>1, <1>5, <1>7, <2>1
  <2>3. consumed'.frame = start.frame /\ consumed'.off + need' = header.size /\ need' > 0
    BY <1>1, <1>3, <1>7, <2>1, <2>2
  <2>4. Aligned'
    BY <1>1, <1>2, <2>2, <2>3 DEF Aligned, Counted
  <2> QED
    BY <1>4, <2>4 DEF Framing
<1> QED
  BY <1>1, <1>3, <1>6, <1>7

\* The steps from a header that is known to be the server's.
LEMMA FramingParsed ==
  ASSUME PosInv, Framing, NoPayload \/ BeginPayload \/ BadSize
  PROVE  Framing'
<1>1. /\ UNCHANGED <<sent, closed, arrived, consumed, start, header, queue, handled, session>>
      /\ worker = "parsed"
  BY DEF NoPayload, BeginPayload, BadSize, netVars, gameVars
<1>2. /\ start.off = 0 /\ start.frame \in 1..Len(sent) /\ Counted(start.frame - 1)
      /\ header = sent[start.frame]
      /\ consumed = IF header.size = HeaderSize
                    THEN [frame |-> start.frame + 1, off |-> 0]
                    ELSE [frame |-> start.frame, off |-> HeaderSize]
  BY <1>1 DEF Framing, Aligned
<1>3. /\ header.size \in Nat /\ header.size >= HeaderSize /\ HeaderSize \in Nat
  BY <1>2, SentSize, SizesAssumption DEF PosInv, TypeOK
<1>4. Content'
  BY <1>1 DEF Framing, Content
<1>5. CASE NoPayload
  <2>1. worker' = "enqueue" /\ header.size = HeaderSize
    BY <1>5 DEF NoPayload
  <2> QED
    BY <1>1, <1>2, <1>4, <2>1 DEF Framing, Aligned, Counted
<1>6. CASE BeginPayload
  <2>1. /\ worker' = "payload" /\ header.size > HeaderSize
        /\ need' = header.size - HeaderSize
    BY <1>6 DEF BeginPayload
  <2> QED
    BY <1>1, <1>2, <1>3, <1>4, <2>1 DEF Framing, Aligned, Counted
<1>7. CASE BadSize
  BY <1>3, <1>7 DEF BadSize
<1> QED
  BY <1>5, <1>6, <1>7

LEMMA FramingWorkerStops == ASSUME Framing, RecvFails \/ Exit PROVE Framing'
<1>1. /\ UNCHANGED <<sent, closed, arrived, consumed, start, need, header, queue, handled, session>>
      /\ \/ worker' = "poll" /\ closed /\ consumed = arrived
         \/ worker' = "stopped"
  BY DEF RecvFails, Exit, Pending, netVars, gameVars
<1>2. Content'
  BY <1>1 DEF Framing, Content
<1>3. Aligned'
  BY <1>1 DEF Aligned
<1> QED
  BY <1>2, <1>3 DEF Framing

LEMMA FramingEnqueue == ASSUME PosInv, Framing, Enqueue PROVE Framing'
<1>1. /\ UNCHANGED <<sent, closed, arrived, consumed, start, need, header, handled, session>>
      /\ worker = "enqueue" /\ worker' = "poll"
      /\ queue' = IF session THEN Append(queue, header) ELSE queue
  BY DEF Enqueue, netVars, gameVars
<1>2. /\ start.frame \in 1..Len(sent) /\ Counted(start.frame - 1)
      /\ header = sent[start.frame]
      /\ consumed = [frame |-> start.frame + 1, off |-> 0]
  BY <1>1 DEF Framing, Aligned
<1>3. /\ queue \in Seq(Headers) /\ Len(handled) \in Nat /\ Len(sent) \in Nat
      /\ start.frame \in Nat
  BY DEF PosInv, TypeOK, Positions
<1>4. CASE session
  <2>1. /\ queue' = Append(queue, header) /\ Len(queue') = Len(queue) + 1
        /\ Len(queue) \in Nat /\ queue'[Len(queue) + 1] = header
        /\ \A i \in 1..Len(queue) : queue'[i] = queue[i]
    BY <1>1, <1>3, <1>4
  <2>2. Len(handled) + Len(queue) = start.frame - 1
    BY <1>2, <1>4 DEF Counted
  <2>3. /\ handled' = handled /\ sent' = sent
        /\ consumed' = [frame |-> start.frame + 1, off |-> 0]
    BY <1>1, <1>2
  <2>4. Len(handled) + Len(queue') = start.frame /\ start.frame <= Len(sent)
    BY <1>2, <1>3, <2>1, <2>2
  <2>5. Len(handled) + (Len(queue) + 1) = start.frame
    BY <1>3, <2>1, <2>2
  <2>6. \A i \in 1..Len(queue') : queue'[i] = sent[Len(handled) + i]
    BY <1>2, <2>1, <2>5 DEF Framing, Content
  <2>7. Content'
    BY <2>3, <2>4, <2>6 DEF Framing, Content
  <2>8. Len(handled') + Len(queue') = consumed'.frame - 1
    BY <1>3, <2>3, <2>4
  <2>9. Aligned'
    BY <1>1, <1>2, <2>8 DEF Aligned, Counted
  <2> QED
    BY <2>7, <2>9 DEF Framing
<1>5. CASE ~session
  <2>1. Content'
    BY <1>1, <1>5 DEF Framing, Content
  <2>2. Aligned'
    BY <1>1, <1>2, <1>5 DEF Aligned, Counted
  <2> QED
    BY <2>1, <2>2 DEF Framing
<1> QED
  BY <1>4, <1>5

LEMMA FramingHandle == ASSUME PosInv, Framing, HandleRecvPacket PROVE Framing'
<1>1. /\ UNCHANGED <<sent, closed, arrived, consumed, worker, start, need, header, session>>
      /\ queue # <<>> /\ handled' = Append(handled, Head(queue)) /\ queue' = Tail(queue)
      /\ queue \in Seq(Headers) /\ handled \in Seq(Headers)
  BY DEF HandleRecvPacket, PosInv, TypeOK, netVars, workerVars
<1>2. /\ Len(queue) \in Nat /\ Len(queue) > 0 /\ Len(queue') = Len(queue) - 1
      /\ Head(queue) = queue[1]
      /\ \A i \in 1..Len(queue') : queue'[i] = queue[i + 1]
  BY <1>1
<1>3. /\ Len(handled) \in Nat /\ Len(handled') = Len(handled) + 1
      /\ handled'[Len(handled) + 1] = Head(queue)
      /\ \A i \in 1..Len(handled) : handled'[i] = handled[i]
  BY <1>1, <1>2
<1>4. Len(handled') + Len(queue') = Len(handled) + Len(queue)
  BY <1>2, <1>3
<1>5. Content'
  <2>1. \A i \in 1..Len(handled') : handled'[i] = sent'[i]
    BY <1>1, <1>2, <1>3 DEF Framing, Content
  <2>2. \A i \in 1..Len(queue') : queue'[i] = sent'[Len(handled') + i]
    BY <1>1, <1>2, <1>3 DEF Framing, Content
  <2> QED
    BY <1>1, <1>4, <2>1, <2>2 DEF Framing, Content
<1>6. Aligned'
  BY <1>1, <1>4 DEF Framing, Aligned, Counted
<1> QED
  BY <1>5, <1>6 DEF Framing

LEMMA FramingSessionDestroyed ==
  ASSUME PosInv, Framing, SessionDestroyed PROVE Framing'
<1>1. /\ UNCHANGED <<sent, closed, arrived, consumed, worker, start, need, header, handled>>
      /\ queue' = <<>> /\ session' = FALSE
      /\ queue \in Seq(Headers) /\ handled \in Seq(Headers) /\ sent \in Seq(Frames)
  BY DEF SessionDestroyed, PosInv, TypeOK, netVars, workerVars
<1>2. Content'
  BY <1>1 DEF Framing, Content
<1>3. Aligned'
  BY <1>1 DEF Framing, Aligned, Counted
<1> QED
  BY <1>2, <1>3 DEF Framing

\* The only header a framed worker throws away is one the socket stopped after.
LEMMA WholeNext == ASSUME IInv, [Next]_vars PROVE Whole'
<1>1. CASE DropHeader
  <2>1. worker = "parsed" /\ header.size > HeaderSize /\ consumed = arrived
        /\ UNCHANGED arrived
    BY <1>1 DEF DropHeader, Pending, netVars
  <2>2. ~desync => consumed.off = HeaderSize
    BY <2>1, SizesAssumption DEF IInv, Framing, Aligned, PosInv, TypeOK, Headers
  <2> QED
    BY <2>1, <2>2 DEF IInv, Whole
<1>2. CASE \E n \in 1..MaxPacketSize : Arrive(n)
  BY <1>2 DEF IInv, Whole, Arrive, workerVars
<1>3. CASE UNCHANGED <<arrived, desync>>
  BY <1>3 DEF IInv, Whole
<1> QED
  BY <1>1, <1>2, <1>3 DEF Next, Network, Worker, ServerWrite, PeerClose, BeginHeader,
     NoPayload, BeginPayload, BadSize, RecvFails, Enqueue, Exit, RecvHeader, RecvPayload,
     HandleRecvPacket, SessionDestroyed, vars, netVars, workerVars

LEMMA FramingNext == ASSUME IInv, [Next]_vars, ~desync' PROVE Framing'
<1>1. CASE desync
  <2>1. desync' = desync \/ DropHeader
    BY DEF Next, Network, Worker, ServerWrite, Arrive, PeerClose, BeginHeader,
       NoPayload, BeginPayload, BadSize, RecvFails, Enqueue, Exit, RecvHeader, RecvPayload,
       HandleRecvPacket, SessionDestroyed, vars, workerVars
  <2> QED
    BY <1>1, <2>1 DEF DropHeader
<1>2. CASE ~desync
  <2>1. PosInv /\ Framing
    BY <1>2 DEF IInv
  <2>2. ~DropHeader
    BY DEF DropHeader
  <2> QED
    BY <2>1, <2>2, FramingServerWrite, FramingNetwork, FramingBeginHeader,
       FramingRecvHeader, FramingRecvPayload, FramingParsed, FramingWorkerStops,
       FramingEnqueue, FramingHandle, FramingSessionDestroyed
       DEF Next, Network, Worker
<1> QED
  BY <1>1, <1>2

LEMMA Invariance == SafeSpec => []IInv
<1>1. Init => IInv
  BY PosInit, FramingInit DEF IInv
<1>2. IInv /\ [Next]_vars => IInv'
  BY PosNext, WholeNext, FramingNext DEF IInv
<1> QED
  BY <1>1, <1>2, PTL DEF SafeSpec

-----------------------------------------------------------------------------
(* What it comes to. *)

\* However TCP cuts the stream up, what leaves the worker before the first
\* header is thrown away is what the server wrote, in order and complete.
THEOREM FramedTheorem == SafeSpec => []FramedUntilDesync
<1>1. ASSUME IInv PROVE FramedUntilDesync
  <2> SUFFICES ASSUME ~desync
               PROVE  /\ Len(Received) <= Len(sent)
                      /\ \A i \in DOMAIN Received : Received[i] = sent[i]
    BY DEF FramedUntilDesync
  <2>1. Content /\ handled \in Seq(Headers) /\ queue \in Seq(Headers)
    BY <1>1 DEF IInv, Framing, PosInv, TypeOK
  <2>2. /\ Len(Received) = Len(handled) + Len(queue)
        /\ DOMAIN Received = 1..(Len(handled) + Len(queue))
        /\ \A i \in 1..(Len(handled) + Len(queue)) :
             Received[i] = IF i <= Len(handled) THEN handled[i] ELSE queue[i - Len(handled)]
        /\ Len(handled) \in Nat /\ Len(queue) \in Nat
    BY <2>1 DEF Received
  <2>3. ASSUME NEW i \in 1..(Len(handled) + Len(queue)) PROVE Received[i] = sent[i]
    <3>1. CASE i <= Len(handled)
      BY <2>1, <2>2, <3>1 DEF Content
    <3>2. CASE i > Len(handled)
      <4>1. i - Len(handled) \in 1..Len(queue) /\ Len(handled) + (i - Len(handled)) = i
        BY <2>2, <3>2
      <4>2. Received[i] = queue[i - Len(handled)]
        BY <2>2, <3>2
      <4>3. queue[i - Len(handled)] = sent[Len(handled) + (i - Len(handled))]
        BY <2>1, <4>1 DEF Content
      <4> QED
        BY <4>1, <4>2, <4>3
    <3> QED
      BY <2>2, <3>1, <3>2
  <2> QED
    BY <2>1, <2>2, <2>3 DEF Content
<1> QED
  BY <1>1, Invariance, PTL

\* The process is never brought down by the size in a header of the server's.
THEOREM FatalTheorem == SafeSpec => []FatalOnlyAfterDesync
<1>1. IInv => FatalOnlyAfterDesync
  BY DEF IInv, Framing, Aligned, FatalOnlyAfterDesync
<1> QED
  BY <1>1, Invariance, PTL

\* Where no arrival ends between a header and its payload, the worker never
\* loses its place: between two packets it has taken exactly whole packets.
THEOREM NothingSkippedTheorem ==
  ASSUME ~SplitAfterHeader
  PROVE  SafeSpec => []NothingSkipped
<1>1. ASSUME IInv PROVE NothingSkipped
  <2> SUFFICES ASSUME worker = "poll", session, ~closed
               PROVE  consumed = [frame |-> Len(Received) + 1, off |-> 0]
    BY DEF NothingSkipped
  <2>1. consumed.off = 0 /\ Len(handled) + Len(queue) = consumed.frame - 1
    BY <1>1 DEF IInv, Whole, Framing, Aligned, Counted
  <2>2. /\ handled \in Seq(Headers) /\ queue \in Seq(Headers)
        /\ consumed = [frame |-> consumed.frame, off |-> consumed.off]
        /\ consumed.frame \in Nat
    BY <1>1 DEF IInv, PosInv, TypeOK, Positions
  <2>3. Len(Received) = Len(handled) + Len(queue)
    BY <2>2 DEF Received
  <2> QED
    BY <2>1, <2>2, <2>3
<1> QED
  BY <1>1, Invariance, PTL

\* Under the same condition what is parsed as a header is a header. With splits it
\* is not (the run recv_header): so the assumption of NetworkWorker.cpp about how TCP
\* delivers is just what that comment needs.
THEOREM HeaderTheorem ==
  ASSUME ~SplitAfterHeader
  PROVE  SafeSpec => []HeaderAtPacketStart
<1>1. IInv => HeaderAtPacketStart
  BY DEF IInv, Whole, Framing, Aligned, HeaderAtPacketStart
<1> QED
  BY <1>1, Invariance, PTL

\* While what has left the worker is the server's, a step is one of the channel's.
LEMMA ChannelStep ==
  ASSUME PosInv, Content, [Next]_vars
  PROVE  [Channel!Next]_(Channel!vars)
<1>1. CASE \E f \in Frames : ServerWrite(f)
  BY <1>1 DEF ServerWrite, gameVars, Channel!Next, Channel!Write
<1>2. CASE PeerClose
  BY <1>2 DEF PeerClose, gameVars, Channel!Next, Channel!Close
<1>3. CASE SessionDestroyed
  BY <1>3 DEF SessionDestroyed, netVars, Channel!Next, Channel!Close
<1>4. CASE HandleRecvPacket
  <2>1. /\ queue # <<>> /\ handled \in Seq(Headers) /\ queue \in Seq(Headers)
        /\ sent \in Seq(Frames)
    BY <1>4 DEF PosInv, TypeOK, HandleRecvPacket
  <2>2. /\ Head(queue) = queue[1] /\ Len(queue) \in Nat /\ Len(queue) > 0
        /\ Len(handled) \in Nat /\ Len(sent) \in Nat
    BY <2>1
  <2>3. Len(handled) < Len(sent) /\ Head(queue) = sent[Len(handled) + 1]
    BY <2>2 DEF Content
  <2> QED
    BY <1>4, <2>3 DEF HandleRecvPacket, netVars, Channel!Next, Channel!Deliver
<1>5. CASE UNCHANGED <<sent, closed, handled, session>>
  BY <1>5 DEF Channel!vars
<1> QED
  BY <1>1, <1>2, <1>3, <1>4, <1>5 DEF Next, Network, Worker, Arrive,
     BeginHeader, NoPayload, BeginPayload, DropHeader, BadSize, RecvFails, Enqueue,
     Exit, RecvHeader, RecvPayload, vars, netVars, gameVars

\* Under the same condition every step of the receiving half is a step of the
\* in-order channel PacketChannel, or invisible to it.
THEOREM ChannelTheorem ==
  ASSUME ~SplitAfterHeader
  PROVE  SafeSpec => ImplementsChannel
<1>1. Init => Channel!Init
  BY DEF Init, Channel!Init
<1>2. IInv /\ [Next]_vars => [Channel!Next]_(Channel!vars)
  BY ChannelStep DEF IInv, Whole, Framing
<1> QED
  BY <1>1, <1>2, Invariance, PTL DEF SafeSpec, ImplementsChannel, Channel!SafeSpec

\* However TCP cuts the stream up: until a header has been thrown away, and in
\* throwing it away, the receiving half does what the channel does.
ChannelUntilDesync == [][~desync => [Channel!Next]_(Channel!vars)]_vars

\* ReceivePacket has one way to break the order of packets, or to lose or invent one: to
\* return between the two calls of ReceiveDesiredBytes.
THEOREM ChannelUntilDesyncTheorem == SafeSpec => ChannelUntilDesync
<1>1. IInv /\ [Next]_vars => (~desync => [Channel!Next]_(Channel!vars))
  BY ChannelStep DEF IInv, Framing
<1>2. IInv /\ [Next]_vars => [~desync => [Channel!Next]_(Channel!vars)]_vars
  BY <1>1
<1> QED
  BY <1>2, Invariance, PTL DEF SafeSpec, ChannelUntilDesync

\* Nothing is on the network, in the socket, in the worker's hands or in the queue.
AtRest ==
  queue = <<>> /\ arrived.frame > Len(sent) /\ ~Pending /\ worker \notin {"parsed", "enqueue"}

\* The safety part of EveryPacketHandled: until a header has been thrown away no
\* packet waits for anything but the next step of the network, the worker or the
\* game; where they have nothing left to do everything written has been handled
\* and the worker is between two packets.
HandledAtRest ==
  AtRest /\ session /\ ~closed /\ ~desync => handled = sent /\ worker = "poll"

\* The worker stops for the end of its session only.
StopsLast == worker = "stopped" => ~session

LEMMA StopsNext == StopsLast /\ [Next]_vars => StopsLast'
  BY DEF StopsLast, Next, Network, Worker, ServerWrite, PeerClose, Arrive, BeginHeader,
     NoPayload, BeginPayload, DropHeader, BadSize, RecvFails, Enqueue, Exit, RecvHeader,
     RecvPayload, HandleRecvPacket, SessionDestroyed, Alive, vars, workerVars, gameVars

THEOREM AtRestTheorem == SafeSpec => []HandledAtRest
<1>1. Init => StopsLast
  BY DEF Init, StopsLast
<1>2. ASSUME IInv, StopsLast PROVE HandledAtRest
  <2> SUFFICES ASSUME AtRest, session, ~closed, ~desync PROVE handled = sent /\ worker = "poll"
    BY DEF HandledAtRest
  <2>1. /\ sent \in Seq(Frames) /\ handled \in Seq(Headers) /\ queue = <<>>
        /\ arrived.frame = Len(sent) + 1 /\ consumed = arrived
        /\ worker \in {"poll", "header", "payload", "stopped", "fatal"}
        /\ Content /\ Aligned
    BY <1>2 DEF IInv, PosInv, TypeOK, Framing, AtRest, Pending, StreamInv, InStream, Positions
  <2>2. worker = "poll"
    <3>1. worker \in {"header", "payload"} => consumed.frame \in 1..Len(sent)
      BY <2>1 DEF Aligned
    <3> QED
      BY <1>2, <2>1, <3>1 DEF Aligned, StopsLast
  <2>3. Len(handled) = Len(sent)
    <3>1. Len(handled) + Len(queue) = consumed.frame - 1 /\ Len(queue) = 0
      BY <2>1, <2>2 DEF Aligned, Counted
    <3> QED
      BY <2>1, <3>1
  <2>4. handled = sent
    <3>1. \A i \in 1..Len(sent) : handled[i] = sent[i]
      BY <2>1, <2>3 DEF Content
    <3> QED
      BY <2>1, <2>3, <3>1
  <2> QED
    BY <2>2, <2>4
<1> QED
  BY <1>1, <1>2, StopsNext, Invariance, PTL DEF SafeSpec

=============================================================================
