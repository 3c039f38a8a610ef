---------------------------- MODULE SendPathProofs ----------------------------
(***************************************************************************)
(* What SendPath does for every header size, width of the size field, set  *)
(* of message sizes and number of messages.                                *)
(***************************************************************************)
EXTENDS SendPath, TLAPS

\* A buffer is the work of MakeSendBuffer for the message it is numbered after.
Made(b) ==
  /\ b.no \in 1..Len(requested) /\ ~WritesPastEnd(requested[b.no])
  /\ b = MakeSendBuffer(requested[b.no], b.no)

MadeInv ==
  /\ \A i \in 1..Len(queue) : Made(queue[i])
  /\ \A i \in 1..Len(wire) : Made(wire[i].packet)
  /\ worker = "send" => Made(buffer) /\ left <= buffer.write

\* A buffer that is partly out is the last on the wire.
PartInv ==
  (worker = "send" /\ left < buffer.write) =>
    /\ Len(wire) > 0
    /\ wire[Len(wire)] = [packet |-> buffer, out |-> buffer.write - left]

OrderInv ==
  /\ \A i, j \in 1..Len(wire) : i < j => wire[i].packet.no < wire[j].packet.no
  /\ \A i, j \in 1..Len(queue) : i < j => queue[i].no < queue[j].no
  /\ \A i \in 1..Len(wire), j \in 1..Len(queue) : wire[i].packet.no < queue[j].no
  /\ worker = "send" =>
       /\ \A j \in 1..Len(queue) : buffer.no < queue[j].no
       /\ left = buffer.write => \A i \in 1..Len(wire) : wire[i].packet.no < buffer.no

\* 1 for a buffer dequeued of which nothing is out.
Fresh == worker = "send" /\ left = buffer.write
Ahead == IF Fresh THEN 1 ELSE 0

\* No message is missing: where the numbers are without gaps, and until when.
GaplessInv ==
  ~TransientErrors =>
    /\ \A i \in 1..Len(wire) : wire[i].packet.no = i
    /\ \A i \in 1..(Len(wire) - 1) : Complete(wire[i])
    /\ connected =>
         /\ \A j \in 1..Len(queue) : queue[j].no = Len(wire) + Ahead + j
         /\ session # "destroyed" /\ ~overrun =>
              Len(requested) = Len(wire) + Ahead + Len(queue)
         /\ Fresh => buffer.no = Len(wire) + 1
         /\ Fresh \/ worker # "send" => \A i \in 1..Len(wire) : Complete(wire[i])

IInv == TypeOK /\ MadeInv /\ PartInv /\ OrderInv /\ GaplessInv

-----------------------------------------------------------------------------
(* The arithmetic of MakeSendBuffer. *)

LEMMA Narrowed ==
  ASSUME NEW x \in Nat
  PROVE  /\ x % SizeMod \in 0..(SizeMod - 1)
         /\ x < SizeMod => x % SizeMod = x
  BY WidthAssumption

LEMMA MessageFields ==
  ASSUME NEW m \in Messages
  PROVE  m.data \in Nat /\ m.id \in Ids
<1>1. m.data \in Data /\ m.id \in Ids
  BY DEF Messages
<1> QED
  BY <1>1, DataAssumption

\* The numbers in a buffer are what its fields hold.
LEMMA BufferTyped ==
  ASSUME NEW m \in Messages, NEW k \in 1..MaxRequests
  PROVE  MakeSendBuffer(m, k) \in Buffers
<1>1. m.data \in Nat /\ m.id \in Ids
  BY MessageFields
<1>2. DataSize(m) \in 0..(SizeMod - 1) /\ DataSize(m) + HeaderSize \in Nat
  BY <1>1, Narrowed, WidthAssumption DEF DataSize
<1>3. PacketSize(m) \in 0..(SizeMod - 1)
  BY <1>2, Narrowed DEF PacketSize
<1> QED
  BY <1>1, <1>2, <1>3 DEF MakeSendBuffer, Buffers

\* A buffer that is not written past its end has its header and its payload.
LEMMA BufferSize ==
  ASSUME NEW m \in Messages, ~WritesPastEnd(m)
  PROVE  PacketSize(m) = DataSize(m) + HeaderSize /\ PacketSize(m) > 0
<1>1. m.data \in Nat
  BY MessageFields
<1>2. DataSize(m) \in 0..(SizeMod - 1)
  BY <1>1, Narrowed DEF DataSize
<1>3. DataSize(m) + HeaderSize \in Nat /\ DataSize(m) + HeaderSize < SizeMod
  BY <1>2, WidthAssumption DEF WritesPastEnd
<1> QED
  BY <1>2, <1>3, Narrowed, WidthAssumption DEF PacketSize

\* A message that fits keeps its size.
LEMMA FittingMessage ==
  ASSUME NEW m \in Messages, m.data + HeaderSize < SizeMod
  PROVE  /\ DataSize(m) = m.data /\ ~WritesPastEnd(m)
         /\ PacketSize(m) = m.data + HeaderSize
<1>1. m.data \in Nat /\ m.data < SizeMod
  BY MessageFields, WidthAssumption
<1>2. DataSize(m) = m.data
  BY <1>1, Narrowed DEF DataSize
<1>3. ~WritesPastEnd(m)
  BY <1>1, <1>2, WidthAssumption DEF WritesPastEnd
<1> QED
  BY <1>2, <1>3, BufferSize

LEMMA MadeSize ==
  ASSUME TypeOK, NEW b, Made(b)
  PROVE  /\ b \in Buffers /\ b.write = b.size /\ b.size \in Nat /\ b.size > 0
         /\ b.no \in Nat
<1>1. requested[b.no] \in Messages /\ b.no \in 1..MaxRequests
  BY LimitsAssumption DEF TypeOK, Made
<1>2. b \in Buffers
  BY <1>1, BufferTyped DEF Made
<1>3. b.write = PacketSize(requested[b.no]) /\ b.size = PacketSize(requested[b.no])
  BY DEF Made, MakeSendBuffer
<1>4. PacketSize(requested[b.no]) > 0
  BY <1>1, BufferSize DEF Made
<1>5. b.size \in 0..(SizeMod - 1)
  BY <1>2 DEF Buffers
<1> QED
  BY <1>1, <1>2, <1>3, <1>4, <1>5

\* A buffer stays what it is when another message is requested.
LEMMA MadeStays ==
  ASSUME TypeOK, NEW b, Made(b),
         requested' = requested \/ \E m \in Messages : requested' = Append(requested, m)
  PROVE  Made(b)'
<1>1. requested \in Seq(Messages) /\ b.no \in 1..Len(requested)
  BY DEF TypeOK, Made
<1>2. requested'[b.no] = requested[b.no] /\ b.no \in 1..Len(requested')
  BY <1>1
<1> QED
  BY <1>2 DEF Made

-----------------------------------------------------------------------------
(* The steps that move a buffer along. *)

\* The packet a Send adds to, or begins, is the last one on the wire.
LEMMA WireAfterSend ==
  ASSUME TypeOK, MadeInv, PartInv, NEW n \in 1..(SizeMod - 1), Send(n)
  PROVE  /\ wire' \in Seq(Pieces) /\ Len(wire') > 0
         /\ Len(wire') = IF left = buffer.write THEN Len(wire) + 1 ELSE Len(wire)
         /\ wire'[Len(wire')] = [packet |-> buffer, out |-> buffer.write - left']
         /\ \A i \in 1..(Len(wire') - 1) : i \in 1..Len(wire) /\ wire'[i] = wire[i]
         /\ left' = left - n /\ left' \in 0..(SizeMod - 1) /\ left' < buffer.write
<1>1. /\ worker = "send" /\ left > 0 /\ n <= left /\ left' = left - n
      /\ wire' = Written(n) /\ wire \in Seq(Pieces) /\ left \in 0..(SizeMod - 1)
      /\ SizeMod \in Nat
  BY WidthAssumption DEF Send, TypeOK
<1>2. Made(buffer) /\ left <= buffer.write
  BY <1>1 DEF MadeInv
<1>3. buffer \in Buffers /\ buffer.write \in 0..(SizeMod - 1)
  BY <1>2, MadeSize DEF Buffers
<1>4. left' \in 0..(SizeMod - 1) /\ left' < buffer.write
      /\ buffer.write - left' \in 1..(SizeMod - 1)
  BY <1>1, <1>2, <1>3
<1>5. CASE left = buffer.write
  <2>1. buffer.write - left' = n
    BY <1>1, <1>3, <1>5
  <2>2. wire' = Append(wire, [packet |-> buffer, out |-> buffer.write - left'])
    BY <1>1, <1>5, <2>1 DEF Written
  <2>3. [packet |-> buffer, out |-> buffer.write - left'] \in Pieces
    BY <1>3, <1>4 DEF Pieces
  <2> QED
    BY <1>1, <1>4, <1>5, <2>2, <2>3
<1>6. CASE left # buffer.write
  <2>1. left < buffer.write
    BY <1>1, <1>2, <1>3, <1>6
  <2>2. Len(wire) > 0 /\ wire[Len(wire)] = [packet |-> buffer, out |-> buffer.write - left]
    BY <1>1, <2>1 DEF PartInv
  <2>3. wire' = [wire EXCEPT ![Len(wire)] = [packet |-> buffer, out |-> @.out + n]]
    BY <1>1, <1>6 DEF Written
  <2>4. wire[Len(wire)].out + n = buffer.write - left'
    BY <1>1, <1>3, <2>2
  <2>5. wire' = [wire EXCEPT ![Len(wire)] = [packet |-> buffer, out |-> buffer.write - left']]
    BY <2>2, <2>3, <2>4
  <2>6. [packet |-> buffer, out |-> buffer.write - left'] \in Pieces
    BY <1>3, <1>4 DEF Pieces
  <2>7. Len(wire) \in 1..Len(wire)
    BY <1>1, <2>2
  <2>8. wire' \in Seq(Pieces) /\ Len(wire') = Len(wire)
    BY <1>1, <2>5, <2>6, <2>7
  <2>9. wire'[Len(wire)] = [packet |-> buffer, out |-> buffer.write - left']
    BY <1>1, <2>5, <2>7
  <2>10. \A i \in 1..(Len(wire) - 1) : i \in 1..Len(wire) /\ wire'[i] = wire[i]
    BY <1>1, <2>5, <2>7
  <2> QED
    BY <1>1, <1>4, <1>6, <2>2, <2>8, <2>9, <2>10
<1> QED
  BY <1>5, <1>6

\* What SendPacket puts at the end of the queue.
LEMMA QueueAfterSendPacket ==
  ASSUME TypeOK, NEW m \in Messages, SendPacket(m)
  PROVE  /\ requested' \in Seq(Messages) /\ Len(requested') = Len(requested) + 1
         /\ Len(requested') <= MaxRequests
         /\ requested'[Len(requested')] = m
         /\ overrun' => ~(m.data + HeaderSize < SizeMod)
         /\ \/ overrun' = TRUE /\ queue' = queue
            \/ /\ overrun' = FALSE /\ Len(queue') = Len(queue) + 1
               /\ queue' \in Seq(Buffers)
               /\ \A i \in 1..Len(queue) : queue'[i] = queue[i]
               /\ queue'[Len(queue')].no = Len(requested')
               /\ Made(queue[Len(queue)])'
<1>1. /\ requested \in Seq(Messages) /\ queue \in Seq(Buffers) /\ overrun = FALSE
      /\ requested' = Append(requested, m) /\ Len(requested) < MaxRequests
  BY DEF TypeOK, SendPacket, Alive
<1>2. /\ requested' \in Seq(Messages) /\ Len(requested') = Len(requested) + 1
      /\ requested'[Len(requested')] = m /\ Len(requested') \in 1..MaxRequests
      /\ Len(requested') <= MaxRequests
  BY <1>1, LimitsAssumption
<1>3. CASE WritesPastEnd(m)
  <2>1. overrun' = TRUE /\ queue' = queue
    BY <1>3 DEF SendPacket
  <2> QED
    BY <1>2, <1>3, <2>1, FittingMessage
<1>4. CASE ~WritesPastEnd(m)
  <2>1. overrun' = FALSE /\ queue' = Append(queue, MakeSendBuffer(m, Len(requested')))
    BY <1>1, <1>4 DEF SendPacket
  <2>2. MakeSendBuffer(m, Len(requested')) \in Buffers
    BY <1>2, BufferTyped
  <2>3. /\ Len(queue') = Len(queue) + 1 /\ queue' \in Seq(Buffers)
        /\ \A i \in 1..Len(queue) : queue'[i] = queue[i]
        /\ queue'[Len(queue')] = MakeSendBuffer(m, Len(requested'))
    BY <1>1, <2>1, <2>2
  <2>4. queue'[Len(queue')].no = Len(requested')
    BY <2>3 DEF MakeSendBuffer
  <2>5. Made(queue[Len(queue)])'
    BY <1>2, <1>4, <2>3, <2>4 DEF Made
  <2> QED
    BY <1>2, <2>1, <2>3, <2>4, <2>5
<1> QED
  BY <1>3, <1>4

LEMMA QueueAfterDequeue ==
  ASSUME TypeOK, Dequeue
  PROVE  /\ Len(queue) > 0 /\ buffer' = queue[1] /\ left' = queue[1].write
         /\ buffer' \in Buffers /\ left' \in 0..(SizeMod - 1)
         /\ queue' \in Seq(Buffers) /\ Len(queue') = Len(queue) - 1
         /\ \A i \in 1..Len(queue') : i + 1 \in 1..Len(queue) /\ queue'[i] = queue[i + 1]
<1>1. queue \in Seq(Buffers) /\ queue # <<>>
  BY DEF TypeOK, Dequeue
<1>2. queue[1] \in Buffers
  BY <1>1
<1>3. queue[1].write \in 0..(SizeMod - 1)
  BY <1>2 DEF Buffers
<1> QED
  BY <1>1, <1>2, <1>3 DEF Dequeue

-----------------------------------------------------------------------------
(* The invariant. *)

LEMMA InitInv == ASSUME Init PROVE IInv
<1>1. /\ requested = <<>> /\ queue = <<>> /\ wire = <<>> /\ worker = "poll"
      /\ buffer = NoBuffer /\ left = 0 /\ session = "held" /\ connected = TRUE
      /\ overrun = FALSE
  BY DEF Init
<1>2. Len(requested) = 0 /\ Len(queue) = 0 /\ Len(wire) = 0 /\ 1..0 = {}
  BY <1>1
<1>3. TypeOK
  <2>1. requested \in Seq(Messages) /\ queue \in Seq(Buffers) /\ wire \in Seq(Pieces)
    BY <1>1
  <2>2. 0 \in 0..(SizeMod - 1) /\ 0 <= MaxRequests
    BY LimitsAssumption, WidthAssumption
  <2> QED
    BY <1>1, <1>2, <2>1, <2>2 DEF TypeOK
<1>4. MadeInv /\ PartInv
  BY <1>1, <1>2 DEF MadeInv, PartInv
<1>5. OrderInv
  BY <1>1, <1>2 DEF OrderInv
<1>6. Ahead = 0 /\ ~Fresh
  BY <1>1 DEF Ahead, Fresh
<1>7. GaplessInv
  BY <1>1, <1>2, <1>6 DEF GaplessInv
<1> QED
  BY <1>3, <1>4, <1>5, <1>7 DEF IInv

LEMMA SendPacketInv ==
  ASSUME IInv, NEW m \in Messages, SendPacket(m) PROVE IInv'
<1> USE DEF IInv
<1>1. /\ UNCHANGED <<worker, buffer, left, wire, session, connected>>
      /\ requested' = Append(requested, m) /\ session = "held" /\ overrun = FALSE
  BY DEF SendPacket, workerVars, Alive, TypeOK
<1>2. /\ requested' \in Seq(Messages) /\ Len(requested') = Len(requested) + 1
      /\ Len(requested') <= MaxRequests /\ Len(requested) \in Nat
      /\ wire \in Seq(Pieces) /\ queue \in Seq(Buffers)
  <2>1. /\ requested' \in Seq(Messages) /\ Len(requested') = Len(requested) + 1
        /\ Len(requested') <= MaxRequests
    BY QueueAfterSendPacket
  <2> QED
    BY <2>1 DEF TypeOK
<1>3. CASE overrun' = TRUE /\ queue' = queue
  <2>1. TypeOK'
    BY <1>1, <1>2, <1>3 DEF TypeOK
  <2>2. MadeInv'
    BY <1>1, <1>3, MadeStays DEF MadeInv
  <2>3. PartInv' /\ OrderInv' /\ GaplessInv'
    BY <1>1, <1>3 DEF PartInv, OrderInv, GaplessInv, Ahead, Fresh, Complete
  <2> QED
    BY <2>1, <2>2, <2>3
<1>4. CASE overrun' = FALSE
  <2>1. /\ Len(queue') = Len(queue) + 1 /\ queue' \in Seq(Buffers)
        /\ \A i \in 1..Len(queue) : queue'[i] = queue[i]
        /\ queue'[Len(queue')].no = Len(requested')
        /\ Made(queue[Len(queue)])'
    BY <1>4, QueueAfterSendPacket
  <2>2. TypeOK'
    BY <1>1, <1>2, <1>4, <2>1 DEF TypeOK
  <2>3. MadeInv'
    <3>1. \A i \in 1..Len(queue) : Made(queue[i])'
      BY <1>1, <2>1, MadeStays DEF MadeInv
    <3>2. \A i \in 1..Len(wire) : Made(wire[i].packet)'
      BY <1>1, MadeStays DEF MadeInv
    <3>3. worker = "send" => Made(buffer)' /\ left <= buffer.write
      BY <1>1, MadeStays DEF MadeInv
    <3>4. \A i \in 1..Len(queue') : i \in 1..Len(queue) \/ i = Len(queue')
      BY <1>2, <2>1
    <3> QED
      BY <1>1, <2>1, <3>1, <3>2, <3>3, <3>4 DEF MadeInv
  <2>4. PartInv'
    BY <1>1 DEF PartInv
  <2>5. OrderInv'
    <3>1. /\ \A i \in 1..Len(queue) : queue[i].no \in 1..Len(requested)
          /\ \A i \in 1..Len(wire) : wire[i].packet.no \in 1..Len(requested)
          /\ worker = "send" => buffer.no \in 1..Len(requested)
      BY DEF MadeInv, Made
    <3>2. \A i \in 1..Len(queue') : i \in 1..Len(queue) \/ i = Len(queue')
      BY <1>2, <2>1
    <3>3. ASSUME NEW i \in 1..Len(queue'), NEW j \in 1..Len(queue'), i < j
          PROVE  queue'[i].no < queue'[j].no
      <4>1. i \in 1..Len(queue) /\ queue'[i] = queue[i]
        BY <1>2, <2>1, <3>2, <3>3
      <4>2. CASE j = Len(queue')
        BY <1>2, <2>1, <3>1, <4>1, <4>2
      <4>3. CASE j \in 1..Len(queue)
        BY <2>1, <3>3, <4>1, <4>3 DEF OrderInv
      <4> QED
        BY <3>2, <4>2, <4>3
    <3>4. \A i \in 1..Len(wire), j \in 1..Len(queue') : wire[i].packet.no < queue'[j].no
      BY <1>2, <2>1, <3>1, <3>2 DEF OrderInv
    <3>5. worker = "send" => \A j \in 1..Len(queue') : buffer.no < queue'[j].no
      BY <1>2, <2>1, <3>1, <3>2 DEF OrderInv
    <3> QED
      BY <1>1, <3>3, <3>4, <3>5 DEF OrderInv
  <2>6. GaplessInv'
    <3> SUFFICES ASSUME ~TransientErrors, connected
                 PROVE  /\ \A j \in 1..Len(queue') : queue'[j].no = Len(wire) + Ahead + j
                        /\ Len(requested') = Len(wire) + Ahead + Len(queue')
      BY <1>1 DEF GaplessInv, Ahead, Fresh, Complete
    <3>1. /\ Len(requested) = Len(wire) + Ahead + Len(queue)
          /\ \A j \in 1..Len(queue) : queue[j].no = Len(wire) + Ahead + j
      BY <1>1 DEF GaplessInv
    <3>2. Ahead \in Nat /\ Len(wire) \in Nat /\ Len(queue) \in Nat
      BY <1>2 DEF Ahead
    <3>3. Len(requested') = Len(wire) + Ahead + Len(queue')
      BY <1>2, <2>1, <3>1, <3>2
    <3>4. \A i \in 1..Len(queue') : i \in 1..Len(queue) \/ i = Len(queue')
      BY <1>2, <2>1
    <3> QED
      BY <2>1, <3>1, <3>3, <3>4
  <2> QED
    BY <2>2, <2>3, <2>4, <2>5, <2>6
<1> QED
  BY <1>3, <1>4, QueueAfterSendPacket

LEMMA DequeueInv == ASSUME IInv, Dequeue PROVE IInv'
<1> USE DEF IInv
<1>1. /\ UNCHANGED <<requested, overrun, wire, session, connected>>
      /\ worker = "poll" /\ worker' = "send"
  BY DEF Dequeue, gameVars
<1>2. /\ Len(queue) > 0 /\ buffer' = queue[1] /\ left' = queue[1].write
      /\ buffer' \in Buffers /\ left' \in 0..(SizeMod - 1)
      /\ queue' \in Seq(Buffers) /\ Len(queue') = Len(queue) - 1
      /\ \A i \in 1..Len(queue') : i + 1 \in 1..Len(queue) /\ queue'[i] = queue[i + 1]
  BY QueueAfterDequeue
<1>3. queue \in Seq(Buffers) /\ wire \in Seq(Pieces) /\ 1 \in 1..Len(queue)
  BY <1>2 DEF TypeOK
<1>4. TypeOK'
  BY <1>1, <1>2 DEF TypeOK
<1>5. MadeInv'
  <2>1. Made(buffer') /\ left' <= buffer'.write
    BY <1>2, <1>3 DEF MadeInv
  <2> QED
    BY <1>1, <1>2, <2>1 DEF MadeInv, Made
<1>6. PartInv'
  BY <1>2 DEF PartInv
<1>7. OrderInv'
  <2>0. Len(queue) \in Nat /\ \A i, j \in 1..Len(queue) : i < j => queue[i].no < queue[j].no
    BY <1>3 DEF OrderInv
  <2>1. ASSUME NEW j \in 1..Len(queue') PROVE buffer'.no < queue'[j].no
    <3>1. 1 < j + 1 /\ j + 1 \in 1..Len(queue) /\ queue'[j] = queue[j + 1]
      BY <1>2
    <3> QED
      BY <1>2, <1>3, <2>0, <3>1
  <2>2. ASSUME NEW i \in 1..Len(queue'), NEW j \in 1..Len(queue'), i < j
        PROVE  queue'[i].no < queue'[j].no
    <3>1. /\ i + 1 < j + 1 /\ i + 1 \in 1..Len(queue) /\ j + 1 \in 1..Len(queue)
          /\ queue'[i] = queue[i + 1] /\ queue'[j] = queue[j + 1]
      BY <1>2, <2>2
    <3> QED
      BY <2>0, <3>1
  <2> QED
    BY <1>1, <1>2, <1>3, <2>1, <2>2 DEF OrderInv
<1>8. GaplessInv'
  <2>1. Fresh' /\ Ahead' = 1 /\ Ahead = 0
    BY <1>1, <1>2 DEF Fresh, Ahead
  <2>2. Len(wire) \in Nat /\ Len(queue) \in Nat
    BY <1>3
  <2>3. ASSUME ~TransientErrors, connected
        PROVE  /\ \A j \in 1..Len(queue') : queue'[j].no = Len(wire) + 1 + j
               /\ session # "destroyed" /\ ~overrun =>
                    Len(requested) = Len(wire) + 1 + Len(queue')
               /\ buffer'.no = Len(wire) + 1
               /\ \A i \in 1..Len(wire) : Complete(wire[i])
    <3>1. /\ \A j \in 1..Len(queue) : queue[j].no = Len(wire) + Ahead + j
          /\ session # "destroyed" /\ ~overrun => Len(requested) = Len(wire) + Ahead + Len(queue)
          /\ \A i \in 1..Len(wire) : Complete(wire[i])
      BY <1>1, <2>3 DEF GaplessInv
    <3>2. ASSUME NEW j \in 1..Len(queue') PROVE queue'[j].no = Len(wire) + 1 + j
      <4>1. j + 1 \in 1..Len(queue) /\ queue'[j] = queue[j + 1]
        BY <1>2
      <4>2. queue[j + 1].no = Len(wire) + Ahead + (j + 1)
        BY <3>1, <4>1
      <4> QED
        BY <2>1, <2>2, <4>1, <4>2
    <3>3. buffer'.no = Len(wire) + 1
      BY <1>2, <1>3, <2>1, <2>2, <3>1
    <3>4. session # "destroyed" /\ ~overrun => Len(requested) = Len(wire) + 1 + Len(queue')
      <4> SUFFICES ASSUME session # "destroyed", ~overrun
                   PROVE  Len(requested) = Len(wire) + 1 + Len(queue')
        OBVIOUS
      <4>1. Len(requested) = Len(wire) + Ahead + Len(queue)
        BY <3>1
      <4> QED
        BY <1>2, <2>1, <2>2, <4>1
    <3> QED
      BY <3>1, <3>2, <3>3, <3>4
  <2> QED
    BY <1>1, <2>1, <2>3 DEF GaplessInv, Complete
<1> QED
  BY <1>4, <1>5, <1>6, <1>7, <1>8

LEMMA SendInv ==
  ASSUME IInv, NEW n \in 1..(SizeMod - 1), Send(n) PROVE IInv'
<1> USE DEF IInv
<1>1. /\ UNCHANGED <<requested, overrun, queue, worker, buffer, session, connected>>
      /\ worker = "send" /\ connected = TRUE
  BY DEF Send, gameVars, TypeOK
<1>2. /\ wire' \in Seq(Pieces) /\ Len(wire') > 0
      /\ Len(wire') = IF left = buffer.write THEN Len(wire) + 1 ELSE Len(wire)
      /\ wire'[Len(wire')] = [packet |-> buffer, out |-> buffer.write - left']
      /\ \A i \in 1..(Len(wire') - 1) : i \in 1..Len(wire) /\ wire'[i] = wire[i]
      /\ left' \in 0..(SizeMod - 1) /\ left' < buffer.write
  BY WireAfterSend
<1>3. /\ wire \in Seq(Pieces) /\ Len(wire) \in Nat /\ Len(wire') \in Nat
      /\ Made(buffer) /\ left \in Nat /\ left <= buffer.write
  BY <1>1, <1>2 DEF TypeOK, MadeInv
<1>4. buffer.write \in Nat /\ buffer.no \in Nat
  BY <1>3, MadeSize
<1>5. wire'[Len(wire')].packet = buffer
  BY <1>2
<1>6. \A i \in 1..Len(wire') :
        \/ i \in 1..(Len(wire') - 1) /\ i \in 1..Len(wire) /\ wire'[i] = wire[i]
        \/ i = Len(wire')
  <2> SUFFICES ASSUME NEW i \in 1..Len(wire'), i # Len(wire')
               PROVE  i \in 1..(Len(wire') - 1)
    BY <1>2
  <2> QED
    BY <1>3
<1>7. TypeOK'
  BY <1>1, <1>2 DEF TypeOK
<1>8. MadeInv'
  <2>1. \A i \in 1..Len(wire') : Made(wire'[i].packet)
    BY <1>3, <1>5, <1>6 DEF MadeInv
  <2>2. left' <= buffer.write
    BY <1>2, <1>4
  <2> QED
    BY <1>1, <1>3, <2>1, <2>2 DEF MadeInv, Made
<1>9. PartInv'
  BY <1>1, <1>2 DEF PartInv
<1>10. OrderInv'
  <2>1. \A i \in 1..(Len(wire') - 1) : wire[i].packet.no < buffer.no
    <3>1. CASE left = buffer.write
      BY <1>1, <1>2, <3>1 DEF OrderInv
    <3>2. CASE left # buffer.write
      <4>1. Len(wire) > 0 /\ wire[Len(wire)].packet = buffer /\ Len(wire') = Len(wire)
        BY <1>1, <1>2, <1>3, <1>4, <3>2 DEF PartInv
      <4> QED
        BY <1>3, <4>1 DEF OrderInv
    <3> QED
      BY <3>1, <3>2
  <2>2. ASSUME NEW i \in 1..Len(wire'), NEW j \in 1..Len(wire'), i < j
        PROVE  wire'[i].packet.no < wire'[j].packet.no
    <3>1. i \in 1..(Len(wire') - 1) /\ i \in 1..Len(wire) /\ wire'[i] = wire[i]
      BY <1>3, <1>6, <2>2
    <3>2. CASE j = Len(wire')
      BY <1>5, <2>1, <3>1, <3>2
    <3>3. CASE j \in 1..Len(wire) /\ wire'[j] = wire[j]
      BY <2>2, <3>1, <3>3 DEF OrderInv
    <3> QED
      BY <1>6, <3>2, <3>3
  <2>3. \A i \in 1..Len(wire'), j \in 1..Len(queue) : wire'[i].packet.no < queue[j].no
    BY <1>1, <1>5, <1>6 DEF OrderInv
  <2>4. left' # buffer.write
    BY <1>2, <1>4
  <2> QED
    BY <1>1, <2>2, <2>3, <2>4 DEF OrderInv
<1>11. GaplessInv'
  <2> SUFFICES ASSUME ~TransientErrors PROVE GaplessInv'
    BY DEF GaplessInv
  <2>1. ~Fresh' /\ Ahead' = 0 /\ Len(wire') = Len(wire) + Ahead
    BY <1>1, <1>2, <1>3, <1>4 DEF Fresh, Ahead
  <2>2. wire'[Len(wire')].packet.no = Len(wire')
    <3>1. CASE left = buffer.write
      BY <1>1, <1>2, <1>5, <3>1 DEF GaplessInv, Fresh
    <3>2. CASE left # buffer.write
      <4>1. Len(wire) > 0 /\ wire[Len(wire)].packet = buffer /\ Len(wire') = Len(wire)
        BY <1>1, <1>2, <1>3, <1>4, <3>2 DEF PartInv
      <4> QED
        BY <1>3, <1>5, <4>1 DEF GaplessInv
    <3> QED
      BY <3>1, <3>2
  <2>3. \A i \in 1..Len(wire') : wire'[i].packet.no = i
    BY <1>6, <2>2 DEF GaplessInv
  <2>4. \A i \in 1..(Len(wire') - 1) : Complete(wire'[i])
    <3>1. CASE left = buffer.write
      BY <1>1, <1>2, <3>1 DEF GaplessInv, Fresh
    <3>2. CASE left # buffer.write
      BY <1>2, <3>2 DEF GaplessInv
    <3> QED
      BY <3>1, <3>2
  <2>5. /\ \A j \in 1..Len(queue) : queue[j].no = Len(wire') + j
        /\ session # "destroyed" /\ ~overrun => Len(requested) = Len(wire') + Len(queue)
    BY <1>1, <2>1 DEF GaplessInv
  <2> QED
    BY <1>1, <2>1, <2>3, <2>4, <2>5, <1>3 DEF GaplessInv, Complete
<1> QED
  BY <1>7, <1>8, <1>9, <1>10, <1>11

\* The worker gives up what is left of a buffer, or has sent all of it.
LEMMA SendEndsInv == ASSUME IInv, SendDone \/ SendFails PROVE IInv'
<1> USE DEF IInv
<1>1. /\ UNCHANGED <<requested, overrun, queue, wire, session, connected>>
      /\ worker = "send" /\ worker' = "poll" /\ buffer' = NoBuffer /\ left' = 0
  BY DEF SendDone, SendFails, gameVars
<1>2. Made(buffer)
  BY <1>1 DEF MadeInv
<1>3. buffer.write \in Nat /\ buffer.write > 0 /\ buffer.write = buffer.size
  BY <1>2, MadeSize
<1>4. TypeOK'
  <2>1. 0 \in 0..(SizeMod - 1)
    BY WidthAssumption
  <2> QED
    BY <1>1, <2>1 DEF TypeOK
<1>5. MadeInv'
  BY <1>1 DEF MadeInv, Made
<1>6. PartInv' /\ OrderInv'
  BY <1>1 DEF PartInv, OrderInv
<1>7. GaplessInv'
  <2> SUFFICES ASSUME ~TransientErrors PROVE GaplessInv'
    BY DEF GaplessInv
  <2>1. ~Fresh' /\ Ahead' = 0
    BY <1>1 DEF Fresh, Ahead
  <2>2. CASE SendFails
    <3>1. connected = FALSE
      BY <2>2 DEF SendFails, TypeOK
    <3> QED
      BY <1>1, <3>1 DEF GaplessInv, Complete
  <2>3. CASE SendDone
    <3>1. left = 0 /\ ~Fresh /\ Ahead = 0
      BY <1>3, <2>3 DEF SendDone, Fresh, Ahead
    <3>2. wire[Len(wire)] = [packet |-> buffer, out |-> buffer.write - left]
      BY <1>1, <1>3, <3>1 DEF PartInv
    <3>3. Complete(wire[Len(wire)])
      BY <1>3, <3>1, <3>2 DEF Complete
    <3>4. \A i \in 1..Len(wire) : Complete(wire[i])
      <4> SUFFICES ASSUME NEW i \in 1..Len(wire), i # Len(wire) PROVE Complete(wire[i])
        BY <3>3
      <4>1. Len(wire) \in Nat
        BY DEF TypeOK
      <4>2. i \in 1..(Len(wire) - 1)
        BY <4>1
      <4> QED
        BY <4>2 DEF GaplessInv
    <3>5. /\ \A i \in 1..Len(wire) : wire[i].packet.no = i
          /\ \A i \in 1..(Len(wire) - 1) : Complete(wire[i])
          /\ connected =>
               /\ \A j \in 1..Len(queue) : queue[j].no = Len(wire) + Ahead + j
               /\ session # "destroyed" /\ ~overrun =>
                    Len(requested) = Len(wire) + Ahead + Len(queue)
      BY DEF GaplessInv
    <3> QED
      BY <1>1, <2>1, <3>1, <3>4, <3>5 DEF GaplessInv, Complete
  <2> QED
    BY <2>2, <2>3
<1> QED
  BY <1>4, <1>5, <1>6, <1>7

\* Nothing that is on its way moves.
LEMMA OtherInv ==
  ASSUME IInv, DropSession \/ ConnectionLost \/ Exit \/ UNCHANGED vars PROVE IInv'
<1> USE DEF IInv
<1>1. /\ UNCHANGED <<requested, overrun, queue, wire, buffer, left>>
      /\ worker' = worker \/ (worker = "poll" /\ worker' = "stopped")
      /\ session' = session \/ (session = "held" /\ session' = "dropped")
      /\ connected' = connected \/ connected' = FALSE
  BY DEF DropSession, ConnectionLost, Exit, vars, gameVars, workerVars
<1>2. (worker = "send") = (worker' = "send") /\ Fresh' = Fresh /\ Ahead' = Ahead
  BY <1>1 DEF Fresh, Ahead
<1>3. TypeOK'
  BY <1>1 DEF TypeOK
<1>4. MadeInv'
  BY <1>1 DEF MadeInv, Made
<1>5. PartInv' /\ OrderInv'
  BY <1>1 DEF PartInv, OrderInv
<1>6. GaplessInv'
  <2> SUFFICES ASSUME ~TransientErrors PROVE GaplessInv'
    BY DEF GaplessInv
  <2>1. /\ connected' => connected
        /\ session' # "destroyed" => session # "destroyed"
        /\ worker' # "send" => worker # "send"
    BY <1>1
  <2> QED
    BY <1>1, <1>2, <2>1 DEF GaplessInv, Complete
<1> QED
  BY <1>3, <1>4, <1>5, <1>6

LEMMA SessionDestroyedInv == ASSUME IInv, SessionDestroyed PROVE IInv'
<1> USE DEF IInv
<1>1. /\ UNCHANGED <<requested, overrun, wire, worker, buffer, left, connected>>
      /\ worker = "poll" /\ session' = "destroyed" /\ queue' = <<>>
  BY DEF SessionDestroyed, gameVars, workerVars
<1>2. Len(queue') = 0 /\ queue' \in Seq(Buffers) /\ 1..0 = {}
  BY <1>1
<1>3. ~Fresh /\ Fresh' = Fresh /\ Ahead' = Ahead
  BY <1>1 DEF Fresh, Ahead
<1>4. TypeOK'
  BY <1>1, <1>2 DEF TypeOK
<1>5. MadeInv'
  BY <1>1, <1>2 DEF MadeInv, Made
<1>6. PartInv' /\ OrderInv'
  BY <1>1, <1>2 DEF PartInv, OrderInv
<1>7. GaplessInv'
  BY <1>1, <1>2, <1>3 DEF GaplessInv, Complete
<1> QED
  BY <1>4, <1>5, <1>6, <1>7

LEMMA Invariance == SafeSpec => []IInv
<1>1. Init => IInv
  BY InitInv
<1>2. IInv /\ [Next]_vars => IInv'
  BY SendPacketInv, DequeueInv, SendInv, SendEndsInv, OtherInv, SessionDestroyedInv
     DEF Next, Worker
<1> QED
  BY <1>1, <1>2, PTL DEF SafeSpec

-----------------------------------------------------------------------------
(* What it comes to. *)

\* The variables of the sending half keep their types; in particular the sizes
\* of every buffer and of what is left of one are what 16 bits hold.
THEOREM TypeCorrect == SafeSpec => []TypeOK
<1>1. IInv => TypeOK
  BY DEF IInv
<1> QED
  BY <1>1, Invariance, PTL

\* However little the socket takes at a time, only the last packet on the wire
\* is ever in part, unless Send fails on a connection that goes on.
THEOREM FramedTheorem == SafeSpec => []OnlyLastInPart
<1>1. IInv => OnlyLastInPart
  BY DEF IInv, GaplessInv, OnlyLastInPart
<1> QED
  BY <1>1, Invariance, PTL

\* Whatever fails, no packet goes out twice or before one requested earlier.
THEOREM OrderTheorem == SafeSpec => []InOrderOnce
<1>1. ASSUME IInv PROVE InOrderOnce
  <2>1. DOMAIN wire = 1..Len(wire)
    BY <1>1 DEF IInv, TypeOK
  <2> QED
    BY <1>1, <2>1 DEF IInv, OrderInv, InOrderOnce
<1> QED
  BY <1>1, Invariance, PTL

\* Whatever the width of the size field, a message that fits a packet goes out
\* with the size it has, and only one that does not overruns its buffer.
THEOREM SizeTheorem == SafeSpec => []SizeHonest
<1> DEFINE Big == \E k \in DOMAIN requested : ~(requested[k].data + HeaderSize < SizeMod)
           J == IInv /\ (overrun => Big)
<1>1. Init => J
  BY InitInv DEF Init
<1>2. J /\ [Next]_vars => J'
  <2> SUFFICES ASSUME J, [Next]_vars PROVE J'
    OBVIOUS
  <2>1. IInv'
    BY SendPacketInv, DequeueInv, SendInv, SendEndsInv, OtherInv, SessionDestroyedInv
       DEF Next, Worker
  <2>2. CASE \E m \in Messages : SendPacket(m)
    <3>1. PICK m \in Messages : SendPacket(m)
      BY <2>2
    <3>2. /\ requested' \in Seq(Messages) /\ Len(requested') = Len(requested) + 1
          /\ requested'[Len(requested')] = m
          /\ overrun' => ~(m.data + HeaderSize < SizeMod)
      BY <3>1, QueueAfterSendPacket DEF IInv
    <3>3. Len(requested') \in DOMAIN requested'
      <4>1. requested \in Seq(Messages)
        BY DEF IInv, TypeOK
      <4> QED
        BY <3>2, <4>1
    <3>4. overrun' => Big'
      BY <3>2, <3>3
    <3> QED
      BY <2>1, <3>4
  <2>3. CASE UNCHANGED <<requested, overrun>>
    BY <2>1, <2>3
  <2> QED
    BY <2>2, <2>3 DEF Next, Worker, DropSession, SessionDestroyed, ConnectionLost,
       Dequeue, Send, SendDone, SendFails, Exit, vars, gameVars
<1>3. ASSUME J PROVE SizeHonest
  <2>1. \A i \in DOMAIN wire : Made(wire[i].packet)
    BY <1>3 DEF IInv, TypeOK, MadeInv
  <2>2. ASSUME NEW i \in DOMAIN wire,
               requested[wire[i].packet.no].data + HeaderSize < SizeMod
        PROVE  /\ wire[i].packet.id = requested[wire[i].packet.no].id
               /\ wire[i].packet.size = requested[wire[i].packet.no].data + HeaderSize
               /\ wire[i].packet.payload = "written"
    <3> DEFINE p == wire[i].packet
               m == requested[p.no]
    <3>1. m \in Messages
      BY <1>3, <2>1 DEF IInv, TypeOK, Made
    <3>2. DataSize(m) = m.data /\ PacketSize(m) = m.data + HeaderSize /\ m.data \in Nat
      BY <2>2, <3>1, FittingMessage, MessageFields
    <3>3. p = MakeSendBuffer(m, p.no)
      BY <2>1 DEF Made
    <3>4. /\ p.id = m.id /\ p.size = PacketSize(m)
          /\ p.payload = IF m.data <= DataSize(m) THEN "written" ELSE "zeros"
      BY <3>3 DEF MakeSendBuffer
    <3> QED
      BY <3>2, <3>4
  <2> QED
    BY <1>3, <2>2 DEF SizeHonest
<1> QED
  BY <1>1, <1>2, <1>3, PTL DEF SafeSpec

\* What the server has read, once it is known which packets are whole.
LEMMA ReadableAfterSend ==
  ASSUME IInv, ~TransientErrors, NEW n \in 1..(SizeMod - 1), Send(n)
  PROVE  /\ Readable = Len(wire') - 1
         /\ Readable' = IF left' = 0 THEN Len(wire') ELSE Len(wire') - 1
<1> USE DEF IInv
<1>1. worker = "send" /\ connected = TRUE /\ Made(buffer) /\ left <= buffer.write
  BY DEF Send, TypeOK, MadeInv
<1>2. buffer.write \in Nat /\ buffer.write = buffer.size /\ left \in Nat /\ left > 0
  BY <1>1, MadeSize DEF Send, TypeOK
<1>3. /\ wire' \in Seq(Pieces) /\ Len(wire') > 0
      /\ Len(wire') = IF left = buffer.write THEN Len(wire) + 1 ELSE Len(wire)
      /\ wire'[Len(wire')] = [packet |-> buffer, out |-> buffer.write - left']
      /\ left' \in 0..(SizeMod - 1) /\ left' < buffer.write
  BY WireAfterSend
<1>4. wire \in Seq(Pieces) /\ Len(wire) \in Nat
  BY DEF TypeOK
<1>5. Readable = Len(wire') - 1
  <2>1. CASE left = buffer.write
    <3>1. \A i \in 1..Len(wire) : Complete(wire[i])
      BY <1>1, <2>1 DEF GaplessInv, Fresh
    <3>2. wire # <<>> => Len(wire) \in 1..Len(wire)
      BY <1>4
    <3>3. Readable = Len(wire)
      BY <3>1, <3>2 DEF Readable
    <3> QED
      BY <1>3, <1>4, <2>1, <3>3
  <2>2. CASE left # buffer.write
    <3>1. left < buffer.write
      BY <1>1, <1>2, <2>2
    <3>2. Len(wire) > 0 /\ wire[Len(wire)] = [packet |-> buffer, out |-> buffer.write - left]
      BY <1>1, <3>1 DEF PartInv
    <3>3. ~Complete(wire[Len(wire)])
      BY <1>2, <3>1, <3>2 DEF Complete
    <3>4. wire # <<>>
      BY <1>4, <3>2
    <3> QED
      BY <1>3, <2>2, <3>3, <3>4 DEF Readable
  <2> QED
    BY <2>1, <2>2
<1>6. wire' # <<>>
  BY <1>3
<1>7. Complete(wire'[Len(wire')]) = (left' = 0)
  BY <1>2, <1>3 DEF Complete
<1>8. Readable' = IF left' = 0 THEN Len(wire') ELSE Len(wire') - 1
  BY <1>6, <1>7 DEF Readable, Complete
<1> QED
  BY <1>5, <1>8

LEMMA SendDelivers ==
  ASSUME IInv, ~TransientErrors, NEW n \in 1..(SizeMod - 1), Send(n)
  PROVE  \/ Delivered' = Delivered
         \/ /\ Len(Delivered) < Len(requested)
            /\ Delivered' = Append(Delivered, requested[Len(Delivered) + 1])
<1>1. IInv' /\ requested' = requested
  BY SendInv DEF Send, gameVars
<1>2. /\ Len(wire') \in Nat /\ Len(wire') > 0
      /\ \A i \in 1..(Len(wire') - 1) : i \in 1..Len(wire) /\ wire'[i] = wire[i]
  <2>1. wire' \in Seq(Pieces) /\ Len(wire') > 0
        /\ \A i \in 1..(Len(wire') - 1) : i \in 1..Len(wire) /\ wire'[i] = wire[i]
    BY WireAfterSend DEF IInv
  <2> QED
    BY <2>1
<1>3. /\ Readable = Len(wire') - 1
      /\ Readable' = IF left' = 0 THEN Len(wire') ELSE Len(wire') - 1
  BY ReadableAfterSend
<1>4. CASE left' # 0
  BY <1>1, <1>2, <1>3, <1>4 DEF Delivered
<1>5. CASE left' = 0
  <2> DEFINE L == Len(wire')
  <2>1. /\ L \in 1..Len(wire') /\ wire'[L].packet.no = L /\ L \in 1..Len(requested)
    BY <1>1, <1>2 DEF IInv, GaplessInv, MadeInv, Made
  <2>2. Delivered = [i \in 1..(L - 1) |-> requested[wire'[i].packet.no]]
    BY <1>2, <1>3 DEF Delivered
  <2>3. Delivered' = [i \in 1..L |-> requested[wire'[i].packet.no]]
    BY <1>1, <1>3, <1>5 DEF Delivered
  <2>4. \A i \in 1..L : requested[wire'[i].packet.no] \in Messages
    <3>1. requested \in Seq(Messages)
      BY <1>1 DEF IInv, TypeOK
    <3>2. \A i \in 1..L : wire'[i].packet.no \in 1..Len(requested)
      BY <1>1 DEF IInv, MadeInv, Made
    <3> QED
      BY <3>1, <3>2
  <2>5. Delivered \in Seq(Messages) /\ Len(Delivered) = L - 1
    BY <1>2, <2>2, <2>4
  <2>6. Delivered' = Append(Delivered, requested[L])
    BY <1>2, <2>1, <2>2, <2>3, <2>4, <2>5
  <2>7. Len(Delivered) + 1 = L /\ Len(Delivered) < Len(requested)
    <3>1. requested \in Seq(Messages)
      BY <1>1 DEF IInv, TypeOK
    <3> QED
      BY <1>2, <2>1, <2>5, <3>1
  <2> QED
    BY <2>6, <2>7
<1> QED
  BY <1>4, <1>5

\* As long as a failing Send means that the connection is lost, every step of
\* the sending half is a step of the in-order channel, or invisible to it.
THEOREM ChannelTheorem ==
  ASSUME ~TransientErrors
  PROVE  SafeSpec => ImplementsChannel
<1>1. ASSUME Init PROVE Channel!Init
  <2>1. requested = <<>> /\ wire = <<>> /\ session = "held" /\ connected = TRUE
    BY <1>1 DEF Init
  <2>2. Readable = 0
    BY <2>1 DEF Readable
  <2>3. Delivered = <<>>
    BY <2>2 DEF Delivered
  <2> QED
    BY <2>1, <2>3 DEF Channel!Init
<1>2. ASSUME IInv, [Next]_vars PROVE [Channel!Next]_(Channel!vars)
  <2>1. CASE \E m \in Messages : SendPacket(m)
    <3>1. PICK m \in Messages : SendPacket(m)
      BY <2>1
    <3>2. /\ requested' = Append(requested, m) /\ UNCHANGED <<wire, session, connected>>
      BY <3>1 DEF SendPacket
    <3>3. Readable' = Readable
      BY <3>2 DEF Readable, Complete
    <3>4. Readable \in Nat /\ Readable <= Len(wire)
      <4>1. wire \in Seq(Pieces) /\ Len(wire) \in Nat /\ (wire # <<>> => Len(wire) > 0)
        BY <1>2 DEF IInv, TypeOK
      <4> QED
        BY <4>1 DEF Readable
    <3>5. \A i \in 1..Readable : requested'[wire[i].packet.no] = requested[wire[i].packet.no]
      <4>1. \A i \in 1..Readable : wire[i].packet.no \in 1..Len(requested)
        <5>1. \A i \in 1..Len(wire) : wire[i].packet.no \in 1..Len(requested)
          BY <1>2 DEF IInv, MadeInv, Made
        <5>2. Len(wire) \in Nat
          BY <1>2 DEF IInv, TypeOK
        <5> QED
          BY <3>4, <5>1, <5>2
      <4>2. requested \in Seq(Messages)
        BY <1>2 DEF IInv, TypeOK
      <4> QED
        BY <3>2, <4>1, <4>2
    <3>6. Delivered' = Delivered
      BY <3>2, <3>3, <3>5 DEF Delivered
    <3>7. Channel!Write(m)
      BY <3>2, <3>6 DEF Channel!Write
    <3> QED
      BY <3>7 DEF Channel!Next
  <2>2. CASE \E n \in 1..(SizeMod - 1) : Send(n)
    <3>1. PICK n \in 1..(SizeMod - 1) : Send(n)
      BY <2>2
    <3>2. UNCHANGED <<requested, session, connected>>
      BY <3>1 DEF Send, gameVars
    <3>3. \/ Delivered' = Delivered
          \/ /\ Len(Delivered) < Len(requested)
             /\ Delivered' = Append(Delivered, requested[Len(Delivered) + 1])
      BY <1>2, <3>1, SendDelivers
    <3> QED
      BY <3>2, <3>3 DEF Channel!Next, Channel!Deliver, Channel!vars
  <2>3. CASE DropSession \/ ConnectionLost
    <3>1. UNCHANGED <<requested, wire>> /\ ~(session' = "held" /\ connected')
      BY <2>3 DEF DropSession, ConnectionLost, gameVars
    <3>2. Delivered' = Delivered
      BY <3>1 DEF Delivered, Readable, Complete
    <3>3. Channel!Close
      BY <3>1, <3>2 DEF Channel!Close
    <3> QED
      BY <3>3 DEF Channel!Next
  <2>4. CASE UNCHANGED <<requested, wire, connected>> /\ (session' = "held") = (session = "held")
    <3>1. Delivered' = Delivered
      BY <2>4 DEF Delivered, Readable, Complete
    <3> QED
      BY <2>4, <3>1 DEF Channel!vars
  <2> QED
    BY <1>2, <2>1, <2>2, <2>3, <2>4 DEF Next, Worker, SessionDestroyed, Dequeue,
       SendDone, SendFails, Exit, vars, gameVars
<1> QED
  BY <1>1, <1>2, Invariance, PTL DEF SafeSpec, ImplementsChannel, Channel!SafeSpec

\* As long as a failing Send means that the connection is lost: while connection and
\* session last, a message given to SEND_PACKET is on the wire, in the worker's hand or
\* in the queue.
NothingLost ==
  (connected /\ session # "destroyed" /\ ~overrun) =>
    \A k \in DOMAIN requested :
      \/ \E i \in DOMAIN wire : wire[i].packet.no = k
      \/ worker = "send" /\ buffer.no = k
      \/ \E j \in DOMAIN queue : queue[j].no = k

\* And when the worker is at rest with the queue empty, the server can read all of them,
\* in the order of the calls: what EveryRequestSent comes to, once the worker has had
\* its turns.
SentAtRest ==
  (connected /\ session # "destroyed" /\ ~overrun /\ worker = "poll" /\ queue = <<>>) =>
    Delivered = requested

THEOREM NothingLostTheorem ==
  ASSUME ~TransientErrors
  PROVE  SafeSpec => []NothingLost
<1>1. ASSUME IInv PROVE NothingLost
  <2> SUFFICES ASSUME connected, session # "destroyed", ~overrun, NEW k \in DOMAIN requested
               PROVE  \/ \E i \in DOMAIN wire : wire[i].packet.no = k
                      \/ worker = "send" /\ buffer.no = k
                      \/ \E j \in DOMAIN queue : queue[j].no = k
    BY DEF NothingLost
  <2>1. /\ DOMAIN requested = 1..Len(requested) /\ DOMAIN wire = 1..Len(wire)
        /\ DOMAIN queue = 1..Len(queue)
        /\ Len(requested) \in Nat /\ Len(wire) \in Nat /\ Len(queue) \in Nat
    BY <1>1 DEF IInv, TypeOK
  <2>2. /\ Len(requested) = Len(wire) + Ahead + Len(queue)
        /\ \A i \in 1..Len(wire) : wire[i].packet.no = i
        /\ \A j \in 1..Len(queue) : queue[j].no = Len(wire) + Ahead + j
        /\ Fresh => buffer.no = Len(wire) + 1
    BY <1>1 DEF IInv, GaplessInv
  <2>3. CASE k <= Len(wire)
    BY <2>1, <2>2, <2>3
  <2>4. CASE k = Len(wire) + 1 /\ Fresh
    BY <2>2, <2>4 DEF Fresh
  <2>5. CASE k > Len(wire) + Ahead
    <3>1. Ahead \in {0, 1}
      BY DEF Ahead
    <3>2. k - (Len(wire) + Ahead) \in 1..Len(queue)
      BY <2>1, <2>2, <2>5, <3>1
    <3>3. queue[k - (Len(wire) + Ahead)].no = k
      BY <2>1, <2>2, <3>1, <3>2
    <3> QED
      BY <2>1, <3>2, <3>3
  <2> QED
    BY <2>1, <2>3, <2>4, <2>5 DEF Ahead
<1> QED
  BY <1>1, Invariance, PTL

THEOREM SentAtRestTheorem ==
  ASSUME ~TransientErrors
  PROVE  SafeSpec => []SentAtRest
<1>1. ASSUME IInv PROVE SentAtRest
  <2> SUFFICES ASSUME connected, session # "destroyed", ~overrun, worker = "poll",
                      queue = <<>>
               PROVE  Delivered = requested
    BY DEF SentAtRest
  <2>1. /\ requested \in Seq(Messages) /\ wire \in Seq(Pieces) /\ Len(wire) \in Nat
        /\ Len(requested) \in Nat /\ Len(queue) = 0
    BY <1>1 DEF IInv, TypeOK
  <2>2. /\ \A i \in 1..Len(wire) : wire[i].packet.no = i /\ Complete(wire[i])
        /\ Len(requested) = Len(wire) + Ahead + Len(queue) /\ Ahead = 0
    BY <1>1 DEF IInv, GaplessInv, Ahead, Fresh
  <2>3. wire # <<>> => Len(wire) \in 1..Len(wire)
    BY <2>1
  <2>4. Readable = Len(requested)
    BY <2>1, <2>2, <2>3 DEF Readable
  <2>5. Delivered = [i \in 1..Len(requested) |-> requested[i]]
    BY <2>1, <2>2, <2>4 DEF Delivered
  <2> QED
    BY <2>1, <2>5
<1> QED
  BY <1>1, Invariance, PTL

=============================================================================
