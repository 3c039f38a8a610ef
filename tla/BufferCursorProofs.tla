-------------------------- MODULE BufferCursorProofs --------------------------
(***************************************************************************)
(* What BufferCursor does for every width, every size of buffer and of     *)
(* value, and any number of operations.                                    *)
(***************************************************************************)
EXTENDS BufferCursor, TLAPS

LEMMA Narrowed ==
  ASSUME NEW x \in Int
  PROVE  /\ x % Mod \in 0..(Mod - 1)
         /\ x \in 0..(Mod - 1) => x % Mod = x
  BY WidthAssumption

\* The types in numbers.
LEMMA Ranges ==
  ASSUME TypeOK, NEW c \in Cursors, NEW n \in Lens
  PROVE  /\ size[c] \in 0..(Mod - 1) /\ start[c] \in 0..(Mod - 1) /\ pos[c] \in 0..(Mod - 1)
         /\ n \in 0..(Mod - 1) /\ Mod \in Nat \ {0}
         /\ done[c] \in Seq(Places)
  BY WidthAssumption, RangeAssumption DEF TypeOK

\* One operation of one cursor, with what its check, or its want of one, gives.
LEMMA Steps ==
  ASSUME [Next]_vars
  PROVE  \/ UNCHANGED vars
         \/ \E c \in Cursors, n \in Lens :
              /\ Advance(c, n)
              /\ \/ FreeSize(c) >= n /\ careless' = careless
                 \/ careless' = careless \cup Past(c, n)
         \/ \E n \in Lens : /\ FreeSize("reader") >= n /\ outside' = outside \cup Past("reader", n)
                            /\ UNCHANGED <<size, pos, start, done, careless>>
<1>1. ASSUME NEW n \in Lens, Write(n) \/ Put(n) \/ Read(n) \/ Get(n)
      PROVE  \E c \in Cursors :
               /\ Advance(c, n)
               /\ \/ FreeSize(c) >= n /\ careless' = careless
                  \/ careless' = careless \cup Past(c, n)
  <2>1. "writer" \in Cursors /\ "reader" \in Cursors
    BY DEF Cursors
  <2> QED
    BY <1>1, <2>1 DEF Write, Put, Read, Get
<1>2. ASSUME NEW n \in Lens, Peek(n)
      PROVE  /\ FreeSize("reader") >= n /\ outside' = outside \cup Past("reader", n)
             /\ UNCHANGED <<size, pos, start, done, careless>>
  BY <1>2 DEF Peek
<1> QED
  BY <1>1, <1>2 DEF Next

LEMMA PastCursor == ASSUME NEW c \in Cursors, NEW n PROVE Past(c, n) \subseteq {c}
  BY DEF Past

LEMMA AdvanceEffect ==
  ASSUME TypeOK, NEW c \in Cursors, NEW n \in Lens, Advance(c, n)
  PROVE  /\ \A d \in Cursors : d # c => pos'[d] = pos[d] /\ done'[d] = done[d]
         /\ pos'[c] = (pos[c] + n) % Mod
         /\ done'[c] = Append(done[c], [at |-> pos[c], len |-> n])
         /\ [at |-> pos[c], len |-> n] \in Places
         /\ outside' = outside \cup Past(c, n)
         /\ UNCHANGED <<size, start>>
  BY Ranges DEF TypeOK, Advance, Places

LEMMA TypeNext == TypeOK /\ [Next]_vars => TypeOK'
<1> SUFFICES ASSUME TypeOK, [Next]_vars PROVE TypeOK'
  OBVIOUS
<1>1. CASE UNCHANGED vars
  BY <1>1 DEF vars, TypeOK
<1>2. ASSUME NEW c \in Cursors, NEW n \in Lens, Advance(c, n), careless' \subseteq careless \cup {c}
      PROVE  TypeOK'
  <2>1. [at |-> pos[c], len |-> n] \in Places /\ outside' \subseteq Cursors
    BY <1>2, AdvanceEffect, PastCursor DEF TypeOK
  <2>2. (pos[c] + n) % Mod \in 0..(Mod - 1)
    <3>1. pos[c] + n \in Int
      BY Ranges
    <3> QED
      BY <3>1, Narrowed
  <2>3. pos' \in [Cursors -> 0..(Mod - 1)]
    BY <1>2, <2>2 DEF Advance, TypeOK
  <2>4. done' \in [Cursors -> Seq(Places)]
    <3>1. Append(done[c], [at |-> pos[c], len |-> n]) \in Seq(Places)
      BY <2>1 DEF TypeOK
    <3> QED
      BY <1>2, <3>1 DEF Advance, TypeOK
  <2> QED
    BY <1>2, <2>1, <2>3, <2>4 DEF Advance, TypeOK
<1>3. ASSUME NEW n \in Lens, outside' = outside \cup Past("reader", n),
             UNCHANGED <<size, pos, start, done, careless>>
      PROVE  TypeOK'
  BY <1>3, PastCursor DEF TypeOK, Cursors
<1> QED
  BY <1>1, <1>2, <1>3, Steps, PastCursor

LEMMA TypeInit == Init => TypeOK
<1> SUFFICES ASSUME Init PROVE TypeOK
  OBVIOUS
<1>1. pos \in [Cursors -> 0..(Mod - 1)]
  BY RangeAssumption DEF Init
<1>2. <<>> \in Seq(Places)
  OBVIOUS
<1>3. done \in [Cursors -> Seq(Places)]
  BY <1>2 DEF Init
<1> QED
  BY <1>1, <1>3 DEF Init, TypeOK

\* Positions, places and flags keep their types; positions their width.
THEOREM TypeCorrect == Spec => []TypeOK
  BY TypeInit, TypeNext, PTL DEF Spec

-----------------------------------------------------------------------------
(* Bounds. *)

\* A careful cursor is within its buffer, after all it has put or taken.
Within(c) ==
  c \notin careless =>
    /\ pos[c] <= size[c] /\ c \notin outside
    /\ \A i \in DOMAIN done[c] : done[c][i].at + done[c][i].len <= pos[c]
    /\ \A i, j \in DOMAIN done[c] : i < j => done[c][i].at + done[c][i].len <= done[c][j].at

BoundsInv == \A c \in Cursors : Within(c)

\* FreeSize is the room there is where the position is not past the end.
LEMMA Room ==
  ASSUME TypeOK, NEW c \in Cursors, NEW n \in Lens, pos[c] <= size[c], FreeSize(c) >= n
  PROVE  Past(c, n) = {}
<1>1. /\ size[c] \in 0..(Mod - 1) /\ pos[c] \in 0..(Mod - 1) /\ n \in 0..(Mod - 1)
      /\ Mod \in Nat
  BY Ranges
<1>2. FreeSize(c) = size[c] - pos[c]
  <2>1. size[c] - pos[c] \in 0..(Mod - 1)
    BY <1>1
  <2> QED
    BY <2>1, Narrowed DEF FreeSize
<1>3. ~(pos[c] + n > size[c])
  BY <1>1, <1>2
<1> QED
  BY <1>3, Zenon DEF Past

LEMMA WithinAdvance ==
  ASSUME TypeOK, NEW c \in Cursors, NEW n \in Lens, Advance(c, n), Within(c),
         c \notin careless, Past(c, n) = {}
  PROVE  Within(c)'
<1> DEFINE p == [at |-> pos[c], len |-> n]
<1>1. /\ size[c] \in 0..(Mod - 1) /\ pos[c] \in 0..(Mod - 1) /\ n \in 0..(Mod - 1)
      /\ Mod \in Nat \ {0} /\ done[c] \in Seq(Places)
  BY Ranges
<1>2. pos[c] + n <= size[c]
  <2>1. ~(pos[c] + n > size[c])
    BY DEF Past
  <2> QED
    BY <1>1, <2>1
<1>3. pos'[c] = pos[c] + n /\ size'[c] = size[c]
  <2>1. pos[c] + n \in 0..(Mod - 1) /\ pos[c] + n \in Int
    BY <1>1, <1>2
  <2>2. (pos[c] + n) % Mod = pos[c] + n
    BY <2>1, Narrowed
  <2> QED
    BY <2>2, AdvanceEffect
<1>4. outside' = outside /\ done'[c] = Append(done[c], p)
  BY AdvanceEffect
<1>5. \A i \in DOMAIN done[c] : /\ done[c][i].at \in 0..(Mod - 1) /\ done[c][i].len \in 0..(Mod - 1)
                                /\ done[c][i].at + done[c][i].len <= pos[c]
  <2>1. \A i \in DOMAIN done[c] : done[c][i] \in Places
    BY <1>1
  <2> QED
    BY <2>1, RangeAssumption DEF Within, Places
<1>6. /\ DOMAIN done'[c] = 1..(Len(done[c]) + 1)
      /\ \A i \in DOMAIN done[c] : done'[c][i] = done[c][i]
      /\ done'[c][Len(done[c]) + 1] = p
      /\ DOMAIN done[c] = 1..Len(done[c]) /\ Len(done[c]) \in Nat
  BY <1>1, <1>4
<1>7. p.at = pos[c] /\ p.len = n
  OBVIOUS
<1> HIDE DEF p
<1>8. \A i \in DOMAIN done'[c] : done'[c][i].at + done'[c][i].len <= pos'[c]
  <2> SUFFICES ASSUME NEW i \in DOMAIN done'[c]
               PROVE  done'[c][i].at + done'[c][i].len <= pos'[c]
    OBVIOUS
  <2>1. CASE i \in DOMAIN done[c]
    <3>1. done'[c][i] = done[c][i]
      BY <1>6, <2>1
    <3> QED
      BY <1>1, <1>3, <1>5, <2>1, <3>1
  <2>2. CASE i = Len(done[c]) + 1
    BY <1>1, <1>3, <1>6, <1>7, <2>2
  <2> QED
    BY <1>6, <2>1, <2>2
<1>9. ASSUME NEW i \in DOMAIN done'[c], NEW j \in DOMAIN done'[c], i < j
      PROVE  done'[c][i].at + done'[c][i].len <= done'[c][j].at
  <2>1. i \in DOMAIN done[c]
    BY <1>6, <1>9
  <2>2. CASE j \in DOMAIN done[c]
    BY <1>6, <1>9, <2>1, <2>2 DEF Within
  <2>3. CASE j = Len(done[c]) + 1
    BY <1>5, <1>6, <1>7, <2>1, <2>3
  <2> QED
    BY <1>6, <2>2, <2>3
<1> QED
  BY <1>2, <1>3, <1>4, <1>8, <1>9, <1>1 DEF Within

LEMMA BoundsNext == TypeOK /\ BoundsInv /\ [Next]_vars => BoundsInv'
<1> SUFFICES ASSUME TypeOK, BoundsInv, [Next]_vars, NEW c \in Cursors PROVE Within(c)'
  BY DEF BoundsInv
<1>1. Within(c)
  BY DEF BoundsInv
<1>2. CASE UNCHANGED vars
  BY <1>1, <1>2 DEF vars, Within
<1>3. ASSUME NEW d \in Cursors, NEW n \in Lens, Advance(d, n),
             \/ FreeSize(d) >= n /\ careless' = careless
             \/ careless' = careless \cup Past(d, n)
      PROVE  Within(c)'
  <2>1. CASE c # d
    <3>1. pos'[c] = pos[c] /\ done'[c] = done[c] /\ size'[c] = size[c]
      BY <1>3, <2>1 DEF Advance, TypeOK
    <3>2. (c \in careless' <=> c \in careless) /\ (c \in outside' <=> c \in outside)
      <4>1. c \notin Past(d, n) /\ outside' = outside \cup Past(d, n)
        BY <1>3, <2>1, AdvanceEffect, PastCursor
      <4> QED
        BY <1>3, <4>1
    <3> QED
      BY <1>1, <3>1, <3>2 DEF Within
  <2>2. CASE c = d
    <3>1. ASSUME c \notin careless' PROVE c \notin careless /\ Past(c, n) = {}
      <4>1. c \notin careless /\ pos[c] <= size[c]
        BY <1>1, <1>3, <3>1 DEF Within
      <4> QED
        BY <1>3, <2>2, <3>1, <4>1, Room, PastCursor
    <3> QED
      BY <1>1, <1>3, <2>2, <3>1, WithinAdvance DEF Within
  <2> QED
    BY <2>1, <2>2
<1>4. ASSUME NEW n \in Lens, FreeSize("reader") >= n, outside' = outside \cup Past("reader", n),
             UNCHANGED <<size, pos, start, done, careless>>
      PROVE  Within(c)'
  <2>1. c \notin careless /\ c = "reader" => Past("reader", n) = {}
    BY <1>1, <1>4, Room DEF Within
  <2>2. c # "reader" => c \notin Past("reader", n)
    BY DEF Past
  <2> QED
    BY <1>1, <1>4, <2>1, <2>2 DEF Within
<1> QED
  BY <1>2, <1>3, <1>4, Steps

LEMMA BoundsInit == Init => BoundsInv
<1> SUFFICES ASSUME Init, NEW c \in Cursors, c \notin careless PROVE Within(c)
  BY DEF BoundsInv, Within
<1>1. size[c] \in Int /\ start[c] \in Int /\ pos[c] = start[c] /\ ~(start[c] > size[c])
  <2>1. size[c] \in 0..(Mod - 1) /\ start[c] \in 0..(Mod - 1) /\ pos[c] = start[c]
    BY RangeAssumption DEF Init
  <2>2. ~(start[c] > size[c])
    BY DEF Init
  <2> QED
    BY <2>1, <2>2, WidthAssumption
<1> QED
  BY <1>1 DEF Init, Within

LEMMA BoundsAlways == Spec => [](TypeOK /\ BoundsInv)
  BY TypeInit, TypeNext, BoundsInit, BoundsNext, PTL DEF Spec

\* Checked reads and writes stay in the buffer, for every size and order, unless
\* an operator or a constructor has gone past its end.
THEOREM InBoundsTheorem == Spec => []InBounds
<1>1. TypeOK /\ BoundsInv => InBounds
  BY DEF TypeOK, BoundsInv, Within, InBounds
<1> QED
  BY <1>1, BoundsAlways, PTL

\* ... and no value is put on another.
THEOREM DisjointTheorem == Spec => []Disjoint
<1>1. BoundsInv => Disjoint
  BY DEF BoundsInv, Within, Disjoint
<1> QED
  BY <1>1, BoundsAlways, PTL

-----------------------------------------------------------------------------
(* A reader after a writer. *)

\* Each value is where the one before it ends, the first at the start.
Chained(c) ==
  /\ done[c] = <<>> => pos[c] = start[c]
  /\ done[c] # <<>> =>
       /\ done[c][1].at = start[c]
       /\ pos[c] = (done[c][Len(done[c])].at + done[c][Len(done[c])].len) % Mod
  /\ \A k \in DOMAIN done[c] :
       k > 1 => done[c][k].at = (done[c][k - 1].at + done[c][k - 1].len) % Mod

ChainInv == \A c \in Cursors : Chained(c)

LEMMA ChainNext == TypeOK /\ ChainInv /\ [Next]_vars => ChainInv'
<1> SUFFICES ASSUME TypeOK, ChainInv, [Next]_vars, NEW c \in Cursors PROVE Chained(c)'
  BY DEF ChainInv
<1>1. Chained(c)
  BY DEF ChainInv
<1>2. CASE UNCHANGED <<pos, start, done>>
  BY <1>1, <1>2 DEF Chained
<1>3. ASSUME NEW d \in Cursors, NEW n \in Lens, Advance(d, n)
      PROVE  Chained(c)'
  <2>1. CASE c # d
    <3>1. pos'[c] = pos[c] /\ done'[c] = done[c] /\ start'[c] = start[c]
      BY <1>3, <2>1 DEF Advance, TypeOK
    <3> QED
      BY <1>1, <3>1 DEF Chained
  <2>2. CASE c = d
    <3> DEFINE p == [at |-> pos[c], len |-> n]
    <3>1. /\ done'[c] = Append(done[c], p) /\ start'[c] = start[c]
          /\ pos'[c] = (p.at + p.len) % Mod /\ p.at = pos[c]
      BY <1>3, <2>2, AdvanceEffect
    <3> HIDE DEF p
    <3>2. done[c] \in Seq(Places)
      BY DEF TypeOK
    <3>3. /\ Len(done[c]) \in Nat /\ DOMAIN done[c] = 1..Len(done[c])
          /\ Len(done'[c]) = Len(done[c]) + 1
          /\ DOMAIN done'[c] = 1..(Len(done[c]) + 1)
          /\ \A k \in 1..Len(done[c]) : done'[c][k] = done[c][k]
          /\ done'[c][Len(done[c]) + 1] = p /\ done'[c] # <<>>
      BY <3>1, <3>2
    <3>4. CASE done[c] = <<>>
      BY <1>1, <3>1, <3>3, <3>4 DEF Chained
    <3>5. CASE done[c] # <<>>
      <4>1. Len(done[c]) >= 1
        BY <3>2, <3>5
      <4>2. done'[c][1].at = start'[c]
        BY <1>1, <3>1, <3>3, <3>5, <4>1 DEF Chained
      <4>3. ASSUME NEW k \in DOMAIN done'[c], k > 1
            PROVE  done'[c][k].at = (done'[c][k - 1].at + done'[c][k - 1].len) % Mod
        <5>1. k - 1 \in 1..Len(done[c]) /\ done'[c][k - 1] = done[c][k - 1]
          BY <3>3, <4>3
        <5>2. CASE k \in DOMAIN done[c]
          BY <1>1, <3>3, <4>3, <5>1, <5>2 DEF Chained
        <5>3. CASE k = Len(done[c]) + 1
          BY <1>1, <3>1, <3>3, <3>5, <5>1, <5>3 DEF Chained
        <5> QED
          BY <3>3, <5>2, <5>3
      <4> QED
        BY <3>1, <3>3, <4>2, <4>3 DEF Chained
    <3> QED
      BY <3>4, <3>5
  <2> QED
    BY <2>1, <2>2
<1> QED
  BY <1>2, <1>3, Steps DEF vars

LEMMA ChainInit == Init => ChainInv
  BY DEF Init, ChainInv, Chained

\* A value is where the other's is because the one before it was.
LEMMA RoundTripNext == TypeOK /\ RoundTrip /\ ChainInv' /\ TypeOK' /\ [Next]_vars => RoundTrip'
<1> SUFFICES ASSUME TypeOK, RoundTrip, ChainInv', TypeOK', [Next]_vars,
                    start'["reader"] = start'["writer"],
                    NEW n \in DOMAIN done'["reader"] \cap DOMAIN done'["writer"],
                    \A k \in 1..n : done'["reader"][k].len = done'["writer"][k].len
             PROVE  done'["reader"][n].at = done'["writer"][n].at
  BY DEF RoundTrip
<1> DEFINE Grown(c) == /\ DOMAIN done[c] = 1..Len(done[c]) /\ Len(done[c]) \in Nat
                       /\ DOMAIN done'[c] \subseteq 1..(Len(done[c]) + 1)
                       /\ \A k \in DOMAIN done[c] : done'[c][k] = done[c][k]
<1>1. start' = start
  BY Steps DEF vars, Advance
<1>2. \A c \in Cursors : Grown(c)
  <2>1. ASSUME NEW c \in Cursors
        PROVE  done[c] \in Seq(Places) /\ Len(done[c]) \in Nat /\ DOMAIN done[c] = 1..Len(done[c])
    BY DEF TypeOK
  <2>2. CASE done' = done
    BY <2>1, <2>2
  <2>3. ASSUME NEW d \in Cursors, NEW m \in Lens, Advance(d, m), NEW c \in Cursors
        PROVE  Grown(c)
    <3>1. CASE c # d
      <4>1. done'[c] = done[c]
        BY <2>3, <3>1 DEF Advance, TypeOK
      <4> QED
        BY <2>1, <4>1
    <3>2. CASE c = d
      <4>1. done'[c] = Append(done[c], [at |-> pos[c], len |-> m])
        BY <2>3, <3>2, AdvanceEffect
      <4> QED
        BY <2>1, <4>1
    <3> QED
      BY <3>1, <3>2
  <2> QED
    BY <2>2, <2>3, Steps DEF vars
<1>3. Grown("reader") /\ Grown("writer")
  BY <1>2 DEF Cursors
<1> HIDE DEF Grown
<1>4. n \in Nat /\ n >= 1
  BY <1>3 DEF Grown
<1>5. Chained("reader")' /\ Chained("writer")'
  BY DEF ChainInv, Cursors
<1>6. CASE n = 1
  BY <1>5, <1>6 DEF Chained
<1>7. CASE n > 1
  <2>1. n - 1 \in DOMAIN done["reader"] /\ n - 1 \in DOMAIN done["writer"]
    BY <1>3, <1>4, <1>7 DEF Grown
  <2>2. \A k \in 1..(n - 1) : /\ done'["reader"][k] = done["reader"][k]
                              /\ done'["writer"][k] = done["writer"][k]
                              /\ done'["reader"][k].len = done'["writer"][k].len
    BY <1>3, <1>4, <2>1 DEF Grown
  <2>3. done["reader"][n - 1].at = done["writer"][n - 1].at
    BY <1>1, <2>1, <2>2 DEF RoundTrip
  <2>4. n - 1 \in 1..(n - 1)
    BY <1>4, <1>7
  <2>5. \A c \in Cursors :
          done'[c][n].at = (done'[c][n - 1].at + done'[c][n - 1].len) % Mod
    BY <1>5, <1>7 DEF Chained, Cursors
  <2>6. /\ done'["reader"][n - 1].at = done'["writer"][n - 1].at
        /\ done'["reader"][n - 1].len = done'["writer"][n - 1].len
    BY <2>2, <2>3, <2>4
  <2> QED
    BY <2>5, <2>6 DEF Cursors
<1> QED
  BY <1>4, <1>6, <1>7

LEMMA RoundTripInit == Init => RoundTrip
  BY DEF Init, RoundTrip, Cursors

\* For every width, start and lengths, the nth value read is the nth written.
THEOREM RoundTripTheorem == Spec => []RoundTrip
<1>1. Init => TypeOK /\ ChainInv /\ RoundTrip
  BY TypeInit, ChainInit, RoundTripInit
<1>2. TypeOK /\ ChainInv /\ RoundTrip /\ [Next]_vars => (TypeOK /\ ChainInv /\ RoundTrip)'
  BY TypeNext, ChainNext, RoundTripNext
<1> QED
  BY <1>1, <1>2, PTL DEF Spec

==============================================================================
