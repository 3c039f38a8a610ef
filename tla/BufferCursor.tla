----------------------------- MODULE BufferCursor -----------------------------
(***************************************************************************)
(* BufferWriter and BufferReader: a size and a position over memory they   *)
(* do not own, in 32-bit unsigned arithmetic.  Write, Reserve, Peek and    *)
(* Read compare with FreeSize first, the operators << and >> do not.       *)
(* The client includes the two classes and uses neither; the model is of   *)
(* any use of them, a writer and a reader side by side.                    *)
(***************************************************************************)
EXTENDS Integers, Sequences

CONSTANTS
  Mod,     \* 2^32
  Sizes,   \* sizes of buffers
  Starts,  \* positions to begin at
  Lens,    \* sizes of values
  MaxOps   \* bound: values written, values read

ASSUME WidthAssumption == Mod \in Nat \ {0} /\ MaxOps \in Nat
ASSUME RangeAssumption ==
  Sizes \subseteq 0..(Mod - 1) /\ Starts \subseteq 0..(Mod - 1) /\ Lens \subseteq 0..(Mod - 1)

Cursors == {"writer", "reader"}

VARIABLES
  size,      \* _size of each
  pos,       \* _pos of each
  start,     \* the position each was made with
  done,      \* where each value was put or taken, and how long it is
  careless,  \* made past the end, or moved there by an operator
  outside    \* has put or taken bytes past the end

vars == <<size, pos, start, done, careless, outside>>

Init ==
  /\ size \in [Cursors -> Sizes] /\ start \in [Cursors -> Starts]
  /\ pos = start
  /\ done = [c \in Cursors |-> <<>>]
  /\ careless = {c \in Cursors : start[c] > size[c]}
  /\ outside = {}

\* Mutant: room is what the buffer had at first.
FreeSize_Whole(c) == size[c]

FreeSize(c) == (size[c] - pos[c]) % Mod

Past(c, n) == IF pos[c] + n > size[c] THEN {c} ELSE {}

\* n bytes at the position, which moves on.
Advance(c, n) ==
  /\ done' = [done EXCEPT ![c] = Append(@, [at |-> pos[c], len |-> n])]
  /\ pos' = [pos EXCEPT ![c] = (@ + n) % Mod]
  /\ outside' = outside \cup Past(c, n)
  /\ UNCHANGED <<size, start>>

\* Write, and Reserve: the caller fills in what it gets the address of.
Write(n) ==
  /\ Len(done["writer"]) < MaxOps
  /\ FreeSize("writer") >= n
  /\ Advance("writer", n) /\ UNCHANGED careless

\* operator<<
Put(n) ==
  /\ Len(done["writer"]) < MaxOps
  /\ Advance("writer", n) /\ careless' = careless \cup Past("writer", n)

\* Mutant: Peek moves the position.
Peek_Moves(n) ==
  /\ FreeSize("reader") >= n
  /\ pos' = [pos EXCEPT !["reader"] = (@ + n) % Mod]
  /\ outside' = outside \cup Past("reader", n)
  /\ UNCHANGED <<size, start, done, careless>>

Peek(n) ==
  /\ FreeSize("reader") >= n
  /\ outside' = outside \cup Past("reader", n)
  /\ UNCHANGED <<size, pos, start, done, careless>>

Read(n) ==
  /\ Len(done["reader"]) < MaxOps
  /\ FreeSize("reader") >= n
  /\ Advance("reader", n) /\ UNCHANGED careless

\* operator>>
Get(n) ==
  /\ Len(done["reader"]) < MaxOps
  /\ Advance("reader", n) /\ careless' = careless \cup Past("reader", n)

Next == \E n \in Lens : Write(n) \/ Put(n) \/ Peek(n) \/ Read(n) \/ Get(n)

Spec == Init /\ [][Next]_vars

-----------------------------------------------------------------------------
Places == [at : 0..(Mod - 1), len : Lens]

TypeOK ==
  /\ size \in [Cursors -> Sizes] /\ start \in [Cursors -> Starts]
  /\ pos \in [Cursors -> 0..(Mod - 1)]
  /\ done \in [Cursors -> Seq(Places)]
  /\ careless \subseteq Cursors /\ outside \subseteq Cursors

\* The checked operations never leave the buffer, in any order and with any
\* sizes, as long as the position has not been put past the end by a
\* constructor or an operator.  (After that FreeSize wraps, and they do.)
InBounds == outside \subseteq careless

\* Values do not overlap: what Reserve hands out is not written over.
Disjoint ==
  \A c \in Cursors \ careless : \A i, j \in DOMAIN done[c] :
    i < j => done[c][i].at + done[c][i].len <= done[c][j].at

\* A reader that takes the sizes that a writer has put, in the same order, finds
\* every value where it was written, whatever it peeks at meanwhile and however
\* many operations have failed for want of room.
RoundTrip ==
  start["reader"] = start["writer"] =>
    \A n \in DOMAIN done["reader"] \cap DOMAIN done["writer"] :
      (\A k \in 1..n : done["reader"][k].len = done["writer"][k].len)
      => done["reader"][n].at = done["writer"][n].at

=============================================================================
