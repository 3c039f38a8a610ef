---------------------------- MODULE PacketChannel ----------------------------
(***************************************************************************)
(* What the receiving half of a connection promises to the game: the       *)
(* packets the server wrote reach the packet handlers one by one, in the   *)
(* order they were written, none lost, duplicated, altered or invented.    *)
(* As long as the connection is open each of them is handled in the end.   *)
(* RecvStream is the detailed specification that implements this one.      *)
(***************************************************************************)
EXTENDS Naturals, Sequences

CONSTANT Packets

VARIABLES
  written,    \* the packets the server has written, in order
  delivered,  \* the packets handed to a handler, in order
  open        \* the connection and the session that reads it still exist

vars == <<written, delivered, open>>

Init ==
  /\ written = <<>>
  /\ delivered = <<>>
  /\ open = TRUE

Write(p) ==
  /\ written' = Append(written, p)
  /\ UNCHANGED <<delivered, open>>

Deliver ==
  /\ Len(delivered) < Len(written)
  /\ delivered' = Append(delivered, written[Len(delivered) + 1])
  /\ UNCHANGED <<written, open>>

Close ==
  /\ open' = FALSE
  /\ UNCHANGED <<written, delivered>>

Next ==
  \/ \E p \in Packets : Write(p)
  \/ Deliver
  \/ Close

SafeSpec == Init /\ [][Next]_vars

Spec == SafeSpec /\ WF_vars(open /\ Deliver)

==============================================================================
