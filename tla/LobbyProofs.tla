----------------------------- MODULE LobbyProofs -----------------------------
(***************************************************************************)
(* What Lobby does for any number of slots, any ids of packets, any        *)
(* characters and any number of logins.                                    *)
(***************************************************************************)
EXTENDS Lobby, TLAPS

PacketSet == [id : Ids, parses : BOOLEAN, players : Seq(Characters)]
Tables == [0..(TableSize - 1) -> Handlers \cup {"null"}]

-----------------------------------------------------------------------------
(* Types. *)

LEMMA TypeInit == Init => TypeOK
<1> SUFFICES ASSUME Init PROVE TypeOK
  OBVIOUS
<1>1. Empty \in StoredCharacters /\ Asked(Empty) \in {Asked(s) : s \in StoredCharacters}
  BY DEF StoredCharacters
<1>2. Asked(Empty) = Empty
  BY DEF Asked, Empty
<1>3. table \in [0..(TableSize - 1) -> Handlers \cup {"null"}]
  BY DEF Init
<1>4. slots \in [0..(Slots - 1) -> StoredCharacters] /\ selected \in 0..(Slots - 1)
  BY <1>1, SlotsAssumption DEF Init
<1>5. inbox \in Seq(PacketSet) /\ account \in Seq(Characters)
  BY DEF Init
<1>6. request \in {Asked(s) : s \in StoredCharacters}
  BY <1>1, <1>2 DEF Init
<1>7. logins \in 0..MaxLogins /\ wild \in BOOLEAN /\ breach \subseteq {"manyPlayers", "maxId"}
  <2>1. logins = 0 /\ wild = FALSE /\ breach = {}
    BY DEF Init
  <2>2. 0 \in 0..MaxLogins
    BY BoundAssumption
  <2> QED
    BY <2>1, <2>2
<1>8. screen \in {"login", "select", "game"} /\ listed \in {"no", "sent", "handled"}
  BY DEF Init
<1> QED
  BY <1>3, <1>4, <1>5, <1>6, <1>7, <1>8 DEF TypeOK, PacketSet

LEMMA TableType == Table \in [0..(TableSize - 1) -> Handlers \cup {"null"}]
  BY DEF Table, Handlers

\* Every action but HandleRecvPackets leaves the slots alone.
LEMMA TypeHandle ==
  ASSUME TypeOK, HandleRecvPackets
  PROVE  TypeOK'
<1> DEFINE p == Head(inbox)
<1>1. p \in PacketSet /\ inbox' \in Seq(PacketSet)
  <2>1. inbox \in Seq(PacketSet)
    BY DEF TypeOK, PacketSet
  <2>2. inbox # <<>> /\ inbox' = Tail(inbox)
    BY DEF HandleRecvPackets
  <2> QED
    BY <2>1, <2>2
<1>2. p.players \in Seq(Characters)
  BY <1>1 DEF PacketSet
<1>3. HandlePacket(p)
  BY DEF HandleRecvPackets
<1> HIDE DEF p
<1>4. ASSUME Handle_S_LOGIN(p.players)
      PROVE  slots' \in [0..(Slots - 1) -> StoredCharacters] /\ wild' \in BOOLEAN
  <2>1. ASSUME NEW k \in 0..(Slots - 1), k < Len(p.players)
        PROVE  Stored(p.players[k + 1]) \in StoredCharacters
    <3>1. k + 1 \in 1..Len(p.players)
      BY <1>2, <2>1, SlotsAssumption
    <3>2. p.players[k + 1] \in Characters
      BY <1>2, <3>1
    <3> QED
      BY <3>2 DEF StoredCharacters
  <2>2. slots \in [0..(Slots - 1) -> StoredCharacters]
    BY DEF TypeOK
  <2>3. slots' = [k \in 0..(Slots - 1) |->
                    IF k < Len(p.players) THEN Stored(p.players[k + 1]) ELSE slots[k]]
    BY <1>4 DEF Handle_S_LOGIN
  <2>4. wild' = (Len(p.players) > Slots)
    BY <1>4 DEF Handle_S_LOGIN
  <2>5. slots' \in [0..(Slots - 1) -> StoredCharacters]
    BY <2>1, <2>2, <2>3
  <2> QED
    BY <2>4, <2>5
<1>5. /\ slots' \in [0..(Slots - 1) -> StoredCharacters] /\ wild' \in BOOLEAN
      /\ listed' \in {"no", "sent", "handled"}
  BY <1>3, <1>4 DEF HandlePacket, TypeOK
<1> QED
  BY <1>1, <1>5 DEF HandleRecvPackets, TypeOK, PacketSet

LEMMA TypeReceived ==
  ASSUME TypeOK, NEW q \in PacketSet, Received(q)
  PROVE  /\ inbox' \in Seq(PacketSet)
         /\ UNCHANGED <<screen, logins, table, account, slots, selected, request, wild>>
  BY DEF TypeOK, Received, PacketSet

\* The packet of S_LOGIN, and the others.
LEMMA PacketTypes ==
  ASSUME TypeOK
  PROVE  /\ [id |-> SLogin, parses |-> TRUE, players |-> account] \in PacketSet
         /\ \A i \in Ids, b \in BOOLEAN :
              [id |-> i, parses |-> b, players |-> <<>>] \in PacketSet
<1>1. SLogin \in Ids
  BY IdsAssumption, SlotsAssumption DEF Ids
<1>2. <<>> \in Seq(Characters) /\ account \in Seq(Characters)
  BY DEF TypeOK
<1> QED
  BY <1>1, <1>2 DEF PacketSet

LEMMA TypeNext == TypeOK /\ [Next]_vars => TypeOK'
<1> SUFFICES ASSUME TypeOK, [Next]_vars PROVE TypeOK'
  OBVIOUS
<1>1. CASE ConnectToGameServer
  <2>1. PICK n \in 0..MaxListed : account' \in [1..n -> Characters]
    BY <1>1 DEF ConnectToGameServer
  <2>2. account' \in Seq(Characters)
    BY <2>1, BoundAssumption
  <2>3. logins' \in 0..MaxLogins
    BY <1>1, BoundAssumption DEF ConnectToGameServer, TypeOK
  <2>4. inbox' \in Seq(PacketSet)
    BY <1>1 DEF ConnectToGameServer
  <2>5. UNCHANGED <<slots, selected, request, breach, wild>>
        /\ screen' = "select" /\ listed' = "no" /\ table' = Table
    BY <1>1 DEF ConnectToGameServer
  <2> QED
    BY <2>2, <2>3, <2>4, <2>5, TableType DEF TypeOK, PacketSet
<1>2. CASE LoginAnswered
  <2>1. breach' \subseteq {"manyPlayers", "maxId"} /\ listed' = "sent"
    BY <1>2 DEF LoginAnswered, TypeOK
  <2> QED
    BY <1>2, <2>1, TypeReceived, PacketTypes DEF LoginAnswered, TypeOK, PacketSet
<1>3. ASSUME NEW i \in Ids, NEW b \in BOOLEAN, OtherReceived(i, b) PROVE TypeOK'
  <2>1. breach' \subseteq {"manyPlayers", "maxId"} /\ listed' = listed
    BY <1>3 DEF OtherReceived, TypeOK
  <2> QED
    BY <1>3, <2>1, TypeReceived, PacketTypes DEF OtherReceived, TypeOK, PacketSet
<1>4. ASSUME NEW k \in 0..(Slots - 1), SetSelectedCharacter(k) PROVE TypeOK'
  BY <1>4 DEF SetSelectedCharacter, TypeOK
<1>5. CASE SelectCharacter
  <2>1. slots[selected] \in StoredCharacters
    BY DEF TypeOK
  <2>2. request' \in {Asked(s) : s \in StoredCharacters}
    BY <1>5, <2>1 DEF SelectCharacter
  <2> QED
    BY <1>5, <2>2 DEF SelectCharacter, TypeOK
<1>6. CASE DisconnectFromGameServer \/ UNCHANGED vars
  BY <1>6 DEF DisconnectFromGameServer, vars, TypeOK
<1> QED
  BY <1>1, <1>2, <1>3, <1>4, <1>5, <1>6, TypeHandle DEF Next

\* A slot, and a request, is of one listed character, whatever is received.
THEOREM TypeCorrect == Spec => []TypeOK
  BY TypeInit, TypeNext, PTL DEF Spec

-----------------------------------------------------------------------------
(* The arrays. *)

\* What is in the queue of a server that keeps to the limits.
Modest(p) == p.id < TableSize /\ (p.id = SLogin /\ p.parses => Len(p.players) <= Slots)

BoundsInv ==
  breach = {} =>
    /\ ~wild
    /\ inbox # <<>> => table = Table
    /\ logins > 0 => table = Table
    /\ \A k \in DOMAIN inbox : Modest(inbox[k])

LEMMA HeadOfInbox ==
  ASSUME TypeOK, inbox # <<>>
  PROVE  /\ 1 \in DOMAIN inbox /\ Head(inbox) = inbox[1] /\ Head(inbox) \in PacketSet
         /\ \A k \in DOMAIN Tail(inbox) : k + 1 \in DOMAIN inbox /\ Tail(inbox)[k] = inbox[k + 1]
<1>1. inbox \in Seq(PacketSet)
  BY DEF TypeOK, PacketSet
<1> QED
  BY <1>1

LEMMA ReceivedInbox ==
  ASSUME TypeOK, NEW q, Received(q), NEW k \in DOMAIN inbox'
  PROVE  (k \in DOMAIN inbox /\ inbox'[k] = inbox[k]) \/ inbox'[k] = q
<1>1. inbox \in Seq(PacketSet) /\ inbox' = Append(inbox, q)
  BY DEF TypeOK, PacketSet, Received
<1> QED
  BY <1>1

\* The table's entry for S_LOGIN is the only one of that name.
LEMMA TableEntries ==
  /\ DOMAIN Table = 0..(TableSize - 1)
  /\ \A i \in DOMAIN Table : Table[i] # "null" /\ (Table[i] = "S_LOGIN" => i = SLogin)
  BY DEF Table

LEMMA BoundsHandle ==
  ASSUME TypeOK, BoundsInv, HandleRecvPackets
  PROVE  BoundsInv'
<1> SUFFICES ASSUME breach = {} PROVE BoundsInv'
  BY DEF BoundsInv, HandleRecvPackets
<1> DEFINE p == Head(inbox)
<1>1. /\ inbox # <<>> /\ inbox' = Tail(inbox) /\ HandlePacket(p)
      /\ UNCHANGED <<logins, table, breach>>
  BY DEF HandleRecvPackets
<1>2. p \in PacketSet /\ Modest(p) /\ table = Table
  BY <1>1, HeadOfInbox DEF BoundsInv
<1>3. \A k \in DOMAIN inbox' : Modest(inbox'[k])
  BY <1>1, HeadOfInbox DEF BoundsInv
<1> HIDE DEF p
<1>4. p.id \in DOMAIN table /\ table[p.id] # "null" /\ (table[p.id] = "S_LOGIN" => p.id = SLogin)
  <2>1. p.id \in 0..(TableSize - 1)
    BY <1>2, SlotsAssumption DEF PacketSet, Ids, Modest
  <2> QED
    BY <1>2, <2>1, TableEntries
<1>5. Handle_S_LOGIN(p.players) /\ p.id = SLogin /\ p.parses => ~wild'
  <2>1. p.players \in Seq(Characters)
    BY <1>2 DEF PacketSet
  <2>2. p.id = SLogin /\ p.parses => Len(p.players) <= Slots
    BY <1>2 DEF Modest
  <2>3. Len(p.players) <= Slots => ~(Len(p.players) > Slots)
    BY <2>1, SlotsAssumption
  <2> QED
    BY <2>2, <2>3 DEF Handle_S_LOGIN
<1>6. ~wild'
  BY <1>1, <1>4, <1>5 DEF HandlePacket, BoundsInv
<1> QED
  BY <1>1, <1>2, <1>3, <1>6 DEF BoundsInv

LEMMA BoundsReceived ==
  ASSUME TypeOK, BoundsInv, NEW q, Received(q), breach \subseteq breach',
         breach' = {} => Modest(q)
  PROVE  BoundsInv'
<1> SUFFICES ASSUME breach' = {} PROVE BoundsInv'
  BY DEF BoundsInv
<1>1. breach = {} /\ logins > 0 /\ UNCHANGED <<logins, table, wild>>
  BY DEF Received
<1>2. \A k \in DOMAIN inbox' : Modest(inbox'[k])
  BY <1>1, ReceivedInbox DEF BoundsInv
<1> QED
  BY <1>1, <1>2 DEF BoundsInv

LEMMA BoundsNext == TypeOK /\ BoundsInv /\ [Next]_vars => BoundsInv'
<1> SUFFICES ASSUME TypeOK, BoundsInv, [Next]_vars PROVE BoundsInv'
  OBVIOUS
<1>1. CASE ConnectToGameServer
  <2>1. /\ inbox' = <<>> /\ table' = Table /\ breach' = breach /\ ~wild'
    BY <1>1 DEF ConnectToGameServer
  <2>2. DOMAIN inbox' = {}
    BY <2>1
  <2> QED
    BY <2>1, <2>2 DEF BoundsInv
<1>2. CASE LoginAnswered
  <2> DEFINE q == [id |-> SLogin, parses |-> TRUE, players |-> account]
  <2>1. Received(q) /\ breach \subseteq breach'
    BY <1>2 DEF LoginAnswered
  <2>2. breach' = {} => ~(Len(account) > Slots)
    BY <1>2 DEF LoginAnswered
  <2>3. Len(account) \in Nat
    BY DEF TypeOK
  <2>4. q.id = SLogin /\ q.players = account
    OBVIOUS
  <2> HIDE DEF q
  <2>5. breach' = {} => Modest(q)
    BY <2>2, <2>3, <2>4, IdsAssumption, SlotsAssumption DEF Modest
  <2> QED
    BY <2>1, <2>5, BoundsReceived
<1>3. ASSUME NEW i \in Ids, NEW b \in BOOLEAN, OtherReceived(i, b) PROVE BoundsInv'
  <2> DEFINE q == [id |-> i, parses |-> b, players |-> <<>>]
  <2>1. Received(q) /\ breach \subseteq breach' /\ (breach' = {} => i # TableSize)
    BY <1>3 DEF OtherReceived
  <2>2. i # SLogin \/ ~b
    BY <1>3 DEF OtherReceived
  <2>3. q.id = i /\ q.parses = b
    OBVIOUS
  <2> HIDE DEF q
  <2>4. breach' = {} => Modest(q)
    BY <2>1, <2>2, <2>3, SlotsAssumption DEF Modest, Ids
  <2> QED
    BY <2>1, <2>4, BoundsReceived
<1>4. CASE UNCHANGED <<breach, wild, inbox, table, logins>>
  BY <1>4 DEF BoundsInv, Modest
<1> QED
  BY <1>1, <1>2, <1>3, <1>4, BoundsHandle
     DEF Next, SetSelectedCharacter, SelectCharacter, DisconnectFromGameServer, vars

LEMMA BoundsInit == Init => BoundsInv
<1> SUFFICES ASSUME Init PROVE BoundsInv
  OBVIOUS
<1>1. inbox = <<>> /\ logins = 0 /\ wild = FALSE
  BY DEF Init
<1>2. DOMAIN inbox = {} /\ ~(logins > 0)
  BY <1>1
<1> QED
  BY <1>1, <1>2 DEF BoundsInv

\* For every number of slots and of handlers: with a server that keeps to both,
\* neither array is left and no handler is missing, whatever else is received.
THEOREM InBoundsTheorem == Spec => []InBounds
<1>1. BoundsInv => InBounds
  BY DEF BoundsInv, InBounds
<1> QED
  BY <1>1, TypeInit, TypeNext, BoundsInit, BoundsNext, PTL DEF Spec

-----------------------------------------------------------------------------
(* The characters. *)

\* What is received of S_LOGIN is this session's, and so are the slots after it.
ListInv ==
  /\ \A k \in DOMAIN inbox :
       inbox[k].id = SLogin /\ inbox[k].parses => inbox[k].players = account
  /\ \A i \in DOMAIN table : table[i] = "S_LOGIN" => i = SLogin
  /\ SlotsCurrent

LEMMA ListHandle ==
  ASSUME TypeOK, ListInv, HandleRecvPackets
  PROVE  ListInv'
<1> DEFINE p == Head(inbox)
<1>1. /\ inbox # <<>> /\ inbox' = Tail(inbox) /\ HandlePacket(p)
      /\ UNCHANGED <<account, table>>
  BY DEF HandleRecvPackets
<1>2. p.id = SLogin /\ p.parses => p.players = account
  BY <1>1, HeadOfInbox DEF ListInv
<1>3. \A k \in DOMAIN inbox' :
        inbox'[k].id = SLogin /\ inbox'[k].parses => inbox'[k].players = account'
  BY <1>1, HeadOfInbox DEF ListInv
<1> HIDE DEF p
<1>4. \/ UNCHANGED <<slots, listed>>
      \/ Handle_S_LOGIN(account)
  BY <1>1, <1>2 DEF HandlePacket, ListInv
<1>5. SlotsCurrent'
  <2>1. CASE UNCHANGED <<slots, listed>>
    BY <1>1, <2>1 DEF ListInv, SlotsCurrent
  <2>2. CASE Handle_S_LOGIN(account)
    BY <1>1, <2>2 DEF Handle_S_LOGIN, SlotsCurrent
  <2> QED
    BY <1>4, <2>1, <2>2
<1> QED
  BY <1>1, <1>3, <1>5 DEF ListInv

LEMMA ListReceived ==
  ASSUME TypeOK, ListInv, NEW q, Received(q), q.id = SLogin /\ q.parses => q.players = account,
         listed' = listed \/ listed' = "sent"
  PROVE  ListInv'
<1>1. UNCHANGED <<account, table, slots>>
  BY DEF Received
<1>2. \A k \in DOMAIN inbox' :
        inbox'[k].id = SLogin /\ inbox'[k].parses => inbox'[k].players = account'
  BY <1>1, ReceivedInbox DEF ListInv
<1>3. SlotsCurrent'
  BY <1>1 DEF ListInv, SlotsCurrent
<1> QED
  BY <1>1, <1>2, <1>3 DEF ListInv

LEMMA ListNext == TypeOK /\ ListInv /\ [Next]_vars => ListInv'
<1> SUFFICES ASSUME TypeOK, ListInv, [Next]_vars PROVE ListInv'
  OBVIOUS
<1>1. CASE ConnectToGameServer
  <2>1. inbox' = <<>> /\ table' = Table /\ listed' = "no"
    BY <1>1 DEF ConnectToGameServer
  <2>2. DOMAIN inbox' = {}
    BY <2>1
  <2> QED
    BY <2>1, <2>2, TableEntries DEF ListInv, SlotsCurrent
<1>2. CASE LoginAnswered
  <2> DEFINE q == [id |-> SLogin, parses |-> TRUE, players |-> account]
  <2>1. Received(q) /\ listed' = "sent" /\ q.players = account
    BY <1>2 DEF LoginAnswered
  <2> HIDE DEF q
  <2> QED
    BY <2>1, ListReceived
<1>3. ASSUME NEW i \in Ids, NEW b \in BOOLEAN, OtherReceived(i, b) PROVE ListInv'
  <2> DEFINE q == [id |-> i, parses |-> b, players |-> <<>>]
  <2>1. Received(q) /\ listed' = listed /\ (i # SLogin \/ ~b) /\ q.id = i /\ q.parses = b
    BY <1>3 DEF OtherReceived
  <2> HIDE DEF q
  <2> QED
    BY <2>1, ListReceived
<1>4. CASE UNCHANGED <<inbox, account, slots, listed, table>>
  BY <1>4 DEF ListInv, SlotsCurrent
<1> QED
  BY <1>1, <1>2, <1>3, <1>4, ListHandle
     DEF Next, SetSelectedCharacter, SelectCharacter, DisconnectFromGameServer, vars

LEMMA ListInit == Init => ListInv
<1> SUFFICES ASSUME Init PROVE ListInv
  OBVIOUS
<1>1. DOMAIN inbox = {}
  BY DEF Init
<1>2. listed = "no" /\ \A i \in DOMAIN table : table[i] = "null"
  BY DEF Init
<1> QED
  BY <1>1, <1>2 DEF ListInv, SlotsCurrent

LEMMA ListAlways == Spec => [](TypeOK /\ ListInv)
  BY TypeInit, TypeNext, ListInit, ListNext, PTL DEF Spec

\* After its S_LOGIN a session's characters are in the slots, whatever has been
\* there and whatever else comes.
THEOREM SlotsCurrentTheorem == Spec => []SlotsCurrent
  BY ListAlways, PTL DEF ListInv

\* What the slot and the switch of SelectCharacter keep of a character.
LEMMA Kept ==
  ASSUME NEW c \in Characters
  PROVE  /\ Asked(Stored(c)).name = c.name
         /\ c.score < IntMod \div 2 => Asked(Stored(c)).score = c.score
         /\ c.type \in {1, 2, 3} => Asked(Stored(c)).type = c.type
<1>1. PICK Names : c \in [name : Names, score : 0..(IdMod - 1), type : Nat]
  BY CharactersAssumption
<1>2. /\ Stored(c).name = c.name /\ Stored(c).type = c.type
      /\ Stored(c).score = AsInt(c.score) % IdMod
      /\ DOMAIN Stored(c) = {"name", "score", "type"}
  BY <1>1 DEF Stored
<1>3. /\ Asked(Stored(c)).name = c.name /\ Asked(Stored(c)).score = AsInt(c.score) % IdMod
      /\ c.type \in {1, 2, 3} => Asked(Stored(c)).type = c.type
  BY <1>2 DEF Asked
<1>4. ASSUME c.score < IntMod \div 2
      PROVE  AsInt(c.score) % IdMod = c.score
  <2>1. c.score \in 0..(IdMod - 1) /\ c.score < IntMod
    BY <1>1, <1>4, WidthAssumption
  <2>2. c.score % IntMod = c.score
    BY <2>1, WidthAssumption
  <2>3. AsInt(c.score) = c.score
    BY <1>4, <2>2 DEF AsInt
  <2> QED
    BY <2>1, <2>3, WidthAssumption
<1> QED
  BY <1>3, <1>4

\* The character asked for is the one listed at the place selected, for every
\* list, every selection and every history of the slots.
THEOREM EntersTheorem == Spec => EntersAsListed
<1>1. TypeOK /\ ListInv /\ [Next]_vars
      => [ (SelectCharacter /\ listed = "handled" /\ selected < Len(account)) =>
             LET c == account[selected + 1]
             IN  /\ request'.name = c.name
                 /\ c.score < IntMod \div 2 => request'.score = c.score
                 /\ c.type \in {1, 2, 3} => request'.type = c.type ]_vars
  <2> SUFFICES ASSUME TypeOK, ListInv, SelectCharacter, listed = "handled", selected < Len(account)
               PROVE  LET c == account[selected + 1]
                      IN  /\ request'.name = c.name
                          /\ c.score < IntMod \div 2 => request'.score = c.score
                          /\ c.type \in {1, 2, 3} => request'.type = c.type
    OBVIOUS
  <2>1. selected \in 0..(Slots - 1) /\ account \in Seq(Characters)
    BY DEF TypeOK
  <2>2. selected + 1 \in 1..Len(account)
    BY <2>1, SlotsAssumption
  <2>3. account[selected + 1] \in Characters
    BY <2>1, <2>2
  <2>4. request' = Asked(Stored(account[selected + 1]))
    BY <2>1 DEF ListInv, SlotsCurrent, SelectCharacter
  <2> QED
    BY <2>3, <2>4, Kept
<1> QED
  BY <1>1, ListAlways, PTL DEF Spec, EntersAsListed

=============================================================================
