-------------------------------- MODULE Lobby --------------------------------
(***************************************************************************)
(* From the packets a session has received to the character that is asked  *)
(* for: the table of handlers (ClientPacketHandler), S_LOGIN, the lobby's  *)
(* slots and SelectCharacter (S1GameInstance).  Slots and selection belong *)
(* to the game instance and outlive sessions; nothing ever clears them.    *)
(*                                                                         *)
(* A packet is its id, whether ParseFromArray accepts it, and S_LOGIN's    *)
(* characters.  The server lists an account's characters once per session. *)
(***************************************************************************)
EXTENDS Integers, Sequences, FiniteSets

CONSTANTS
  Characters,  \* [name, score, type] as the server knows them
  Slots,       \* 5, the length of CharacterName, CharacterScore, CharacterType
  TableSize,   \* UINT16_MAX, the length of GPacketHandler
  SLogin,      \* PKT_S_LOGIN
  OtherIds,    \* the ids of the other S_ packets
  IdMod,       \* 2^64, the range of a score
  IntMod,      \* 2^32, the range of an int
  NoName,      \* the empty name
  MaxListed,   \* bound: characters of an account
  MaxInbox,    \* bound: packets in RecvPacketQueue
  MaxLogins    \* bound: logins

ASSUME SlotsAssumption == Slots \in Nat \ {0} /\ TableSize \in Nat
ASSUME BoundAssumption == MaxListed \in Nat /\ MaxInbox \in Nat /\ MaxLogins \in Nat
ASSUME IdsAssumption ==
  /\ SLogin \in 0..(TableSize - 1) /\ OtherIds \subseteq 0..(TableSize - 1)
  /\ SLogin \notin OtherIds
ASSUME WidthAssumption ==
  /\ IntMod \in Nat \ {0} /\ IdMod \in Nat
  /\ 2 * (IntMod \div 2) = IntMod /\ IntMod <= IdMod
ASSUME CharactersAssumption ==
  Characters \subseteq [ name  : {c.name : c \in Characters},
                         score : 0..(IdMod - 1), type : Nat ]

VARIABLES
  screen,    \* "login", "select" or "game"
  logins,    \* logins so far
  table,     \* GPacketHandler
  inbox,     \* RecvPacketQueue of the session
  account,   \* the characters of the account logged in
  slots,     \* CharacterName, CharacterScore, CharacterType
  selected,  \* SelectedCharacter
  request,   \* the character of the last C_ENTER_GAME, or Empty
  listed,    \* "no", "sent" or "handled": the session's S_LOGIN
  breach,    \* what the server has done that the client does not allow for
  wild       \* memory past an array was written, or no function was called

vars == <<screen, logins, table, inbox, account, slots, selected, request,
          listed, breach, wild>>

Ids == 0..TableSize
Handlers == {"S_LOGIN", "other", "INVALID"}
Empty == [name |-> NoName, score |-> 0, type |-> 0]

Init ==
  /\ screen = "login" /\ logins = 0
  /\ table = [i \in 0..(TableSize - 1) |-> "null"]
  /\ inbox = <<>> /\ account = <<>>
  /\ slots = [k \in 0..(Slots - 1) |-> Empty]
  /\ selected = 0 /\ request = Empty /\ listed = "no"
  /\ breach = {} /\ wild = FALSE

-----------------------------------------------------------------------------
(* The way of a score: uint64, int (SetScore), uint64 (CharacterScore).      *)

AsInt(s) == LET low == s % IntMod
            IN  IF low < IntMod \div 2 THEN low ELSE low - IntMod

\* What a slot holds of a character.
Stored(c) == [c EXCEPT !.score = AsInt(@) % IdMod]

\* The switch of SelectCharacter knows three types and sets no other.
Asked(slot) == [slot EXCEPT !.type = IF @ \in {1, 2, 3} THEN @ ELSE 0]

-----------------------------------------------------------------------------
\* Mutant: the loop of Init ends early.
Table_Short ==
  [i \in 0..(TableSize - 1) |->
     CASE i = SLogin -> "S_LOGIN" [] i \in OtherIds -> "other"
       [] i = TableSize - 1 -> "null" [] OTHER -> "INVALID"]

\* ClientPacketHandler::Init.
Table ==
  [i \in 0..(TableSize - 1) |->
     CASE i = SLogin -> "S_LOGIN" [] i \in OtherIds -> "other" [] OTHER -> "INVALID"]

\* Mutant: the new session takes over what the old one has received.
ConnectToGameServer_KeepsQueue ==
  /\ screen = "login" /\ ~wild /\ logins < MaxLogins
  /\ \E n \in 0..MaxListed : account' \in [1..n -> Characters]
  /\ screen' = "select" /\ logins' = logins + 1
  /\ table' = Table /\ listed' = "no"
  /\ UNCHANGED <<inbox, slots, selected, request, breach, wild>>

\* A new session: the table is filled again, its queue is empty.
ConnectToGameServer ==
  /\ screen = "login" /\ ~wild /\ logins < MaxLogins
  /\ \E n \in 0..MaxListed : account' \in [1..n -> Characters]
  /\ screen' = "select" /\ logins' = logins + 1
  /\ table' = Table /\ inbox' = <<>> /\ listed' = "no"
  /\ UNCHANGED <<slots, selected, request, breach, wild>>

Received(p) ==
  /\ logins > 0 /\ ~wild /\ Len(inbox) < MaxInbox
  /\ inbox' = Append(inbox, p)
  /\ UNCHANGED <<screen, logins, table, account, slots, selected, request, wild>>

\* The server answers C_LOGIN, once.  A login it refuses lists nobody.
LoginAnswered ==
  /\ listed = "no" /\ listed' = "sent"
  /\ Received([id |-> SLogin, parses |-> TRUE, players |-> account])
  /\ breach' = breach \cup (IF Len(account) > Slots THEN {"manyPlayers"} ELSE {})

\* Any other packet, known, unknown or not to be parsed.
OtherReceived(i, parses) ==
  /\ i # SLogin \/ ~parses
  /\ Received([id |-> i, parses |-> parses, players |-> <<>>])
  /\ breach' = breach \cup (IF i = TableSize THEN {"maxId"} ELSE {})
  /\ UNCHANGED listed

\* Mutant: index is not incremented before the type is written.
Handle_S_LOGIN_Shifted(p) ==
  /\ slots' = [k \in 0..(Slots - 1) |->
       IF k < Len(p)
       THEN [Stored(p[k + 1]) EXCEPT !.type = IF k = 0 THEN @ ELSE p[k].type]
       ELSE slots[k]]
  /\ wild' = (Len(p) > Slots)

\* The loop of Handle_S_LOGIN: a slot for each character, and on past the last
\* slot; the slots that it does not reach stay as they are.
Handle_S_LOGIN(p) ==
  /\ slots' = [k \in 0..(Slots - 1) |-> IF k < Len(p) THEN Stored(p[k + 1]) ELSE slots[k]]
  /\ wild' = (Len(p) > Slots)

\* Mutant: the result of ParseFromArray is ignored.
HandlePacket_Unparsed(p) ==
  IF p.id \notin DOMAIN table \/ table[p.id] = "null"
  THEN wild' = TRUE /\ UNCHANGED <<slots, listed>>
  ELSE IF table[p.id] = "S_LOGIN"
       THEN Handle_S_LOGIN(p.players) /\ listed' = "handled"
       ELSE UNCHANGED <<slots, wild, listed>>

\* ClientPacketHandler::HandlePacket: the table's entry for the id, the parser,
\* the handler.  Only S_LOGIN's concerns the lobby.
HandlePacket(p) ==
  IF p.id \notin DOMAIN table \/ table[p.id] = "null"
  THEN wild' = TRUE /\ UNCHANGED <<slots, listed>>
  ELSE IF table[p.id] = "S_LOGIN" /\ p.parses
       THEN Handle_S_LOGIN(p.players) /\ listed' = "handled"
       ELSE UNCHANGED <<slots, wild, listed>>

HandleRecvPackets ==
  /\ inbox # <<>> /\ ~wild
  /\ inbox' = Tail(inbox) /\ HandlePacket(Head(inbox))
  /\ UNCHANGED <<screen, logins, table, account, selected, request, breach>>

\* A character's button.
SetSelectedCharacter(k) ==
  /\ screen = "select" /\ ~wild
  /\ selected' = k
  /\ UNCHANGED <<screen, logins, table, inbox, account, slots, request, listed, breach, wild>>

\* DevMap is opened; no packet is handled before its BeginPlay calls this.
SelectCharacter ==
  /\ screen = "select" /\ ~wild
  /\ screen' = "game" /\ request' = Asked(slots[selected])
  /\ UNCHANGED <<logins, table, inbox, account, slots, selected, listed, breach, wild>>

DisconnectFromGameServer ==
  /\ screen = "game" /\ ~wild
  /\ screen' = "login"
  /\ UNCHANGED <<logins, table, inbox, account, slots, selected, request, listed, breach, wild>>

Next ==
  \/ ConnectToGameServer \/ LoginAnswered
  \/ \E i \in Ids, parses \in BOOLEAN : OtherReceived(i, parses)
  \/ HandleRecvPackets
  \/ \E k \in 0..(Slots - 1) : SetSelectedCharacter(k)
  \/ SelectCharacter \/ DisconnectFromGameServer

Spec == Init /\ [][Next]_vars

-----------------------------------------------------------------------------
StoredCharacters == {Stored(c) : c \in Characters} \cup {Empty}

\* A slot holds one character as the server listed it, whole: name, score and
\* type never come from two of them, or from a packet that did not parse.
TypeOK ==
  /\ screen \in {"login", "select", "game"}
  /\ logins \in 0..MaxLogins
  /\ table \in [0..(TableSize - 1) -> Handlers \cup {"null"}]
  /\ inbox \in Seq([id : Ids, parses : BOOLEAN, players : Seq(Characters)])
  /\ account \in Seq(Characters)
  /\ slots \in [0..(Slots - 1) -> StoredCharacters]
  /\ selected \in 0..(Slots - 1)
  /\ request \in {Asked(s) : s \in StoredCharacters}
  /\ listed \in {"no", "sent", "handled"}
  /\ breach \subseteq {"manyPlayers", "maxId"}
  /\ wild \in BOOLEAN

\* The arrays of slots and of handlers are left, and a handler is missing, only
\* where the server lists more characters than slots or uses the id 65535.
InBounds == breach = {} => ~wild

\* Once S_LOGIN has been handled, the slots of the account's characters are
\* theirs, whatever earlier accounts have left in them and whatever else is
\* received: a packet of an older session never gets there.
SlotsCurrent ==
  listed = "handled" =>
    \A k \in 0..(Slots - 1) : k < Len(account) => slots[k] = Stored(account[k + 1])

\* The game is entered with the character that the server listed at the place
\* selected, with its score where an int holds that and its type where the
\* client knows it; if S_LOGIN has been handled and lists that many.
EntersAsListed ==
  [][ (SelectCharacter /\ listed = "handled" /\ selected < Len(account)) =>
        LET c == account[selected + 1]
        IN  /\ request'.name = c.name
            /\ c.score < IntMod \div 2 => request'.score = c.score
            /\ c.type \in {1, 2, 3} => request'.type = c.type ]_vars

=============================================================================
