------------------------------- MODULE MCLobby -------------------------------
EXTENDS Lobby

\* One whose score an int does not hold, one of a type the client does not know.
MCCharacters == {[name |-> "a", score |-> 1, type |-> 1],
                 [name |-> "b", score |-> 9, type |-> 2],
                 [name |-> "c", score |-> 4, type |-> 4]}

=============================================================================
