----------------------------- MODULE MCGameWorld -----------------------------
(***************************************************************************)
(* Small instances of GameWorld.  Actors are interchangeable.              *)
(***************************************************************************)
EXTENDS GameWorld, TLC

Perms == Permutations(Actors)
=============================================================================
