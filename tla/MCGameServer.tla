---------------------------- MODULE MCGameServer ----------------------------
(* GameServer for TLC: two administrators and a user; unwritten bytes that hold a zero, a *)
(* space, the digit 3 or a letter.                                                      *)
EXTENDS GameServer

Unset == -1
InDungeonOrTown == [u \in Users |-> IF u = CHOOSE a \in Admins : TRUE THEN "dungeon" ELSE "town"]
=============================================================================
