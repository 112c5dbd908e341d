---------------------------- MODULE MCGameWorld -----------------------------
(***************************************************************************)
(* Procedures of GameWorld that share no table: the life of the characters,*)
(* the bulletin board, and fame.  A behaviour is one of a single part.     *)
(***************************************************************************)
EXTENDS CharacterLife, GuildBoard, Fame

VARIABLE part

GameWorldInit ==
    /\ part \in {"characters", "board", "fame"}
    /\ Init /\ BoardInit /\ FameInit

GameWorldNext ==
    \/ part = "characters" /\ Next /\ UNCHANGED <<part, boardVars, fameVars>>
    \/ part = "board" /\ BoardNext /\ UNCHANGED <<part, vars, fameVars>>
    \/ part = "fame" /\ FameNext /\ UNCHANGED <<part, vars, boardVars>>

GameWorldSpec == GameWorldInit /\ [][GameWorldNext]_<<part, vars, boardVars, fameVars>>
=============================================================================
