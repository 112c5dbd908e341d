---------------------------- MODULE MCItemLocker ----------------------------
(* ItemLocker for TLC: an item that can be used twice, another, and a pet. *)
EXTENDS ItemLocker

CONSTANTS water, effect, pet

MCKind == [s \in SNs |-> IF s = pet THEN "pet" ELSE "bundle"]
MCNumber == [s \in SNs |-> IF s = water THEN 2 ELSE 1]
=============================================================================
