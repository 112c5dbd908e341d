-------------------------- MODULE MCUserConnection --------------------------
(* UserConnection for TLC: four sessions that compete for one account, two worlds, *)
(* and three addresses of which one does not fit an INT.                           *)
EXTENDS UserConnection, TLC

Symmetric ==
    Permutations(Clients) \cup Permutations(WorldIDs) \cup Permutations(IPs \ WideIPs)
=============================================================================
