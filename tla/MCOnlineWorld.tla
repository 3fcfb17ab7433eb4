---------------------------- MODULE MCOnlineWorld ----------------------------
(* Model values for OnlineWorld. *)
EXTENDS OnlineWorld

CONSTANTS actor, npc, gun, bolt, nil

OwnersOf  == {actor, npc}
ItemsOf   == {gun, bolt}
BoltOnly  == {bolt}
=============================================================================
