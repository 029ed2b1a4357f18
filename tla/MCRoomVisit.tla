---------------------------- MODULE MCRoomVisit -----------------------------
(* The turns of MCCombatTurn and the scenes of MCMenu. *)
EXTENDS RoomVisit, MCMenu, MCCombatTurn

MCAskers == {Rage}
MCAsked  == {Layer("CARD_SELECT", <<[CardOf("1", Slash) EXCEPT !.is = broken], Confirm>>) :
                broken \in SUBSET {"broken"}}
MCRoutes == {NoRoute} \union {m.route : m \in MCMaps}
MCRooms  == MCScenes \union MCArenas
=============================================================================
