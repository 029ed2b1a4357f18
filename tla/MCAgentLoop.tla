---------------------------- MODULE MCAgentLoop -----------------------------
(* Small instances of AgentLoop.  One tick stands for some seconds: only   *)
(* the order of the durations counts, and the mod's 10 s come before the   *)
(* agent's 12 s.                                                           *)
EXTENDS AgentLoop, TLC

Plain == [type |-> "MAP", options |-> << >>, shown |-> 0, place |-> 1, turn |-> 0, inRun |-> TRUE,
          play |-> FALSE, busy |-> FALSE, foes |-> FALSE, mates |-> FALSE]

Fight  == [Plain EXCEPT !.type = "COMBAT", !.turn = 1, !.play = TRUE, !.foes = TRUE]
Waits  == [Fight EXCEPT !.mates = TRUE]
Route  == [Plain EXCEPT !.options = 0 :> "other" @@ 1 :> "other", !.shown = 3]
Lost   == [Plain EXCEPT !.type = "GAME_OVER"]

MCNoScreen == [Plain EXCEPT !.type = "none"]
LoopScreens  == {Waits, Route, Lost}
CloseScreens == {Route, Lost}
DiskScreens  == {Fight, Lost}
=============================================================================
