----------------------------- MODULE RoomVisit ------------------------------
(* A visit to a room: a turn of a fight (CombatTurn) and the screens of    *)
(* the room (MenuWalk), which the same agent plays by the same reading: a  *)
(* screen over the fight is played before the fight goes on, and a fight   *)
(* that is won leads to the screens after it.                              *)
EXTENDS CombatTurn, MenuWalk

CONSTANTS
    Arenas,       \* what the game shows of a fight
    AfterFights,  \* the scenes after a fight that was won
    Askers,       \* the cards whose effect has a card selected
    Asked         \* the selections that such an effect opens

ASSUME VisitsAssumption ==
    /\ Arenas \union AfterFights \subseteq AllScenes /\ Asked \subseteq Overlays
    /\ \A s \in AfterFights : \A c \in Range(s.room.controls) : "lethal" \notin c.is

visitVars == <<vars, menuVars, policy>>

(* No fight, or none any more. *)
Quiet == [hp |-> 1, maxHp |-> 1, block |-> 0, energy |-> 0,
           hand |-> << >>, foes |-> << >>, potions |-> << >>, pile |-> << >>, leads |-> TRUE]

VisitInit ==
    /\ MenuInit
    /\ \/ /\ scene \in Arenas
          /\ Init
       \/ /\ scene \notin Arenas
          /\ game = Quiet /\ seen = Quiet /\ decision = NoDecision
          /\ over = "won" /\ owed = FALSE
          /\ policy \in Policies

(* The reading shows the fight; while a card's effect waits for a          *)
(* selection, no decision about the fight is taken, whatever is read.  The *)
(* agent takes one decision at a time, about the fight or about a screen.  *)
Fights == scene.overlays = << >> /\ Read(scene).type = "COMBAT"

DecidesInFight ==
    /\ Fights
    /\ choice = 0
    /\ AutoEnd \/ Decide \/ Ask
    /\ UNCHANGED <<scene, screen, choice, tried, lost, left>>

PlaysInFight ==
    /\ Plays
    /\ \/ UNCHANGED scene
       \/ game.hand[decision.at] \in Askers /\ scene' \in Opened(scene, Asked)
    /\ UNCHANGED <<screen, choice, tried, lost, left>>

ActsInFight == (Drinks \/ Ends \/ Refuses \/ ActsForAnother) /\ UNCHANGED menuVars

MateKillsInFight == (\E m \in DOMAIN game.foes : MateKills(m)) /\ UNCHANGED menuVars

(* The fight is won, and what it asked for was answered, or has vanished   *)
(* with an answer on its way.                                              *)
FightIsOver ==
    /\ over = "won" /\ scene.fight
    /\ scene.overlays = << >>
    /\ scene' \in AfterFights
    /\ game' = Quiet /\ seen' = Quiet /\ decision' = NoDecision
    /\ owed' = FALSE
    /\ UNCHANGED <<over, screen, choice, tried, lost, left>>

DecidesInMenu == decision = NoDecision /\ Decides /\ UNCHANGED vars

InMenus == DecidesInMenu \/ ((ModAnswers \/ Settles \/ Vanishes) /\ UNCHANGED vars)

(* The room is left, or the turn is over and the foes' turn is not         *)
(* modelled.                                                               *)
VisitIsOver == (left \/ over = "ended") /\ UNCHANGED <<vars, menuVars>>

VisitNext ==
    /\ \/ DecidesInFight \/ PlaysInFight \/ ActsInFight \/ MateKillsInFight
       \/ FightIsOver \/ InMenus \/ VisitIsOver
    /\ UNCHANGED policy

(* The agent polls and the mod's main thread runs for as long as the game  *)
(* does, and the game answers.                                             *)
VisitSpec ==
    /\ VisitInit /\ [][VisitNext]_visitVars
    /\ WF_decision(Ready /\ choice = 0 /\ Fights /\ AgentStep) /\ WF_decision(ModAnswer)
    /\ WF_scene(FightIsOver)
    /\ WF_choice(decision = NoDecision /\ Choosing)
    /\ WF_choice(Answering) /\ WF_scene(Settles)

(***************************************************************************)
(* Properties.                                                             *)
(***************************************************************************)
(* The types of both parts. *)
VisitTypeOK == TypeOK /\ MenuTypeOK /\ policy \in Policies

(* Without a model, or with one that does not answer ("the safe action that*)
(* lets the run go on"), the agent gets out of every room and through every*)
(* menu, and so from a won fight to the next room, although screens are    *)
(* read while they change, unless the game swallows a click or answers one *)
(* late.                                                                   *)
RoomIsLeft == policy \in {"local", "silent", "dry_run"} /\ over = "won" ~> left \/ lost > 0
=============================================================================
