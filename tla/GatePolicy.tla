----------------------------- MODULE GatePolicy -----------------------------
(***************************************************************************)
(* What the mod reads of the game, and the pure rules its action gate      *)
(* applies to one such reading.                                            *)
(*                                                                         *)
(* The game itself is not under src/: a state of it is a record of what    *)
(* StateReader can tell apart.                                             *)
(*   phase  "none" no combat, "player" the local player may act,           *)
(*          "enemy" combat outside the player's phase                      *)
(*   turn   the combat's round number                                      *)
(*   busy   a card or potion effect is executing, or the turn is ending    *)
(*   menu   which list of options the UI shows, or NoMenu; all of Menus    *)
(*          have an enabled option, except Bare (if it is one of them)     *)
(*   board  everything else that is serialised (hand, energy, map, ...)    *)
(***************************************************************************)
EXTENDS Naturals

CONSTANTS Boards, Menus, NoMenu, Bare, MaxTurn

ASSUME NoMenuAssumption  == NoMenu \notin Menus
ASSUME MaxTurnAssumption == MaxTurn \in Nat

MenuOrNone == Menus \union {NoMenu}

Games ==
  [phase: {"none", "player", "enemy"}, turn: 0 .. MaxTurn, busy: BOOLEAN,
   board: Boards, menu: MenuOrNone]

(* Outside combat there is no round and no effect to wait for.             *)
Coherent(g) ==
  IF g.phase = "none" THEN g.turn = 0 /\ ~g.busy ELSE g.turn >= 1

(* One change of the game seen from outside: a combat starts at round 1    *)
(* with the player to move, the round number grows by one when the enemy   *)
(* phase ends, a combat may end at any moment; the rest changes freely.    *)
Evolves(g, h) ==
  /\ Coherent(h)
  /\ \/ h.phase = "none"
     \/ g.phase = "none" /\ h.phase = "player" /\ h.turn = 1
     \/ g.phase # "none" /\ h.phase # "none" /\ h.turn = g.turn
     \/ g.phase = "enemy" /\ h.phase = "player" /\ h.turn = g.turn + 1

(***************************************************************************)
(* GameStateJson.  The SHA-256 of a serialised view is taken to be         *)
(* injective, so that a view is its own fingerprint.                       *)
(***************************************************************************)
Views ==
  [inCombat: BOOLEAN, play: BOOLEAN, turn: 0 .. MaxTurn, busy: BOOLEAN,
   board: Boards, menu: MenuOrNone]

(* StateReader.ReadFullState: hasManager says whether the CombatManager it *)
(* was called with is a combat or null.  Without one, the action-in-       *)
(* progress flag keeps its default, and the turn is the player's own       *)
(* number, which is taken to be the round's.                               *)
ReadFullState(g, hasManager) ==
  [inCombat |-> hasManager /\ g.phase # "none",
   play     |-> g.phase = "player",
   turn     |-> g.turn,
   busy     |-> hasManager /\ g.busy,
   board    |-> g.board,
   menu     |-> g.menu]

(* A reader that throws leaves what it had not read yet at its default; the*)
(* options are read nevertheless, if that does not throw too.              *)
HalfReadings(g, hasManager) ==
  LET w == ReadFullState(g, hasManager) IN
  {v \in Views :
     /\ v.inCombat => w.inCombat
     /\ v.play => w.play
     /\ v.busy => w.busy
     /\ v.turn \in {0, w.turn}
     /\ v.menu \in {w.menu, NoMenu, Bare}}

(* UiStateReader.Apply puts open menus before combat: the screen type is   *)
(* COMBAT only when a combat runs with no menu over it.                    *)
OnCombatScreen(v) == v.inCombat /\ v.menu = NoMenu
CombatReady(v)    == OnCombatScreen(v) /\ v.play
ChoiceReady(v)    == v.menu \in Menus \ {Bare}

(* Mutant: an action in flight does not count.                             *)
CanAcceptInFlight(combatReady, choiceReady, actionInProgress, inFlight) ==
  choiceReady \/ (combatReady /\ ~actionInProgress)

(* DecisionGatePolicy.                                                     *)
CanAcceptDecision(combatReady, choiceReady, actionInProgress, inFlight) ==
  /\ ~inFlight
  /\ choiceReady \/ (combatReady /\ ~actionInProgress)

ShouldSettleOnChoice(choiceReady, notBeforeElapsed) ==
  choiceReady /\ notBeforeElapsed

(* The game can take a decision in the state the view shows.               *)
Acceptable(v) ==
  CanAcceptDecision(CombatReady(v), ChoiceReady(v), v.busy, FALSE)

(* Mutant: no deadline.                                                    *)
IsSettledInTime(v, baseline, actionType, notBeforeElapsed, deadlineElapsed) ==
  /\ notBeforeElapsed
  /\ \/ ShouldSettleOnChoice(ChoiceReady(v), notBeforeElapsed)
     \/ /\ ~v.busy
        /\ IF actionType = "end_turn" THEN v.turn > baseline.turn
                                      ELSE v # baseline

(* DecisionGate.IsSettled: the view shows that the action of type          *)
(* actionType, accepted when the game looked like baseline, is over.       *)
IsSettled(v, baseline, actionType, notBeforeElapsed, deadlineElapsed) ==
  \/ deadlineElapsed
  \/ /\ notBeforeElapsed
     /\ \/ ShouldSettleOnChoice(ChoiceReady(v), notBeforeElapsed)
        \/ /\ ~v.busy
           /\ IF actionType = "end_turn" THEN v.turn > baseline.turn
                                         ELSE v # baseline
=============================================================================
