----------------------------- MODULE MenuChoice -----------------------------
(* What the agent makes of a reading with options: the generic handler's   *)
(* automatic choices (generic_choice.py), and else the choice of the local *)
(* or of a learned policy (local_policy.py, neural_policy.py).             *)
(*                                                                         *)
(* Options are named by their place in the reading.  Tried are the places  *)
(* of those that had no effect before.  A screen r is what the handler     *)
(* extracts from a reading: [type, options, route, deck].                  *)
EXTENDS ScreenReader, FiniteSetsExt, DecisionMode

Route == INSTANCE RoutePlanner
Deck  == INSTANCE DeckEvaluator

(* extract_state; the hash of what it extracts is the screen's id. *)
Screens(s) ==
    {[type |-> r.type, options |-> r.options, route |-> g.route, deck |-> g.deck] :
        r \in {Read(s)}, g \in Glimpses(s)}

Enabled(r)       == {k \in DOMAIN r.options : r.options[k].enabled}
OfKind(r, kinds) == {k \in Enabled(r) : r.options[k].kind \in kinds}

(* The generic handler takes a reading with options of a screen that has a *)
(* name, unless it is the combat.                                          *)
ShouldAct(r) == r.type \notin {"", "COMBAT"} /\ Enabled(r) # {}

(* Mutant of AutoChoice: does not look at what is selected already. *)
AutoChoiceOfCards(r) ==
    LET cards == OfKind(r, {"card"})
    IN  IF r.type = "CARD_SELECT" /\ cards # {} THEN {Min(cards)}
        ELSE IF Cardinality(Enabled(r)) = 1 THEN Enabled(r) ELSE {}

(* try_auto_decision: cards are selected in their order until there is     *)
(* something to confirm (or to skip) the selection with; a single option   *)
(* is no choice.                                                           *)
AutoChoice(r) ==
    LET cards    == OfKind(r, {"card"})
        selected == {k \in cards : r.options[k].selected}
        confirm  == OfKind(r, {"confirm", "proceed", "skip"})
    IN  IF r.type = "CARD_SELECT"
        THEN {Min(CASE selected # {} /\ confirm # {} -> confirm
                    [] cards \ selected # {}         -> cards \ selected
                    [] cards # {}                    -> cards
                    [] OTHER                         -> Enabled(r))}
        ELSE IF Cardinality(Enabled(r)) = 1 THEN Enabled(r) ELSE {}

(* _automation_priority, from what the text of an option contains.         *)
Priority(o) ==
    LET Names(W) == o.words \cap W # {}
    IN  CASE Names({"quit", "exit", "settings", "option", "options", "compendium", "credits",
                    "multiplayer", "reset", "display", "invite"}) -> -1000
          [] Names({"continue_run"})                              -> 550
          [] Names({"confirm", "start", "start_run", "embark", "ready"}) -> 500
          [] Names({"standard"})                                  -> 400
          [] Names({"singleplayer"})                              -> 350
          [] Names({"ironclad"})                                  -> 340
          [] Names({"character", "select"})                       -> 300
          [] Names({"continue"})                                  -> 250
          [] Names({"proceed"})                                   -> 100
          [] OTHER                                                -> 0

(* normalized_candidates: a map point has the score of its best route, a   *)
(* card its value for the deck; nothing else is scored.                    *)
OnRoute(r, o) == o.kind = "map" /\ o.control.id \in DOMAIN r.route.map

Score(r, o) ==
    CASE OnRoute(r, o)                     -> Route!RouteScore(r.route.map, r.route, o.control.id)
      [] ~OnRoute(r, o) /\ o.card # NoCard -> Deck!CardValue(o.card, r.deck)
      [] OTHER                              -> 0

(* Mutant of StalledPriority: that of an option without a word. *)
StalledAsAny == 0

StalledPriority == -4000

(* LocalPolicy._best_candidate. *)
Preferred(r, tried) ==
    LET priority(k) == IF k \in tried THEN StalledPriority ELSE Priority(r.options[k])
        first  == {k \in Enabled(r) : \A j \in Enabled(r) : priority(j) <= priority(k)}
        best   == {k \in first : \A j \in first : Score(r, r.options[j]) <= Score(r, r.options[k])}
    IN  Min(best)

(* fallback_decision, when a language model failed: the way with the best  *)
(* route, or else the best card, or else the first option; of those that   *)
(* were not tried, if there are any.                                       *)
MenuFallback(r, tried) ==
    LET open   == IF Enabled(r) \subseteq tried THEN Enabled(r) ELSE Enabled(r) \ tried
        routes == {k \in open : OnRoute(r, r.options[k])}
        cards  == {k \in open : r.options[k].card # NoCard}
        best(K) == {k \in K : \A j \in K : Score(r, r.options[j]) <= Score(r, r.options[k])}
    IN  Min(CASE routes # {} -> best(routes)
              [] routes = {} /\ cards # {} -> best(cards)
              [] OTHER -> open)

(* DryRunClient: the first option that the prompt calls AVAILABLE. *)
FirstAvailable(r, tried) ==
    LET untried == IF Enabled(r) \subseteq tried THEN Enabled(r) ELSE Enabled(r) \ tried
        available == {k \in untried : ~r.options[k].selected}
    IN  IF available = {} THEN 1 ELSE Min(available)

(* A learned policy may prefer any option, and a language model may name   *)
(* any number.                                                             *)
MenuChoices(r, tried) ==
    CASE AutoChoice(r) # {} -> AutoChoice(r)
      [] AutoChoice(r) = {} /\ policy = "local"   -> {Preferred(r, tried)}
      [] AutoChoice(r) = {} /\ policy = "learned" -> Enabled(r)
      [] OTHER -> Decided(Thoughts(1..(Len(r.options) + 1), FirstAvailable(r, tried)),
                          Enabled(r), MenuFallback(r, tried))
=============================================================================
