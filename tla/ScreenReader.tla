---------------------------- MODULE ScreenReader ----------------------------
(* UiAutomation.cs: what the mod makes of the game's screens, as options   *)
(* that the agent may choose by their index.                               *)
(*                                                                         *)
(* A control is [id, class, text, is, card]: its node type, the words in   *)
(* its name, type, label and description (taken together), its traits, and *)
(* the card it stands for.  A layer is [type, controls]: what is open, and *)
(* its controls as FindAll lists them.  A scene holds the layers that the  *)
(* probes look at.                                                         *)
EXTENDS Selection, SequencesExt

CONSTANT NoCard

Classes == {"reward", "held", "card", "relic", "point", "event", "rest", "merchant",
            "slot", "proceed", "cell", "summary", "return", "button"}
Traits  == {"visible", "enabled", "selected", "locked", "lethal", "stocked", "affordable",
            "hidden", "skips", "unclear", "broken"}

(* A card as the mod shows it. *)
Faces == [name : STRING, type : STRING, damage : Int, block : Int,
          hints : SUBSET STRING, rarity : STRING]

ASSUME NoCardAssumption == NoCard \in Faces

Controls == [id : STRING, class : Classes, text : SUBSET STRING, is : SUBSET Traits, card : Faces]

(* Only an event offers death, and only a shop sells. *)
FitsIn(c, type) ==
    /\ c.class = "event" => type = "EVENT"
    /\ c.is \cap {"lethal", "unclear"} # {} => c.class = "event"
    /\ c.class \in {"merchant", "slot"} => type \in {"SHOP", "INVENTORY"}

LayersOf(types) ==
    {l \in [type : types, controls : Seq(Controls)] :
        \A i \in DOMAIN l.controls : FitsIn(l.controls[i], l.type)}

RoomTypes    == {"none", "EVENT", "REST", "SHOP", "INVENTORY", "TREASURE"}
OverlayTypes == {"REWARDS", "CARD_REWARD", "CARD_SELECT", "RELIC_SELECT", "BUNDLE_SELECT",
                 "CRYSTAL_SPHERE", "GAME_OVER", "SPECIAL_EVENT"}

NoLayer == [type |-> "none", controls |-> << >>]

Shown(c)   == {"visible", "enabled"} \subseteq c.is
Says(c, W) == c.text \cap W # {}
Of(cs, class) == Such(cs, LAMBDA c : c.class = class)

(* The nodes that are NClickableControls themselves. *)
Clickables(cs) == Such(cs, LAMBDA c : c.class \notin {"held", "card", "slot", "merchant"})

(* Reports and error messages are not part of the game. *)
Unsafe(c) == Says(c, {"feedback", "report", "bug", "crash", "error"})

(* A reward, card, relic or event choice whose reading throws ends the loop *)
(* it is read in.  Of an event's choice it may not even be told whether it *)
(* is locked or kills: that throws before the loop.                        *)
Whole(cs) == \A i \in DOMAIN cs : "broken" \notin cs[i].is
Clear(cs) == \A i \in DOMAIN cs : "unclear" \notin cs[i].is
UpToBroken(cs) ==
    IF Whole(cs) THEN cs
    ELSE SubSeq(cs, 1, SelectInSeq(cs, LAMBDA c : "broken" \in c.is) - 1)

(***************************************************************************)
(* Options.  The words are what the agent finds in an option's kind, id,   *)
(* name and description.                                                   *)
(***************************************************************************)
Option(c, kind, more, enabled) ==
    [kind |-> kind, words |-> {kind} \union c.text \union more, enabled |-> enabled,
     selected |-> FALSE, card |-> NoCard, control |-> c]

Options(cs, F(_)) == [k \in DOMAIN cs |-> F(cs[k])]

(* An option's index is its place in the reading. *)
Empty == [type |-> "IDLE", options |-> << >>]
Added(r, opts) == [r EXCEPT !.options = @ \o opts]

(* ChoiceKind. *)
KindOf(c) ==
    CASE Says(c, {"proceed", "continue"}) -> "proceed"
      [] Says(c, {"skip"})                -> "skip"
      [] Says(c, {"confirm"})             -> "confirm"
      [] Says(c, {"chest"})               -> "open_chest"
      [] Says(c, {"back", "cancel"})      -> "back"
      [] OTHER                            -> "choice"

(* AddNamedClickableChoices, AddProceedButtons, AddFallbackClickableChoices. *)
Named(cs, W) ==
    Options(Such(Clickables(cs), LAMBDA c : Shown(c) /\ ~Unsafe(c) /\ Says(c, W)),
            LAMBDA c : Option(c, KindOf(c), {}, TRUE))
Proceeds(cs) ==
    Options(Such(Of(cs, "proceed"), Shown),
            LAMBDA c : Option(c, IF "skips" \in c.is THEN "skip" ELSE "proceed",
                              {"continue"}, TRUE))
WithFallback(r, cs) ==
    IF r.options # << >> THEN r
    ELSE Added(r, Options(Such(Clickables(cs), LAMBDA c : Shown(c) /\ ~Unsafe(c)),
                          LAMBDA c : Option(c, "fallback", {}, TRUE)))

(* The controls of a class, each with its option, and then what follows    *)
(* the loop, unless a control threw.                                       *)
Listed(cs, class, F(_), rest) ==
    Options(UpToBroken(Of(cs, class)), F) \o (IF Whole(Of(cs, class)) THEN rest ELSE << >>)

(***************************************************************************)
(* One builder per screen.                                                 *)
(***************************************************************************)
MenuWords == {"singleplayer", "standard", "embark", "ready", "confirm", "ironclad",
              "character", "continue"}
OffLimits == {"settings", "options", "compendium", "credits", "quit", "exit", "multiplayer",
              "reset", "display", "invite"}

MainMenuChoiceKind(c) ==
    CASE Says(c, {"continue"})                 -> "continue_run"
      [] Says(c, {"singleplayer", "standard"}) -> "singleplayer"
      [] Says(c, {"ironclad", "character"})    -> "character"
      [] Says(c, {"embark", "ready"})          -> "start_run"
      [] OTHER                                 -> "confirm"

(* The continue button has the first place, where it is found by its path. *)
MainMenuChoices(cs) ==
    LET offered(c) == Shown(c) /\ ~Unsafe(c) /\ Says(c, MenuWords) /\ ~Says(c, OffLimits)
        saved(c)   == Says(c, {"continue"})
    IN  Options(Such(cs, LAMBDA c : Shown(c) /\ saved(c))
                \o Such(cs, LAMBDA c : offered(c) /\ ~saved(c)),
                LAMBDA c : Option(c, MainMenuChoiceKind(c), {}, TRUE))

RewardKinds == {"card_reward", "gold", "relic", "potion", "card_remove", "reward"}

RewardKind(c) ==
    IF c.text \cap RewardKinds = {} THEN "reward" ELSE CHOOSE k \in RewardKinds : k \in c.text

(* With a full belt and a potion to win, the potions held may be discarded. *)
RewardChoices(cs, fullBelt) ==
    LET rewards  == Of(cs, "reward")
        discards == IF fullBelt /\ \E i \in DOMAIN rewards : Says(rewards[i], {"potion"})
                    THEN Options(Of(cs, "held"), LAMBDA c : Option(c, "discard_potion", {}, TRUE))
                    ELSE << >>
    IN  Listed(cs, "reward",
               LAMBDA c : Option(c, RewardKind(c), {}, "enabled" \in c.is),
               discards \o Proceeds(cs))

CardChoices(cs) ==
    Listed(cs, "card",
           LAMBDA c : [Option(c, "card", {}, TRUE) EXCEPT !.selected = "selected" \in c.is,
                                                          !.card = c.card],
           Named(cs, {"confirm", "skip", "cancel", "proceed", "alternative"}))

RelicChoices(cs) ==
    Listed(cs, "relic", LAMBDA c : Option(c, "relic", {}, TRUE),
           Named(cs, {"skip", "proceed", "confirm"}))

MapChoices(cs) ==
    Options(Such(Of(cs, "point"), LAMBDA c : "enabled" \in c.is),
            LAMBDA c : Option(c, "map", {}, TRUE))

CrystalSphereChoices(cs) ==
    LET leave == Such(Of(cs, "proceed"), Shown)
    IN  IF leave # << >>
        THEN Options(leave, LAMBDA c : Option(c, "proceed", {}, TRUE))
        ELSE Options(Such(Of(cs, "cell"), LAMBDA c : Shown(c) /\ "hidden" \in c.is),
                     LAMBDA c : Option(c, "crystal_cell", {}, TRUE))

GameOverChoices(cs) ==
    Options(Such(Of(cs, "summary"), Shown), LAMBDA c : Option(c, "continue", {}, TRUE))
    \o Options(Such(Of(cs, "return"), Shown), LAMBDA c : Option(c, "main_menu", {}, TRUE))

RestChoices(cs) ==
    Listed(cs, "rest", LAMBDA c : Option(c, "rest", {}, "enabled" \in c.is), Proceeds(cs))

(* A closed shop has a way in only for as long as something can be bought. *)
ShopChoices(cs) ==
    LET wanted == Such(Of(cs, "slot"), LAMBDA c : {"stocked", "affordable"} \subseteq c.is)
    IN  Options(IF wanted = << >> THEN << >> ELSE Of(cs, "merchant"),
                LAMBDA c : Option(c, "open_shop", {}, TRUE))
        \o Proceeds(cs)

InventoryChoices(cs) ==
    Options(Such(Of(cs, "slot"), LAMBDA c : "stocked" \in c.is),
            LAMBDA c : [Option(c, "buy", {}, "affordable" \in c.is) EXCEPT !.card = c.card])
    \o Named(cs, {"back"})

(* Mutants of EventEnabled: every open choice; the safe choices only. *)
EventEnabledAlways(c, open) == c \in Range(open)
EventEnabledIfSafe(c, open) == "lethal" \notin c.is

(* With a safe choice, a lethal one may not be chosen; without, it has to. *)
EventEnabled(c, open) ==
    (\E i \in DOMAIN open : "lethal" \notin open[i].is) => "lethal" \notin c.is

(* The builders that look at the options there are already, those included *)
(* which a probe that failed has left behind.                              *)
EventReading(r, cs) ==
    LET open   == Such(Of(cs, "event"), LAMBDA c : "enabled" \in c.is /\ "locked" \notin c.is)
        events == Added(r, Options(UpToBroken(open), LAMBDA c :
                              Option(c, IF Says(c, {"proceed"}) THEN "proceed" ELSE "event",
                                     {}, EventEnabled(c, open))))
    IN  IF ~Clear(Of(cs, "event")) THEN r
        ELSE IF ~Whole(open) THEN events
        ELSE WithFallback(IF events.options # << >> THEN events
                          ELSE Added(r, Named(cs, {"dialogue", "proceed", "continue", "cell"})), cs)

TreasureReading(r, cs) ==
    LET relics == Options(Such(UpToBroken(Of(cs, "relic")), Shown),
                          LAMBDA c : Option(c, "relic", {}, TRUE))
    IN  WithFallback(Added(r, relics \o Named(cs, {"chest"}) \o Proceeds(cs)), cs)

ChoiceLike == {"button", "bundle", "proceed", "skip", "confirm", "choice"}

GenericReading(r, cs) ==
    WithFallback(
        Added(r, Listed(cs, "card", LAMBDA c : Option(c, "card", {}, TRUE),
                        Options(Such(Clickables(cs),
                                          LAMBDA c : Shown(c) /\ ~Unsafe(c) /\ Says(c, ChoiceLike)),
                                LAMBDA c : Option(c, KindOf(c), {}, TRUE)))),
        IF Whole(Of(cs, "card")) THEN cs ELSE << >>)

(***************************************************************************)
(* The scene: Apply and ReadFullState.                                     *)
(***************************************************************************)
(* CARD_SELECT stands for its variants with a suffix, too. *)
CardScreens == {"CARD_REWARD", "CARD_SELECT"}

Built(s, r0, layer) ==
    LET cs == layer.controls
        r  == [r0 EXCEPT !.type = IF layer.type = "INVENTORY" THEN "SHOP" ELSE layer.type]
    IN  CASE layer.type = "MAIN_MENU"      -> Added(r, MainMenuChoices(cs))
          [] layer.type = "REWARDS"        -> Added(r, RewardChoices(cs, s.fullBelt))
          [] layer.type \in CardScreens    -> Added(r, CardChoices(cs))
          [] layer.type = "RELIC_SELECT"   -> Added(r, RelicChoices(cs))
          [] layer.type = "MAP"            -> Added(r, MapChoices(cs))
          [] layer.type = "CRYSTAL_SPHERE" -> Added(r, CrystalSphereChoices(cs))
          [] layer.type = "GAME_OVER"      -> Added(r, GameOverChoices(cs))
          [] layer.type = "REST"           -> Added(r, RestChoices(cs))
          [] layer.type = "SHOP"           -> Added(r, ShopChoices(cs))
          [] layer.type = "INVENTORY"      -> Added(r, InventoryChoices(cs))
          [] layer.type = "EVENT"          -> EventReading(r, cs)
          [] layer.type = "TREASURE"       -> TreasureReading(r, cs)
          [] OTHER                         -> GenericReading(r, cs)

(* A probe that finds its layer ends the reading; one that throws leaves   *)
(* what it had found, and so does a modal without options.                 *)
Outcome(r, layer) ==
    IF layer.type = "MODAL" /\ Whole(layer.controls) /\ r.options = << >>
    THEN [reading |-> [r EXCEPT !.type = ""], done |-> FALSE]
    ELSE [reading |-> r, done |-> Whole(layer.controls)]

Probed(s, found, layer) ==
    IF layer = NoLayer \/ found.done THEN found ELSE Outcome(Built(s, found.reading, layer), layer)

TopOverlay(s) == IF s.overlays = << >> THEN NoLayer ELSE Last(s.overlays)
MainMenu(s)   == IF s.inRun THEN NoLayer ELSE s.menu

VictoryChoices(s) ==
    Options(Such(s.victory, Shown), LAMBDA c : Option(c, "proceed", {}, TRUE))

(* Where ReadFullState threw, if it did: before the map, the player, the   *)
(* deck or the combat was read whole.  The probes follow nevertheless.     *)
(* (A throw behind the combat, at the round or at the teammates' actions,  *)
(* leaves a reading by which the agent decides the same.)                  *)
HalfReads == {"no", "map", "player", "deck", "combat"}

(* The rows of a map are read in their order: no node without all that     *)
(* lead to it.                                                             *)
MapParts(map) ==
    {N \in SUBSET DOMAIN map :
        \A n \in N, m \in DOMAIN map : n \in Range(map[m].children) => m \in N}

(* What may have been read of the map, of the player (the gold first, and  *)
(* the greatest hp last) and of the deck.                                  *)
Glimpses(s) ==
    LET t == s.route
        Glimpse(N, hp, maxHp, gold, deck) ==
            [route |-> [map |-> Restrict(t.map, N), hp |-> hp, maxHp |-> maxHp, gold |-> gold],
             deck |-> deck]
    IN  CASE s.halfRead = "map"    -> {Glimpse(N, 0, 0, 0, << >>) : N \in MapParts(t.map)}
          [] s.halfRead = "player" -> {Glimpse(DOMAIN t.map, x[1], 0, x[2], << >>) :
                                          x \in {<<0, 0>>, <<0, t.gold>>, <<t.hp, t.gold>>}}
          [] s.halfRead = "deck"   -> {[route |-> t, deck |-> SubSeq(s.deck, 1, n)] :
                                          n \in 0..Len(s.deck)}
          [] OTHER                 -> {[route |-> t, deck |-> s.deck]}

(* What no probe has found.  Wherever ReadFullState threw, the combat is   *)
(* not in the state.                                                       *)
Behind(s, r) ==
    IF s.fight /\ s.halfRead = "no" THEN [r EXCEPT !.type = "COMBAT"]
    ELSE IF VictoryChoices(s) # << >>
         THEN Added([r EXCEPT !.type = "VICTORY"], VictoryChoices(s))
    ELSE IF s.room # NoLayer THEN Built(s, r, s.room)
    ELSE [r EXCEPT !.type = IF s.inRun THEN "WAITING" ELSE "MAIN_MENU"]

Shows(s, found) == IF found.done THEN found.reading ELSE Behind(s, found.reading)

(* The probes in their order. *)
Read(s) ==
    LET modal == Probed(s, [reading |-> Empty, done |-> FALSE], s.modal)
        menu  == Probed(s, modal, MainMenu(s))
        map   == Probed(s, menu, s.map)
    IN  Shows(s, Probed(s, map, TopOverlay(s)))

(* Execute and Click: what may be clicked when its turn comes.  Cards,     *)
(* purchases and potions are not asked.                                    *)
Clickable(c) ==
    c.class \in {"held", "card", "slot", "merchant"} \/ ("enabled" \in c.is /\ ~Unsafe(c))
=============================================================================
