------------------------------- MODULE MCMenu -------------------------------
(* Scenes of a run, as small as the agent's and the mod's rules allow.     *)
EXTENDS MenuChoice, TLC

MCNoCard == [name |-> "none", type |-> "none", damage |-> 0, block |-> 0,
             hints |-> {}, rarity |-> "none"]

Able == {"visible", "enabled"}
C(id, class, text, is)      ==
    [id |-> id, class |-> class, text |-> text, is |-> is, card |-> MCNoCard]
Button(id, text)            == C(id, "button", text, Able)
CardOf(id, card)            == [C(id, "card", {card.name}, {}) EXCEPT !.card = card]
Event(id, more, is)         == C(id, "event", {"event"} \union more, {"enabled"} \union is)
Layer(type, controls)       == [type |-> type, controls |-> controls]

Slash == [name |-> "slash", type |-> "ATTACK", damage |-> 6, block |-> 0,
          hints |-> {}, rarity |-> "BASIC"]
Parry == [Slash EXCEPT !.name = "parry", !.type = "SKILL", !.damage = 0, !.block = 5]
Insight == [Parry EXCEPT !.name = "insight", !.block = 0, !.hints = {"draw"}, !.rarity = "RARE"]
Void    == [Insight EXCEPT !.name = "void", !.type = "STATUS", !.hints = {"draw", "energy"},
                           !.rarity = "STATUS"]
Regret  == [Void EXCEPT !.name = "regret", !.type = "CURSE", !.hints = {}]

Starter == <<Slash, Slash, Slash, Slash, Parry, Parry, Parry>>

(* Maps: the ends of an act, with one way and with several. *)
Node(room, children) == [room |-> room, children |-> children]
Fork == [a |-> Node("monster", <<"c", "d">>), b |-> Node("elite", <<"d">>),
         c |-> Node("shop", <<"e">>), d |-> Node("rest", <<"e">>), e |-> Node("boss", << >>)]
Ring == [a |-> Node("event", <<"c">>), b |-> Node("monster", <<"c", "d", "x">>),
         c |-> Node("monster", << >>), d |-> Node("treasure", << >>)]
Trail == [a |-> Node("rest", << >>), b |-> Node("treasure", << >>)]
Point(id) == C(id, "point", {"map"}, Able)
OnMap(map, hp, gold, half) ==
    [layer |-> Layer("MAP", <<Point("a"), Point("b")>>), halfRead |-> half,
     route |-> [map |-> map, hp |-> hp, maxHp |-> 80, gold |-> gold]]
MCMaps == {OnMap(Fork, hp, gold, "no") : hp \in {20, 60}, gold \in {50, 200}}
          \union {OnMap(Ring, 30, 10, "no"), OnMap(Trail, 30, 10, "map")}

NoRoute == [map |-> << >>, hp |-> 60, maxHp |-> 80, gold |-> 0]
Plain   == [modal |-> NoLayer, menu |-> NoLayer, map |-> NoLayer, overlays |-> << >>,
            victory |-> << >>, room |-> NoLayer, inRun |-> TRUE, fight |-> FALSE,
            halfRead |-> "no", fullBelt |-> FALSE, route |-> NoRoute, deck |-> Starter]

MCArenas == {[Plain EXCEPT !.fight = TRUE, !.halfRead = half] : half \in {"no", "combat"}}

(* How a run ends. *)
MCGameOvers == {Layer("GAME_OVER", <<C("continue", "summary", {"continue"}, Able),
                                     C("return", "return", {"main"}, {"enabled"})>>)}

InRoom(type, controls)  == [Plain EXCEPT !.room = Layer(type, controls)]
Under(s, type, controls) == [s EXCEPT !.overlays = <<Layer(type, controls)>>]

Proceed == C("proceed", "proceed", {"proceed"}, Able)
Later   == C("later", "proceed", {"proceed"}, {"enabled"})
Skip    == C("skip", "button", {"skip", "button"}, Able)
Confirm == C("confirm", "button", {"confirm", "button"}, {"visible"})

(* A curse whose text tells what happens at the start of a turn. *)
Lively == [CardOf("2", Regret) EXCEPT !.text = {"regret", "start"}]

MCCardRewards ==
    {Layer("CARD_REWARD", <<CardOf("1", Regret), CardOf("2", Slash), CardOf("3", Insight), Skip>>),
     Layer("CARD_REWARD", <<CardOf("1", Void), Lively, Skip>>)}
MCSelections ==
    {Layer("CARD_SELECT", <<CardOf("1", Slash), CardOf("2", Parry), CardOf("3", Parry), Confirm>>),
     Layer("CARD_SELECT", <<CardOf("1", Slash), Confirm>>)}

Gold    == C("gold", "reward", {"gold"}, Able)
NewCard == C("new", "reward", {"card_reward"}, Able)
Potion  == C("potion", "reward", {"potion"}, Able)
Held    == C("held", "held", {"flask"}, {})

Fought  == [Plain EXCEPT !.victory = <<Proceed>>]
MCAfterFights ==
    {Fought,
     Under(Fought, "REWARDS", <<Gold, NewCard, [Proceed EXCEPT !.id = "go"]>>),
     [Under(Fought, "REWARDS", <<Potion, Held, [Later EXCEPT !.is = Able \union {"skips"}]>>)
        EXCEPT !.fullBelt = TRUE]}

Page(c) == InRoom("EVENT", <<c, Event("stay", {}, {"visible"}), Event("go", {"proceed"}, {})>>)
Events ==
    {Page(Event("risk", {}, {"visible", "lethal"})),
     Page(Event("bug", {"bug"}, {"visible"})),
     Page(Event("shut", {}, {"visible", "locked"})),
     Page(Event("torn", {}, {"visible", "unclear", "lethal"})),
     InRoom("EVENT", <<Event("stay", {}, {"visible"}), Event("torn", {}, {"visible", "broken"}),
                       Event("go", {"proceed"}, {})>>),
     InRoom("EVENT", <<Event("pit", {}, {"visible", "lethal"}),
                       Event("fall", {}, {"visible", "lethal"})>>),
     InRoom("EVENT", <<Event("shut", {}, {"visible", "locked"}), Button("talk", {"dialogue"}),
                       Event("go", {"proceed"}, {})>>),
     InRoom("EVENT", <<Button("orb", {"orb"}), Later>>)}

Slot(id, card, is) == [C(id, "slot", {"buy"}, {"stocked"} \union is) EXCEPT !.card = card]
Merchant == C("merchant", "merchant", {"merchant"}, {})
Stalls   == <<Merchant, Slot("1", Insight, {"affordable"}), Slot("2", MCNoCard, {"affordable"}),
              Slot("3", Slash, {}), Button("back", {"back", "button"}), Proceed>>
Relic == C("relic", "relic", {"relic"}, {"enabled"})
Chest == Button("chest", {"chest"})
Rests == <<C("heal", "rest", {"heal"}, Able), C("smith", "rest", {"smith"}, {"visible"}), Later>>

Hero   == C("hero", "button", {"ironclad"}, {"enabled"})
Embark == C("go", "button", {"embark"}, {"enabled"})
Asks(s, controls) == [s EXCEPT !.modal = Layer("MODAL", controls)]
Sealed == InRoom("TREASURE", <<Chest, Relic, Later>>)

MCScenes ==
    Events \union {Under(Sealed, l.type, l.controls) : l \in MCCardRewards} \union
    {Sealed, InRoom("TREASURE", <<Chest, Relic, Proceed>>),
     InRoom("SHOP", Stalls), InRoom("REST", Rests),
     Asks(Sealed, <<Button("ok", {"choice", "button"}), Button("send", {"report", "button"})>>),
     Asks(Sealed, <<Button("send", {"report", "button"})>>),
     Under(Sealed, "SPECIAL_EVENT", <<Button("odd", {"orb"})>>),
     Under(Sealed, "BUNDLE_SELECT", <<CardOf("1", Slash), Button("bundle", {"bundle"})>>),
     Under(Sealed, "RELIC_SELECT", <<C("1", "relic", {"relic"}, Able),
                                     C("2", "relic", {"relic"}, Able \union {"broken"}), Skip>>),
     Under(Sealed, "CRYSTAL_SPHERE", <<C("1", "cell", {"cell"}, Able \union {"hidden"}),
                                       C("2", "cell", {"cell"}, Able \union {"hidden"}), Later>>),
     Asks(Page(Event("risk", {}, {"visible", "lethal"})), <<Button("yes", {"choice", "button"}),
                                                           Button("no", {"choice", "button"})>>),
     [Under(Sealed, "CARD_REWARD", <<CardOf("1", Regret), CardOf("2", Slash), Skip>>)
        EXCEPT !.halfRead = "deck", !.deck = <<Parry, Slash>>],
     [Plain EXCEPT !.halfRead = "combat", !.victory = <<Proceed>>],
     [Plain EXCEPT !.inRun = FALSE, !.menu = Layer("MAIN_MENU",
        <<Button("single", {"singleplayer"}), Button("multi", {"multiplayer"}), Hero, Embark>>)],
     [Plain EXCEPT !.inRun = FALSE, !.menu = Layer("MAIN_MENU",
        <<Button("single", {"singleplayer"}), Button("old", {"continue"}), Button("quit", {"quit"}),
          Embark>>)]}
=============================================================================
