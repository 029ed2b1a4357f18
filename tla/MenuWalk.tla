------------------------------ MODULE MenuWalk ------------------------------
(* The agent's way through the screens of a room, or of the main menu,     *)
(* until it has travelled on, or a run begins or ends: the mod reads it,   *)
(* the agent chooses an option, the mod reads it again and clicks what has *)
(* the option's index now, and the game answers.  What the game answers is *)
(* the game's; how the gate closes and opens is DecisionGate's.            *)
EXTENDS MenuChoice

CONSTANTS
    Scenes,       \* the scenes a walk may begin with
    CardRewards,  \* the card rewards that may be opened
    Selections,   \* the card selections that an event or a rest may open
    GameOvers,    \* the screens that may end a run
    Maps,         \* the maps that may be there when the room is over
    Routes,       \* the acts' maps, with who travels there
    MaxLost       \* bound: how many clicks the game may swallow or answer late

ASSUME MaxLostAssumption == MaxLost \in Nat

Overlays  == LayersOf(OverlayTypes)
MapLayers == LayersOf({"none", "MAP"})

AllScenes == [modal : LayersOf({"none", "MODAL"}), menu : LayersOf({"none", "MAIN_MENU"}),
              map : MapLayers, overlays : Seq(Overlays), room : LayersOf(RoomTypes),
              victory : {v \in Seq(Controls) : \A i \in DOMAIN v : FitsIn(v[i], "none")},
              inRun : BOOLEAN, fight : BOOLEAN, halfRead : HalfReads, fullBelt : BOOLEAN,
              route : Routes, deck : Seq(Faces)]

ASSUME ScenesAssumption ==
    /\ Scenes \subseteq AllScenes
    /\ CardRewards \union Selections \union GameOvers \subseteq Overlays
    /\ \A m \in Maps : m.layer \in MapLayers /\ m.route \in Routes /\ m.halfRead \in HalfReads
    /\ \A t \in Routes : Route!IsRoute(t)

VARIABLES
    scene,   \* what the game shows
    screen,  \* the screen that the agent decided on, until it has acted on it
    choice,  \* the place of the option it chose there, or 0
    tried,   \* the options, each with its screen, that had no effect
    lost,    \* how many clicks the game has swallowed or answered late
    left     \* the agent has travelled on, or opened or ended a run

menuVars == <<scene, screen, choice, tried, lost, left>>

MenuInit ==
    /\ scene \in Scenes
    /\ screen = Empty
    /\ choice = 0
    /\ tried = {}
    /\ lost = 0
    /\ left = FALSE

(***************************************************************************)
(* The game's answers to a click on c: the scenes that may follow.         *)
(***************************************************************************)
WithTrait(c, trait)    == [c EXCEPT !.is = @ \union {trait}]
WithoutTrait(c, trait) == [c EXCEPT !.is = @ \ {trait}]
Gone(layer, c)    == [layer EXCEPT !.controls = Such(@, LAMBDA d : d # c)]
Each(layer, F(_)) == [layer EXCEPT !.controls = Options(@, F)]

MapOpened(s) ==
    {[s EXCEPT !.map = m.layer, !.route = m.route, !.halfRead = m.halfRead] : m \in Maps}
Below(s)     == [s EXCEPT !.overlays = Front(@)]
OnTop(s, layer)    == [s EXCEPT !.overlays = Append(Front(@), layer)]
Opened(s, layers)  == {[s EXCEPT !.overlays = Append(@, l)] : l \in layers}

(* Claimed: the card reward that the choice came from is gone. *)
Claimed(s) ==
    IF s.overlays = << >> THEN s
    ELSE OnTop(s, [TopOverlay(s) EXCEPT !.controls =
                     Such(@, LAMBDA d : ~Says(d, {"card_reward"}))])

RewardAnswers(s, c) ==
    LET taken == OnTop(s, Gone(TopOverlay(s), c))
    IN  CASE c.class = "proceed"               -> MapOpened(s) \union MapOpened(Below(s))
          [] c.class = "held"                  -> {[taken EXCEPT !.fullBelt = FALSE]}
          [] Says(c, {"card_reward"})          -> Opened(s, CardRewards)
          [] Says(c, {"potion"}) /\ s.fullBelt -> {s}
          [] OTHER                             -> {taken}

(* Selecting a card, or taking it back; with enough of them (two, or all)  *)
(* they can be confirmed.                                                  *)
Selected(layer, c) ==
    LET flip(d)  == IF d # c THEN d ELSE IF "selected" \in c.is THEN WithoutTrait(c, "selected")
                                         ELSE WithTrait(c, "selected")
        cards    == Of(Each(layer, flip).controls, "card")
        enough   == Len(Such(cards, LAMBDA d : "selected" \in d.is)) >= Min({2, Len(cards)})
    IN  Each(layer, LAMBDA d : IF ~Says(d, {"confirm"}) THEN flip(d)
                               ELSE IF enough THEN WithTrait(d, "enabled")
                               ELSE WithoutTrait(d, "enabled"))

(* The last cell makes the way out visible. *)
Divined(layer, c) ==
    LET rest == Gone(layer, c)
    IN  IF Of(rest.controls, "cell") # << >> THEN rest
        ELSE Each(rest, LAMBDA d : WithTrait(d, "visible"))

OverlayAnswers(s, c) ==
    CASE TopOverlay(s).type = "REWARDS"      -> RewardAnswers(s, c)
      [] TopOverlay(s).type = "CARD_REWARD"  ->
            {Claimed(Below(s))} \union (IF c.class = "card" THEN {} ELSE {Below(s)})
      [] TopOverlay(s).type = "CARD_SELECT" /\ c.class = "card" ->
            {OnTop(s, Selected(TopOverlay(s), c))}
      [] c.class = "cell"             -> {OnTop(s, Divined(TopOverlay(s), c))}
      [] c.class = "summary"          ->
            {OnTop(s, Each(Gone(TopOverlay(s), c), LAMBDA d : WithTrait(d, "visible")))}
      [] c.class = "return"           ->
            {[s EXCEPT !.overlays = << >>, !.room = NoLayer, !.inRun = FALSE]}
      [] OTHER                        -> {Below(s)}

(* A choice of an event leads to its next page, with a card selection or   *)
(* without, or to death; resting likewise.  What was there is gone, the    *)
(* way out excepted, and what was hidden shows.                            *)
TurnedPage(layer) ==
    [layer EXCEPT !.controls =
        Options(Such(@, LAMBDA d : d.class = "proceed" \/ "visible" \notin d.is),
                LAMBDA d : WithTrait(d, "visible"))]

RoomAnswers(s, c) ==
    LET turned == [s EXCEPT !.room = TurnedPage(@)]
        bought(d, more) == IF d = c THEN WithoutTrait(d, "stocked")
                           ELSE IF more THEN d ELSE WithoutTrait(d, "affordable")
    IN  CASE c.class = "proceed" \/ Says(c, {"proceed"}) -> MapOpened(s)
          [] "lethal" \in c.is     -> Opened(s, GameOvers)
          [] "locked" \in c.is     -> {s}
          [] c.class = "slot" /\ "affordable" \notin c.is -> {s}
          [] c.class = "merchant"  -> {[s EXCEPT !.room.type = "INVENTORY"]}
          [] c.class = "slot"      ->
                {[s EXCEPT !.room = Each(@, LAMBDA d : bought(d, more))] : more \in BOOLEAN}
          [] s.room.type = "INVENTORY" /\ Says(c, {"back"}) -> {[s EXCEPT !.room.type = "SHOP"]}
          [] OTHER                 -> {turned} \union Opened(turned, Selections)

(* From the main menu over its pages to a run, new or saved; the character *)
(* may be chosen before.                                                   *)
MenuAnswers(s, c) ==
    CASE Says(c, {"continue", "embark"}) -> {[s EXCEPT !.inRun = TRUE]}
      [] Says(c, {"ironclad"})           -> {s}
      [] OTHER                           -> {[s EXCEPT !.menu = TurnedPage(@)]}

In(layer, c) == c \in Range(layer.controls)

Answers(s, c) ==
    CASE In(s.modal, c)           -> {[s EXCEPT !.modal = NoLayer]}
      [] In(s.menu, c) /\ ~s.inRun -> MenuAnswers(s, c)
      [] In(TopOverlay(s), c)     -> OverlayAnswers(s, c)
      [] c \in Range(s.victory)   -> MapOpened(s)
      [] In(s.room, c)            -> RoomAnswers(s, c)

(***************************************************************************)
(* The walk.                                                               *)
(***************************************************************************)
(* The options of a screen that the agent knows to have no effect. *)
TriedOn(r) == {m[2] : m \in {x \in tried : x[1] = r}}

(* The agent reads and decides, unless it has an answer to wait for. *)
Decides ==
    /\ ~left
    /\ choice = 0
    /\ \E r \in Screens(scene) :
          /\ ShouldAct(r)
          /\ screen' = r
          /\ choice' \in MenuChoices(r, TriedOn(r))
    /\ UNCHANGED <<scene, tried, lost, left>>

Chosen == screen.options[choice]

(* What the index names when the decision arrives: the mod reads the screen*)
(* anew, enabled options and others, and has a closed gate when none of    *)
(* them is enabled; over a fight, while an effect waits for its selection. *)
Accepts(s, r) == IF r.type = "COMBAT" THEN s.overlays = << >> ELSE Enabled(r) # {}
Hit == {r.options[choice].control :
           r \in {q \in {Read(scene)} : choice \in DOMAIN q.options /\ Accepts(scene, q)}}

Answered == choice # 0 /\ choice' = 0 /\ screen' = Empty

Mark == tried' = tried \union {<<screen, choice>>}

(* After 12 s on the screen it decided on, the agent marks the option. *)
Remembers ==
    \E S \in {Screens(scene')} :
        \/ screen \in S /\ Mark
        \/ S # {screen} /\ UNCHANGED tried

(* A click on a screen of the room or of the menu. *)
Clicks(hit) ==
    /\ Answered
    /\ \E c \in hit :
          /\ Clickable(c)
          /\ ~In(scene.map, c)
          /\ scene' \in Answers(scene, c)
    /\ left' = (scene'.inRun # scene.inRun)
    /\ Remembers
    /\ UNCHANGED lost

Travels(hit) ==
    /\ Answered
    /\ \E c \in hit : Clickable(c) /\ In(scene.map, c)
    /\ left' = TRUE
    /\ UNCHANGED <<scene, tried, lost>>

(* The game swallows a click. *)
ClickIsLost(hit) ==
    /\ Answered
    /\ hit # {}
    /\ lost < MaxLost /\ lost' = lost + 1
    /\ UNCHANGED <<scene, left>>
    /\ Remembers

(* The gate is closed, there is no option with that index any more, or its *)
(* control is not to be clicked: the agent marks the option at once.       *)
ClickIsRefused(hit) ==
    /\ Answered
    /\ \A c \in hit : ~Clickable(c)
    /\ Mark
    /\ UNCHANGED <<scene, lost, left>>

(* What could not be read while the screen was changing can be read now. *)
Repaired(layer) == Each(layer, LAMBDA d : [d EXCEPT !.is = @ \ {"unclear", "broken"}])
Settles ==
    /\ ~left
    /\ scene' = [scene EXCEPT !.overlays = Options(@, Repaired), !.room = Repaired(@),
                              !.modal = Repaired(@), !.halfRead = "no"]
    /\ scene' # scene
    /\ UNCHANGED <<screen, choice, tried, lost, left>>

(* A screen on top that was closed goes late, as the rewards may stay for a*)
(* while under the map: the agent has read it and may have decided.        *)
Vanishes ==
    /\ ~left
    /\ lost < MaxLost /\ lost' = lost + 1
    /\ \/ scene.modal # NoLayer /\ scene' = [scene EXCEPT !.modal = NoLayer]
       \/ /\ scene.overlays # << >> /\ TopOverlay(scene).type # "GAME_OVER"
          /\ scene' = Below(scene)
    /\ UNCHANGED <<screen, choice, tried, left>>

ModAnswers ==
    \E hit \in {Hit} : Clicks(hit) \/ Travels(hit) \/ ClickIsLost(hit) \/ ClickIsRefused(hit)

(* Decides and ModAnswers, said without what is chosen and answered: they  *)
(* are the steps that leave a choice where there was none, and that take it*)
(* away.                                                                   *)
Choosing ==
    /\ ~left /\ choice = 0
    /\ \E r \in {Read(scene)} : ShouldAct(r) /\ choice' \in Enabled(r)

Answering == choice # 0 /\ choice' = 0

(***************************************************************************)
(* Properties.                                                             *)
(***************************************************************************)
(* Choices and marks stay within the screens they were made on. *)
MenuTypeOK ==
    /\ scene \in AllScenes
    /\ left \in BOOLEAN
    /\ \A m \in tried : m[2] \in Enabled(m[1])
    /\ choice = 0 \/ choice \in Enabled(screen)
    /\ lost \in 0..MaxLost

(* "With a safe choice, no model may choose an event's branch that kills at*)
(* once": whatever the policy, what could not be read, what clicks were    *)
(* lost and what changed since, a choice that kills is on its way only when*)
(* every open choice of the event kills.  That the click goes to the choice*)
(* that was made is the premise: the mod clicks by the index, whatever it  *)
(* names by then.                                                          *)
DiesOnlyWhenItMust ==
    choice # 0 /\ Chosen.control \in Hit /\ "lethal" \in Chosen.control.is =>
        \A c \in Range(scene.room.controls) :
            c.class = "event" /\ "enabled" \in c.is /\ "locked" \notin c.is => "lethal" \in c.is

(* An unknown event or screen is played by the same protocol: where a      *)
(* control can be clicked, the agent has an option (the last resort of     *)
(* AddFallbackClickableChoices), the lethal choices of an event included,  *)
(* once the controls can be read.                                          *)
Readable(s) ==
    \A layer \in {s.modal, s.room} \union Range(s.overlays) :
        Whole(layer.controls) /\ Clear(layer.controls)
Unknown(s, r) ==
    CASE r.type \in {"EVENT", "TREASURE"}              -> s.room
      [] r.type \in {"SPECIAL_EVENT", "BUNDLE_SELECT"} -> TopOverlay(s)
      [] OTHER                                         -> NoLayer
NoDeadEnd ==
    LET controls == Range(Unknown(scene, Read(scene)).controls)
    IN  Readable(scene) /\ (\E c \in controls : c.class \in {"button", "event", "proceed", "relic"}
                                               /\ Shown(c) /\ ~Unsafe(c))
           => ShouldAct(Read(scene))

(* What else could have been chosen, untried. *)
Others == {screen.options[k] : k \in Enabled(screen) \ (TriedOn(screen) \union {choice})}

(* The local policy travels by the best route to the end of the map: no    *)
(* other point that it could have chosen, untried, and whose text has no   *)
(* word that puts it behind, begins a better one.  Of that other point the *)
(* planner must know all paths, which it does when it has kept fewer than  *)
(* it could.  And the map and the traveller must have been read whole: with*)
(* a part of them the planner knows a part of the routes, or none.         *)
AllPathsKnown(route, id) == Len(Route!Paths(route.map, id)) < Route!PathLimit
TravelsBest ==
    /\ policy = "local" /\ choice # 0
    /\ screen.type = "MAP" /\ OnRoute(screen, Chosen) /\ screen.route = scene.route
    /\ Route!HasNoCycle(scene.route.map)
    => LET best(o) == Route!BestFrom(scene.route.map, scene.route, o.control.id)
       IN  \A o \in Others :
              /\ OnRoute(screen, o) /\ AllPathsKnown(scene.route, o.control.id)
              /\ Priority(o) >= Priority(Chosen)
              => best(o) <= best(Chosen)

(* The local policy takes a status or a curse from a card reward only when *)
(* it had tried all else that it may rank below it: not the ways through a *)
(* half-read map, nor what a word of _automation_priority puts behind.  The*)
(* burden's own text has no such word, as a menu's buttons have, and the   *)
(* deck, as far as it was read, does not need it for several roles at once.*)
Burden(card) == card # NoCard /\ "burden" \in Deck!Roles(card)
Needless(card, deck) ==
    /\ Burden(card) /\ card.rarity \notin {"UNCOMMON", "RARE"}
    /\ Cardinality(Deck!Roles(card) \cap Deck!Needs(deck)) <= 1
TakesNoBurden ==
    /\ policy = "local" /\ choice # 0
    /\ screen.type = "CARD_REWARD" /\ Chosen.kind = "card"
    /\ Needless(Chosen.card, screen.deck) /\ Priority(Chosen) = 0
    => \A o \in Others : o.kind # "map" /\ Priority(o) >= 0 => Burden(o.card)

(* A choice that had no effect is not made again while another option of   *)
(* the screen is untried, neither by the local policy nor by the fallback  *)
(* of a language model that failed, whatever the words and the scores of   *)
(* the options; cards of a selection are clicked in their order.           *)
RepeatsLast ==
    /\ policy \in {"local", "silent"}
    /\ choice # 0 /\ choice \in TriedOn(screen)
    /\ screen.type # "CARD_SELECT"
    => Enabled(screen) \subseteq TriedOn(screen)

(* "Checks the global rules again before the decision is sent (such as     *)
(* skipping rewards)": the agent goes on only when the rewards are taken.  *)
RewardsAreTaken ==
    /\ policy = "local" /\ choice # 0
    /\ screen.type = "REWARDS" /\ Chosen.control.class = "proceed"
    => \A o \in Others : o.kind \notin RewardKinds
=============================================================================
