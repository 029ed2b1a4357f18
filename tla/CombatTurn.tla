----------------------------- MODULE CombatTurn -----------------------------
(* One turn of the agent's player in a combat: the agent reads the state,  *)
(* decides, the mod executes the decision, and so on until the turn ends.  *)
(* Between a reading and the execution a teammate may kill a foe.  What    *)
(* the cards and potions do is the game's: a card costs, hits and blocks,  *)
(* and may draw, exhaust or alter other cards.  The gate and the network   *)
(* are DecisionGate's.                                                     *)
EXTENDS TurnPlan, DecisionMode, Selection

CONSTANT Starts  \* the states a turn may begin in

ASSUME StartsAssumption == Starts \subseteq States

VARIABLES
    game,      \* the combat as the game holds it
    seen,      \* the reading the last decision was made from
    decision,  \* the decision on its way, or NoDecision
    over,      \* how the turn ended: "ended" or "won"; "no" before
    owed       \* history: a block that minimum_defense has called for is due

vars == <<game, seen, decision, over, owed>>

NoDecision == [type |-> "none", at |-> 0, target |-> 0]

(* The decisions that speak of a reading s: an index of its hand or of its *)
(* potion slots, and an index among the foes that can be hit (or -1).      *)
Decisions(s) ==
    {EndTurn, NoDecision}
    \union {PlayCard(i, t)  : i \in DOMAIN s.hand, t \in 0..Max({1, Cardinality(Hittable(s))})}
    \union {UsePotion(p, t) : p \in DOMAIN s.potions, t \in 0..Max({1, Cardinality(Hittable(s))})}

Init ==
    /\ game \in Starts
    /\ seen = game
    /\ decision = NoDecision
    /\ over = "no"
    /\ owed = FALSE
    /\ policy \in Policies

(***************************************************************************)
(* The game's rules.                                                       *)
(***************************************************************************)
Hurt(f, d) == [f EXCEPT !.block = Max({0, f.block - d}),
                        !.hp = Max({0, f.hp - Max({0, d - f.block})})]

(* Every foe of M takes d. *)
HurtAll(g, M, d) == [g EXCEPT !.foes = [m \in DOMAIN g.foes |->
                        IF m \in M THEN Hurt(g.foes[m], d) ELSE g.foes[m]]]

(* The foe that an index names: hittable ones count, or else living ones;  *)
(* an index of -1 is the first.  The empty set stands for no target.       *)
EnemyByIndex(g, t) ==
    LET enemies == IF Hittable(g) # {} THEN Hittable(g) ELSE Alive(g)
    IN  {m \in enemies : Cardinality({n \in enemies : n <= m}) = Max({1, t})}

CardTargets(g, c, t) == IF c.target THEN EnemyByIndex(g, t) ELSE Hittable(g)

(* GetPlayer: the mod acts for the first of the combat's players, whoever  *)
(* the state was read for.                                                 *)
GetPlayer(g) == IF g.leads THEN "the agent's" ELSE "another"

(* What is carried out for the agent's player: CanPlayTargeting and        *)
(* IsValidTarget for the target of the decision.                           *)
Accepted(g, d) ==
    /\ GetPlayer(g) = "the agent's"
    /\ d.type = "play_card" =>
          /\ d.at \in DOMAIN g.hand
          /\ CanPlay(g, d.at)
          /\ g.hand[d.at].target => EnemyByIndex(g, d.target) \cap Hittable(g) # {}
    /\ d.type = "use_potion" =>
          /\ d.at \in DOMAIN g.potions
          /\ CanUse(g, d.at)
          /\ g.potions[d.at] = "fire" => EnemyByIndex(g, d.target) \cap Hittable(g) # {}

PotionBlock == 12
PotionDamage == 20

(* The effects of a card on other cards, with what the game leaves to      *)
(* chance or to a choice: n cards of the hand are exhausted, or all; up to *)
(* n cards come from the pile, for a hand may be full; some cards change.  *)
Exhausted(g, n) ==
    IF n = 0 THEN {g}
    ELSE {[g EXCEPT !.hand = At(@, I)] :
            I \in {K \in SUBSET DOMAIN g.hand : Cardinality(K) = Max({0, Len(g.hand) - n})}}

Drawn(g, n) ==
    {[g EXCEPT !.hand = @ \o SubSeq(g.pile, 1, m), !.pile = SubSeq(@, m + 1, Len(@))] :
        m \in 0..Min({n, Len(g.pile)})}

Grown(n, by) == Max({0, n + by})

AlteredCard(c, a) == [c EXCEPT !.cost = Grown(c.cost, a.cost),
                               !.damage = Grown(c.damage, a.damage),
                               !.block = Grown(c.block, a.block)]

AlteredFoe(f, a) == [f EXCEPT !.damage = Grown(f.damage, a.threat)]

AlteredHand(hand, K, a) ==
    [i \in DOMAIN hand |-> IF i \in K THEN AlteredCard(hand[i], a) ELSE hand[i]]

AlteredFoes(foes, a) == [m \in DOMAIN foes |-> AlteredFoe(foes[m], a)]

Altered(g, a) ==
    IF a = Unaltered THEN {g}
    ELSE {[g EXCEPT !.energy = Grown(@, a.energy),
                    !.hand = AlteredHand(@, K, a),
                    !.foes = AlteredFoes(@, a)] : K \in SUBSET DOMAIN g.hand}

(* A card is paid for, hits and blocks, and leaves the hand. *)
Used(g, d) ==
    LET c == g.hand[d.at]
        h == HurtAll(g, CardTargets(g, c, d.target), c.damage)
    IN  [h EXCEPT !.energy = @ - c.cost, !.block = @ + c.block, !.hand = RemoveAt(@, d.at)]

(* What the game may make of a decision to play a card. *)
Played(g, d) ==
    LET c == g.hand[d.at]
    IN  UNION {UNION {Altered(b, c.alters) : b \in Drawn(a, c.draw)} :
                  a \in Exhausted(Used(g, d), c.exhaust)}

Drunk(g, d) ==
    LET h == IF g.potions[d.at] = "fire"
             THEN HurtAll(g, EnemyByIndex(g, d.target), PotionDamage)
             ELSE [g EXCEPT !.block = @ + PotionBlock]
    IN  [h EXCEPT !.potions[d.at] = "none"]

Finish == over' = IF Alive(game') = {} THEN "won" ELSE "no"

(***************************************************************************)
(* The agent and the mod.                                                  *)
(***************************************************************************)
Ready == over = "no" /\ decision = NoDecision

(* After a decision for c among the candidates C, a block is due if        *)
(* minimum_defense calls for one and some candidate has block.  While it   *)
(* does not call, what was due stays due, unless a sequence without block  *)
(* is let pass because its damage would kill an attacker.                  *)
Owing(s, C, c) ==
    LET f == Found(C, c)
    IN  IF MinimumDefense(s, C, c)
        THEN MostBlock(C).block > 0
        ELSE owed /\ (f.block > 0 \/ Killed(s, f.damage) = {})

AutoEnd ==
    /\ Ready
    /\ Playable(game) = {}
    /\ decision' = EndTurn
    /\ seen' = game
    /\ UNCHANGED <<game, over, owed>>

Decide ==
    /\ Ready
    /\ Playable(game) # {}
    /\ policy \notin LanguageModels
    /\ LET C == Candidates(game)
       IN  \E c \in Choosable(policy, C) :
              /\ decision' = Guarded(game, C, c)
              /\ owed' = Owing(game, C, c)
    /\ seen' = game
    /\ UNCHANGED <<game, over>>

(* The script of a dry run plays the first card at the first foe. *)
Ask ==
    /\ Ready
    /\ Playable(game) # {}
    /\ policy \in LanguageModels
    /\ LET valid == {d \in Commands(game) : Valid(game, d)}
       IN  decision' \in Decided(Thoughts(Commands(game), PlayCard(1, 1)), valid, Fallback(game))
    /\ seen' = game
    /\ UNCHANGED <<game, over, owed>>

Executing(type) == over = "no" /\ decision.type = type

(* A block that is due is no longer due with a card that blocks, with the  *)
(* death of an attacker, and with a card whose effect exhausts or alters   *)
(* others: what the rule called for may not be there any more.             *)
KeepsDue(c) == c.block = 0 /\ c.exhaust = 0 /\ c.alters = Unaltered

Plays ==
    /\ Executing("play_card")
    /\ Accepted(game, decision)
    /\ game' \in Played(game, decision)
    /\ owed' = (owed /\ KeepsDue(game.hand[decision.at]) /\ Attackers(game') = Attackers(game))
    /\ decision' = NoDecision
    /\ Finish
    /\ UNCHANGED seen

Drinks ==
    /\ Executing("use_potion")
    /\ Accepted(game, decision)
    /\ game' = Drunk(game, decision)
    /\ decision' = NoDecision
    /\ Finish
    /\ UNCHANGED <<seen, owed>>

Ends ==
    /\ Executing("end_turn")
    /\ Accepted(game, decision)
    /\ over' = "ended"
    /\ decision' = NoDecision
    /\ UNCHANGED <<game, seen, owed>>

(* The mod answers "error" and the agent decides again. *)
Refuses ==
    /\ over = "no"
    /\ decision # NoDecision
    /\ ~Accepted(game, decision)
    /\ decision' = NoDecision
    /\ UNCHANGED <<game, seen, over, owed>>

(* A foe falls to somebody else. *)
Falls(m) ==
    /\ m \in Hittable(game)
    /\ game' = [game EXCEPT !.foes[m].hp = 0]
    /\ owed' = (owed /\ m \notin Attackers(game))
    /\ Finish

(* The mod answers "ok", but the card that was played at that place of a   *)
(* hand, or the potion, is another player's; so is the turn that it ends.  *)
ActsForAnother ==
    /\ over = "no"
    /\ decision # NoDecision
    /\ GetPlayer(game) = "another"
    /\ \/ decision.type # "end_turn" /\ \E m \in DOMAIN game.foes : Falls(m)
       \/ UNCHANGED <<game, over, owed>>
    /\ decision' = NoDecision
    /\ UNCHANGED seen

(* A teammate kills a foe. *)
MateKills(m) ==
    /\ over = "no"
    /\ Falls(m)
    /\ UNCHANGED <<seen, decision>>

(* The turn is over, and what follows it is not modelled. *)
Over == over # "no" /\ UNCHANGED vars

ModStep == Plays \/ Drinks \/ Ends \/ Refuses \/ ActsForAnother

Next ==
    /\ AutoEnd \/ Decide \/ Ask \/ ModStep \/ (\E m \in DOMAIN game.foes : MateKills(m)) \/ Over
    /\ UNCHANGED policy

(* AutoEnd, Decide or Ask, said without the choice of the decision: the    *)
(* three are the steps of Next that leave a decision where there was none, *)
(* and one of them can be taken whenever the agent is Ready.  A ModStep is *)
(* what takes the decision away, and one can be taken whenever there is a  *)
(* decision.                                                               *)
AgentStep == Ready /\ decision' \in Decisions(game) \ {NoDecision}
ModAnswer == over = "no" /\ decision # NoDecision /\ decision' = NoDecision

Spec == Init /\ [][Next]_<<vars, policy>> /\ WF_decision(AgentStep) /\ WF_decision(ModAnswer)

(***************************************************************************)
(* Properties.                                                             *)
(***************************************************************************)
(* The types of the state, and decisions within the reading they answer. *)
TypeOK ==
    /\ game \in States
    /\ seen \in States
    /\ decision \in Decisions(seen)
    /\ over \in {"no", "ended", "won"}
    /\ owed \in BOOLEAN

(* What planner, policy and guardrail agree on, the mod carries out: while *)
(* the agent's player is the first of the combat's, a decision is refused  *)
(* only when the game changed after it was read.                           *)
AcceptedUnlessChanged ==
    game.leads /\ decision # NoDecision /\ seen = game => Accepted(game, decision)

(* minimum_defense over the whole turn: once it has called for a sequence  *)
(* with block, the turn does not end before a card with block is played or *)
(* an attacker dies, however the plan changes from card to card; unless a  *)
(* sequence was let pass for the kill that it promises, the call had later *)
(* to be made again without a candidate that blocks, or no foe is left     *)
(* that can be hit, so that a card that attacks and blocks has no target.  *)
(* Nor is it promised when a card was played whose effect exhausts or      *)
(* alters other cards: the planner's sums know nothing of such effects.    *)
DefendsWhenWarned == over = "ended" /\ Hittable(game) # {} => ~owed

(* What a turn can still use up: cards, those included that are still to   *)
(* be drawn, potions and living foes.                                      *)
Resources(g) ==
    Len(g.hand) + Len(g.pile) + Cardinality({p \in DOMAIN g.potions : g.potions[p] # "none"})
                + Cardinality(Alive(g))

(* The steps that a turn can still take: three for each resource, that is  *)
(* a decision about it, its refusal and another one.                       *)
StepsLeft ==
    IF over = "no"
    THEN 3 * Resources(game)
         + (IF decision = NoDecision THEN 2 ELSE IF seen = game THEN 1 ELSE 3)
    ELSE 0

(* Planning anew after each card goes nowhere twice: every decision, its   *)
(* execution, its refusal and every interference of a teammate brings the  *)
(* turn nearer to its end, whoever decides; no decision is refused and     *)
(* taken again for ever.  This is promised to the first of the combat's    *)
(* players, in a turn that brings finitely many cards.                     *)
TurnShrinks == [][over = "no" /\ game.leads => StepsLeft' < StepsLeft]_vars

(* Deciding again after each card comes to an end: every turn of the first *)
(* of the combat's players ends.                                           *)
TurnEnds == game.leads ~> over # "no"

(* "LETHAL: ... the sequence does not provide enough block or kills": the  *)
(* lethal rule gives a turn up only when the chosen sequence would not     *)
(* keep the player alive.                                                  *)
BlocksWhenItMust ==
    [][ policy = "local" /\ Decide /\ decision' = EndTurn =>
          \A c \in Choosable(policy, Candidates(game)) : c.loss >= game.hp ]_vars
=============================================================================
