------------------------------ MODULE TurnPlan ------------------------------
(* What the agent makes of a combat state: the planner's candidate         *)
(* sequences (combat_planner.py), the local or the neural policy's choice  *)
(* among them, and the combat rules of the guardrail (guardrails.py).      *)
(*                                                                         *)
(* A state s is [hp, maxHp, block, energy, hand, foes, potions], and what  *)
(* the agent does not see: the pile of the cards that effects of the turn  *)
(* can still bring to the hand, and whether its player leads, that is, is  *)
(* the first of the combat's players.  Hand, foes and potion slots count   *)
(* from 1, and 0 stands for the index -1.  A reading also holds what the   *)
(* mod computes for the agent: the cards that can be played, the foes that *)
(* can be hit, the usable potions.                                         *)
EXTENDS Integers, Sequences, FiniteSets, FiniteSetsExt, SequencesExt

CONSTANT SequenceLimit  \* the candidate sequences that are looked at: 1200

ASSUME SequenceLimitAssumption == SequenceLimit \in Nat \ {0}

(* How a card alters cost, damage and block of other cards of the hand,    *)
(* the player's energy and the damage that the foes are up to.             *)
Alterations == [cost : Int, damage : Int, block : Int, energy : Int, threat : Int]
Unaltered   == [cost |-> 0, damage |-> 0, block |-> 0, energy |-> 0, threat |-> 0]

(* Playing a card may draw cards, and exhaust and alter others.  None of it*)
(* enters the planner's sums.                                              *)
Cards == [cost : Nat, damage : Nat, block : Nat, setup : 0..1,
          target : BOOLEAN, usable : BOOLEAN,
          draw : Nat, exhaust : Nat, alters : Alterations]
Foes  == [hp : Nat, block : Nat, damage : Nat, attacking : BOOLEAN, hittable : BOOLEAN]

Potions == {"block", "fire", "other", "none"}

States == [hp : Nat, maxHp : Nat, block : Nat, energy : Nat,
           hand : Seq(Cards), foes : Seq(Foes), potions : Seq(Potions),
           pile : Seq(Cards), leads : BOOLEAN]

Alive(s)     == {m \in DOMAIN s.foes : s.foes[m].hp > 0}
Hittable(s)  == {m \in Alive(s) : s.foes[m].hittable}
Attackers(s) == {m \in Alive(s) : s.foes[m].attacking}

(* CanPlayTargeting and IsValidTarget for the default target. *)
CanPlay(s, i) ==
    /\ s.hand[i].usable
    /\ s.hand[i].cost <= s.energy
    /\ s.hand[i].target => Hittable(s) # {}

CanUse(s, p) == s.potions[p] = "block" \/ (s.potions[p] = "fire" /\ Hittable(s) # {})

(* A foe's place among those that can be hit; 0 for one that cannot. *)
TargetIndex(s, m) == IF m \in Hittable(s) THEN Cardinality({n \in Hittable(s) : n <= m}) ELSE 0

(***************************************************************************)
(* The planner.                                                            *)
(***************************************************************************)
Incoming(s)  == SumFunction([m \in Attackers(s) |-> s.foes[m].damage])
Unblocked(s) == Max({0, Incoming(s) - s.block})
Lethal(s)    == Unblocked(s) >= s.hp
HighRisk(s)  == Lethal(s) \/ 100 * s.hp < 35 * s.maxHp \/ 4 * Unblocked(s) >= s.hp

(* Mutant of Playable: what the game says of a card is not asked. *)
PlayableByCost(s) == {i \in DOMAIN s.hand : s.hand[i].cost <= s.energy}

Playable(s) == {i \in DOMAIN s.hand : CanPlay(s, i) /\ s.hand[i].cost <= s.energy}

(* A foe's health behind its block, and the order in which foes fall. *)
Toughness(s, m) == s.foes[m].hp + s.foes[m].block
Weaker(s, m, n) ==
    \/ Toughness(s, m) < Toughness(s, n)
    \/ Toughness(s, m) = Toughness(s, n) /\ m <= n

(* The attackers that so much damage kills, spent on the weakest first. *)
Killed(s, damage) ==
    {m \in Attackers(s) :
        damage >= SumFunction([n \in {n \in Attackers(s) : Weaker(s, n, m)} |-> Toughness(s, n)])}

Total(s, seq, value(_)) == SumFunction([i \in Range(seq) |-> value(s.hand[i])])

(* One candidate sequence; scores count tenths, as round(score, 2) keeps.  *)
Sequence(s, seq) ==
    LET damage    == Total(s, seq, LAMBDA c : c.damage)
        block     == Total(s, seq, LAMBDA c : c.block)
        setup     == Total(s, seq, LAMBDA c : c.setup)
        avoided   == SumFunction([m \in Killed(s, damage) |-> s.foes[m].damage])
        open      == Max({0, Incoming(s) - avoided - s.block})
        prevented == Min({open, block})
        loss      == Max({0, open - block})
    IN  [cards |-> seq, damage |-> damage, block |-> block, avoided |-> avoided, loss |-> loss,
         score |-> 10 * damage + 20 * setup
                   + avoided * (IF HighRisk(s) THEN 22 ELSE 15)
                   + prevented * (IF HighRisk(s) THEN 20 ELSE 12)
                   - (IF loss >= s.hp THEN 10000 ELSE 0)]

(* Up to five cards that the energy pays for, in every order. *)
Affordable(s) ==
    {q \in UNION {Injection(1..k, Playable(s)) : k \in 1..Min({5, Cardinality(Playable(s))})} :
        Total(s, q, LAMBDA c : c.cost) <= s.energy}

(* The order they are generated in: by length, and then by the hand's.     *)
Earlier(p, q) ==
    \/ Len(p) < Len(q)
    \/ /\ Len(p) = Len(q)
       /\ \E k \in DOMAIN p : p[k] < q[k] /\ \A j \in 1..(k - 1) : p[j] = q[j]

(* The first SequenceLimit of them. *)
LookedAt(s) ==
    LET all == Affordable(s)
    IN  IF Cardinality(all) <= SequenceLimit THEN all
        ELSE {q \in all : Cardinality({p \in all : Earlier(p, q)}) < SequenceLimit}

Sequences(s) == {Sequence(s, q) : q \in LookedAt(s)}

(* A stable sort by score. *)
Before(c, d) ==
    c.score > d.score \/ (c.score = d.score /\ Earlier(c.cards, d.cards))

Top(S) == CHOOSE c \in S : \A d \in S : ~Before(d, c)

CandidatesKept == 8

Candidates(s) ==
    LET all == Sequences(s)
    IN  {c \in all : Cardinality({d \in all : Before(d, c)}) < CandidatesKept}

(***************************************************************************)
(* The policy.                                                             *)
(***************************************************************************)
EndTurn == [type |-> "end_turn", at |-> 0, target |-> 0]
PlayCard(i, t)  == [type |-> "play_card", at |-> i, target |-> t]
UsePotion(p, t) == [type |-> "use_potion", at |-> p, target |-> t]

(* The neural policy may prefer any of the candidates. *)
Choosable(policy, C) == IF policy = "local" THEN {Top(C)} ELSE C

(* Mutant of WeakestTarget: a position among the living foes. *)
WeakestOfLiving(s) ==
    IF Hittable(s) = {} THEN 1
    ELSE LET w == CHOOSE m \in Hittable(s) : \A n \in Hittable(s) : Weaker(s, m, n)
         IN  Cardinality({n \in Alive(s) : n <= w})

WeakestTarget(s) ==
    IF Hittable(s) = {} THEN 1
    ELSE TargetIndex(s, CHOOSE m \in Hittable(s) : \A n \in Hittable(s) : Weaker(s, m, n))

FromCandidate(s, c) ==
    LET i == c.cards[1]
    IN  PlayCard(i, IF s.hand[i].target THEN WeakestTarget(s) ELSE 0)

(***************************************************************************)
(* The guardrail: lethal threat, minimum defense, emergency potion.  The   *)
(* rule for a hand with nothing to play never meets a policy's decision:   *)
(* such a turn is ended before a policy is asked.                          *)
(***************************************************************************)
(* The sequence that the rules hold against a card: the best one that      *)
(* begins with it, which need not be the one the policy chose.             *)
Found(C, c) == Top({d \in C : d.cards[1] = c.cards[1]})

MinimumDefense(s, C, c) ==
    LET f == Found(C, c)
    IN  /\ ~Lethal(s)
        /\ Unblocked(s) >= (4 * s.hp) \div 10
        /\ 2 * (f.block + f.avoided) < Unblocked(s)
        /\ \E i \in Playable(s) : s.hand[i].block > 0
        /\ f.block = 0
        /\ Killed(s, f.damage) = {}

MostBlock(C) == Top({c \in C : \A d \in C : d.block <= c.block})

(* Mutant of ForceBlock: the best sequence instead of the one that blocks. *)
ForceBest(s, C) == PlayCard(Top(C).cards[1], WeakestTarget(s))

ForceBlock(s, C) == PlayCard(MostBlock(C).cards[1], WeakestTarget(s))

(* Mutant of UsefulPotions: can_use is not asked. *)
FullSlots(s) == {p \in DOMAIN s.potions : s.potions[p] # "none"}

UsefulPotions(s) == {p \in DOMAIN s.potions : CanUse(s, p)}

Guarded(s, C, c) ==
    IF Lethal(s)
    THEN IF UsefulPotions(s) # {} THEN UsePotion(Min(UsefulPotions(s)), WeakestTarget(s)) ELSE EndTurn
    ELSE IF MinimumDefense(s, C, c) THEN ForceBlock(s, C) ELSE FromCandidate(s, c)

(***************************************************************************)
(* The language model.                                                     *)
(***************************************************************************)
(* The commands that can be read from an answer, in the reading or a place *)
(* beyond it; for what has no target, the target that it names is idle.    *)
Commands(s) ==
    LET targets == 1..(Cardinality(Hittable(s)) + 1)
    IN  {EndTurn}
        \union {PlayCard(i, t)  : i \in 1..(Len(s.hand) + 1), t \in targets}
        \union {UsePotion(p, t) : p \in 1..(Len(s.potions) + 1), t \in targets}

(* parse_response: the commands that the handler lets pass. *)
Valid(s, d) ==
    LET aims == d.target \in 1..Cardinality(Hittable(s))
    IN  CASE d.type = "play_card" ->
                /\ d.at \in Playable(s)
                /\ IF s.hand[d.at].target THEN aims ELSE d.target = 1
          [] d.type = "use_potion" ->
                /\ d.at \in DOMAIN s.potions
                /\ CanUse(s, d.at)
                /\ IF s.potions[d.at] = "fire" THEN aims ELSE d.target = 1
          [] OTHER -> TRUE

(* fallback_decision: the dearest card, at the foe with the least health.  *)
LeastHealth(s) ==
    IF Hittable(s) = {} THEN 1
    ELSE LET least == {m \in Hittable(s) : \A n \in Hittable(s) : s.foes[m].hp <= s.foes[n].hp}
         IN  TargetIndex(s, Min(least))

Fallback(s) ==
    LET dearest == {i \in Playable(s) : \A j \in Playable(s) : s.hand[j].cost <= s.hand[i].cost}
    IN  PlayCard(Min(dearest), LeastHealth(s))
=============================================================================
