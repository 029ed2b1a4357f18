---------------------------- MODULE MCCombatTurn ----------------------------
(* Turns of a few cards against one or two foes. *)
EXTENDS CombatTurn, TLC

Strike == [cost |-> 1, damage |-> 6, block |-> 0, setup |-> 0, target |-> TRUE, usable |-> TRUE,
           draw |-> 0, exhaust |-> 0, alters |-> Unaltered]
Defend == [Strike EXCEPT !.damage = 0, !.block = 5, !.target = FALSE]
Wall   == [Defend EXCEPT !.cost = 2, !.block = 12]
Iron   == [Strike EXCEPT !.damage = 5, !.block = 5]
Bash   == [Strike EXCEPT !.cost = 2, !.damage = 8, !.setup = 1]
Cleave == [Strike EXCEPT !.damage = 8, !.target = FALSE]
Heavy  == [Strike EXCEPT !.damage = 14]
Rage   == [Defend EXCEPT !.cost = 0, !.block = 0, !.setup = 1]
Curse  == [Rage EXCEPT !.setup = 0, !.usable = FALSE]

(* Pommel Strike and Shrug It Off draw, True Grit exhausts one card and    *)
(* Fiend Fire the hand, Corruption makes cards cheaper and Uppercut the    *)
(* foes weaker.                                                            *)
Pommel     == [Strike EXCEPT !.damage = 9, !.draw = 1]
Shrug      == [Defend EXCEPT !.block = 8, !.draw = 1]
TrueGrit   == [Defend EXCEPT !.block = 7, !.exhaust = 1]
FiendFire  == [Strike EXCEPT !.cost = 2, !.damage = 14, !.exhaust = 10]
Corruption == [Rage EXCEPT !.alters.cost = -3]
Uppercut   == [Strike EXCEPT !.cost = 2, !.damage = 13, !.alters.threat = -3, !.alters.energy = 1]

Hands == {<<Strike, Defend, Bash>>, <<Curse, Wall, Strike>>, <<Rage, Iron, Strike>>,
          <<Cleave, Defend, Curse>>, <<Heavy, Defend, Heavy>>}
BigHand == <<Heavy, Heavy, Wall, Heavy, Heavy, Heavy>>
Effects == {<<Pommel, Defend>>, <<Shrug, Curse>>, <<TrueGrit, Strike, Pommel>>,
            <<FiendFire, Heavy, Defend>>, <<Corruption, Wall>>, <<Uppercut, Defend>>}

(* Against these, minimum_defense calls for a block, and after the sweep   *)
(* lets the lunge pass, which hits another foe than the one it would kill. *)
Feints == <<[Cleave EXCEPT !.damage = 1], [Strike EXCEPT !.cost = 2, !.damage = 3],
            [Wall EXCEPT !.block = 1], [Bash EXCEPT !.cost = 3, !.damage = 3]>>

Biter  == [hp |-> 10, block |-> 0, damage |-> 12, attacking |-> TRUE, hittable |-> TRUE]
Shell  == [Biter EXCEPT !.hp = 5, !.block = 8, !.damage = 6]
Giant  == [Biter EXCEPT !.hp = 50]
Caster == [Biter EXCEPT !.hp = 8, !.damage = 0, !.attacking = FALSE]
Ghost  == [Biter EXCEPT !.hp = 3, !.hittable = FALSE]

Groups == {<<Biter>>, <<Shell, Biter>>, <<Caster, Biter>>, <<Caster, Caster>>,
           <<Ghost, Biter>>, <<Ghost>>, <<Giant>>}

Turn(h, cards, foes, p) == [hp |-> h[1], maxHp |-> 40, block |-> 0, energy |-> h[2],
                            hand |-> cards, foes |-> foes, potions |-> p,
                            pile |-> <<Strike, Pommel>>, leads |-> TRUE]

(* The same turn of a player who is not the first of the combat's. *)
Follower(t) == [t EXCEPT !.leads = FALSE]

MCStarts == {Turn(h, cards, foes, p) :
                h \in {<<12, 3>>, <<20, 2>>}, cards \in Hands, foes \in Groups,
                p \in {<<"other", "fire">>}}
            \union {Turn(<<40, 3>>, BigHand, foes, <<"none", "none">>) :
                       foes \in {<<Giant>>, <<Caster, Biter>>}}
            \union {Turn(<<20, 3>>, Feints,
                         <<[Biter EXCEPT !.hp = 4, !.damage = 0], [Caster EXCEPT !.hp = 3], Giant>>,
                         <<"none", "none">>)}
            \union {Turn(<<20, 3>>, cards, foes, <<"block", "none">>) :
                       cards \in Effects, foes \in {<<Giant>>, <<Shell, Biter>>}}
            \union {Follower(Turn(<<20, 2>>, <<Strike, Defend, Bash>>, foes, <<"block", "fire">>)) :
                       foes \in {<<Giant>>, <<Shell, Biter>>}}
=============================================================================
