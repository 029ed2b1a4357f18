--------------------------- MODULE DeckEvaluator ----------------------------
(* deck_evaluator.py: what a card is worth to a deck.                      *)
(*                                                                         *)
(* A card is [name, type, damage, block, hints, rarity]; hints are the     *)
(* roles that its text names.  A deck is a sequence of cards.  Values      *)
(* count hundredths.                                                       *)
EXTENDS Integers, Sequences, FiniteSets, FiniteSetsExt

CardTypes == {"ATTACK", "SKILL", "POWER", "STATUS", "CURSE"}
Hints     == {"scaling", "draw", "energy", "aoe", "debuff"}

Roles(card) ==
    card.hints
    \union (IF card.type = "ATTACK" \/ card.damage > 0 THEN {"damage"} ELSE {})
    \union (IF card.block > 0 THEN {"block"} ELSE {})
    \union (IF card.type = "POWER" THEN {"scaling"} ELSE {})
    \union (IF card.type \in {"STATUS", "CURSE"} THEN {"burden"} ELSE {})

(* The share of a deck, in percent, that each of the roles should have. *)
Minimum == [damage |-> 30, block |-> 25, draw |-> 8, scaling |-> 5]

Needs(deck) ==
    {role \in DOMAIN Minimum :
        100 * Cardinality({i \in DOMAIN deck : role \in Roles(deck[i])}) < Minimum[role] * Len(deck)}

Copies(card, deck) == Cardinality({i \in DOMAIN deck : deck[i].name = card.name})

LargeDeck == 30

(* Mutant of CardValue: a status or a curse is a card like any other. *)
CardValueOfAny(card, deck) ==
    200 * Cardinality(Roles(card) \cap Needs(deck))
    + (CASE card.rarity = "RARE" -> 120 [] card.rarity = "UNCOMMON" -> 50 [] OTHER -> 0)

CardValue(card, deck) ==
    200 * Cardinality(Roles(card) \cap Needs(deck))
    + (CASE card.rarity = "RARE" -> 120 [] card.rarity = "UNCOMMON" -> 50 [] OTHER -> 0)
    - (IF Copies(card, deck) >= 2 THEN Min({150, 35 * Copies(card, deck)}) ELSE 0)
    - (IF "burden" \in Roles(card) THEN 500 ELSE 0)
    - (IF Len(deck) >= LargeDeck /\ Roles(card) \cap {"draw", "scaling", "energy"} = {}
       THEN 80 ELSE 0)
=============================================================================
