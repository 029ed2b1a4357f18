---------------------------- MODULE RoutePlanner ----------------------------
(* route_planner.py: what a way through the act's map is worth, and so the *)
(* map points the agent may travel to.                                     *)
(*                                                                         *)
(* A map gives each node its room and its children, in the mod's order.    *)
(* The traveller is [hp, maxHp, gold].  Scores count hundredths.           *)
EXTENDS Selection, FiniteSetsExt, SequencesExt

Rooms == {"monster", "elite", "event", "rest", "shop", "treasure", "ancient", "boss"}

(* A map and who travels there. *)
IsRoute(t) ==
    /\ IsFiniteSet(DOMAIN t.map)
    /\ \A n \in DOMAIN t.map : t.map[n].room \in Rooms /\ t.map[n].children \in Seq(STRING)
    /\ t.hp \in Nat /\ t.maxHp \in Nat /\ t.gold \in Nat

Weight == [monster |-> 160, elite |-> 280, event |-> 100, rest |-> 40,
           shop |-> 20, treasure |-> 200, ancient |-> 150, boss |-> 0]

(* hp / max_hp in percent is below p. *)
Below(t, p) == 100 * t.hp < p * Max({1, t.maxHp})

NodeScore(room, t) ==
    Weight[room] +
    CASE room = "elite"   -> IF Below(t, 70) THEN -350 ELSE 150
      [] room = "monster" -> IF Below(t, 40) THEN -220 ELSE 0
      [] room \in {"event", "rest"} -> IF Below(t, 50) THEN 180 ELSE 0
      [] room = "shop"    -> IF t.gold >= 180 THEN 300 ELSE IF t.gold >= 100 THEN 120 ELSE -100
      [] OTHER            -> 0

PathLimit == 256  \* result[:256]

Children(map, n) == Such(map[n].children, LAMBDA c : c \in DOMAIN map)

(* Mutant of Kept: only the first way on is looked at. *)
KeptFirst(paths) == SubSeq(paths, 1, Min({1, Len(paths)}))

Kept(paths) == SubSeq(paths, 1, Min({PathLimit, Len(paths)}))

(* The paths from a node to an end of the map, none through a node that   *)
(* was met before, and no more than PathLimit from any node on.            *)
Paths(map, start) ==
    LET from[x \in (DOMAIN map) \X SUBSET (DOMAIN map)] ==
            LET n == x[1]
                tails == FlattenSeq([k \in DOMAIN Children(map, n) |->
                                        from[<<Children(map, n)[k], x[2] \union {n}>>]])
            IN  IF n \in x[2] THEN << >>
                ELSE IF Children(map, n) = << >> THEN << <<n>> >>
                ELSE Kept([k \in DOMAIN tails |-> <<n>> \o tails[k]])
    IN  IF from[<<start, {}>>] = << >> THEN << <<start>> >> ELSE from[<<start, {}>>]

PathScore(map, t, path) ==
    SumFunction([k \in DOMAIN path |-> NodeScore(map[path[k]].room, t)])

RouteScore(map, t, start) == Max({PathScore(map, t, p) : p \in Range(Paths(map, start))})

(***************************************************************************)
(* What the score is to be, without paths: a node and the best way on.     *)
(***************************************************************************)
BestFrom(map, t, start) ==
    LET best[n \in DOMAIN map] ==
            NodeScore(map[n].room, t) +
            IF Children(map, n) = << >> THEN 0 ELSE Max({best[c] : c \in Range(Children(map, n))})
    IN  best[start]

(* There is such a best way where no way leads back (the act's maps lead   *)
(* from row to row): some node of any set of nodes leads out of it.        *)
HasNoCycle(map) ==
    \A S \in SUBSET DOMAIN map :
        S # {} => \E n \in S : Range(Children(map, n)) \cap S = {}
=============================================================================
