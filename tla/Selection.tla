------------------------------ MODULE Selection ------------------------------
(* Some of the elements of a sequence, in their order.  (This is SelectSeq,*)
(* said in a way that can be reasoned about.)                              *)
EXTENDS Integers, Sequences, FiniteSets

(* Those at the places I, and those with a property. *)
At(cs, I) ==
    [k \in 1..Cardinality(I) |-> cs[CHOOSE i \in I : Cardinality({j \in I : j <= i}) = k]]

Such(cs, P(_)) == At(cs, {i \in DOMAIN cs : P(cs[i])})
==============================================================================
