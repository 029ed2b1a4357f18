-------------------------- MODULE CombatTurn_proofs --------------------------
(* That a turn's decisions are sound, for every hand, foes and potions: a  *)
(* decision is about what its reading holds, and the mod accepts it as     *)
(* long as the game is still what was read.                                *)
EXTENDS CombatTurn, FiniteChoice_proofs, SequenceTheorems

(***************************************************************************)
(* The parts of a state.                                                   *)
(***************************************************************************)
(* The hand and the foes of a state are finite sequences of their kinds.   *)
LEMMA StateParts ==
  ASSUME NEW s \in States
  PROVE  /\ s.hp \in Nat /\ s.maxHp \in Nat /\ s.block \in Nat /\ s.energy \in Nat
         /\ Len(s.hand) \in Nat /\ DOMAIN s.hand = 1..Len(s.hand)
         /\ Len(s.foes) \in Nat /\ DOMAIN s.foes = 1..Len(s.foes)
         /\ Len(s.potions) \in Nat /\ DOMAIN s.potions = 1..Len(s.potions)
         /\ s.pile \in Seq(Cards) /\ Len(s.pile) \in Nat /\ s.leads \in BOOLEAN
         /\ \A i \in DOMAIN s.hand : s.hand[i] \in Cards
         /\ \A m \in DOMAIN s.foes : s.foes[m] \in Foes
         /\ \A p \in DOMAIN s.potions : s.potions[p] \in Potions
<1>1. /\ s.hand \in Seq(Cards) /\ s.foes \in Seq(Foes) /\ s.potions \in Seq(Potions)
      /\ s.pile \in Seq(Cards) /\ s.leads \in BOOLEAN
  BY DEF States
<1>2. s.hp \in Nat /\ s.maxHp \in Nat /\ s.block \in Nat /\ s.energy \in Nat
  BY DEF States
<1>. QED  BY <1>1, <1>2

LEMMA CardParts ==
  ASSUME NEW c \in Cards
  PROVE  /\ c.cost \in Nat /\ c.damage \in Nat /\ c.block \in Nat /\ c.setup \in 0..1
         /\ c.target \in BOOLEAN /\ c.usable \in BOOLEAN
         /\ c.draw \in Nat /\ c.exhaust \in Nat /\ c.alters \in Alterations
BY DEF Cards

LEMMA FoeParts ==
  ASSUME NEW f \in Foes
  PROVE  f.hp \in Nat /\ f.block \in Nat /\ f.damage \in Nat
BY DEF Foes

LEMMA FoeSets ==
  ASSUME NEW s \in States
  PROVE  /\ Alive(s) \in SUBSET Nat /\ IsFiniteSet(Alive(s))
         /\ Hittable(s) \in SUBSET Nat /\ IsFiniteSet(Hittable(s))
         /\ Attackers(s) \in SUBSET Nat /\ IsFiniteSet(Attackers(s))
         /\ Hittable(s) \subseteq Alive(s) /\ Attackers(s) \subseteq Alive(s)
         /\ Alive(s) \subseteq DOMAIN s.foes
         /\ Cardinality(Hittable(s)) \in Nat
<1>1. IsFiniteSet(DOMAIN s.foes) /\ DOMAIN s.foes \in SUBSET Nat
  BY StateParts, IndicesAreFinite
<1>2. /\ Alive(s) \subseteq DOMAIN s.foes
      /\ Hittable(s) \subseteq Alive(s) /\ Attackers(s) \subseteq Alive(s)
  BY DEF Alive, Hittable, Attackers
<1>3. IsFiniteSet(Alive(s))  BY <1>1, <1>2, FS_Subset
<1>4. IsFiniteSet(Hittable(s)) /\ IsFiniteSet(Attackers(s))
  BY <1>2, <1>3, FS_Subset
<1>. QED  BY <1>1, <1>2, <1>3, <1>4, FS_CardinalityType

LEMMA PlayableSet ==
  ASSUME NEW s \in States
  PROVE  /\ Playable(s) \subseteq DOMAIN s.hand
         /\ Playable(s) \in SUBSET Nat
         /\ IsFiniteSet(Playable(s))
         /\ Cardinality(Playable(s)) \in Nat
<1>1. IsFiniteSet(DOMAIN s.hand) /\ DOMAIN s.hand \in SUBSET Nat
  BY StateParts, IndicesAreFinite
<1>2. Playable(s) \subseteq DOMAIN s.hand  BY DEF Playable
<1>. QED  BY <1>1, <1>2, FS_Subset, FS_CardinalityType

(***************************************************************************)
(* The candidate sequences.                                                *)
(***************************************************************************)
(* A sequence of cards to play, some card first. *)
Lines(s) == UNION {[1..k -> Playable(s)] : k \in Nat \ {0}}

LEMMA LineParts ==
  ASSUME NEW s \in States, NEW q \in Lines(s)
  PROVE  /\ q \in Seq(Nat)
         /\ Len(q) \in Nat \ {0} /\ DOMAIN q = 1..Len(q)
         /\ q[1] \in Playable(s)
         /\ Range(q) \subseteq DOMAIN s.hand
         /\ IsFiniteSet(Range(q))
<1>1. PICK k \in Nat \ {0} : q \in [1..k -> Playable(s)]  BY DEF Lines
<1>2. Playable(s) \subseteq DOMAIN s.hand /\ Playable(s) \in SUBSET Nat
  BY PlayableSet
<1>3. q \in Seq(Nat) /\ Len(q) = k
  <2>1. q \in [1..k -> Nat]  BY <1>1, <1>2
  <2>. QED  BY <2>1
<1>4. Range(q) \subseteq Playable(s)  BY <1>1 DEF Range
<1>5. IsFiniteSet(Range(q))
  BY <1>1, IndicesAreFinite, ImageIsFinite DEF Range
<1>. QED  BY <1>1, <1>2, <1>3, <1>4, <1>5

LEMMA Sums ==
  ASSUME NEW s \in States, NEW q \in Lines(s)
  PROVE  /\ Total(s, q, LAMBDA c : c.cost) \in Int
         /\ Total(s, q, LAMBDA c : c.damage) \in Int
         /\ Total(s, q, LAMBDA c : c.block) \in Int
         /\ Total(s, q, LAMBDA c : c.setup) \in Int
<1>. DEFINE D == Range(q)
<1>1. IsFiniteSet(D) /\ \A i \in D : s.hand[i] \in Cards
  BY LineParts, StateParts
<1>2. \A i \in D : /\ s.hand[i].cost \in Int /\ s.hand[i].damage \in Int
                   /\ s.hand[i].block \in Int /\ s.hand[i].setup \in Int
  BY <1>1, CardParts
<1>. HIDE DEF D
<1>3. SumFunction([i \in D |-> s.hand[i].cost]) \in Int
  BY <1>1, <1>2, SumType
<1>4. SumFunction([i \in D |-> s.hand[i].damage]) \in Int
  BY <1>1, <1>2, SumType
<1>5. SumFunction([i \in D |-> s.hand[i].block]) \in Int
  BY <1>1, <1>2, SumType
<1>6. SumFunction([i \in D |-> s.hand[i].setup]) \in Int
  BY <1>1, <1>2, SumType
<1>. QED  BY <1>3, <1>4, <1>5, <1>6 DEF Total, D

LEMMA DamageOf ==
  ASSUME NEW s \in States, NEW M \in SUBSET Attackers(s)
  PROVE  SumFunction([m \in M |-> s.foes[m].damage]) \in Int
<1>1. IsFiniteSet(M) /\ M \subseteq DOMAIN s.foes  BY FoeSets, FS_Subset
<1>2. \A m \in M : s.foes[m].damage \in Int  BY <1>1, StateParts, FoeParts
<1>. QED  BY <1>1, <1>2, SumType

LEMMA SequenceType ==
  ASSUME NEW s \in States, NEW q \in Lines(s)
  PROVE  /\ Sequence(s, q).cards = q
         /\ Sequence(s, q).block \in Int
         /\ Sequence(s, q).score \in Int
<1>. DEFINE damage    == Total(s, q, LAMBDA c : c.damage)
            block     == Total(s, q, LAMBDA c : c.block)
            setup     == Total(s, q, LAMBDA c : c.setup)
            avoided   == SumFunction([m \in Killed(s, damage) |-> s.foes[m].damage])
            open      == Max({0, Incoming(s) - avoided - s.block})
            prevented == Min({open, block})
            loss      == Max({0, open - block})
<1>1. damage \in Int /\ block \in Int /\ setup \in Int  BY Sums
<1>2. avoided \in Int
  <2>1. Killed(s, damage) \subseteq Attackers(s)  BY DEF Killed
  <2>. HIDE DEF damage
  <2>. QED  BY <2>1, DamageOf
<1>3. Incoming(s) \in Int  BY DamageOf DEF Incoming
<1>4. s.block \in Int /\ s.hp \in Int  BY StateParts
<1>5. Sequence(s, q) =
        [cards |-> q, damage |-> damage, block |-> block, avoided |-> avoided, loss |-> loss,
         score |-> 10 * damage + 20 * setup
                   + avoided * (IF HighRisk(s) THEN 22 ELSE 15)
                   + prevented * (IF HighRisk(s) THEN 20 ELSE 12)
                   - (IF loss >= s.hp THEN 10000 ELSE 0)]
  BY DEF Sequence
<1>. HIDE DEF damage, block, setup, avoided
<1>6. open \in Int
  <2>1. 0 \in Int /\ Incoming(s) - avoided - s.block \in Int  BY <1>2, <1>3, <1>4
  <2>. QED  BY <2>1, MaxOfTwo
<1>. HIDE DEF open
<1>7. prevented \in Int  BY <1>1, <1>6, MinOfTwo
<1>. HIDE DEF prevented, loss
<1>8. 10 * damage + 20 * setup
        + avoided * (IF HighRisk(s) THEN 22 ELSE 15)
        + prevented * (IF HighRisk(s) THEN 20 ELSE 12)
        - (IF loss >= s.hp THEN 10000 ELSE 0) \in Int
  BY <1>1, <1>2, <1>7
<1>. QED  BY <1>1, <1>5, <1>8

LEMMA UnblockedType ==
  ASSUME NEW s \in States
  PROVE  Unblocked(s) \in Int
<1>1. Incoming(s) \in Int  BY DamageOf DEF Incoming
<1>2. 0 \in Int /\ Incoming(s) - s.block \in Int  BY <1>1, StateParts
<1>3. Max({0, Incoming(s) - s.block}) \in {0, Incoming(s) - s.block}  BY <1>2, MaxOfTwo
<1>. QED  BY <1>2, <1>3 DEF Unblocked

(* The sequences that are looked at are lines that the energy pays for,    *)
(* and there are finitely many.                                            *)
LEMMA AffordableAreLines ==
  ASSUME NEW s \in States, NEW q \in Affordable(s)
  PROVE  q \in Lines(s) /\ Total(s, q, LAMBDA x : x.cost) <= s.energy
<1>. DEFINE K == 1..Min({5, Cardinality(Playable(s))})
<1>1. K \subseteq Nat \ {0}
  <2>1. 5 \in Int /\ Cardinality(Playable(s)) \in Int  BY PlayableSet
  <2>2. Min({5, Cardinality(Playable(s))}) \in Int  BY <2>1, MinOfTwo
  <2>. QED  BY <2>2
<1>. HIDE DEF K
<1>2. /\ q \in UNION {Injection(1..k, Playable(s)) : k \in K}
      /\ Total(s, q, LAMBDA x : x.cost) <= s.energy
  BY DEF Affordable, K
<1>3. PICK k \in K : q \in [1..k -> Playable(s)]
  BY <1>2 DEF Injection
<1>4. q \in Lines(s)  BY <1>1, <1>3 DEF Lines
<1>. QED  BY <1>2, <1>4

LEMMA AffordableIsFinite ==
  ASSUME NEW s \in States
  PROVE  IsFiniteSet(Affordable(s))
<1>. DEFINE top == Min({5, Cardinality(Playable(s))})
            Q(k) == Injection(1..k, Playable(s))
            family == [k \in 1..top |-> Q(k)]
            L == UNION {family[k] : k \in 1..top}
<1>1. top \in Nat
  <2>1. 5 \in Int /\ Cardinality(Playable(s)) \in Int  BY PlayableSet
  <2>2. top \in {5, Cardinality(Playable(s))}  BY <2>1, MinOfTwo
  <2>. QED  BY <2>2, PlayableSet
<1>2. ASSUME NEW k \in 1..top PROVE IsFiniteSet(Q(k))
  <2>1. k \in Nat  BY <1>1
  <2>2. IsFiniteSet([1..k -> Playable(s)])
    BY <2>1, IndicesAreFinite, PlayableSet, FunctionsAreFinite
  <2>3. Q(k) \subseteq [1..k -> Playable(s)]  BY DEF Injection
  <2>. QED  BY <2>2, <2>3, FS_Subset
<1>3. L = UNION {Injection(1..k, Playable(s)) : k \in 1..top}  OBVIOUS
<1>. HIDE DEF top
<1>4. IsFiniteSet(L)
  <2>1. IsFiniteSet({family[k] : k \in 1..top})
    <3>1. IsFiniteSet(1..top) /\ DOMAIN family = 1..top  BY <1>1, IndicesAreFinite
    <3>. HIDE DEF family
    <3>. QED  BY <3>1, ImageIsFinite
  <2>2. \A T \in {family[k] : k \in 1..top} : IsFiniteSet(T)  BY <1>2
  <2>. HIDE DEF family
  <2>. QED  BY <2>1, <2>2, FS_UNION
<1>. HIDE DEF L
<1>5. Affordable(s) \subseteq L
  BY <1>3 DEF Affordable, top
<1>. QED  BY <1>4, <1>5, FS_Subset

LEMMA LookedAtAreAffordable ==
  ASSUME NEW s \in States
  PROVE  LookedAt(s) \subseteq Affordable(s)
BY DEF LookedAt

LEMMA SequencesAreLines ==
  ASSUME NEW s \in States, NEW c \in Sequences(s)
  PROVE  \E q \in Lines(s) :
            c = Sequence(s, q) /\ Total(s, q, LAMBDA x : x.cost) <= s.energy
<1>1. PICK q \in LookedAt(s) : c = Sequence(s, q)  BY DEF Sequences
<1>2. q \in Affordable(s)  BY LookedAtAreAffordable
<1>. QED  BY <1>1, <1>2, AffordableAreLines

LEMMA SequencesAreFinite ==
  ASSUME NEW s \in States
  PROVE  IsFiniteSet(Sequences(s))
<1>. DEFINE scored == [q \in LookedAt(s) |-> Sequence(s, q)]
<1>1. IsFiniteSet(LookedAt(s))  BY AffordableIsFinite, LookedAtAreAffordable, FS_Subset
<1>2. Sequences(s) = {scored[q] : q \in LookedAt(s)} /\ DOMAIN scored = LookedAt(s)
  BY DEF Sequences
<1>. HIDE DEF scored
<1>. QED  BY <1>1, <1>2, ImageIsFinite

(* The order in which the sequences are generated. *)
Generation(S) == {p \in S \X S : Earlier(p[1], p[2])}

(* The order in which two sequences of one length differ. *)
EarlierCards(a, b) ==
    \E k \in DOMAIN a : a[k] < b[k] /\ \A j \in 1..(k - 1) : a[j] = b[j]

LEMMA EarlierCardsIsTransitive ==
  ASSUME NEW n \in Nat, NEW a \in [1..n -> Nat], NEW b \in [1..n -> Nat],
         NEW c \in [1..n -> Nat], EarlierCards(a, b), EarlierCards(b, c)
  PROVE  EarlierCards(a, c)
<1>1. PICK k \in 1..n : a[k] < b[k] /\ \A j \in 1..(k - 1) : a[j] = b[j]
  BY DEF EarlierCards
<1>2. PICK l \in 1..n : b[l] < c[l] /\ \A j \in 1..(l - 1) : b[j] = c[j]
  BY DEF EarlierCards
<1>3. /\ a[k] \in Nat /\ b[k] \in Nat /\ c[k] \in Nat
      /\ a[l] \in Nat /\ b[l] \in Nat /\ c[l] \in Nat
  OBVIOUS
<1>4. CASE k < l
  <2>1. b[k] = c[k] /\ \A j \in 1..(k - 1) : b[j] = c[j]  BY <1>2, <1>4
  <2>2. a[k] < c[k] /\ \A j \in 1..(k - 1) : a[j] = c[j]  BY <1>1, <2>1
  <2>. QED  BY <2>2 DEF EarlierCards
<1>5. CASE l < k
  <2>1. a[l] = b[l] /\ \A j \in 1..(l - 1) : a[j] = b[j]  BY <1>1, <1>5
  <2>2. a[l] < c[l] /\ \A j \in 1..(l - 1) : a[j] = c[j]  BY <1>2, <2>1
  <2>. QED  BY <2>2 DEF EarlierCards
<1>6. CASE k = l
  <2>1. a[k] < c[k] /\ \A j \in 1..(k - 1) : a[j] = c[j]  BY <1>1, <1>2, <1>3, <1>6
  <2>. QED  BY <2>1 DEF EarlierCards
<1>. QED  BY <1>4, <1>5, <1>6

LEMMA EarlierIsStrict ==
  ASSUME NEW a \in Seq(Nat), NEW b \in Seq(Nat), NEW c \in Seq(Nat)
  PROVE  /\ ~Earlier(a, a)
         /\ Earlier(a, b) /\ Earlier(b, c) => Earlier(a, c)
<1>1. /\ Len(a) \in Nat /\ Len(b) \in Nat /\ Len(c) \in Nat
      /\ a \in [1..Len(a) -> Nat] /\ b \in [1..Len(b) -> Nat] /\ c \in [1..Len(c) -> Nat]
  OBVIOUS
<1>2. ~Earlier(a, a)
  <2>1. \A k \in DOMAIN a : a[k] \in Nat  OBVIOUS
  <2>2. \A k \in DOMAIN a : ~(a[k] < a[k])  BY <2>1
  <2>. QED  BY <1>1, <2>2 DEF Earlier
<1>3. ASSUME Earlier(a, b), Earlier(b, c) PROVE Earlier(a, c)
  <2>1. \A x, y : Earlier(x, y) <=>
           \/ Len(x) < Len(y)
           \/ Len(x) = Len(y) /\ EarlierCards(x, y)
    BY DEF Earlier, EarlierCards
  <2>2. Len(a) = Len(b) /\ Len(b) = Len(c) /\ EarlierCards(a, b) /\ EarlierCards(b, c)
        => EarlierCards(a, c)
    BY <1>1, EarlierCardsIsTransitive
  <2>3. \/ Len(a) < Len(b)
        \/ Len(a) = Len(b) /\ EarlierCards(a, b)
    BY <1>3, <2>1
  <2>4. \/ Len(b) < Len(c)
        \/ Len(b) = Len(c) /\ EarlierCards(b, c)
    BY <1>3, <2>1
  <2>5. \/ Len(a) < Len(c)
        \/ Len(a) = Len(c) /\ EarlierCards(a, c)
    <3>. DEFINE k == Len(a)  l == Len(b)  m == Len(c)
                ab == EarlierCards(a, b)  bc == EarlierCards(b, c)  ac == EarlierCards(a, c)
    <3>1. /\ k \in Nat /\ l \in Nat /\ m \in Nat
          /\ k = l /\ l = m /\ ab /\ bc => ac
          /\ k < l \/ (k = l /\ ab)
          /\ l < m \/ (l = m /\ bc)
      BY <1>1, <2>2, <2>3, <2>4
    <3>. HIDE DEF k, l, m, ab, bc, ac
    <3>2. k < m \/ (k = m /\ ac)  BY <3>1
    <3>. QED  BY <3>2 DEF k, m, ac
  <2>. QED  BY <2>1, <2>5
<1>. QED  BY <1>2, <1>3

LEMMA GenerationIsStrict ==
  ASSUME NEW s \in States
  PROVE  StrictOrder(Generation(Affordable(s)), Affordable(s))
<1>1. \A q \in Affordable(s) : q \in Seq(Nat)  BY AffordableAreLines, LineParts
<1>2. \A q \in Affordable(s) : ~Earlier(q, q)  BY <1>1, EarlierIsStrict
<1>3. \A a, b, c \in Affordable(s) : Earlier(a, b) /\ Earlier(b, c) => Earlier(a, c)
  BY <1>1, EarlierIsStrict
<1>. QED  BY <1>2, <1>3 DEF StrictOrder, Generation

(* A hand with a card to play has a candidate. *)
LEMMA AffordableExist ==
  ASSUME NEW s \in States, Playable(s) # {}
  PROVE  Affordable(s) # {}
<1>1. PICK i \in Playable(s) : TRUE  OBVIOUS
<1>. DEFINE q == [j \in 1..1 |-> i]
            top == Min({5, Cardinality(Playable(s))})
<1>2. 1 \in 1..top
  <2>1. Cardinality(Playable(s)) \in Nat /\ Cardinality(Playable(s)) # 0
    BY PlayableSet, FS_EmptySet
  <2>2. top \in {5, Cardinality(Playable(s))}
    <3>1. 5 \in Int /\ Cardinality(Playable(s)) \in Int  BY <2>1
    <3>. QED  BY <3>1, MinOfTwo
  <2>. QED  BY <2>1, <2>2
<1>3. q \in Injection(1..1, Playable(s))
  <2>1. q \in [1..1 -> Playable(s)]  OBVIOUS
  <2>2. \A a, b \in 1..1 : a = b  OBVIOUS
  <2>. QED  BY <2>1, <2>2 DEF Injection, IsInjective
<1>4. Total(s, q, LAMBDA c : c.cost) <= s.energy
  <2>1. Range(q) = {i}  BY DEF Range
  <2>2. s.hand[i].cost \in Int /\ s.hand[i].cost <= s.energy
    BY PlayableSet, StateParts, CardParts DEF Playable
  <2>. DEFINE f == [j \in {i} |-> s.hand[j].cost]
  <2>3. f \in [{i} -> Int] /\ f[i] = s.hand[i].cost  BY <2>2
  <2>4. SumFunction(f) = s.hand[i].cost
    <3>. HIDE DEF f
    <3>. QED  BY <2>3, SumOfOne
  <2>. QED  BY <2>1, <2>2, <2>4 DEF Total
<1>. HIDE DEF q
<1>. QED  BY <1>2, <1>3, <1>4 DEF Affordable

(* The first sequence of all is always looked at. *)
LEMMA SequencesExist ==
  ASSUME NEW s \in States, Playable(s) # {}
  PROVE  Sequences(s) # {}
<1>. DEFINE A == Affordable(s)
<1>1. PICK q \in A : \A p \in A : <<p, q>> \notin Generation(A)
  <2>1. IsFiniteSet(A) /\ A # {} /\ StrictOrder(Generation(A), A)
    BY AffordableIsFinite, AffordableExist, GenerationIsStrict
  <2>. HIDE DEF A
  <2>. QED  BY <2>1, MinimalExists
<1>2. {p \in A : Earlier(p, q)} = {}  BY <1>1 DEF Generation
<1>3. Cardinality({p \in A : Earlier(p, q)}) < SequenceLimit
  BY <1>2, FS_EmptySet, SequenceLimitAssumption
<1>4. q \in LookedAt(s)  BY <1>3 DEF LookedAt
<1>. QED  BY <1>4 DEF Sequences

(***************************************************************************)
(* The order of the candidates.                                            *)
(***************************************************************************)
LEMMA CandidateParts ==
  ASSUME NEW s \in States, NEW c \in Sequences(s)
  PROVE  /\ c.score \in Int /\ c.block \in Int
         /\ c.cards \in Seq(Nat) /\ Len(c.cards) \in Nat
         /\ DOMAIN c.cards = 1..Len(c.cards)
         /\ \A k \in DOMAIN c.cards : c.cards[k] \in Nat
         /\ c.cards[1] \in Playable(s)
<1>1. PICK q \in Lines(s) : c = Sequence(s, q)  BY SequencesAreLines
<1>2. c.cards = q /\ c.block \in Int /\ c.score \in Int  BY <1>1, SequenceType
<1>3. q \in Seq(Nat) /\ Len(q) \in Nat /\ DOMAIN q = 1..Len(q) /\ q[1] \in Playable(s)
  BY LineParts
<1>4. \A k \in DOMAIN q : q[k] \in Nat  BY <1>3
<1>. QED  BY <1>2, <1>3, <1>4

Precedes(S) == {p \in S \X S : Before(p[1], p[2])}

LEMMA BeforeIsStrict ==
  ASSUME NEW s \in States, NEW S \in SUBSET Sequences(s)
  PROVE  StrictOrder(Precedes(S), S)
<1>1. \A c \in S : c.score \in Int /\ c.cards \in Seq(Nat)  BY CandidateParts
<1>2. ASSUME NEW c \in S PROVE ~Before(c, c)
  <2>1. ~Earlier(c.cards, c.cards)  BY <1>1, EarlierIsStrict
  <2>2. ~(c.score > c.score)  BY <1>1
  <2>. QED  BY <2>1, <2>2 DEF Before
<1>3. ASSUME NEW c \in S, NEW d \in S, NEW e \in S, Before(c, d), Before(d, e)
      PROVE  Before(c, e)
  <2>1. c.score \in Int /\ d.score \in Int /\ e.score \in Int  BY <1>1
  <2>2. Earlier(c.cards, d.cards) /\ Earlier(d.cards, e.cards) => Earlier(c.cards, e.cards)
    BY <1>1, EarlierIsStrict
  <2>3. c.score > d.score \/ (c.score = d.score /\ Earlier(c.cards, d.cards))
    BY <1>3 DEF Before
  <2>4. d.score > e.score \/ (d.score = e.score /\ Earlier(d.cards, e.cards))
    BY <1>3 DEF Before
  <2>5. c.score > e.score \/ (c.score = e.score /\ Earlier(c.cards, e.cards))
    BY <2>1, <2>2, <2>3, <2>4
  <2>. QED  BY <2>5 DEF Before
<1>. QED  BY <1>2, <1>3 DEF StrictOrder, Precedes

(* Top is one of the sequences it chooses from. *)
LEMMA TopIsChosen ==
  ASSUME NEW s \in States, NEW S \in SUBSET Sequences(s), S # {}
  PROVE  Top(S) \in S /\ \A d \in S : ~Before(d, Top(S))
<1>1. IsFiniteSet(S)  BY SequencesAreFinite, FS_Subset
<1>2. PICK c \in S : \A d \in S : <<d, c>> \notin Precedes(S)
  <2>1. StrictOrder(Precedes(S), S)  BY BeforeIsStrict
  <2>. QED  BY <1>1, <2>1, MinimalExists
<1>3. \A d \in S : ~Before(d, c)  BY <1>2 DEF Precedes
<1>. QED  BY <1>3 DEF Top

LEMMA CandidatesExist ==
  ASSUME NEW s \in States, Playable(s) # {}
  PROVE  Candidates(s) \subseteq Sequences(s) /\ Candidates(s) # {}
<1>1. Sequences(s) \in SUBSET Sequences(s) /\ Sequences(s) # {}  BY SequencesExist
<1>2. Top(Sequences(s)) \in Sequences(s) /\ \A d \in Sequences(s) : ~Before(d, Top(Sequences(s)))
  BY <1>1, TopIsChosen
<1>3. {d \in Sequences(s) : Before(d, Top(Sequences(s)))} = {}  BY <1>2
<1>4. Cardinality({d \in Sequences(s) : Before(d, Top(Sequences(s)))}) < CandidatesKept
  BY <1>3, FS_EmptySet DEF CandidatesKept
<1>. QED  BY <1>2, <1>4 DEF Candidates

(* The sequence with most block among a policy's candidates. *)
LEMMA MostBlockIsChosen ==
  ASSUME NEW s \in States, NEW C \in SUBSET Sequences(s), C # {}
  PROVE  MostBlock(C) \in C
<1>. DEFINE R == {p \in C \X C : p[1].block > p[2].block}
            M == {c \in C : \A d \in C : d.block <= c.block}
<1>1. \A c \in C : c.block \in Int  BY CandidateParts
<1>2. StrictOrder(R, C)
  BY <1>1 DEF StrictOrder
<1>3. IsFiniteSet(C)  BY SequencesAreFinite, FS_Subset
<1>4. PICK c \in C : \A d \in C : <<d, c>> \notin R
  <2>. HIDE DEF R
  <2>. QED  BY <1>2, <1>3, MinimalExists
<1>5. c \in M
  <2>1. \A d \in C : ~(d.block > c.block)  BY <1>4
  <2>2. \A d \in C : d.block <= c.block  BY <1>1, <2>1
  <2>. QED  BY <2>2
<1>6. M \in SUBSET Sequences(s) /\ M # {} /\ M \subseteq C  BY <1>5
<1>7. Top(M) \in M
  <2>. HIDE DEF M
  <2>. QED  BY <1>6, TopIsChosen
<1>. QED  BY <1>7 DEF MostBlock

(***************************************************************************)
(* Targets.                                                                *)
(***************************************************************************)
(* What an index among the foes that can be hit may be. *)
Targets(s) == 0..Max({1, Cardinality(Hittable(s))})

LEMMA TargetsOf ==
  ASSUME NEW s \in States
  PROVE  /\ 0 \in Targets(s) /\ 1 \in Targets(s)
         /\ 1..Cardinality(Hittable(s)) \subseteq Targets(s)
         /\ Targets(s) \subseteq Nat
<1>1. Cardinality(Hittable(s)) \in Nat  BY FoeSets
<1>2. /\ Max({1, Cardinality(Hittable(s))}) \in {1, Cardinality(Hittable(s))}
      /\ Max({1, Cardinality(Hittable(s))}) >= 1
      /\ Max({1, Cardinality(Hittable(s))}) >= Cardinality(Hittable(s))
  <2>1. 1 \in Int /\ Cardinality(Hittable(s)) \in Int  BY <1>1
  <2>. QED  BY <2>1, MaxOfTwo
<1>. HIDE DEF Targets
<1>3. Max({1, Cardinality(Hittable(s))}) \in Nat  BY <1>1, <1>2
<1>. QED  BY <1>1, <1>2, <1>3 DEF Targets

(* The place of a foe that can be hit, which the two lists share. *)
LEMMA TargetIndexNames ==
  ASSUME NEW s \in States, NEW m \in Hittable(s)
  PROVE  TargetIndex(s, m) \in 1..Cardinality(Hittable(s))
<1>1. TargetIndex(s, m) = Place(Hittable(s), m)  BY DEF TargetIndex, Place
<1>. QED  BY <1>1, FoeSets, PlaceRange

(* Each place is a foe's: the mod finds one for it. *)
LEMMA PlacesAreHit ==
  ASSUME NEW s \in States, NEW t \in 1..Cardinality(Hittable(s))
  PROVE  EnemyByIndex(s, t) \cap Hittable(s) # {}
<1>1. PICK m \in Hittable(s) : Place(Hittable(s), m) = t  BY FoeSets, PlaceIsTaken
<1>2. Hittable(s) # {}  OBVIOUS
<1>3. Max({1, t}) = t
  <2>1. 1 \in Int /\ t \in Int /\ t >= 1  BY FoeSets
  <2>2. Max({1, t}) \in {1, t} /\ Max({1, t}) >= t  BY <2>1, MaxOfTwo
  <2>. QED  BY <2>1, <2>2
<1>4. m \in EnemyByIndex(s, t)
  BY <1>1, <1>2, <1>3 DEF EnemyByIndex, Place
<1>. QED  BY <1>4

LEMMA WeakestExists ==
  ASSUME NEW s \in States, Hittable(s) # {}
  PROVE  \E m \in Hittable(s) : \A n \in Hittable(s) : Weaker(s, m, n)
<1>. DEFINE H == Hittable(s)
            R == {p \in H \X H : ~Weaker(s, p[2], p[1])}
<1>1. \A m \in H : m \in Nat /\ Toughness(s, m) \in Nat
  BY FoeSets, StateParts, FoeParts DEF Toughness
<1>2. StrictOrder(R, H)
  <2>. HIDE DEF H
  <2>1. \A m \in H : Weaker(s, m, m)  BY <1>1 DEF Weaker
  <2>2. ASSUME NEW a \in H, NEW b \in H, NEW c \in H, ~Weaker(s, b, a), ~Weaker(s, c, b)
        PROVE  ~Weaker(s, c, a)
    BY <1>1, <2>2 DEF Weaker
  <2>. QED  BY <2>1, <2>2 DEF StrictOrder
<1>3. IsFiniteSet(H) /\ H # {}  BY FoeSets
<1>4. PICK m \in H : \A n \in H : <<n, m>> \notin R
  <2>. HIDE DEF R, H
  <2>. QED  BY <1>2, <1>3, MinimalExists
<1>. QED  BY <1>4

(* The policy's target and the fallback's are places, if there are any. *)
Aimed(s, t) ==
    /\ t \in Targets(s)
    /\ Hittable(s) # {} => t \in 1..Cardinality(Hittable(s))

LEMMA WeakestTargetIsAimed ==
  ASSUME NEW s \in States
  PROVE  Aimed(s, WeakestTarget(s))
<1>1. CASE Hittable(s) = {}  BY <1>1, TargetsOf DEF WeakestTarget, Aimed
<1>2. CASE Hittable(s) # {}
  <2>. DEFINE w == CHOOSE m \in Hittable(s) : \A n \in Hittable(s) : Weaker(s, m, n)
  <2>1. w \in Hittable(s)  BY <1>2, WeakestExists
  <2>2. WeakestTarget(s) = TargetIndex(s, w)  BY <1>2 DEF WeakestTarget
  <2>. HIDE DEF w
  <2>. QED  BY <2>1, <2>2, TargetIndexNames, TargetsOf DEF Aimed
<1>. QED  BY <1>1, <1>2

LEMMA LeastHealthIsAimed ==
  ASSUME NEW s \in States
  PROVE  Aimed(s, LeastHealth(s))
<1>1. CASE Hittable(s) = {}  BY <1>1, TargetsOf DEF LeastHealth, Aimed
<1>2. CASE Hittable(s) # {}
  <2>. DEFINE H == Hittable(s)
              R == {p \in H \X H : s.foes[p[1]].hp < s.foes[p[2]].hp}
              least == {m \in H : \A n \in H : s.foes[m].hp <= s.foes[n].hp}
  <2>1. \A m \in H : m \in Nat /\ s.foes[m].hp \in Nat
    BY FoeSets, StateParts, FoeParts
  <2>2. StrictOrder(R, H)
    <3>. HIDE DEF H
    <3>. QED  BY <2>1 DEF StrictOrder
  <2>3. IsFiniteSet(H) /\ H # {}  BY <1>2, FoeSets
  <2>4. PICK m \in H : \A n \in H : <<n, m>> \notin R
    <3>. HIDE DEF R, H
    <3>. QED  BY <2>2, <2>3, MinimalExists
  <2>5. m \in least
    <3>1. \A n \in H : ~(s.foes[n].hp < s.foes[m].hp)  BY <2>4
    <3>2. \A n \in H : s.foes[m].hp <= s.foes[n].hp  BY <2>1, <3>1
    <3>. QED  BY <3>2
  <2>6. least \in SUBSET Nat /\ least # {} /\ least \subseteq Hittable(s)  BY <2>1, <2>5
  <2>7. LeastHealth(s) = TargetIndex(s, Min(least))  BY <1>2 DEF LeastHealth
  <2>. HIDE DEF least
  <2>8. Min(least) \in Hittable(s)  BY <2>6, MinOfNaturals
  <2>. QED  BY <2>7, <2>8, TargetIndexNames, TargetsOf DEF Aimed
<1>. QED  BY <1>1, <1>2

(* An aimed target names a foe that the mod lets be hit. *)
LEMMA AimedIsHit ==
  ASSUME NEW s \in States, NEW t, Aimed(s, t), Hittable(s) # {}
  PROVE  EnemyByIndex(s, t) \cap Hittable(s) # {}
BY PlacesAreHit DEF Aimed

(***************************************************************************)
(* The decisions.                                                          *)
(***************************************************************************)
(* What the agent may send for a reading: what the mod accepts if it acts  *)
(* for the player that was read.                                           *)
Sound(s, d) == d \in Decisions(s) /\ (s.leads => Accepted(s, d))

LEMMA EndTurnIsSound ==
  ASSUME NEW s
  PROVE  Sound(s, EndTurn)
BY DEF Sound, Decisions, Accepted, EndTurn, GetPlayer

LEMMA PlayIsSound ==
  ASSUME NEW s \in States, NEW i \in Playable(s), NEW t \in Targets(s),
         s.hand[i].target => EnemyByIndex(s, t) \cap Hittable(s) # {}
  PROVE  Sound(s, PlayCard(i, t))
<1>1. i \in DOMAIN s.hand /\ CanPlay(s, i)  BY DEF Playable
<1>2. PlayCard(i, t) \in Decisions(s)  BY <1>1 DEF Decisions, Targets
<1>3. s.leads => Accepted(s, PlayCard(i, t))  BY <1>1 DEF Accepted, PlayCard, GetPlayer
<1>. QED  BY <1>2, <1>3 DEF Sound

LEMMA AimedPlayIsSound ==
  ASSUME NEW s \in States, NEW i \in Playable(s), NEW t, Aimed(s, t)
  PROVE  Sound(s, PlayCard(i, t))
<1>1. CanPlay(s, i) /\ i \in DOMAIN s.hand  BY DEF Playable
<1>2. t \in Targets(s)  BY DEF Aimed
<1>3. s.hand[i].target => Hittable(s) # {}  BY <1>1 DEF CanPlay
<1>4. s.hand[i].target => EnemyByIndex(s, t) \cap Hittable(s) # {}
  BY <1>3, AimedIsHit
<1>. QED  BY <1>2, <1>4, PlayIsSound

LEMMA PotionIsSound ==
  ASSUME NEW s \in States, NEW p \in DOMAIN s.potions, CanUse(s, p), NEW t \in Targets(s),
         s.potions[p] = "fire" => EnemyByIndex(s, t) \cap Hittable(s) # {}
  PROVE  Sound(s, UsePotion(p, t))
<1>2. UsePotion(p, t) \in Decisions(s)  BY DEF Decisions, Targets
<1>3. s.leads => Accepted(s, UsePotion(p, t))  BY DEF Accepted, UsePotion, GetPlayer
<1>. QED  BY <1>2, <1>3 DEF Sound

(* What planner, policy and guardrail make of a candidate. *)
LEMMA GuardedIsSound ==
  ASSUME NEW s \in States, NEW C \in SUBSET Sequences(s), NEW c \in C
  PROVE  Sound(s, Guarded(s, C, c))
<1>1. Aimed(s, WeakestTarget(s))  BY WeakestTargetIsAimed
<1>2. Sound(s, EndTurn)  BY EndTurnIsSound
<1>3. ASSUME UsefulPotions(s) # {}
      PROVE  Sound(s, UsePotion(Min(UsefulPotions(s)), WeakestTarget(s)))
  <2>. DEFINE p == Min(UsefulPotions(s))
  <2>1. UsefulPotions(s) \in SUBSET Nat
    <3>1. DOMAIN s.potions \subseteq Nat  BY StateParts
    <3>. QED  BY <3>1 DEF UsefulPotions
  <2>2. p \in UsefulPotions(s)  BY <1>3, <2>1, MinOfNaturals
  <2>. HIDE DEF p
  <2>3. p \in DOMAIN s.potions /\ CanUse(s, p)  BY <2>2 DEF UsefulPotions
  <2>4. s.potions[p] = "fire" => Hittable(s) # {}  BY <2>3 DEF CanUse
  <2>5. WeakestTarget(s) \in Targets(s)  BY <1>1 DEF Aimed
  <2>6. s.potions[p] = "fire" => EnemyByIndex(s, WeakestTarget(s)) \cap Hittable(s) # {}
    BY <1>1, <2>4, AimedIsHit
  <2>7. Sound(s, UsePotion(p, WeakestTarget(s)))  BY <2>3, <2>5, <2>6, PotionIsSound
  <2>. QED  BY <2>7 DEF p
<1>4. Sound(s, ForceBlock(s, C))
  <2>1. MostBlock(C) \in C  BY MostBlockIsChosen
  <2>2. MostBlock(C).cards[1] \in Playable(s)  BY <2>1, CandidateParts
  <2>. QED  BY <1>1, <2>2, AimedPlayIsSound DEF ForceBlock
<1>5. Sound(s, FromCandidate(s, c))
  <2>1. c.cards[1] \in Playable(s)  BY CandidateParts
  <2>2. CASE s.hand[c.cards[1]].target
    BY <1>1, <2>1, <2>2, AimedPlayIsSound DEF FromCandidate
  <2>3. CASE ~s.hand[c.cards[1]].target
    <3>1. 0 \in Targets(s)  BY TargetsOf
    <3>2. Sound(s, PlayCard(c.cards[1], 0))  BY <2>1, <2>3, <3>1, PlayIsSound
    <3>. QED  BY <2>3, <3>2 DEF FromCandidate
  <2>. QED  BY <2>2, <2>3
<1>. QED  BY <1>2, <1>3, <1>4, <1>5 DEF Guarded

(* What the handler lets pass of a language model's commands. *)
LEMMA ValidIsSound ==
  ASSUME NEW s \in States, NEW d \in Commands(s), Valid(s, d)
  PROVE  Sound(s, d)
<1>1. CASE d = EndTurn  BY <1>1, EndTurnIsSound
<1>2. ASSUME NEW i \in Int, NEW t \in Int, d = PlayCard(i, t) PROVE Sound(s, d)
  <2>1. /\ i \in Playable(s)
        /\ s.hand[i].target => t \in 1..Cardinality(Hittable(s))
        /\ ~s.hand[i].target => t = 1
    BY <1>2 DEF Valid, PlayCard
  <2>2. t \in Targets(s)  BY <2>1, TargetsOf
  <2>3. s.hand[i].target => EnemyByIndex(s, t) \cap Hittable(s) # {}
    BY <2>1, PlacesAreHit
  <2>. QED  BY <1>2, <2>1, <2>2, <2>3, PlayIsSound
<1>3. ASSUME NEW p \in Int, NEW t \in Int, d = UsePotion(p, t) PROVE Sound(s, d)
  <2>1. /\ p \in DOMAIN s.potions /\ CanUse(s, p)
        /\ s.potions[p] = "fire" => t \in 1..Cardinality(Hittable(s))
        /\ s.potions[p] # "fire" => t = 1
    BY <1>3 DEF Valid, UsePotion
  <2>2. t \in Targets(s)  BY <2>1, TargetsOf
  <2>3. s.potions[p] = "fire" => EnemyByIndex(s, t) \cap Hittable(s) # {}
    BY <2>1, PlacesAreHit
  <2>. QED  BY <1>3, <2>1, <2>2, <2>3, PotionIsSound
<1>4. \/ d = EndTurn
      \/ \E i, t \in Int : d = PlayCard(i, t)
      \/ \E p, t \in Int : d = UsePotion(p, t)
  BY FoeSets, StateParts DEF Commands
<1>. QED  BY <1>1, <1>2, <1>3, <1>4

LEMMA FallbackIsSound ==
  ASSUME NEW s \in States, Playable(s) # {}
  PROVE  Sound(s, Fallback(s))
<1>. DEFINE P == Playable(s)
            R == {p \in P \X P : s.hand[p[1]].cost > s.hand[p[2]].cost}
            dearest == {i \in P : \A j \in P : s.hand[j].cost <= s.hand[i].cost}
<1>1. P \in SUBSET Nat /\ IsFiniteSet(P) /\ \A i \in P : s.hand[i].cost \in Nat
  BY PlayableSet, StateParts, CardParts
<1>2. StrictOrder(R, P)
  <2>. HIDE DEF P
  <2>1. \A a \in P : ~(s.hand[a].cost > s.hand[a].cost)
    <3>1. \A x \in Nat : ~(x > x)  OBVIOUS
    <3>. QED  BY <1>1, <3>1
  <2>2. \A a, b, c \in P : s.hand[a].cost > s.hand[b].cost /\ s.hand[b].cost > s.hand[c].cost
                           => s.hand[a].cost > s.hand[c].cost
    BY <1>1
  <2>. QED  BY <2>1, <2>2 DEF StrictOrder
<1>3. PICK i \in P : \A j \in P : <<j, i>> \notin R
  <2>1. P # {}  OBVIOUS
  <2>. HIDE DEF R, P
  <2>. QED  BY <1>1, <1>2, <2>1, MinimalExists
<1>4. i \in dearest
  <2>1. \A j \in P : ~(s.hand[j].cost > s.hand[i].cost)  BY <1>3
  <2>2. \A j \in P : s.hand[j].cost <= s.hand[i].cost  BY <1>1, <2>1
  <2>. QED  BY <2>2
<1>5. dearest \in SUBSET Nat /\ dearest # {} /\ dearest \subseteq Playable(s)  BY <1>1, <1>4
<1>6. Fallback(s) = PlayCard(Min(dearest), LeastHealth(s))  BY DEF Fallback
<1>. HIDE DEF dearest
<1>7. Min(dearest) \in Playable(s)  BY <1>5, MinOfNaturals
<1>. QED  BY <1>6, <1>7, LeastHealthIsAimed, AimedPlayIsSound

(***************************************************************************)
(* What the game makes of a decision is a state again.                     *)
(***************************************************************************)
LEMMA HurtType ==
  ASSUME NEW f \in Foes, NEW d \in Nat
  PROVE  Hurt(f, d) \in Foes
<1>1. f.block \in Nat /\ f.hp \in Nat  BY FoeParts
<1>2. Max({0, f.block - d}) \in Nat
  <2>1. 0 \in Int /\ f.block - d \in Int  BY <1>1
  <2>2. Max({0, f.block - d}) \in {0, f.block - d} /\ Max({0, f.block - d}) >= 0
    BY <2>1, MaxOfTwo
  <2>. QED  BY <2>1, <2>2
<1>3. Max({0, d - f.block}) \in Int
  <2>1. 0 \in Int /\ d - f.block \in Int  BY <1>1
  <2>2. Max({0, d - f.block}) \in {0, d - f.block}  BY <2>1, MaxOfTwo
  <2>. QED  BY <2>1, <2>2
<1>4. Max({0, f.hp - Max({0, d - f.block})}) \in Nat
  <2>. DEFINE x == f.hp - Max({0, d - f.block})
  <2>1. 0 \in Int /\ x \in Int  BY <1>1, <1>3
  <2>. HIDE DEF x
  <2>2. Max({0, x}) \in {0, x} /\ Max({0, x}) >= 0  BY <2>1, MaxOfTwo
  <2>3. Max({0, x}) \in Nat  BY <2>1, <2>2
  <2>. QED  BY <2>3 DEF x
<1>. DEFINE b == Max({0, f.block - d})
            h == Max({0, f.hp - Max({0, d - f.block})})
<1>5. Hurt(f, d) = [f EXCEPT !.block = b, !.hp = h]  BY DEF Hurt
<1>6. b \in Nat /\ h \in Nat  BY <1>2, <1>4
<1>. HIDE DEF b, h
<1>. QED  BY <1>5, <1>6 DEF Foes

(* A hurt game has the same hand, potions and numbers. *)
LEMMA HurtAllType ==
  ASSUME NEW g \in States, NEW M, NEW d \in Nat
  PROVE  /\ HurtAll(g, M, d) \in States
         /\ HurtAll(g, M, d).hand = g.hand
         /\ HurtAll(g, M, d).potions = g.potions
         /\ HurtAll(g, M, d).energy = g.energy
         /\ HurtAll(g, M, d).block = g.block
         /\ HurtAll(g, M, d).pile = g.pile
         /\ HurtAll(g, M, d).hp = g.hp
<1>. DEFINE fs == [m \in DOMAIN g.foes |-> IF m \in M THEN Hurt(g.foes[m], d) ELSE g.foes[m]]
<1>1. \A m \in DOMAIN g.foes : (IF m \in M THEN Hurt(g.foes[m], d) ELSE g.foes[m]) \in Foes
  BY StateParts, HurtType
<1>2. DOMAIN g.foes = 1..Len(g.foes) /\ Len(g.foes) \in Nat  BY StateParts
<1>3. fs \in [1..Len(g.foes) -> Foes]  BY <1>1, <1>2
<1>. HIDE DEF fs
<1>4. fs \in Seq(Foes)  BY <1>2, <1>3
<1>5. HurtAll(g, M, d) = [g EXCEPT !.foes = fs]  BY DEF HurtAll, fs
<1>. QED  BY <1>4, <1>5 DEF States

LEMMA RemoveAtType ==
  ASSUME NEW S, NEW q \in Seq(S), NEW i \in DOMAIN q
  PROVE  RemoveAt(q, i) \in Seq(S)
<1>1. Len(q) \in Nat /\ i \in 1..Len(q)  OBVIOUS
<1>2. SubSeq(q, 1, i - 1) \in Seq(S)  BY <1>1
<1>3. SubSeq(q, i + 1, Len(q)) \in Seq(S)  BY <1>1
<1>. QED  BY <1>2, <1>3 DEF RemoveAt

LEMMA RemovedIsShorter ==
  ASSUME NEW S, NEW q \in Seq(S), NEW i \in DOMAIN q
  PROVE  Len(RemoveAt(q, i)) = Len(q) - 1
<1>1. Len(q) \in Nat /\ i \in 1..Len(q)  OBVIOUS
<1>2. SubSeq(q, 1, i - 1) \in Seq(S) /\ Len(SubSeq(q, 1, i - 1)) = i - 1  BY <1>1
<1>3. SubSeq(q, i + 1, Len(q)) \in Seq(S) /\ Len(SubSeq(q, i + 1, Len(q))) = Len(q) - i  BY <1>1
<1>. QED  BY <1>1, <1>2, <1>3 DEF RemoveAt

(* A card that was played has left the hand; nothing else was added.       *)
LEMMA UsedParts ==
  ASSUME NEW g \in States, NEW d, d.type = "play_card", Accepted(g, d)
  PROVE  LET u == Used(g, d)
             c == g.hand[d.at]
             h == HurtAll(g, CardTargets(g, c, d.target), c.damage)
         IN  /\ u \in States /\ h \in States
             /\ u.hand = RemoveAt(g.hand, d.at) /\ Len(u.hand) = Len(g.hand) - 1
             /\ u.pile = g.pile /\ u.potions = g.potions /\ u.foes = h.foes
             /\ u.energy = g.energy - c.cost /\ u.block = g.block + c.block /\ u.hp = g.hp
<1>. DEFINE c == g.hand[d.at]
            h == HurtAll(g, CardTargets(g, c, d.target), c.damage)
<1>u. PICK u : u = Used(g, d)  OBVIOUS
<1>1. d.at \in DOMAIN g.hand /\ CanPlay(g, d.at)  BY DEF Accepted
<1>2. c \in Cards /\ c.cost <= g.energy  BY <1>1, StateParts DEF CanPlay
<1>3. c.cost \in Nat /\ c.damage \in Nat /\ c.block \in Nat  BY <1>2, CardParts
<1>4. /\ h \in States /\ h.hand = g.hand /\ h.energy = g.energy /\ h.block = g.block
      /\ h.potions = g.potions /\ h.pile = g.pile /\ h.hp = g.hp
  BY <1>3, HurtAllType
<1>5. g.energy \in Nat /\ g.block \in Nat  BY StateParts
<1>6. u = [h EXCEPT !.energy = h.energy - c.cost, !.block = h.block + c.block,
                    !.hand = RemoveAt(h.hand, d.at)]
  BY <1>u DEF Used, c
<1>. HIDE DEF c
<1>7. h.energy - c.cost \in Nat /\ h.block + c.block \in Nat  BY <1>2, <1>3, <1>4, <1>5
<1>8. RemoveAt(g.hand, d.at) \in Seq(Cards) /\ Len(RemoveAt(g.hand, d.at)) = Len(g.hand) - 1
  <2>1. g.hand \in Seq(Cards)  BY DEF States
  <2>. QED  BY <1>1, <2>1, RemoveAtType, RemovedIsShorter
<1>. HIDE DEF h
<1>9. /\ u \in States /\ u.hand = RemoveAt(g.hand, d.at)
      /\ u.pile = g.pile /\ u.potions = g.potions /\ u.foes = h.foes
      /\ u.energy = g.energy - c.cost /\ u.block = g.block + c.block /\ u.hp = g.hp
  BY <1>4, <1>6, <1>7, <1>8 DEF States
<1>. QED  BY <1>4, <1>8, <1>9, <1>u DEF c, h

(***************************************************************************)
(* What the effects of a card leave.                                       *)
(***************************************************************************)
LEMMA GrownType ==
  ASSUME NEW n \in Nat, NEW by \in Int
  PROVE  Grown(n, by) \in Nat
<1>1. 0 \in Int /\ n + by \in Int  OBVIOUS
<1>2. Max({0, n + by}) \in {0, n + by} /\ Max({0, n + by}) >= 0  BY <1>1, MaxOfTwo
<1>. QED  BY <1>1, <1>2 DEF Grown

(* The cards that a turn may still play. *)
Held(g) == Len(g.hand) + Len(g.pile)

LEMMA HeldType ==
  ASSUME NEW g \in States
  PROVE  Held(g) \in Nat
<1>a. PICK a : a = Len(g.hand)  OBVIOUS
<1>b. PICK b : b = Len(g.pile)  OBVIOUS
<1>1. a \in Nat /\ b \in Nat  BY <1>a, <1>b, StateParts
<1>2. Held(g) = a + b  BY <1>a, <1>b DEF Held
<1>. QED  BY <1>1, <1>2

LEMMA HeldIs ==
  ASSUME NEW g, NEW a, NEW b, Len(g.hand) = a, Len(g.pile) = b
  PROVE  Held(g) = a + b
BY DEF Held

(* An effect brings cards only from the pile, no potion, and nobody to     *)
(* life.                                                                   *)
Leaves(g, h) ==
    /\ h \in States
    /\ Held(h) <= Held(g)
    /\ h.potions = g.potions /\ Alive(h) = Alive(g)

LEMMA ExhaustedLeaves ==
  ASSUME NEW g \in States, NEW n \in Nat, NEW h \in Exhausted(g, n)
  PROVE  Leaves(g, h)
<1>1. Len(g.hand) \in Nat /\ Len(g.pile) \in Nat /\ g.hand \in Seq(Cards)
  BY StateParts DEF States
<1>h. Held(g) \in Nat  BY HeldType
<1>2. CASE n = 0
  <2>1. h = g  BY <1>2 DEF Exhausted
  <2>. QED  BY <1>h, <2>1 DEF Leaves
<1>3. CASE n # 0
  <2>1. PICK I \in SUBSET DOMAIN g.hand :
          h = [g EXCEPT !.hand = At(g.hand, I)] /\ Cardinality(I) = Max({0, Len(g.hand) - n})
    BY <1>3 DEF Exhausted
  <2>2. At(g.hand, I) \in Seq(Cards) /\ Len(At(g.hand, I)) = Cardinality(I)
    BY <1>1, AtElements
  <2>3. Cardinality(I) <= Len(g.hand)
    <3>1. 0 \in Int /\ Len(g.hand) - n \in Int  BY <1>1
    <3>2. Max({0, Len(g.hand) - n}) \in {0, Len(g.hand) - n}  BY <3>1, MaxOfTwo
    <3>. QED  BY <1>1, <2>1, <3>2
  <2>4. /\ h \in States /\ h.hand = At(g.hand, I) /\ h.pile = g.pile /\ h.potions = g.potions
        /\ h.foes = g.foes
    BY <2>1, <2>2 DEF States
  <2>5. Alive(h) = Alive(g)  BY <2>4 DEF Alive
  <2>6. Cardinality(I) \in Nat  BY <1>1, AtElements
  <2>7. Held(h) <= Held(g)
    <3>a. PICK a : a = Len(g.hand)  OBVIOUS
    <3>b. PICK b : b = Len(g.pile)  OBVIOUS
    <3>c. PICK x : x = Cardinality(I)  OBVIOUS
    <3>1. Held(g) = a + b /\ Held(h) = x + b  BY <2>2, <2>4, <3>a, <3>b, <3>c, HeldIs
    <3>2. a \in Nat /\ b \in Nat /\ x \in Nat /\ x <= a  BY <1>1, <2>3, <2>6, <3>a, <3>b, <3>c
    <3>. QED  BY <3>1, <3>2
  <2>. QED  BY <2>4, <2>5, <2>7 DEF Leaves
<1>. QED  BY <1>2, <1>3

LEMMA DrawnParts ==
  ASSUME NEW g \in States, NEW n \in Nat, NEW h \in Drawn(g, n)
  PROVE  /\ h \in States
         /\ Held(h) = Held(g)
         /\ \A k \in DOMAIN g.hand : k \in DOMAIN h.hand /\ h.hand[k] = g.hand[k]
         /\ h.hp = g.hp /\ h.block = g.block /\ h.energy = g.energy
         /\ h.potions = g.potions /\ h.foes = g.foes
<1>1. /\ Len(g.hand) \in Nat /\ Len(g.pile) \in Nat
      /\ g.hand \in Seq(Cards) /\ g.pile \in Seq(Cards)
  BY StateParts DEF States
<1>2. PICK m \in 0..Min({n, Len(g.pile)}) :
        h = [g EXCEPT !.hand = g.hand \o SubSeq(g.pile, 1, m),
                      !.pile = SubSeq(g.pile, m + 1, Len(g.pile))]
  BY DEF Drawn
<1>3. m \in 0..Len(g.pile)
  <2>1. n \in Int /\ Len(g.pile) \in Int  BY <1>1
  <2>2. /\ Min({n, Len(g.pile)}) \in {n, Len(g.pile)}
        /\ Min({n, Len(g.pile)}) <= Len(g.pile)
    BY <2>1, MinOfTwo
  <2>. QED  BY <1>1, <2>2
<1>4. /\ SubSeq(g.pile, 1, m) \in Seq(Cards) /\ Len(SubSeq(g.pile, 1, m)) = m
      /\ SubSeq(g.pile, m + 1, Len(g.pile)) \in Seq(Cards)
      /\ Len(SubSeq(g.pile, m + 1, Len(g.pile))) = Len(g.pile) - m
  BY <1>1, <1>3
<1>p. PICK p : p = SubSeq(g.pile, 1, m)  OBVIOUS
<1>x. PICK x : x = g.hand \o p  OBVIOUS
<1>y. PICK y : y = SubSeq(g.pile, m + 1, Len(g.pile))  OBVIOUS
<1>5. /\ x \in Seq(Cards) /\ Len(x) = Len(g.hand) + m
      /\ \A k \in 1..(Len(g.hand) + m) :
            x[k] = IF k <= Len(g.hand) THEN g.hand[k] ELSE p[k - Len(g.hand)]
  <2>h. PICK q : q = g.hand  OBVIOUS
  <2>1. q \in Seq(Cards) /\ p \in Seq(Cards)  BY <1>1, <1>4, <1>p, <2>h
  <2>2. Len(p) = m  BY <1>4, <1>p
  <2>3. /\ q \o p \in Seq(Cards)
        /\ Len(q \o p) = Len(q) + Len(p)
        /\ \A k \in 1..(Len(q) + Len(p)) :
              (q \o p)[k] = IF k <= Len(q) THEN q[k] ELSE p[k - Len(q)]
    BY <2>1, ConcatProperties, Zenon
  <2>. QED  BY <1>x, <2>h, <2>2, <2>3, Zenon
<1>6. h = [g EXCEPT !.hand = x, !.pile = y]  BY <1>2, <1>p, <1>x, <1>y
<1>7. y \in Seq(Cards) /\ Len(y) = Len(g.pile) - m  BY <1>4, <1>y
<1>8. /\ h \in States /\ h.hand = x /\ h.pile = y
      /\ h.hp = g.hp /\ h.block = g.block /\ h.energy = g.energy
      /\ h.potions = g.potions /\ h.foes = g.foes
  BY <1>5, <1>6, <1>7 DEF States
<1>9. Held(h) = Held(g)
  <2>a. PICK a : a = Len(g.hand)  OBVIOUS
  <2>b. PICK b : b = Len(g.pile)  OBVIOUS
  <2>1. a \in Nat /\ b \in Nat /\ m \in Nat  BY <1>1, <1>3, <2>a, <2>b
  <2>2. Len(h.hand) = a + m /\ Len(h.pile) = b - m  BY <1>5, <1>7, <1>8, <2>a, <2>b
  <2>3. Held(h) = (a + m) + (b - m) /\ Held(g) = a + b  BY <2>a, <2>b, <2>2, HeldIs
  <2>. QED  BY <2>1, <2>3
<1>10. ASSUME NEW k \in DOMAIN g.hand PROVE k \in DOMAIN h.hand /\ h.hand[k] = g.hand[k]
  <2>1. /\ k \in 1..Len(g.hand) /\ m \in Nat /\ DOMAIN x = 1..(Len(g.hand) + m)
    BY <1>1, <1>3, <1>5
  <2>2. k \in 1..(Len(g.hand) + m) /\ k <= Len(g.hand)  BY <1>1, <2>1
  <2>. QED  BY <1>5, <1>8, <2>1, <2>2
<1>. QED  BY <1>8, <1>9, <1>10

LEMMA DrawnLeaves ==
  ASSUME NEW g \in States, NEW n \in Nat, NEW h \in Drawn(g, n)
  PROVE  Leaves(g, h)
<1>1. /\ h \in States /\ h.potions = g.potions /\ h.foes = g.foes
      /\ Held(h) = Held(g)
  BY DrawnParts
<1>2. Alive(h) = Alive(g)  BY <1>1 DEF Alive
<1>3. Held(g) \in Nat  BY HeldType
<1>. QED  BY <1>1, <1>2, <1>3 DEF Leaves

LEMMA AlteredLeaves ==
  ASSUME NEW g \in States, NEW a \in Alterations, NEW h \in Altered(g, a)
  PROVE  Leaves(g, h)
<1>1. /\ Len(g.hand) \in Nat /\ Len(g.pile) \in Nat /\ g.energy \in Nat
      /\ g.hand \in Seq(Cards) /\ g.foes \in Seq(Foes)
  BY StateParts DEF States
<1>a. /\ a.cost \in Int /\ a.damage \in Int /\ a.block \in Int
      /\ a.energy \in Int /\ a.threat \in Int
  BY DEF Alterations
<1>h. Held(g) \in Nat  BY HeldType
<1>2. CASE a = Unaltered
  <2>1. h = g  BY <1>2 DEF Altered
  <2>. QED  BY <1>h, <2>1 DEF Leaves
<1>3. CASE a # Unaltered
  <2>1. PICK K \in SUBSET DOMAIN g.hand :
          h = [g EXCEPT !.energy = Grown(g.energy, a.energy),
                        !.hand = AlteredHand(g.hand, K, a),
                        !.foes = AlteredFoes(g.foes, a)]
    BY <1>3 DEF Altered
  <2>. DEFINE cs == AlteredHand(g.hand, K, a)
              fs == AlteredFoes(g.foes, a)
  <2>2. ASSUME NEW c \in Cards PROVE AlteredCard(c, a) \in Cards
    <3>1. c.cost \in Nat /\ c.damage \in Nat /\ c.block \in Nat  BY CardParts
    <3>2. /\ Grown(c.cost, a.cost) \in Nat /\ Grown(c.damage, a.damage) \in Nat
          /\ Grown(c.block, a.block) \in Nat
      BY <1>a, <3>1, GrownType
    <3>. QED  BY <3>2 DEF AlteredCard, Cards
  <2>3. cs \in Seq(Cards) /\ Len(cs) = Len(g.hand)
    <3>1. DOMAIN g.hand = 1..Len(g.hand) /\ \A i \in DOMAIN g.hand : g.hand[i] \in Cards
      BY StateParts
    <3>2. \A i \in 1..Len(g.hand) :
            (IF i \in K THEN AlteredCard(g.hand[i], a) ELSE g.hand[i]) \in Cards
      BY <2>2, <3>1
    <3>3. cs \in [1..Len(g.hand) -> Cards]  BY <3>1, <3>2 DEF AlteredHand
    <3>. HIDE DEF cs
    <3>. QED  BY <1>1, <3>3
  <2>4. /\ fs \in Seq(Foes) /\ DOMAIN fs = DOMAIN g.foes
        /\ \A m \in DOMAIN g.foes : fs[m].hp = g.foes[m].hp
    <3>1. ASSUME NEW f \in Foes
          PROVE  AlteredFoe(f, a) \in Foes /\ AlteredFoe(f, a).hp = f.hp
      <4>1. Grown(f.damage, a.threat) \in Nat  BY <1>a, FoeParts, GrownType
      <4>. QED  BY <4>1 DEF Foes, AlteredFoe
    <3>2. /\ DOMAIN g.foes = 1..Len(g.foes) /\ Len(g.foes) \in Nat
          /\ \A m \in DOMAIN g.foes : g.foes[m] \in Foes
      BY StateParts
    <3>3. fs \in [1..Len(g.foes) -> Foes] /\ \A m \in DOMAIN g.foes : fs[m].hp = g.foes[m].hp
      BY <3>1, <3>2 DEF AlteredFoes
    <3>. HIDE DEF fs
    <3>. QED  BY <3>2, <3>3
  <2>5. Grown(g.energy, a.energy) \in Nat  BY <1>1, <1>a, GrownType
  <2>e. PICK e : e = Grown(g.energy, a.energy)  OBVIOUS
  <2>6. h = [g EXCEPT !.energy = e, !.hand = cs, !.foes = fs]  BY <2>1, <2>e
  <2>. HIDE DEF cs, fs
  <2>7. /\ h \in States /\ h.hand = cs /\ h.foes = fs /\ h.pile = g.pile
        /\ h.potions = g.potions
    BY <2>3, <2>4, <2>5, <2>e, <2>6 DEF States
  <2>8. Alive(h) = Alive(g)  BY <2>4, <2>7 DEF Alive
  <2>9. Held(h) = Held(g)  BY <2>3, <2>7 DEF Held
  <2>. QED  BY <1>h, <2>7, <2>8, <2>9 DEF Leaves
<1>. QED  BY <1>2, <1>3

LEMMA LeavesIsTransitive ==
  ASSUME NEW g \in States, NEW a, NEW b, Leaves(g, a), Leaves(a, b)
  PROVE  Leaves(g, b)
<1>1. a \in States /\ b \in States  BY DEF Leaves
<1>2. Held(g) \in Nat /\ Held(a) \in Nat /\ Held(b) \in Nat  BY <1>1, HeldType
<1>3. Held(b) <= Held(g)
  <2>1. Held(a) <= Held(g) /\ Held(b) <= Held(a)  BY DEF Leaves
  <2>. QED  BY <1>2, <2>1
<1>4. b.potions = g.potions /\ Alive(b) = Alive(g)
  <2>1. a.potions = g.potions /\ Alive(a) = Alive(g)  BY DEF Leaves
  <2>2. b.potions = a.potions /\ Alive(b) = Alive(a)  BY DEF Leaves
  <2>. QED  BY <2>1, <2>2
<1>. QED  BY <1>1, <1>3, <1>4 DEF Leaves

LEMMA PlayedLeaves ==
  ASSUME NEW g \in States, NEW d, d.type = "play_card", Accepted(g, d), NEW k \in Played(g, d)
  PROVE  Leaves(Used(g, d), k)
<1>. DEFINE c == g.hand[d.at]
<1>u. PICK u : u = Used(g, d)  OBVIOUS
<1>1. u \in States  BY <1>u, UsedParts
<1>2. c \in Cards  BY StateParts DEF Accepted
<1>3. c.draw \in Nat /\ c.exhaust \in Nat /\ c.alters \in Alterations  BY <1>2, CardParts
<1>4. PICK a \in Exhausted(u, c.exhaust) : \E b \in Drawn(a, c.draw) : k \in Altered(b, c.alters)
  BY <1>u DEF Played
<1>b. PICK b \in Drawn(a, c.draw) : k \in Altered(b, c.alters)  BY <1>4
<1>5. Leaves(u, a) /\ a \in States  BY <1>1, <1>3, ExhaustedLeaves DEF Leaves
<1>6. Leaves(a, b) /\ b \in States  BY <1>3, <1>5, DrawnLeaves DEF Leaves
<1>7. Leaves(b, k)  BY <1>3, <1>b, <1>6, AlteredLeaves
<1>8. Leaves(u, k)  BY <1>1, <1>5, <1>6, <1>7, LeavesIsTransitive
<1>. QED  BY <1>8, <1>u

LEMMA PlayedType ==
  ASSUME NEW g \in States, NEW d, d.type = "play_card", Accepted(g, d)
  PROVE  Played(g, d) \subseteq States
BY PlayedLeaves DEF Leaves

LEMMA DrunkType ==
  ASSUME NEW g \in States, NEW d, d.type = "use_potion", Accepted(g, d)
  PROVE  Drunk(g, d) \in States
<1>. DEFINE h == IF g.potions[d.at] = "fire"
                 THEN HurtAll(g, EnemyByIndex(g, d.target), PotionDamage)
                 ELSE [g EXCEPT !.block = @ + PotionBlock]
<1>1. d.at \in DOMAIN g.potions  BY DEF Accepted
<1>2. h \in States
  <2>1. HurtAll(g, EnemyByIndex(g, d.target), PotionDamage) \in States
    <3>1. PotionDamage \in Nat  BY DEF PotionDamage
    <3>. QED  BY <3>1, HurtAllType
  <2>2. [g EXCEPT !.block = @ + PotionBlock] \in States
    <3>1. g.block + PotionBlock \in Nat  BY StateParts DEF PotionBlock
    <3>. QED  BY <3>1 DEF States
  <2>. QED  BY <2>1, <2>2
<1>3. h.potions = g.potions
  <2>1. HurtAll(g, EnemyByIndex(g, d.target), PotionDamage).potions = g.potions
    <3>1. PotionDamage \in Nat  BY DEF PotionDamage
    <3>. QED  BY <3>1, HurtAllType
  <2>2. [g EXCEPT !.block = @ + PotionBlock].potions = g.potions  BY DEF States
  <2>. QED  BY <2>1, <2>2
<1>4. Drunk(g, d) = [h EXCEPT !.potions[d.at] = "none"]  BY DEF Drunk
<1>. HIDE DEF h
<1>5. [h.potions EXCEPT ![d.at] = "none"] \in Seq(Potions)
  <2>1. h.potions \in Seq(Potions) /\ "none" \in Potions  BY <1>2 DEF States, Potions
  <2>. QED  BY <1>1, <1>3, <2>1
<1>. QED  BY <1>2, <1>4, <1>5 DEF States

LEMMA KilledType ==
  ASSUME NEW g \in States, NEW m \in Hittable(g)
  PROVE  [g EXCEPT !.foes[m].hp = 0] \in States
<1>1. m \in DOMAIN g.foes  BY FoeSets
<1>2. [g.foes[m] EXCEPT !.hp = 0] \in Foes  BY <1>1, StateParts DEF Foes
<1>. DEFINE f == [g.foes[m] EXCEPT !.hp = 0]
            fs == [g.foes EXCEPT ![m] = f]
<1>3. fs \in Seq(Foes)
  <2>1. g.foes \in Seq(Foes)  BY DEF States
  <2>2. f \in Foes  BY <1>2
  <2>. HIDE DEF f
  <2>. QED  BY <1>1, <2>1, <2>2
<1>4. [g EXCEPT !.foes[m].hp = 0] = [g EXCEPT !.foes = fs]  OBVIOUS
<1>. HIDE DEF fs
<1>. QED  BY <1>3, <1>4 DEF States

(***************************************************************************)
(* The invariant.                                                          *)
(***************************************************************************)
(* A decision on its way is one that the mod accepts in the state it was   *)
(* made from, if it acts for the player that was read.                     *)
IInv ==
    /\ TypeOK
    /\ decision # NoDecision /\ seen.leads => Accepted(seen, decision)

LEMMA InitInvariant == Init => IInv
<1>. SUFFICES ASSUME Init PROVE IInv  OBVIOUS
<1>1. game \in States /\ seen \in States  BY StartsAssumption DEF Init
<1>2. decision \in Decisions(seen)  BY DEF Init, Decisions
<1>. QED  BY <1>1, <1>2 DEF Init, IInv, TypeOK

(* Each way to a decision sends one that is sound for its reading. *)
LEMMA AutoEndIsSound ==
  ASSUME IInv, AutoEnd
  PROVE  Sound(game, decision')
BY EndTurnIsSound DEF AutoEnd

LEMMA DecideIsSound ==
  ASSUME IInv, Decide
  PROVE  Sound(game, decision')
<1>. DEFINE C == Candidates(game)
<1>0. game \in States /\ Playable(game) # {}  BY DEF IInv, TypeOK, Decide
<1>1. C \in SUBSET Sequences(game) /\ C # {}  BY <1>0, CandidatesExist
<1>2. PICK c \in Choosable(policy, C) : decision' = Guarded(game, C, c)  BY DEF Decide
<1>3. c \in C
  <2>1. Top(C) \in C  BY <1>0, <1>1, TopIsChosen
  <2>. HIDE DEF C
  <2>. QED  BY <2>1, <1>2 DEF Choosable
<1>. HIDE DEF C
<1>. QED  BY <1>0, <1>1, <1>2, <1>3, GuardedIsSound

LEMMA AskIsSound ==
  ASSUME IInv, Ask
  PROVE  Sound(game, decision')
<1>. DEFINE valid == {d \in Commands(game) : Valid(game, d)}
            thoughts == Thoughts(Commands(game), PlayCard(1, 1))
<1>0. game \in States /\ Playable(game) # {}  BY DEF IInv, TypeOK, Ask
<1>1. decision' \in Decided(thoughts, valid, Fallback(game))  BY DEF Ask
<1>. HIDE DEF thoughts
<1>2. PICK t \in thoughts : decision' \in IF t \intersect valid # {} THEN t ELSE {Fallback(game)}
  BY <1>1 DEF Decided
<1>3. CASE t \intersect valid = {}
  BY <1>0, <1>2, <1>3, FallbackIsSound
<1>4. CASE t \intersect valid # {}
  <2>1. \E x : t = {x} \/ t = {}
    BY <1>2 DEF thoughts, Thoughts, Ask, LanguageModels
  <2>2. decision' \in valid  BY <1>2, <1>4, <2>1
  <2>. QED  BY <1>0, <2>2, ValidIsSound
<1>. QED  BY <1>3, <1>4

LEMMA DecisionInvariant ==
  ASSUME IInv, UNCHANGED <<game, over>>, seen' = game, Sound(game, decision'),
         owed' \in BOOLEAN
  PROVE  IInv'
BY DEF IInv, TypeOK, Sound

LEMMA DecideOwes ==
  ASSUME IInv, Decide
  PROVE  owed' \in BOOLEAN
<1>1. PICK c \in Choosable(policy, Candidates(game)) :
        owed' = Owing(game, Candidates(game), c)
  BY DEF Decide
<1>2. MostBlock(Candidates(game)).block \in Int
  <2>1. game \in States /\ Playable(game) # {}  BY DEF IInv, TypeOK, Decide
  <2>2. Candidates(game) \in SUBSET Sequences(game) /\ Candidates(game) # {}
    BY <2>1, CandidatesExist
  <2>3. MostBlock(Candidates(game)) \in Sequences(game)  BY <2>1, <2>2, MostBlockIsChosen
  <2>. QED  BY <2>1, <2>3, CandidateParts
<1>b. PICK b : b = MostBlock(Candidates(game)).block  OBVIOUS
<1>3. (b > 0) \in BOOLEAN  BY <1>2, <1>b
<1>. QED  BY <1>1, <1>3, <1>b DEF Owing, IInv, TypeOK

(* A foe that falls to somebody else. *)
LEMMA FallsType ==
  ASSUME game \in States, owed \in BOOLEAN, NEW m \in DOMAIN game.foes, Falls(m)
  PROVE  game' \in States /\ owed' \in BOOLEAN /\ over' \in {"no", "won"}
<1>1. game' \in States  BY KilledType DEF Falls
<1>. QED  BY <1>1 DEF Falls, Finish

LEMMA StepInvariant == IInv /\ [Next]_<<vars, policy>> => IInv'
<1>. SUFFICES ASSUME IInv, [Next]_<<vars, policy>> PROVE IInv'
  OBVIOUS
<1>t. /\ game \in States /\ seen \in States /\ decision \in Decisions(seen)
      /\ over \in {"no", "ended", "won"} /\ owed \in BOOLEAN
  BY DEF IInv, TypeOK
<1>n. NoDecision \in Decisions(seen)  BY DEF Decisions
<1>1. CASE AutoEnd
  BY <1>1, <1>t, AutoEndIsSound, DecisionInvariant DEF AutoEnd
<1>2. CASE Decide
  BY <1>2, <1>t, DecideIsSound, DecideOwes, DecisionInvariant DEF Decide
<1>3. CASE Ask
  BY <1>3, <1>t, AskIsSound, DecisionInvariant DEF Ask
<1>4. CASE Plays
  <2>1. game' \in States  BY <1>4, <1>t, PlayedType DEF Plays, Executing
  <2>2. owed' \in BOOLEAN
    BY <1>4, <1>t DEF Plays
  <2>. QED  BY <1>4, <1>t, <1>n, <2>1, <2>2 DEF Plays, Finish, IInv, TypeOK
<1>5. CASE Drinks
  <2>1. game' \in States  BY <1>5, <1>t, DrunkType DEF Drinks, Executing
  <2>. QED  BY <1>5, <1>t, <1>n, <2>1 DEF Drinks, Finish, IInv, TypeOK
<1>6. CASE Ends
  BY <1>6, <1>t, <1>n DEF Ends, IInv, TypeOK
<1>7. CASE Refuses
  BY <1>7, <1>t, <1>n DEF Refuses, IInv, TypeOK
<1>8. ASSUME NEW m \in DOMAIN game.foes, MateKills(m) PROVE IInv'
  <2>1. game' \in States /\ owed' \in BOOLEAN /\ over' \in {"no", "won"}
    BY <1>8, <1>t, FallsType DEF MateKills
  <2>4. seen' = seen /\ decision' = decision  BY <1>8 DEF MateKills
  <2>. QED  BY <1>t, <2>1, <2>4 DEF IInv, TypeOK
<1>9. CASE ActsForAnother
  <2>1. game' \in States /\ owed' \in BOOLEAN /\ over' \in {"no", "ended", "won"}
    BY <1>9, <1>t, FallsType DEF ActsForAnother
  <2>2. decision' = NoDecision /\ seen' = seen  BY <1>9 DEF ActsForAnother
  <2>. QED  BY <1>t, <1>n, <2>1, <2>2 DEF IInv, TypeOK
<1>10. CASE Over \/ UNCHANGED vars
  BY <1>10 DEF Over, vars, IInv, TypeOK
<1>. QED
  BY <1>1, <1>2, <1>3, <1>4, <1>5, <1>6, <1>7, <1>8, <1>9, <1>10 DEF Next, ModStep

(***************************************************************************)
(* A block that is due.                                                    *)
(***************************************************************************)
(* Blocks and damage that is avoided are counted from zero, and kills are  *)
(* what avoids damage.                                                     *)
LEMMA SequenceCounts ==
  ASSUME NEW s \in States, NEW c \in Sequences(s)
  PROVE  /\ c.block \in Nat /\ c.avoided \in Nat
         /\ Killed(s, c.damage) = {} => c.avoided = 0
<1>1. PICK q \in Lines(s) : c = Sequence(s, q)  BY SequencesAreLines
<1>. DEFINE damage == Total(s, q, LAMBDA x : x.damage)
            blocks == [i \in Range(q) |-> s.hand[i].block]
            K == Killed(s, damage)
            spared == [m \in K |-> s.foes[m].damage]
<1>2. /\ c.block = SumFunction(blocks) /\ c.damage = damage
      /\ c.avoided = SumFunction(spared)
  BY <1>1 DEF Sequence, Total
<1>3. IsFiniteSet(Range(q)) /\ \A i \in Range(q) : s.hand[i].block \in Nat
  BY LineParts, StateParts, CardParts
<1>4. IsFiniteSet(K) /\ \A m \in K : s.foes[m].damage \in Nat
  <2>1. K \subseteq Attackers(s)  BY DEF Killed
  <2>. HIDE DEF K
  <2>. QED  BY <2>1, FoeSets, FS_Subset, StateParts, FoeParts
<1>5. c.block \in Nat
  <2>1. DOMAIN blocks = Range(q) /\ blocks \in [Range(q) -> Nat]  BY <1>3
  <2>. HIDE DEF blocks
  <2>. QED  BY <1>2, <1>3, <2>1, SumOfNaturals
<1>. HIDE DEF K
<1>6. c.avoided \in Nat /\ (K = {} => c.avoided = 0)
  <2>1. DOMAIN spared = K /\ spared \in [K -> Nat]  BY <1>4
  <2>. HIDE DEF spared
  <2>. QED  BY <1>2, <1>4, <2>1, SumOfNaturals
<1>. QED  BY <1>2, <1>5, <1>6 DEF K

(* A card of the hand with block that the energy e pays for. *)
Blocks(s, i, e) ==
    i \in DOMAIN s.hand /\ s.hand[i].usable /\ s.hand[i].block > 0 /\ s.hand[i].cost <= e

(* A sequence with block has a card with block, which can be played first  *)
(* and can still be paid for when the sequence's first card was played.    *)
LEMMA BlockOfSequence ==
  ASSUME NEW s \in States, NEW c \in Sequences(s), c.block > 0
  PROVE  \E i : /\ Blocks(s, i, s.energy)
                /\ i = c.cards[1] \/ s.hand[i].cost + s.hand[c.cards[1]].cost <= s.energy
<1>1. PICK q \in Lines(s) :
        c = Sequence(s, q) /\ Total(s, q, LAMBDA x : x.cost) <= s.energy
  BY SequencesAreLines
<1>. DEFINE D == Range(q)
            blocks == [i \in D |-> s.hand[i].block]
            costs == [i \in D |-> s.hand[i].cost]
<1>2. c.cards = q /\ c.block = SumFunction(blocks) /\ SumFunction(costs) <= s.energy
  BY <1>1 DEF Sequence, Total
<1>3. /\ IsFiniteSet(D) /\ D \subseteq Playable(s) /\ q[1] \in D
      /\ \A i \in D : s.hand[i].block \in Nat /\ s.hand[i].cost \in Nat
  <2>1. PICK k \in Nat \ {0} : q \in [1..k -> Playable(s)]  BY DEF Lines
  <2>2. D \subseteq Playable(s) /\ q[1] \in D  BY <2>1 DEF Range
  <2>. QED  BY <2>2, LineParts, StateParts, CardParts
<1>. HIDE DEF D
<1>4. PICK i \in D : s.hand[i].block > 0
  <2>1. DOMAIN blocks = D /\ blocks \in [D -> Nat]  BY <1>3
  <2>2. (\A i \in D : blocks[i] = 0) => SumFunction(blocks) = 0
    <3>. HIDE DEF blocks
    <3>. QED  BY <1>3, <2>1, SumOfNaturals
  <2>3. PICK i \in D : blocks[i] # 0  BY <1>2, <2>2
  <2>4. s.hand[i].block \in Nat /\ s.hand[i].block # 0  BY <1>3, <2>3
  <2>. QED  BY <2>4
<1>5. Blocks(s, i, s.energy)
  BY <1>3, <1>4 DEF Blocks, Playable, CanPlay
<1>6. i # q[1] => s.hand[i].cost + s.hand[q[1]].cost <= s.energy
  <2>1. DOMAIN costs = D /\ costs \in [D -> Nat]  BY <1>3
  <2>2. /\ \A x, y \in D : x # y => costs[x] + costs[y] <= SumFunction(costs)
        /\ SumFunction(costs) \in Nat
    <3>. HIDE DEF costs
    <3>. QED  BY <1>3, <2>1, SumOfNaturals
  <2>3. s.energy \in Nat /\ s.hand[i].cost \in Nat /\ s.hand[q[1]].cost \in Nat
    BY <1>3, StateParts
  <2>4. i # q[1] => s.hand[i].cost + s.hand[q[1]].cost <= SumFunction(costs)
    BY <1>3, <2>2
  <2>t. PICK sum : sum = SumFunction(costs)  OBVIOUS
  <2>. HIDE DEF costs
  <2>. QED  BY <1>2, <2>2, <2>3, <2>4, <2>t
<1>. QED  BY <1>2, <1>5, <1>6

(* A hurt foe is the same but for its block and its hit points. *)
LEMMA HurtKeeps ==
  ASSUME NEW f \in Foes, NEW d \in Nat
  PROVE  /\ Hurt(f, d).damage = f.damage
         /\ Hurt(f, d).attacking = f.attacking /\ Hurt(f, d).hittable = f.hittable
         /\ Hurt(f, d).hp > 0 => f.hp > 0
<1>. DEFINE b == Max({0, f.block - d})
            x == Max({0, d - f.block})
            h == Max({0, f.hp - x})
<1>1. Hurt(f, d) = [f EXCEPT !.block = b, !.hp = h]  BY DEF Hurt
<1>2. f.block \in Nat /\ f.hp \in Nat  BY FoeParts
<1>3. x \in Nat
  <2>1. 0 \in Int /\ d - f.block \in Int  BY <1>2
  <2>2. x \in {0, d - f.block} /\ x >= 0  BY <2>1, MaxOfTwo
  <2>. QED  BY <2>1, <2>2
<1>. HIDE DEF x
<1>4. h > 0 => f.hp > 0
  <2>1. 0 \in Int /\ f.hp - x \in Int  BY <1>2, <1>3
  <2>2. h \in {0, f.hp - x}  BY <2>1, MaxOfTwo
  <2>. QED  BY <1>2, <1>3, <2>2
<1>. HIDE DEF b, h
<1>. QED  BY <1>1, <1>4 DEF Foes

(* Nobody comes to life by being hurt, or can be hit who could not before. *)
LEMMA HurtAllKeeps ==
  ASSUME NEW g \in States, NEW M, NEW d \in Nat
  PROVE  LET h == HurtAll(g, M, d)
         IN  /\ h.hp = g.hp
             /\ Hittable(h) \subseteq Hittable(g)
             /\ \A m \in Attackers(h) : h.foes[m].damage = g.foes[m].damage
<1>h. PICK h : h = HurtAll(g, M, d)  OBVIOUS
<1>. DEFINE fs == [m \in DOMAIN g.foes |-> IF m \in M THEN Hurt(g.foes[m], d) ELSE g.foes[m]]
<1>1. h = [g EXCEPT !.foes = fs]  BY <1>h DEF HurtAll
<1>2. \A m \in DOMAIN g.foes :
        /\ fs[m].damage = g.foes[m].damage /\ fs[m].hittable = g.foes[m].hittable
        /\ fs[m].hp > 0 => g.foes[m].hp > 0
  BY StateParts, HurtKeeps
<1>3. DOMAIN fs = DOMAIN g.foes  OBVIOUS
<1>. HIDE DEF fs
<1>4. h.foes = fs /\ h.hp = g.hp  BY <1>1 DEF States
<1>5. Alive(h) \subseteq Alive(g)  BY <1>2, <1>3, <1>4 DEF Alive
<1>6. Hittable(h) \subseteq Hittable(g)
  <2>1. Alive(h) \subseteq DOMAIN g.foes  BY <1>3, <1>4 DEF Alive
  <2>. QED  BY <1>2, <1>4, <1>5, <2>1 DEF Hittable
<1>7. \A m \in Attackers(h) : h.foes[m].damage = g.foes[m].damage
  BY <1>2, <1>3, <1>4 DEF Attackers, Alive
<1>. QED  BY <1>4, <1>6, <1>7, <1>h

(* The threat is that of the attackers, the player's block and hit points. *)
Threat(s) == <<Unblocked(s), s.hp>>

LEMMA SameThreat ==
  ASSUME NEW s, NEW t, t.hp = s.hp, t.block = s.block, Attackers(t) = Attackers(s),
         \A m \in Attackers(t) : t.foes[m].damage = s.foes[m].damage
  PROVE  Threat(t) = Threat(s)
<1>1. [m \in Attackers(t) |-> t.foes[m].damage] = [m \in Attackers(s) |-> s.foes[m].damage]
  OBVIOUS
<1>2. Incoming(t) = Incoming(s)  BY <1>1 DEF Incoming
<1>. QED  BY <1>2 DEF Threat, Unblocked

(* A card that is not the one played is still in the hand. *)
LEMMA StaysInHand ==
  ASSUME NEW S, NEW q \in Seq(S), NEW i \in DOMAIN q, NEW j \in DOMAIN q, i # j
  PROVE  \E k \in DOMAIN RemoveAt(q, i) : RemoveAt(q, i)[k] = q[j]
<1>1. Len(q) \in Nat /\ DOMAIN q = 1..Len(q) /\ i \in 1..Len(q) /\ j \in 1..Len(q)
  OBVIOUS
<1>. DEFINE a == SubSeq(q, 1, i - 1)
            b == SubSeq(q, i + 1, Len(q))
<1>2. /\ a \in Seq(S) /\ Len(a) = i - 1 /\ \A k \in 1..(i - 1) : a[k] = q[k]
      /\ b \in Seq(S) /\ Len(b) = Len(q) - i /\ \A k \in 1..(Len(q) - i) : b[k] = q[i + k]
  BY <1>1
<1>3. RemoveAt(q, i) = a \o b  BY DEF RemoveAt
<1>. HIDE DEF a, b
<1>4. CASE j < i
  <2>1. j \in 1..(i - 1)  BY <1>1, <1>4
  <2>2. j \in DOMAIN (a \o b) /\ (a \o b)[j] = a[j]  BY <1>1, <1>2, <2>1
  <2>. QED  BY <1>2, <1>3, <2>1, <2>2
<1>5. CASE j > i
  <2>1. j - i \in 1..(Len(q) - i) /\ i + (j - i) = j  BY <1>1, <1>5
  <2>k. PICK k : k = j - 1  OBVIOUS
  <2>3. /\ k \in 1..(Len(a) + Len(b)) /\ ~(k <= Len(a)) /\ k - Len(a) = j - i
    BY <1>1, <1>2, <1>5, <2>k
  <2>4. /\ DOMAIN (a \o b) = 1..(Len(a) + Len(b))
        /\ (a \o b)[k] = IF k <= Len(a) THEN a[k] ELSE b[k - Len(a)]
    <3>. PICK x : x = a \o b  OBVIOUS
    <3>1. /\ x \in Seq(S) /\ Len(x) = Len(a) + Len(b)
          /\ \A m \in 1..(Len(a) + Len(b)) : x[m] = IF m <= Len(a) THEN a[m] ELSE b[m - Len(a)]
      BY <1>2, ConcatProperties
    <3>2. DOMAIN x = 1..Len(x)  BY <3>1
    <3>. QED  BY <2>3, <3>1, <3>2
  <2>2. j - 1 \in DOMAIN (a \o b) /\ (a \o b)[j - 1] = b[j - i]  BY <2>k, <2>3, <2>4
  <2>. QED  BY <1>2, <1>3, <2>1, <2>2
<1>. QED  BY <1>1, <1>4, <1>5

(* The threat for which minimum_defense calls for a block: high, but the   *)
(* rule for a lethal one, which comes first, does not meet it.             *)
Threatened(s) ==
    /\ ~Lethal(s)
    /\ Unblocked(s) >= (4 * s.hp) \div 10
    /\ Unblocked(s) > 0

(* While a block is due, the hand has a card with block that can be played,*)
(* also after the one that is on its way.                                  *)
Due ==
    /\ over # "ended"
    /\ Threatened(game)
    /\ decision = NoDecision \/ decision.type = "play_card"
    /\ \E i : /\ Blocks(game, i, game.energy)
              /\ \/ decision = NoDecision \/ i = decision.at
                 \/ game.hand[i].cost + game.hand[decision.at].cost <= game.energy

(* A block is due only to the policies that the guardrail looks after.     *)
OwedInv == owed => policy \notin LanguageModels /\ (Hittable(game) # {} => Due)

LEMMA SameThreatened ==
  ASSUME NEW s, NEW t, Threat(t) = Threat(s), Threatened(s)
  PROVE  Threatened(t)
BY DEF Threat, Threatened, Lethal

(* A block that is due can be played. *)
LEMMA DueIsPlayable ==
  ASSUME IInv, OwedInv, owed, Hittable(game) # {}
  PROVE  \E i \in Playable(game) : game.hand[i].block > 0
BY DEF OwedInv, Due, Blocks, Playable, CanPlay

(* Drinking a potion makes nobody one that can be hit. *)
LEMMA DrunkKeeps ==
  ASSUME NEW g \in States, NEW d, d.type = "use_potion", Accepted(g, d)
  PROVE  Hittable(Drunk(g, d)) \subseteq Hittable(g)
<1>. DEFINE M == EnemyByIndex(g, d.target)
            h == IF g.potions[d.at] = "fire" THEN HurtAll(g, M, PotionDamage)
                 ELSE [g EXCEPT !.block = @ + PotionBlock]
<1>1. h \in States /\ Hittable(h) \subseteq Hittable(g)
  <2>. HIDE DEF M
  <2>1. HurtAll(g, M, PotionDamage) \in States
        /\ Hittable(HurtAll(g, M, PotionDamage)) \subseteq Hittable(g)
    <3>1. PotionDamage \in Nat  BY DEF PotionDamage
    <3>. QED  BY <3>1, HurtAllType, HurtAllKeeps
  <2>b. PICK b : b = [g EXCEPT !.block = @ + PotionBlock]  OBVIOUS
  <2>2. b \in States
    <3>1. g.block + PotionBlock \in Nat  BY StateParts DEF PotionBlock
    <3>. QED  BY <2>b, <3>1 DEF States
  <2>3. b.foes = g.foes  BY <2>b DEF States
  <2>4. Hittable(b) = Hittable(g)  BY <2>3 DEF Hittable, Alive
  <2>. QED  BY <2>1, <2>2, <2>4, <2>b
<1>2. Drunk(g, d) = [h EXCEPT !.potions[d.at] = "none"]  BY DEF Drunk
<1>. HIDE DEF h
<1>3. Drunk(g, d).foes = h.foes  BY <1>1, <1>2 DEF States
<1>. QED  BY <1>1, <1>3 DEF Hittable, Alive

(* What is decided while a block is due, or when it becomes due. *)
LEMMA DecideKeepsDue ==
  ASSUME IInv, OwedInv, Decide, UNCHANGED policy
  PROVE  OwedInv'
<1>. SUFFICES ASSUME owed', Hittable(game') # {} PROVE Due'
  <2>1. policy' \notin LanguageModels  BY DEF Decide
  <2>. QED  BY <2>1 DEF OwedInv
<1>s. PICK s : s = game  OBVIOUS
<1>C. PICK C : C = Candidates(s)  OBVIOUS
<1>0. /\ s \in States /\ Playable(s) # {} /\ game' = s /\ over' = "no" /\ Hittable(s) # {}
      /\ policy \notin LanguageModels
  BY <1>s DEF IInv, TypeOK, Decide, Ready
<1>1. C \in SUBSET Sequences(s) /\ C # {}  BY <1>0, <1>C, CandidatesExist
<1>2. PICK c \in Choosable(policy, C) : decision' = Guarded(s, C, c) /\ owed' = Owing(s, C, c)
  BY <1>s, <1>C DEF Decide
<1>3. c \in C
  <2>1. Top(C) \in C  BY <1>0, <1>1, TopIsChosen
  <2>. QED  BY <2>1, <1>2 DEF Choosable
<1>f. PICK f : f = Found(C, c)  OBVIOUS
<1>4. f \in C /\ f.cards[1] = c.cards[1]
  <2>. DEFINE F == {d \in C : d.cards[1] = c.cards[1]}
  <2>1. F \in SUBSET Sequences(s) /\ F # {}  BY <1>1, <1>3
  <2>. HIDE DEF F
  <2>2. Top(F) \in F  BY <1>0, <2>1, TopIsChosen
  <2>. QED  BY <1>f, <2>2 DEF F, Found
<1>5. SUFFICES Threatened(s) /\ \E d \in C : d.block > 0 /\ \E n : decision' = PlayCard(d.cards[1], n)
  <2>1. PICK d \in C : d.block > 0 /\ \E n : decision' = PlayCard(d.cards[1], n)  BY <1>5
  <2>2. decision'.type = "play_card" /\ decision'.at = d.cards[1]  BY <2>1 DEF PlayCard
  <2>3. PICK k : /\ Blocks(s, k, s.energy)
                 /\ k = d.cards[1] \/ s.hand[k].cost + s.hand[d.cards[1]].cost <= s.energy
    BY <1>0, <1>1, <2>1, BlockOfSequence
  <2>. QED  BY <1>0, <1>5, <2>2, <2>3 DEF Due
<1>6. CASE MinimumDefense(s, C, c)
  <2>1. MostBlock(C) \in C  BY <1>0, <1>1, MostBlockIsChosen
  <2>2. MostBlock(C).block > 0  BY <1>2, <1>6 DEF Owing
  <2>3. decision' = PlayCard(MostBlock(C).cards[1], WeakestTarget(s))
    BY <1>2, <1>6 DEF Guarded, MinimumDefense, ForceBlock
  <2>4. ~Lethal(s) /\ Unblocked(s) >= (4 * s.hp) \div 10
    BY <1>6 DEF MinimumDefense
  <2>5. Unblocked(s) > 0
    <3>1. f.block \in Nat /\ f.avoided \in Nat  BY <1>0, <1>1, <1>4, SequenceCounts
    <3>2. 2 * (f.block + f.avoided) < Unblocked(s)  BY <1>6, <1>f DEF MinimumDefense
    <3>3. Unblocked(s) \in Int  BY <1>0, UnblockedType
    <3>. QED  BY <3>1, <3>2, <3>3
  <2>. QED  BY <2>1, <2>2, <2>3, <2>4, <2>5 DEF Threatened
<1>7. CASE ~MinimumDefense(s, C, c)
  <2>1. owed /\ (f.block > 0 \/ Killed(s, f.damage) = {})
    BY <1>2, <1>7, <1>f DEF Owing
  <2>2. Threatened(s)  BY <1>0, <1>s, <2>1 DEF OwedInv, Due
  <2>3. f.block > 0
    <3>1. SUFFICES ASSUME ~(f.block > 0) PROVE FALSE  OBVIOUS
    <3>2. /\ f.block \in Nat /\ f.avoided \in Nat
          /\ Killed(s, f.damage) = {} => f.avoided = 0
      BY <1>0, <1>1, <1>4, SequenceCounts
    <3>3. Killed(s, f.damage) = {}  BY <2>1, <3>1
    <3>4. f.block = 0 /\ f.avoided = 0  BY <3>1, <3>2, <3>3
    <3>5. 2 * (f.block + f.avoided) < Unblocked(s)  BY <2>2, <3>4 DEF Threatened
    <3>6. \E i \in Playable(s) : s.hand[i].block > 0  BY <1>0, <1>s, <2>1, DueIsPlayable
    <3>. QED  BY <1>7, <1>f, <2>2, <3>3, <3>4, <3>5, <3>6 DEF MinimumDefense, Threatened
  <2>4. decision' = FromCandidate(s, c)  BY <1>2, <1>7, <2>2 DEF Guarded, Threatened
  <2>5. \E n : decision' = PlayCard(f.cards[1], n)  BY <1>4, <2>4 DEF FromCandidate
  <2>. QED  BY <1>4, <2>2, <2>3, <2>5
<1>. QED  BY <1>6, <1>7

(* What the game makes of a card that leaves the block due. *)
LEMMA PlayKeepsDue ==
  ASSUME IInv, OwedInv, Plays, owed', Hittable(game') # {}
  PROVE  Due'
<1>d. PICK d : d = decision  OBVIOUS
<1>g. PICK g : g = game  OBVIOUS
<1>u. PICK u : u = Used(g, d)  OBVIOUS
<1>. DEFINE c == g.hand[d.at]
            M == CardTargets(g, c, d.target)
            h == HurtAll(g, M, c.damage)
<1>0. /\ g \in States /\ d.type = "play_card" /\ Accepted(g, d) /\ game' \in Played(g, d)
      /\ decision' = NoDecision
  BY <1>d, <1>g DEF IInv, TypeOK, Plays, Executing
<1>1. d.at \in DOMAIN g.hand /\ c \in Cards  BY <1>0, StateParts DEF Accepted
<1>2. c.cost \in Nat /\ c.damage \in Nat /\ c.block \in Nat /\ c.draw \in Nat
  BY <1>1, CardParts
<1>3. owed /\ KeepsDue(c) /\ Attackers(game') = Attackers(g)
  BY <1>d, <1>g DEF Plays
<1>. HIDE DEF M
<1>4. /\ Hittable(h) \subseteq Hittable(g)
      /\ \A m \in Attackers(h) : h.foes[m].damage = g.foes[m].damage
  BY <1>0, <1>2, HurtAllKeeps
<1>5. /\ u \in States /\ u.hand = RemoveAt(g.hand, d.at) /\ u.foes = h.foes
      /\ u.energy = g.energy - c.cost /\ u.block = g.block + c.block /\ u.hp = g.hp
  BY <1>0, <1>u, UsedParts DEF M
<1>p. game' \in Drawn(u, c.draw)
  <2>1. Exhausted(u, c.exhaust) = {u} /\ \A b : Altered(b, c.alters) = {b}
    BY <1>3 DEF KeepsDue, Exhausted, Altered
  <2>2. \E a \in Exhausted(u, c.exhaust) : \E b \in Drawn(a, c.draw) : game' \in Altered(b, c.alters)
    BY <1>0, <1>u DEF Played
  <2>. QED  BY <2>1, <2>2
<1>. HIDE DEF h, c
<1>6. /\ game'.hp = g.hp /\ game'.block = g.block + c.block /\ game'.energy = g.energy - c.cost
      /\ game'.foes = h.foes
      /\ \A k \in DOMAIN u.hand : k \in DOMAIN game'.hand /\ game'.hand[k] = u.hand[k]
  BY <1>2, <1>5, <1>p, DrawnParts
<1>7. Hittable(game') = Hittable(h) /\ Attackers(game') = Attackers(h)
  BY <1>6 DEF Hittable, Attackers, Alive
<1>8. Due  BY <1>3, <1>4, <1>7, <1>g DEF OwedInv
<1>9. Threatened(game')
  <2>1. g.block \in Nat  BY <1>0, StateParts
  <2>2. game'.block = g.block  BY <1>2, <1>3, <1>6, <2>1 DEF KeepsDue
  <2>3. Threat(game') = Threat(g)  BY <1>3, <1>4, <1>6, <1>7, <2>2, SameThreat
  <2>. QED  BY <1>8, <1>g, <2>3, SameThreatened DEF Due
<1>10. PICK i : /\ Blocks(g, i, g.energy)
                /\ i = d.at \/ g.hand[i].cost + c.cost <= g.energy
  BY <1>0, <1>8, <1>d, <1>g DEF Due, NoDecision, c
<1>11. i # d.at /\ i \in DOMAIN g.hand
  <2>1. ~(c.block > 0)  BY <1>3 DEF KeepsDue
  <2>. QED  BY <1>10, <2>1 DEF Blocks, c
<1>12. PICK k \in DOMAIN game'.hand : game'.hand[k] = g.hand[i]
  <2>1. g.hand \in Seq(Cards)  BY <1>0 DEF States
  <2>2. PICK k \in DOMAIN u.hand : u.hand[k] = g.hand[i]
    BY <1>1, <1>5, <1>11, <2>1, StaysInHand
  <2>. QED  BY <1>6, <2>2
<1>13. g.hand[i].cost <= game'.energy
  <2>1. g.hand[i].cost \in Nat /\ g.energy \in Nat  BY <1>0, <1>11, StateParts, CardParts
  <2>2. g.hand[i].cost + c.cost <= g.energy  BY <1>10, <1>11
  <2>. QED  BY <1>2, <1>6, <2>1, <2>2
<1>14. Blocks(game', k, game'.energy)  BY <1>10, <1>12, <1>13 DEF Blocks
<1>15. over' # "ended"  BY DEF Plays, Finish
<1>. QED  BY <1>0, <1>9, <1>14, <1>15 DEF Due

(* The fall of a foe that does not attack leaves the block due. *)
LEMMA FallKeepsDue ==
  ASSUME IInv, OwedInv, NEW m \in DOMAIN game.foes, Falls(m), owed', Hittable(game') # {},
         decision' \in {decision, NoDecision}
  PROVE  Due'
<1>g. PICK g : g = game  OBVIOUS
<1>0. /\ g \in States /\ m \in Hittable(g) /\ game' = [g EXCEPT !.foes[m].hp = 0]
      /\ owed /\ m \notin Attackers(g) /\ over' # "ended"
  BY <1>g DEF IInv, TypeOK, Falls, Finish
<1>. DEFINE f == [g.foes[m] EXCEPT !.hp = 0]
            fs == [g.foes EXCEPT ![m] = f]
<1>1. m \in DOMAIN g.foes /\ g.foes[m] \in Foes  BY <1>0, FoeSets, StateParts
<1>2. f.hp = 0 /\ f.damage = g.foes[m].damage  BY <1>1 DEF Foes
<1>3. game' = [g EXCEPT !.foes = fs]  BY <1>0
<1>. HIDE DEF f
<1>4. DOMAIN fs = DOMAIN g.foes /\ fs[m] = f /\ \A n \in DOMAIN g.foes : n # m => fs[n] = g.foes[n]
  BY <1>1
<1>. HIDE DEF fs
<1>5. /\ game'.hp = g.hp /\ game'.block = g.block /\ game'.energy = g.energy
      /\ game'.hand = g.hand /\ game'.foes = fs
  BY <1>0, <1>3 DEF States
<1>6. Alive(game') = Alive(g) \ {m}
  BY <1>1, <1>2, <1>4, <1>5 DEF Alive
<1>7. Attackers(game') = Attackers(g)  BY <1>0, <1>4, <1>5, <1>6 DEF Attackers, Alive
<1>8. Hittable(game') \subseteq Hittable(g)  BY <1>4, <1>5, <1>6 DEF Hittable, Alive
<1>9. Due  BY <1>0, <1>8, <1>g DEF OwedInv
<1>10. Threatened(game')
  <2>1. \A n \in Attackers(game') : game'.foes[n].damage = g.foes[n].damage
    BY <1>0, <1>4, <1>5, <1>7 DEF Attackers, Alive
  <2>2. Threat(game') = Threat(g)  BY <1>5, <1>7, <2>1, SameThreat
  <2>. QED  BY <1>9, <1>g, <2>2, SameThreatened DEF Due
<1>. QED  BY <1>0, <1>5, <1>9, <1>10, <1>g DEF Due, Blocks

(* No step lets a block that is due become impossible. *)
LEMMA OwedGoesOn == IInv /\ OwedInv /\ [Next]_<<vars, policy>> => OwedInv'
<1>. SUFFICES ASSUME IInv, OwedInv, [Next]_<<vars, policy>> PROVE OwedInv'  OBVIOUS
<1>p. policy' = policy  BY DEF Next, vars
<1>1. CASE AutoEnd
  <2>1. Hittable(game) # {} => ~owed  BY <1>1, DueIsPlayable DEF AutoEnd
  <2>. QED  BY <1>1, <1>p, <2>1 DEF AutoEnd, OwedInv
<1>2. CASE Decide  BY <1>2, <1>p, DecideKeepsDue
<1>3. CASE Ask  BY <1>3, <1>p DEF Ask, OwedInv
<1>4. CASE Plays
  <2>1. owed' => owed  BY <1>4 DEF Plays
  <2>. QED  BY <1>4, <1>p, <2>1, PlayKeepsDue DEF OwedInv
<1>5. CASE Drinks
  <2>1. ~Due /\ owed' = owed
    BY <1>5 DEF Drinks, Executing, Due, NoDecision
  <2>2. Hittable(game') \subseteq Hittable(game)  BY <1>5, DrunkKeeps DEF IInv, TypeOK, Drinks, Executing
  <2>. QED  BY <1>p, <2>1, <2>2 DEF OwedInv
<1>6. CASE Ends
  <2>1. ~Due  BY <1>6 DEF Ends, Executing, Due, NoDecision
  <2>. QED  BY <1>6, <1>p, <2>1 DEF Ends, OwedInv
<1>7. CASE Refuses
  <2>1. UNCHANGED <<game, over, owed>> /\ decision' = NoDecision  BY <1>7 DEF Refuses
  <2>2. Due => Due'  BY <2>1 DEF Due
  <2>. QED  BY <1>p, <2>1, <2>2 DEF OwedInv
<1>8. ASSUME NEW m \in DOMAIN game.foes, MateKills(m) PROVE OwedInv'
  <2>1. owed' => owed  BY <1>8 DEF MateKills, Falls
  <2>2. Falls(m) /\ decision' = decision  BY <1>8 DEF MateKills
  <2>. QED  BY <1>p, <2>1, <2>2, FallKeepsDue DEF OwedInv
<1>9. CASE ActsForAnother
  <2>1. decision' = NoDecision  BY <1>9 DEF ActsForAnother
  <2>2. CASE UNCHANGED <<game, over, owed>>
    <3>1. Due => Due'  BY <2>1, <2>2 DEF Due
    <3>. QED  BY <1>p, <2>2, <3>1 DEF OwedInv
  <2>3. ASSUME NEW m \in DOMAIN game.foes, Falls(m) PROVE OwedInv'
    <3>1. owed' => owed  BY <2>3 DEF Falls
    <3>. QED  BY <1>p, <2>1, <2>3, <3>1, FallKeepsDue DEF OwedInv
  <2>. QED  BY <1>9, <2>2, <2>3 DEF ActsForAnother
<1>10. CASE Over \/ UNCHANGED vars
  BY <1>10, <1>p DEF Over, vars, OwedInv, Due
<1>. QED
  BY <1>1, <1>2, <1>3, <1>4, <1>5, <1>6, <1>7, <1>8, <1>9, <1>10 DEF Next, ModStep

LEMMA OwedBegins == ~owed => OwedInv
BY DEF OwedInv

LEMMA OwedIsPaid == OwedInv => DefendsWhenWarned
BY DEF OwedInv, Due, DefendsWhenWarned

(***************************************************************************)
(* A turn comes to an end.                                                 *)
(***************************************************************************)
Full(g) == {p \in DOMAIN g.potions : g.potions[p] # "none"}

LEMMA ResourcesType ==
  ASSUME NEW g \in States
  PROVE  /\ Held(g) \in Nat /\ IsFiniteSet(Full(g)) /\ Cardinality(Full(g)) \in Nat
         /\ IsFiniteSet(Alive(g)) /\ Cardinality(Alive(g)) \in Nat
         /\ Resources(g) = Held(g) + Cardinality(Full(g)) + Cardinality(Alive(g))
         /\ Resources(g) \in Nat
<1>1. IsFiniteSet(DOMAIN g.potions)  BY StateParts, IndicesAreFinite
<1>2. IsFiniteSet(Full(g))  BY <1>1, FS_Subset DEF Full
<1>3. IsFiniteSet(Alive(g))  BY FoeSets
<1>a. PICK a : a = Held(g)  OBVIOUS
<1>b. PICK b : b = Cardinality(Full(g))  OBVIOUS
<1>c. PICK c : c = Cardinality(Alive(g))  OBVIOUS
<1>4. a \in Nat /\ b \in Nat /\ c \in Nat
  BY <1>2, <1>3, <1>a, <1>b, <1>c, FS_CardinalityType, HeldType
<1>5. Resources(g) = Held(g) + Cardinality(Full(g)) + Cardinality(Alive(g))
  BY DEF Resources, Full, Held
<1>6. Resources(g) \in Nat  BY <1>4, <1>5, <1>a, <1>b, <1>c
<1>. QED  BY <1>2, <1>3, <1>4, <1>5, <1>6, <1>a, <1>b, <1>c

(* Less of one resource, and not more of another, is less. *)
LEMMA FewerResources ==
  ASSUME NEW g \in States, NEW k \in States,
         Held(k) <= Held(g), Cardinality(Full(k)) <= Cardinality(Full(g)),
         Cardinality(Alive(k)) <= Cardinality(Alive(g)),
         \/ Held(k) < Held(g) \/ Cardinality(Full(k)) < Cardinality(Full(g))
         \/ Cardinality(Alive(k)) < Cardinality(Alive(g))
  PROVE  Resources(k) < Resources(g)
<1>a. PICK a : a = Held(g)  OBVIOUS
<1>b. PICK b : b = Cardinality(Full(g))  OBVIOUS
<1>c. PICK c : c = Cardinality(Alive(g))  OBVIOUS
<1>x. PICK x : x = Held(k)  OBVIOUS
<1>y. PICK y : y = Cardinality(Full(k))  OBVIOUS
<1>z. PICK z : z = Cardinality(Alive(k))  OBVIOUS
<1>1. /\ a \in Nat /\ b \in Nat /\ c \in Nat /\ Resources(g) = a + b + c
  BY <1>a, <1>b, <1>c, ResourcesType
<1>2. /\ x \in Nat /\ y \in Nat /\ z \in Nat /\ Resources(k) = x + y + z
  BY <1>x, <1>y, <1>z, ResourcesType
<1>3. x <= a /\ y <= b /\ z <= c /\ (x < a \/ y < b \/ z < c)
  BY <1>a, <1>b, <1>c, <1>x, <1>y, <1>z
<1>4. x + y + z < a + b + c  BY <1>1, <1>2, <1>3
<1>. QED  BY <1>1, <1>2, <1>4

(* Nobody comes to life by being hurt. *)
LEMMA HurtAllLeaves ==
  ASSUME NEW g \in States, NEW M, NEW d \in Nat
  PROVE  Alive(HurtAll(g, M, d)) \subseteq Alive(g)
<1>h. PICK h : h = HurtAll(g, M, d)  OBVIOUS
<1>. DEFINE fs == [m \in DOMAIN g.foes |-> IF m \in M THEN Hurt(g.foes[m], d) ELSE g.foes[m]]
<1>1. h = [g EXCEPT !.foes = fs]  BY <1>h DEF HurtAll
<1>2. \A m \in DOMAIN g.foes : fs[m].hp > 0 => g.foes[m].hp > 0  BY StateParts, HurtKeeps
<1>3. DOMAIN fs = DOMAIN g.foes  OBVIOUS
<1>. HIDE DEF fs
<1>4. h.foes = fs  BY <1>1 DEF States
<1>. QED  BY <1>2, <1>3, <1>4, <1>h DEF Alive

(* A card that is played, a potion that is drunk and a foe that is killed  *)
(* are used up, and nothing is added.                                      *)
LEMMA PlayedUses ==
  ASSUME NEW g \in States, NEW d, d.type = "play_card", Accepted(g, d), NEW k \in Played(g, d)
  PROVE  Resources(k) < Resources(g)
<1>. DEFINE c == g.hand[d.at]
            M == CardTargets(g, c, d.target)
            h == HurtAll(g, M, c.damage)
<1>u. PICK u : u = Used(g, d)  OBVIOUS
<1>1. c.damage \in Nat  BY StateParts, CardParts DEF Accepted
<1>2. Alive(h) \subseteq Alive(g)
  <2>. HIDE DEF M
  <2>. QED  BY <1>1, HurtAllLeaves
<1>3. /\ u \in States /\ u.foes = h.foes /\ u.potions = g.potions
      /\ Len(u.hand) = Len(g.hand) - 1 /\ Len(u.pile) = Len(g.pile)
  BY <1>u, UsedParts
<1>. HIDE DEF c, M, h
<1>4. /\ k \in States /\ k.potions = u.potions /\ Alive(k) = Alive(u)
      /\ Held(k) <= Held(u)
  BY <1>u, PlayedLeaves DEF Leaves
<1>5. Full(k) = Full(g)  BY <1>3, <1>4 DEF Full
<1>6. Cardinality(Alive(k)) <= Cardinality(Alive(g))
  <2>1. Alive(u) = Alive(h)  BY <1>3 DEF Alive
  <2>. QED  BY <1>2, <1>4, <2>1, ResourcesType, FS_Subset
<1>7. Held(k) < Held(g)
  <2>a. PICK a : a = Len(g.hand)  OBVIOUS
  <2>b. PICK b : b = Len(g.pile)  OBVIOUS
  <2>1. a \in Nat /\ b \in Nat  BY <2>a, <2>b, StateParts
  <2>2. Held(g) = a + b /\ Held(u) = (a - 1) + b  BY <1>3, <2>a, <2>b, HeldIs
  <2>3. Held(k) \in Nat  BY <1>4, HeldType
  <2>. QED  BY <1>4, <2>1, <2>2, <2>3
<1>8. Held(k) <= Held(g)  BY <1>4, <1>7, HeldType
<1>9. Cardinality(Full(k)) <= Cardinality(Full(g))  BY <1>5, ResourcesType
<1>. QED  BY <1>4, <1>6, <1>7, <1>8, <1>9, FewerResources

LEMMA DrunkUses ==
  ASSUME NEW g \in States, NEW d, d.type = "use_potion", Accepted(g, d)
  PROVE  Resources(Drunk(g, d)) < Resources(g)
<1>. DEFINE M == EnemyByIndex(g, d.target)
<1>h. PICK h : h = IF g.potions[d.at] = "fire" THEN HurtAll(g, M, PotionDamage)
                   ELSE [g EXCEPT !.block = g.block + PotionBlock]
  OBVIOUS
<1>k. PICK k : k = Drunk(g, d)  OBVIOUS
<1>1. d.at \in DOMAIN g.potions /\ g.potions[d.at] # "none"  BY DEF Accepted, CanUse
<1>2. /\ h \in States /\ h.hand = g.hand /\ h.pile = g.pile /\ h.potions = g.potions
      /\ Alive(h) \subseteq Alive(g)
  <2>1. CASE g.potions[d.at] = "fire"
    <3>1. PotionDamage \in Nat  BY DEF PotionDamage
    <3>2. h = HurtAll(g, M, PotionDamage)  BY <1>h, <2>1
    <3>. HIDE DEF M
    <3>. QED  BY <3>1, <3>2, HurtAllType, HurtAllLeaves
  <2>2. CASE g.potions[d.at] # "fire"
    <3>1. g.block + PotionBlock \in Nat  BY StateParts DEF PotionBlock
    <3>2. h = [g EXCEPT !.block = g.block + PotionBlock]  BY <1>h, <2>2
    <3>3. /\ h \in States /\ h.hand = g.hand /\ h.pile = g.pile /\ h.potions = g.potions
          /\ h.foes = g.foes
      BY <3>1, <3>2 DEF States
    <3>. QED  BY <3>3 DEF Alive
  <2>. QED  BY <2>1, <2>2
<1>3. k = [h EXCEPT !.potions[d.at] = "none"]  BY <1>h, <1>k DEF Drunk
<1>4. /\ k.hand = g.hand /\ k.pile = g.pile /\ k.foes = h.foes
      /\ k.potions = [g.potions EXCEPT ![d.at] = "none"]
  BY <1>2, <1>3 DEF States
<1>5. Full(k) = Full(g) \ {d.at} /\ d.at \in Full(g)  BY <1>1, <1>4 DEF Full
<1>6. Cardinality(Full(k)) = Cardinality(Full(g)) - 1
  BY <1>5, ResourcesType, FS_RemoveElement
<1>7. Cardinality(Alive(k)) <= Cardinality(Alive(g))
  <2>1. Alive(k) \subseteq Alive(g)  BY <1>2, <1>4 DEF Alive
  <2>. QED  BY <2>1, ResourcesType, FS_Subset
<1>8. k \in States  BY <1>k, DrunkType
<1>9. Held(k) <= Held(g)
  <2>1. Held(k) = Held(g)  BY <1>4 DEF Held
  <2>. QED  BY <2>1, HeldType
<1>10. Cardinality(Full(k)) < Cardinality(Full(g))  BY <1>6, ResourcesType
<1>11. Cardinality(Full(k)) <= Cardinality(Full(g))  BY <1>6, ResourcesType
<1>12. Resources(k) < Resources(g)  BY <1>7, <1>8, <1>9, <1>10, <1>11, FewerResources
<1>. QED  BY <1>12, <1>k

LEMMA KilledUses ==
  ASSUME NEW g \in States, NEW m \in Hittable(g)
  PROVE  Resources([g EXCEPT !.foes[m].hp = 0]) < Resources(g)
<1>k. PICK k : k = [g EXCEPT !.foes[m].hp = 0]  OBVIOUS
<1>. DEFINE f == [g.foes[m] EXCEPT !.hp = 0]
            fs == [g.foes EXCEPT ![m] = f]
<1>1. m \in DOMAIN g.foes /\ m \in Alive(g) /\ g.foes[m] \in Foes  BY FoeSets, StateParts
<1>2. f.hp = 0  BY <1>1 DEF Foes
<1>3. k = [g EXCEPT !.foes = fs]  BY <1>k
<1>. HIDE DEF f
<1>4. DOMAIN fs = DOMAIN g.foes /\ fs[m] = f /\ \A n \in DOMAIN g.foes : n # m => fs[n] = g.foes[n]
  BY <1>1
<1>. HIDE DEF fs
<1>5. k.hand = g.hand /\ k.pile = g.pile /\ k.potions = g.potions /\ k.foes = fs  BY <1>3 DEF States
<1>6. Alive(k) = Alive(g) \ {m}  BY <1>1, <1>2, <1>4, <1>5 DEF Alive
<1>7. Cardinality(Alive(k)) = Cardinality(Alive(g)) - 1
  BY <1>1, <1>6, ResourcesType, FS_RemoveElement
<1>8. Full(k) = Full(g)  BY <1>5 DEF Full
<1>9. k \in States  BY <1>k, KilledType
<1>10. Held(k) <= Held(g)
  <2>1. Held(k) = Held(g)  BY <1>5 DEF Held
  <2>. QED  BY <2>1, HeldType
<1>11. Cardinality(Full(k)) <= Cardinality(Full(g))  BY <1>8, ResourcesType
<1>12. Cardinality(Alive(k)) < Cardinality(Alive(g))  BY <1>7, ResourcesType
<1>13. Cardinality(Alive(k)) <= Cardinality(Alive(g))  BY <1>7, ResourcesType
<1>14. Resources(k) < Resources(g)  BY <1>9, <1>10, <1>11, <1>12, <1>13, FewerResources
<1>. QED  BY <1>14, <1>k

(* A decision is never the one that stands for none. *)
LEMMA AgentDecides ==
  ASSUME IInv, AutoEnd \/ Decide \/ Ask
  PROVE  decision' # NoDecision
<1>1. CASE AutoEnd  BY <1>1 DEF AutoEnd, EndTurn, NoDecision
<1>2. CASE Decide
  <2>1. PICK C, c : decision' = Guarded(game, C, c)  BY <1>2 DEF Decide
  <2>2. \E i, t : decision' \in {EndTurn, PlayCard(i, t), UsePotion(i, t)}
    BY <2>1 DEF Guarded, ForceBlock, FromCandidate
  <2>. QED  BY <2>2 DEF EndTurn, PlayCard, UsePotion, NoDecision
<1>3. CASE Ask
  <2>. DEFINE valid == {d \in Commands(game) : Valid(game, d)}
              thoughts == Thoughts(Commands(game), PlayCard(1, 1))
  <2>1. decision' \in Decided(thoughts, valid, Fallback(game))  BY <1>3 DEF Ask
  <2>2. PICK x \in thoughts : decision' \in IF x \intersect valid # {} THEN x ELSE {Fallback(game)}
    BY <2>1 DEF Decided
  <2>3. \A d \in x : d \in Commands(game) \/ d = PlayCard(1, 1)
    BY <2>2, <1>3 DEF Thoughts, Ask, LanguageModels
  <2>4. NoDecision # EndTurn /\ \A i, t : NoDecision # PlayCard(i, t) /\ NoDecision # UsePotion(i, t)
    BY DEF EndTurn, PlayCard, UsePotion, NoDecision
  <2>5. NoDecision \notin Commands(game)
    <3>1. \A d \in Commands(game) : d = EndTurn \/ \E i, t : d = PlayCard(i, t) \/ d = UsePotion(i, t)
      BY DEF Commands
    <3>. QED  BY <2>4, <3>1
  <2>. QED  BY <2>2, <2>3, <2>4, <2>5 DEF Fallback
<1>. QED  BY <1>1, <1>2, <1>3

(* What a step uses up is worth more than what a new decision costs.       *)
LEMMA UsingShrinks ==
  ASSUME NEW n \in Nat, NEW k \in Nat, k < n, over = "no", Resources(game) = n, Resources(game') = k
  PROVE  StepsLeft' < StepsLeft
<1>1. StepsLeft' <= 3 * k + 3  BY DEF StepsLeft
<1>2. StepsLeft >= 3 * n + 1  BY DEF StepsLeft
<1>3. StepsLeft \in Nat /\ StepsLeft' \in Nat  BY DEF StepsLeft
<1>. QED  BY <1>1, <1>2, <1>3

LEMMA StepShrinks ==
  ASSUME IInv, [Next]_<<vars, policy>>
  PROVE  [over = "no" /\ game.leads => StepsLeft' < StepsLeft]_vars
<1>. SUFFICES ASSUME over = "no", game.leads, Next, vars' # vars PROVE StepsLeft' < StepsLeft
  BY DEF vars
<1>0. game \in States /\ Resources(game) \in Nat  BY ResourcesType DEF IInv, TypeOK
<1>1. CASE AutoEnd \/ Decide \/ Ask
  <2>1. decision' # NoDecision  BY <1>1, AgentDecides
  <2>2. decision = NoDecision /\ seen' = game' /\ game' = game /\ over' = over
    BY <1>1 DEF AutoEnd, Decide, Ask, Ready
  <2>. QED  BY <1>0, <2>1, <2>2 DEF StepsLeft
<1>2. CASE Plays
  <2>1. Resources(game') < Resources(game) /\ game' \in States
    BY <1>0, <1>2, PlayedUses, PlayedType DEF Plays, Executing
  <2>. QED  BY <1>0, <2>1, UsingShrinks, ResourcesType
<1>3. CASE Drinks
  <2>1. Resources(game') < Resources(game) /\ game' \in States
    BY <1>0, <1>3, DrunkUses, DrunkType DEF Drinks, Executing
  <2>. QED  BY <1>0, <2>1, UsingShrinks, ResourcesType
<1>4. CASE Ends
  BY <1>0, <1>4 DEF Ends, StepsLeft
<1>5. CASE Refuses
  <2>1. seen # game /\ decision # NoDecision  BY <1>5 DEF Refuses, IInv
  <2>2. UNCHANGED <<game, seen, over>> /\ decision' = NoDecision  BY <1>5 DEF Refuses
  <2>. QED  BY <1>0, <2>1, <2>2 DEF StepsLeft
<1>6. ASSUME NEW m \in DOMAIN game.foes, MateKills(m) PROVE StepsLeft' < StepsLeft
  <2>1. Resources(game') < Resources(game) /\ game' \in States
    BY <1>0, <1>6, KilledUses, KilledType DEF MateKills, Falls
  <2>. QED  BY <1>0, <2>1, UsingShrinks, ResourcesType
<1>7. ~Over /\ ~ActsForAnother  BY DEF Over, ActsForAnother, GetPlayer
<1>. QED  BY <1>1, <1>2, <1>3, <1>4, <1>5, <1>6, <1>7 DEF Next, ModStep

(* The invariant holds in every state of a turn. *)
THEOREM Invariance == Spec => []IInv
BY InitInvariant, StepInvariant, PTL DEF Spec

(* The types of the state, and every decision within the reading that it   *)
(* answers: an index of its hand or of its potions, and a target that is   *)
(* a place among the foes that can be hit.                                 *)
THEOREM Typed == Spec => []TypeOK
<1>1. IInv => TypeOK  BY DEF IInv
<1>. QED  BY <1>1, Invariance, PTL

(* A decision of any policy, of the guardrail, of a language model or of   *)
(* its fallback is accepted as long as the game is what was read and the   *)
(* mod acts for the player it was read for, the first of the combat's.     *)
THEOREM NeverRefusedUnchanged == Spec => []AcceptedUnlessChanged
<1>1. IInv => AcceptedUnlessChanged
  BY DEF IInv, AcceptedUnlessChanged
<1>. QED  BY <1>1, Invariance, PTL

(* Once minimum_defense has called for a sequence with block, no play, no  *)
(* potion, no teammate and no change of plan from card to card leads to    *)
(* the end of the turn before a card with block is played, an attacker     *)
(* dies or a card's effect exhausts or alters others: for every hand,      *)
(* however many sequences are looked at, whatever is drawn, for the local  *)
(* or a learned policy and all foes.                                       *)
THEOREM DefendedWhenWarned == Spec => []DefendsWhenWarned
<1>1. Init => OwedInv  BY OwedBegins DEF Init
<1>2. IInv /\ OwedInv /\ [Next]_<<vars, policy>> => OwedInv'  BY OwedGoesOn
<1>. QED  BY <1>1, <1>2, InitInvariant, StepInvariant, OwedIsPaid, PTL DEF Spec

(* A turn of the first of the combat's players never goes round in         *)
(* circles, whatever its cards draw, exhaust and alter, whoever decides and*)
(* whatever teammates kill: each step uses up one of at most 3 * (cards in *)
(* hand and to be drawn + potions + foes) + 2.                             *)
THEOREM TurnIsShort == Spec => TurnShrinks
<1>1. IInv /\ [Next]_<<vars, policy>> => [over = "no" /\ game.leads => StepsLeft' < StepsLeft]_vars
  BY StepShrinks
<1>. QED  BY <1>1, InitInvariant, StepInvariant, PTL DEF Spec, TurnShrinks
==============================================================================
