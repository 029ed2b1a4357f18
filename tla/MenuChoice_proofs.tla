-------------------------- MODULE MenuChoice_proofs --------------------------
(* What the mod offers and what the agent chooses, for every screen: an    *)
(* option of a reading clicks a control of the scene, an unknown screen    *)
(* with something to click has an option, a lethal choice is open only     *)
(* where every choice is lethal, and what is chosen is an enabled option.  *)
EXTENDS MenuChoice, FiniteChoice_proofs

(***************************************************************************)
(* Sequences and selections.                                               *)
(***************************************************************************)
LEMMA SeqOfFunction ==
  ASSUME NEW A, NEW q \in Seq(A), NEW T, NEW f \in [DOMAIN q -> T]
  PROVE  f \in Seq(T) /\ Len(f) = Len(q) /\ DOMAIN f = DOMAIN q
<1>1. Len(q) \in Nat /\ DOMAIN q = 1..Len(q)  OBVIOUS
<1>2. f \in [1..Len(q) -> T]  BY <1>1
<1>. QED  BY <1>1, <1>2

LEMMA SeqOfMore ==
  ASSUME NEW A, NEW B, A \subseteq B, NEW q \in Seq(A)
  PROVE  q \in Seq(B)
OBVIOUS

LEMMA SeqOfValues ==
  ASSUME NEW T, NEW q \in Seq(T), NEW R, \A k \in DOMAIN q : q[k] \in R
  PROVE  q \in Seq(R)
<1>1. Len(q) \in Nat /\ q \in [1..Len(q) -> R]  OBVIOUS
<1>. QED  BY <1>1

(* A sequence consists of its elements. *)
LEMMA OwnElements ==
  ASSUME NEW T, NEW q \in Seq(T)
  PROVE  q \in Seq(Range(q))
<1>1. \A k \in DOMAIN q : q[k] \in Range(q)  BY DEF Range
<1>. QED  BY <1>1, SeqOfValues

LEMMA Concatenation ==
  ASSUME NEW T, NEW q \in Seq(T), NEW r \in Seq(T)
  PROVE  /\ q \o r \in Seq(T)
         /\ q # << >> \/ r # << >> => q \o r # << >>
OBVIOUS

LEMMA RangeOfBoth ==
  ASSUME NEW T, NEW q \in Seq(T), NEW r \in Seq(T)
  PROVE  /\ Range(q \o r) = Range(q) \union Range(r)
         /\ Len(q) \in Nat /\ Len(r) \in Nat /\ Len(q \o r) = Len(q) + Len(r)
<1>p. PICK p : p = q \o r  OBVIOUS
<1>1. /\ p \in Seq(T) /\ Len(p) = Len(q) + Len(r) /\ Len(q) \in Nat /\ Len(r) \in Nat
      /\ DOMAIN p = 1..Len(p) /\ DOMAIN q = 1..Len(q) /\ DOMAIN r = 1..Len(r)
  BY <1>p
<1>2. \A i \in DOMAIN q : i \in DOMAIN p /\ p[i] = q[i]  BY <1>1, <1>p
<1>3. \A i \in DOMAIN r : Len(q) + i \in DOMAIN p /\ p[Len(q) + i] = r[i]  BY <1>1, <1>p
<1>4. ASSUME NEW i \in DOMAIN p PROVE p[i] \in Range(q) \union Range(r)
  <2>1. CASE i <= Len(q)
    <3>1. i \in DOMAIN q  BY <1>1, <2>1
    <3>. QED  BY <1>2, <3>1 DEF Range
  <2>2. CASE ~(i <= Len(q))
    <3>1. i - Len(q) \in DOMAIN r /\ Len(q) + (i - Len(q)) = i  BY <1>1, <2>2
    <3>2. p[i] = r[i - Len(q)]  BY <1>3, <3>1
    <3>. QED  BY <3>1, <3>2 DEF Range
  <2>. QED  BY <2>1, <2>2
<1>5. Range(q) \subseteq Range(p)  BY <1>2 DEF Range
<1>6. Range(r) \subseteq Range(p)  BY <1>3 DEF Range
<1>7. Range(p) \subseteq Range(q) \union Range(r)  BY <1>4 DEF Range
<1>. QED  BY <1>1, <1>5, <1>6, <1>7, <1>p

(***************************************************************************)
(* Options for the controls of a set, and those that are enabled.          *)
(***************************************************************************)
Kinds == {"proceed", "skip", "confirm", "open_chest", "back", "choice", "fallback",
          "continue_run", "singleplayer", "character", "start_run", "discard_potion", "card",
          "map", "crystal_cell", "continue", "main_menu", "rest", "open_shop", "buy", "event"}
         \union RewardKinds

OptionType == [kind : Kinds, words : SUBSET (STRING \union Kinds), enabled : BOOLEAN,
               selected : BOOLEAN, card : Faces, control : Controls]

OptionsFor(C) == {o \in OptionType : o.control \in C}
OpenFor(C)    == {o \in OptionsFor(C) : o.enabled}

LEMMA OptionOf ==
  ASSUME NEW C \in SUBSET Controls, NEW c \in C, NEW kind \in Kinds,
         NEW more \in SUBSET Kinds, NEW enabled \in BOOLEAN
  PROVE  /\ Option(c, kind, more, enabled) \in OptionsFor(C)
         /\ Option(c, kind, more, enabled).control = c
         /\ Option(c, kind, more, enabled).enabled = enabled
         /\ enabled => Option(c, kind, more, enabled) \in OpenFor(C)
<1>1. c.text \in SUBSET STRING  BY DEF Controls
<1>2. {kind} \union c.text \union more \in SUBSET (STRING \union Kinds)  BY <1>1
<1>3. Option(c, kind, more, enabled) \in OptionType
  BY <1>2, NoCardAssumption DEF Option, OptionType
<1>4. /\ Option(c, kind, more, enabled).control = c
      /\ Option(c, kind, more, enabled).enabled = enabled
  BY DEF Option
<1>. QED  BY <1>3, <1>4 DEF OptionsFor, OpenFor

(* The controls of a class. *)
LEMMA OfClass ==
  ASSUME NEW C, NEW cs \in Seq(C), NEW class
  PROVE  Of(cs, class) \in Seq(C)
BY AtElements DEF Of, Such

LEMMA ClickableControls ==
  ASSUME NEW C, NEW cs \in Seq(C)
  PROVE  Clickables(cs) \in Seq(C)
BY AtElements DEF Clickables, Such

LEMMA KindsOfControls ==
  ASSUME NEW c
  PROVE  KindOf(c) \in Kinds /\ MainMenuChoiceKind(c) \in Kinds /\ RewardKind(c) \in Kinds
<1>1. KindOf(c) \in {"proceed", "skip", "confirm", "open_chest", "back", "choice"}
  BY DEF KindOf
<1>2. MainMenuChoiceKind(c) \in {"continue_run", "singleplayer", "character", "start_run", "confirm"}
  BY DEF MainMenuChoiceKind
<1>3. RewardKind(c) \in RewardKinds
  BY DEF RewardKind, RewardKinds
<1>. QED  BY <1>1, <1>2, <1>3 DEF Kinds

LEMMA NamedOptions ==
  ASSUME NEW C \in SUBSET Controls, NEW cs \in Seq(C), NEW W
  PROVE  Named(cs, W) \in Seq(OpenFor(C))
<1>. DEFINE named == Such(Clickables(cs), LAMBDA c : Shown(c) /\ ~Unsafe(c) /\ Says(c, W))
<1>1. named \in Seq(C)
  BY ClickableControls, AtElements DEF Such
<1>2. \A c \in C : Option(c, KindOf(c), {}, TRUE) \in OpenFor(C)
  BY OptionOf, KindsOfControls
<1>3. Named(cs, W) = [k \in DOMAIN named |-> Option(named[k], KindOf(named[k]), {}, TRUE)]
  BY DEF Named, Options
<1>. HIDE DEF named
<1>4. \A k \in DOMAIN named : named[k] \in C  BY <1>1
<1>5. Named(cs, W) \in [DOMAIN named -> OpenFor(C)]  BY <1>2, <1>3, <1>4
<1>. QED  BY <1>1, <1>5, SeqOfFunction

LEMMA NothingIsSeq ==
  ASSUME NEW T
  PROVE  << >> \in Seq(T)
OBVIOUS

LEMMA OpenIsOption ==
  ASSUME NEW C, NEW q \in Seq(OpenFor(C))
  PROVE  q \in Seq(OptionsFor(C))
BY SeqOfMore DEF OpenFor

LEMMA UpToBrokenControls ==
  ASSUME NEW C, NEW cs \in Seq(C)
  PROVE  UpToBroken(cs) \in Seq(C)
<1>1. CASE Whole(cs)
  BY <1>1 DEF UpToBroken
<1>2. CASE ~Whole(cs)
  <2>. DEFINE I == {i \in 1..Len(cs) : "broken" \in cs[i].is}
  <2>1. I # {} /\ I \in SUBSET Nat  BY <1>2 DEF Whole
  <2>2. UpToBroken(cs) = SubSeq(cs, 1, Min(I) - 1)
    BY <1>2, <2>1 DEF UpToBroken, SelectInSeq
  <2>3. Min(I) \in 1..Len(cs)  BY <2>1, MinOfNaturals
  <2>. HIDE DEF I
  <2>. QED  BY <2>2, <2>3
<1>. QED  BY <1>1, <1>2

LEMMA ProceedOptions ==
  ASSUME NEW C \in SUBSET Controls, NEW cs \in Seq(C)
  PROVE  Proceeds(cs) \in Seq(OpenFor(C))
<1>. DEFINE shown == Such(Of(cs, "proceed"), Shown)
            kind(c) == IF "skips" \in c.is THEN "skip" ELSE "proceed"
<1>1. shown \in Seq(C)
  BY OfClass, AtElements DEF Such
<1>2. \A c \in C : Option(c, kind(c), {"continue"}, TRUE) \in OpenFor(C)
  <2>1. \A c \in C : kind(c) \in Kinds /\ {"continue"} \in SUBSET Kinds  BY DEF Kinds
  <2>. HIDE DEF kind
  <2>. QED  BY <2>1, OptionOf
<1>3. Proceeds(cs) = [k \in DOMAIN shown |-> Option(shown[k], kind(shown[k]), {"continue"}, TRUE)]
  BY DEF Proceeds, Options
<1>. HIDE DEF shown, kind
<1>4. \A k \in DOMAIN shown : shown[k] \in C  BY <1>1
<1>5. Proceeds(cs) \in [DOMAIN shown -> OpenFor(C)]  BY <1>2, <1>3, <1>4
<1>. QED  BY <1>1, <1>5, SeqOfFunction

(* Options that are all of one kind and enabled. *)
LEMMA PlainOptions ==
  ASSUME NEW C \in SUBSET Controls, NEW cs \in Seq(C), NEW kind \in Kinds,
         NEW f, f = [k \in DOMAIN cs |-> Option(cs[k], kind, {}, TRUE)]
  PROVE  f \in Seq(OpenFor(C))
<1>1. \A c \in C : Option(c, kind, {}, TRUE) \in OpenFor(C)  BY OptionOf
<1>2. \A k \in DOMAIN cs : cs[k] \in C  OBVIOUS
<1>3. f \in [DOMAIN cs -> OpenFor(C)]  BY <1>1, <1>2
<1>. QED  BY <1>3, SeqOfFunction

LEMMA MainMenuOptions ==
  ASSUME NEW C \in SUBSET Controls, NEW cs \in Seq(C)
  PROVE  MainMenuChoices(cs) \in Seq(OpenFor(C))
<1>. DEFINE saved   == Such(cs, LAMBDA c : Shown(c) /\ Says(c, {"continue"}))
            offered == Such(cs, LAMBDA c : /\ Shown(c) /\ ~Unsafe(c) /\ Says(c, MenuWords)
                                              /\ ~Says(c, OffLimits)
                                           /\ ~Says(c, {"continue"}))
            all     == saved \o offered
<1>1. saved \in Seq(C) /\ offered \in Seq(C)
  BY AtElements DEF Such
<1>2. MainMenuChoices(cs) =
        [k \in DOMAIN all |-> Option(all[k], MainMenuChoiceKind(all[k]), {}, TRUE)]
  BY DEF MainMenuChoices, Options
<1>. HIDE DEF saved, offered
<1>3. all \in Seq(C)  BY <1>1, Concatenation
<1>. HIDE DEF all
<1>4. \A c \in C : Option(c, MainMenuChoiceKind(c), {}, TRUE) \in OpenFor(C)
  BY OptionOf, KindsOfControls
<1>5. \A k \in DOMAIN all : all[k] \in C  BY <1>3
<1>6. MainMenuChoices(cs) \in [DOMAIN all -> OpenFor(C)]  BY <1>2, <1>4, <1>5
<1>. QED  BY <1>3, <1>6, SeqOfFunction

LEMMA MapOptions ==
  ASSUME NEW C \in SUBSET Controls, NEW cs \in Seq(C)
  PROVE  MapChoices(cs) \in Seq(OpenFor(C))
<1>. DEFINE points == Such(Of(cs, "point"), LAMBDA c : "enabled" \in c.is)
<1>1. points \in Seq(C)  BY OfClass, AtElements DEF Such
<1>2. MapChoices(cs) = [k \in DOMAIN points |-> Option(points[k], "map", {}, TRUE)]
  BY DEF MapChoices, Options
<1>3. "map" \in Kinds  BY DEF Kinds
<1>. HIDE DEF points
<1>. QED  BY <1>1, <1>2, <1>3, PlainOptions

LEMMA RewardOptions ==
  ASSUME NEW C \in SUBSET Controls, NEW cs \in Seq(C), NEW full
  PROVE  RewardChoices(cs, full) \in Seq(OptionsFor(C))
<1>. DEFINE rewards == UpToBroken(Of(cs, "reward"))
            listed  == Options(rewards, LAMBDA c : Option(c, RewardKind(c), {}, "enabled" \in c.is))
            held    == Options(Of(cs, "held"), LAMBDA c : Option(c, "discard_potion", {}, TRUE))
            belt    == full /\ \E i \in DOMAIN Of(cs, "reward") : Says(Of(cs, "reward")[i], {"potion"})
            more    == (IF belt THEN held ELSE << >>) \o Proceeds(cs)
            whole   == Whole(Of(cs, "reward"))
<1>1. rewards \in Seq(C) /\ Of(cs, "held") \in Seq(C)
  BY OfClass, UpToBrokenControls
<1>2. listed \in Seq(OptionsFor(C))
  <2>1. \A c \in C : Option(c, RewardKind(c), {}, "enabled" \in c.is) \in OptionsFor(C)
    <3>1. TAKE c \in C
    <3>. DEFINE enabled == "enabled" \in c.is
    <3>2. enabled \in BOOLEAN /\ RewardKind(c) \in Kinds  BY KindsOfControls
    <3>. HIDE DEF enabled
    <3>3. Option(c, RewardKind(c), {}, enabled) \in OptionsFor(C)  BY <3>2, OptionOf
    <3>. QED  BY <3>3 DEF enabled
  <2>2. listed = [k \in DOMAIN rewards |-> Option(rewards[k], RewardKind(rewards[k]), {},
                                                  "enabled" \in rewards[k].is)]
    BY DEF Options
  <2>. HIDE DEF rewards, listed
  <2>3. \A k \in DOMAIN rewards : rewards[k] \in C  BY <1>1
  <2>4. listed \in [DOMAIN rewards -> OptionsFor(C)]  BY <2>1, <2>2, <2>3
  <2>. QED  BY <1>1, <2>4, SeqOfFunction
<1>3. held \in Seq(OptionsFor(C))
  <2>1. "discard_potion" \in Kinds  BY DEF Kinds
  <2>2. held = [k \in DOMAIN Of(cs, "held") |-> Option(Of(cs, "held")[k], "discard_potion", {}, TRUE)]
    BY DEF Options
  <2>. QED  BY <1>1, <2>1, <2>2, PlainOptions, OpenIsOption
<1>4. Proceeds(cs) \in Seq(OptionsFor(C))
  BY ProceedOptions, OpenIsOption
<1>5. RewardChoices(cs, full) = listed \o (IF whole THEN more ELSE << >>)
  BY DEF RewardChoices, Listed
<1>. HIDE DEF listed, held, belt, whole
<1>. QED  BY <1>2, <1>3, <1>4, <1>5, Concatenation, NothingIsSeq

LEMMA CardShown ==
  ASSUME NEW C, NEW o \in OpenFor(C), NEW selected \in BOOLEAN, NEW face \in Faces
  PROVE  [o EXCEPT !.selected = selected, !.card = face] \in OpenFor(C)
<1>. DEFINE p == [o EXCEPT !.selected = selected, !.card = face]
<1>1. o \in OptionType /\ o.control \in C /\ o.enabled  BY DEF OpenFor, OptionsFor
<1>2. p \in OptionType  BY <1>1 DEF OptionType
<1>3. p.control = o.control /\ p.enabled = o.enabled  BY <1>1 DEF OptionType
<1>. QED  BY <1>1, <1>2, <1>3 DEF OpenFor, OptionsFor

(* The option of a card is the card; no other option clicks one.           *)
CardFor(C) ==
    {o \in OpenFor(C) : o.control.class = "card" =>
        o.kind = "card" /\ o.words = {"card"} \union o.control.text /\ o.card = o.control.card}

LEMMA NamedAreNoCards ==
  ASSUME NEW C \in SUBSET Controls, NEW cs \in Seq(C), NEW W
  PROVE  Named(cs, W) \in Seq(CardFor(C))
<1>. DEFINE cliques == {i \in DOMAIN cs : cs[i].class \notin {"held", "card", "slot", "merchant"}}
            B == {c \in C : c.class # "card"}
<1>1. Clickables(cs) \in Seq(B)
  <2>1. \A i \in cliques : cs[i] \in B  OBVIOUS
  <2>. QED  BY <2>1, AtElements DEF Clickables, Such
<1>. DEFINE named == Such(Clickables(cs), LAMBDA c : Shown(c) /\ ~Unsafe(c) /\ Says(c, W))
<1>2. named \in Seq(B)
  <2>. HIDE DEF B
  <2>. QED  BY <1>1, AtElements DEF Such
<1>o. \A c \in C : Option(c, KindOf(c), {}, TRUE) \in OpenFor(C)
  BY OptionOf, KindsOfControls
<1>3. ASSUME NEW c \in B PROVE Option(c, KindOf(c), {}, TRUE) \in CardFor(C)
  <2>o. PICK o : o = Option(c, KindOf(c), {}, TRUE)  OBVIOUS
  <2>1. o \in OpenFor(C)  BY <1>o, <2>o
  <2>2. o.control = c  BY <2>o DEF Option
  <2>. QED  BY <2>1, <2>2, <2>o DEF CardFor
<1>4. Named(cs, W) = [k \in DOMAIN named |-> Option(named[k], KindOf(named[k]), {}, TRUE)]
  BY DEF Named, Options
<1>. HIDE DEF named, B
<1>5. \A k \in DOMAIN named : named[k] \in B  BY <1>2
<1>6. Named(cs, W) \in [DOMAIN named -> CardFor(C)]  BY <1>3, <1>4, <1>5
<1>. QED  BY <1>2, <1>6, SeqOfFunction

LEMMA CardsAreShown ==
  ASSUME NEW C \in SUBSET Controls, NEW cs \in Seq(C)
  PROVE  CardChoices(cs) \in Seq(CardFor(C))
<1>. DEFINE cards   == UpToBroken(Of(cs, "card"))
            face(c) == [Option(c, "card", {}, TRUE) EXCEPT !.selected = "selected" \in c.is,
                                                           !.card = c.card]
            listed  == Options(cards, LAMBDA c : face(c))
            words   == {"confirm", "skip", "cancel", "proceed", "alternative"}
            whole   == Whole(Of(cs, "card"))
<1>1. cards \in Seq(C)  BY OfClass, UpToBrokenControls
<1>2. ASSUME NEW c \in C PROVE face(c) \in CardFor(C)
  <2>. DEFINE o == Option(c, "card", {}, TRUE)
              selected == "selected" \in c.is
  <2>1. "card" \in Kinds  BY DEF Kinds
  <2>2. o \in OpenFor(C)  BY <2>1, OptionOf
  <2>3. c.card \in Faces /\ selected \in BOOLEAN  BY DEF Controls
  <2>4. o.control = c /\ o.kind = "card" /\ o.words = {"card"} \union c.text
    BY DEF Option
  <2>5. face(c) = [o EXCEPT !.selected = selected, !.card = c.card]  OBVIOUS
  <2>. HIDE DEF o, selected, face
  <2>p. PICK p : p = [o EXCEPT !.selected = selected, !.card = c.card]  OBVIOUS
  <2>6. p \in OpenFor(C)  BY <2>2, <2>3, <2>p, CardShown
  <2>7. o \in OptionType  BY <2>2 DEF OpenFor, OptionsFor
  <2>8. p.control = c /\ p.kind = "card" /\ p.words = {"card"} \union c.text /\ p.card = c.card
    BY <2>4, <2>7, <2>p DEF OptionType
  <2>. QED  BY <2>5, <2>6, <2>8, <2>p DEF CardFor
<1>3. listed = [k \in DOMAIN cards |-> face(cards[k])]  BY DEF Options
<1>4. CardChoices(cs) = listed \o (IF whole THEN Named(cs, words) ELSE << >>)
  BY DEF CardChoices, Listed
<1>. HIDE DEF cards, face, listed, words, whole
<1>5. \A k \in DOMAIN cards : cards[k] \in C  BY <1>1
<1>6. listed \in [DOMAIN cards -> CardFor(C)]  BY <1>2, <1>3, <1>5
<1>7. listed \in Seq(CardFor(C))  BY <1>1, <1>6, SeqOfFunction
<1>. QED  BY <1>4, <1>7, NamedAreNoCards, Concatenation, NothingIsSeq

LEMMA CardOptions ==
  ASSUME NEW C \in SUBSET Controls, NEW cs \in Seq(C)
  PROVE  CardChoices(cs) \in Seq(OpenFor(C))
<1>1. CardFor(C) \subseteq OpenFor(C)  BY DEF CardFor
<1>. QED  BY <1>1, CardsAreShown, SeqOfMore

LEMMA RelicOptions ==
  ASSUME NEW C \in SUBSET Controls, NEW cs \in Seq(C)
  PROVE  RelicChoices(cs) \in Seq(OpenFor(C))
<1>. DEFINE relics == UpToBroken(Of(cs, "relic"))
            listed == Options(relics, LAMBDA c : Option(c, "relic", {}, TRUE))
            words  == {"skip", "proceed", "confirm"}
            whole  == Whole(Of(cs, "relic"))
<1>1. relics \in Seq(C)  BY OfClass, UpToBrokenControls
<1>2. listed = [k \in DOMAIN relics |-> Option(relics[k], "relic", {}, TRUE)]  BY DEF Options
<1>3. RelicChoices(cs) = listed \o (IF whole THEN Named(cs, words) ELSE << >>)
  BY DEF RelicChoices, Listed
<1>4. "relic" \in Kinds  BY DEF Kinds, RewardKinds
<1>. HIDE DEF relics, listed, words, whole
<1>5. listed \in Seq(OpenFor(C))  BY <1>1, <1>2, <1>4, PlainOptions
<1>. QED  BY <1>3, <1>5, NamedOptions, Concatenation, NothingIsSeq

LEMMA CrystalSphereOptions ==
  ASSUME NEW C \in SUBSET Controls, NEW cs \in Seq(C)
  PROVE  CrystalSphereChoices(cs) \in Seq(OpenFor(C))
<1>. DEFINE leave == Such(Of(cs, "proceed"), Shown)
            cells == Such(Of(cs, "cell"), LAMBDA c : Shown(c) /\ "hidden" \in c.is)
            out   == Options(leave, LAMBDA c : Option(c, "proceed", {}, TRUE))
            on    == Options(cells, LAMBDA c : Option(c, "crystal_cell", {}, TRUE))
<1>1. leave \in Seq(C) /\ cells \in Seq(C)  BY OfClass, AtElements DEF Such
<1>2. /\ out = [k \in DOMAIN leave |-> Option(leave[k], "proceed", {}, TRUE)]
      /\ on = [k \in DOMAIN cells |-> Option(cells[k], "crystal_cell", {}, TRUE)]
  BY DEF Options
<1>3. CrystalSphereChoices(cs) = IF leave # << >> THEN out ELSE on
  BY DEF CrystalSphereChoices
<1>4. "proceed" \in Kinds /\ "crystal_cell" \in Kinds  BY DEF Kinds
<1>. HIDE DEF leave, cells, out, on
<1>5. out \in Seq(OpenFor(C)) /\ on \in Seq(OpenFor(C))
  BY <1>1, <1>2, <1>4, PlainOptions
<1>. QED  BY <1>3, <1>5

LEMMA GameOverOptions ==
  ASSUME NEW C \in SUBSET Controls, NEW cs \in Seq(C)
  PROVE  GameOverChoices(cs) \in Seq(OpenFor(C))
<1>. DEFINE summary == Such(Of(cs, "summary"), Shown)
            return  == Such(Of(cs, "return"), Shown)
            first   == Options(summary, LAMBDA c : Option(c, "continue", {}, TRUE))
            second  == Options(return, LAMBDA c : Option(c, "main_menu", {}, TRUE))
<1>1. summary \in Seq(C) /\ return \in Seq(C)  BY OfClass, AtElements DEF Such
<1>2. /\ first = [k \in DOMAIN summary |-> Option(summary[k], "continue", {}, TRUE)]
      /\ second = [k \in DOMAIN return |-> Option(return[k], "main_menu", {}, TRUE)]
  BY DEF Options
<1>3. GameOverChoices(cs) = first \o second
  BY DEF GameOverChoices
<1>4. "continue" \in Kinds /\ "main_menu" \in Kinds  BY DEF Kinds
<1>. HIDE DEF summary, return, first, second
<1>5. first \in Seq(OpenFor(C)) /\ second \in Seq(OpenFor(C))
  BY <1>1, <1>2, <1>4, PlainOptions
<1>. QED  BY <1>3, <1>5, Concatenation

LEMMA RestOptions ==
  ASSUME NEW C \in SUBSET Controls, NEW cs \in Seq(C)
  PROVE  RestChoices(cs) \in Seq(OptionsFor(C))
<1>. DEFINE places == UpToBroken(Of(cs, "rest"))
            listed == Options(places, LAMBDA c : Option(c, "rest", {}, "enabled" \in c.is))
            whole  == Whole(Of(cs, "rest"))
<1>1. places \in Seq(C)  BY OfClass, UpToBrokenControls
<1>2. \A c \in C : Option(c, "rest", {}, "enabled" \in c.is) \in OptionsFor(C)
  <2>1. TAKE c \in C
  <2>. DEFINE enabled == "enabled" \in c.is
  <2>2. enabled \in BOOLEAN /\ "rest" \in Kinds  BY DEF Kinds
  <2>. HIDE DEF enabled
  <2>3. Option(c, "rest", {}, enabled) \in OptionsFor(C)  BY <2>2, OptionOf
  <2>. QED  BY <2>3 DEF enabled
<1>3. listed = [k \in DOMAIN places |-> Option(places[k], "rest", {}, "enabled" \in places[k].is)]
  BY DEF Options
<1>4. RestChoices(cs) = listed \o (IF whole THEN Proceeds(cs) ELSE << >>)
  BY DEF RestChoices, Listed
<1>. HIDE DEF places, listed, whole
<1>5. \A k \in DOMAIN places : places[k] \in C  BY <1>1
<1>6. listed \in [DOMAIN places -> OptionsFor(C)]  BY <1>2, <1>3, <1>5
<1>7. listed \in Seq(OptionsFor(C))  BY <1>1, <1>6, SeqOfFunction
<1>8. Proceeds(cs) \in Seq(OptionsFor(C))  BY ProceedOptions, OpenIsOption
<1>. QED  BY <1>4, <1>7, <1>8, Concatenation, NothingIsSeq

LEMMA ShopOptions ==
  ASSUME NEW C \in SUBSET Controls, NEW cs \in Seq(C)
  PROVE  ShopChoices(cs) \in Seq(OpenFor(C))
<1>. DEFINE wanted == Such(Of(cs, "slot"), LAMBDA c : {"stocked", "affordable"} \subseteq c.is)
            doors  == IF wanted = << >> THEN << >> ELSE Of(cs, "merchant")
            enter  == Options(doors, LAMBDA c : Option(c, "open_shop", {}, TRUE))
<1>1. doors \in Seq(C)
  <2>. HIDE DEF wanted
  <2>. QED  BY OfClass, NothingIsSeq
<1>2. enter = [k \in DOMAIN doors |-> Option(doors[k], "open_shop", {}, TRUE)]  BY DEF Options
<1>3. ShopChoices(cs) = enter \o Proceeds(cs)  BY DEF ShopChoices
<1>4. "open_shop" \in Kinds  BY DEF Kinds
<1>. HIDE DEF doors, enter
<1>5. enter \in Seq(OpenFor(C))  BY <1>1, <1>2, <1>4, PlainOptions
<1>. QED  BY <1>3, <1>5, ProceedOptions, Concatenation

LEMMA InventoryOptions ==
  ASSUME NEW C \in SUBSET Controls, NEW cs \in Seq(C)
  PROVE  InventoryChoices(cs) \in Seq(OptionsFor(C))
<1>. DEFINE stocked == Such(Of(cs, "slot"), LAMBDA c : "stocked" \in c.is)
            buy(c)  == [Option(c, "buy", {}, "affordable" \in c.is) EXCEPT !.card = c.card]
            listed  == Options(stocked, LAMBDA c : buy(c))
<1>1. stocked \in Seq(C)  BY OfClass, AtElements DEF Such
<1>2. ASSUME NEW c \in C PROVE buy(c) \in OptionsFor(C)
  <2>. DEFINE affordable == "affordable" \in c.is
              o == Option(c, "buy", {}, affordable)
  <2>1. affordable \in BOOLEAN /\ "buy" \in Kinds  BY DEF Kinds
  <2>2. c.card \in Faces  BY DEF Controls
  <2>3. buy(c) = [o EXCEPT !.card = c.card]  OBVIOUS
  <2>. HIDE DEF affordable, buy
  <2>4. o \in OptionsFor(C)  BY <2>1, OptionOf
  <2>. HIDE DEF o
  <2>5. o \in OptionType /\ o.control \in C  BY <2>4 DEF OptionsFor
  <2>6. [o EXCEPT !.card = c.card] \in OptionType
        /\ [o EXCEPT !.card = c.card].control = o.control
    BY <2>2, <2>5 DEF OptionType
  <2>. QED  BY <2>3, <2>5, <2>6 DEF OptionsFor
<1>3. listed = [k \in DOMAIN stocked |-> buy(stocked[k])]  BY DEF Options
<1>4. InventoryChoices(cs) = listed \o Named(cs, {"back"})  BY DEF InventoryChoices
<1>. HIDE DEF stocked, buy, listed
<1>5. \A k \in DOMAIN stocked : stocked[k] \in C  BY <1>1
<1>6. listed \in [DOMAIN stocked -> OptionsFor(C)]  BY <1>2, <1>3, <1>5
<1>7. listed \in Seq(OptionsFor(C))  BY <1>1, <1>6, SeqOfFunction
<1>8. Named(cs, {"back"}) \in Seq(OptionsFor(C))  BY NamedOptions, OpenIsOption
<1>. QED  BY <1>4, <1>7, <1>8, Concatenation

LEMMA VictoryOptions ==
  ASSUME NEW C \in SUBSET Controls, NEW s, s.victory \in Seq(C)
  PROVE  VictoryChoices(s) \in Seq(OpenFor(C))
<1>. DEFINE shown == Such(s.victory, Shown)
<1>1. shown \in Seq(C)  BY AtElements DEF Such
<1>2. VictoryChoices(s) = [k \in DOMAIN shown |-> Option(shown[k], "proceed", {}, TRUE)]
  BY DEF VictoryChoices, Options
<1>3. "proceed" \in Kinds  BY DEF Kinds
<1>. HIDE DEF shown
<1>. QED  BY <1>1, <1>2, <1>3, PlainOptions

(***************************************************************************)
(* Readings with options of a set.                                         *)
(***************************************************************************)
ScreenTypes == RoomTypes \union OverlayTypes \union
               {"", "IDLE", "MODAL", "MAIN_MENU", "MAP", "COMBAT", "VICTORY", "WAITING"}

Readings(O) == [type : ScreenTypes, options : Seq(O)]

LEMMA AddedReading ==
  ASSUME NEW O, NEW r \in Readings(O), NEW q \in Seq(O)
  PROVE  /\ Added(r, q) \in Readings(O)
         /\ Added(r, q).type = r.type
         /\ Added(r, q).options = r.options \o q
<1>1. r.options \o q \in Seq(O)  BY Concatenation DEF Readings
<1>. QED  BY <1>1 DEF Added, Readings

(* The last resort: with nothing else, what can be clicked is an option. *)
LastResort(cs) ==
    Options(Such(Clickables(cs), LAMBDA c : Shown(c) /\ ~Unsafe(c)),
            LAMBDA c : Option(c, "fallback", {}, TRUE))

IsSound(c) == c.class \notin {"held", "card", "slot", "merchant"} /\ Shown(c) /\ ~Unsafe(c)

LEMMA LastResortOptions ==
  ASSUME NEW C \in SUBSET Controls, NEW cs \in Seq(C)
  PROVE  /\ LastResort(cs) \in Seq(OpenFor(C))
         /\ (\E i \in DOMAIN cs : IsSound(cs[i])) => LastResort(cs) # << >>
<1>. DEFINE click == Clickables(cs)
            sound == Such(click, LAMBDA c : Shown(c) /\ ~Unsafe(c))
<1>1. click \in Seq(C)  BY ClickableControls
<1>2. sound \in Seq(C)
  <2>. HIDE DEF click
  <2>. QED  BY <1>1, AtElements DEF Such
<1>3. LastResort(cs) = [k \in DOMAIN sound |-> Option(sound[k], "fallback", {}, TRUE)]
  BY DEF LastResort, Options
<1>4. "fallback" \in Kinds  BY DEF Kinds
<1>5. ASSUME NEW i \in DOMAIN cs, IsSound(cs[i]) PROVE Len(sound) # 0
  <2>. DEFINE I == {j \in DOMAIN cs : cs[j].class \notin {"held", "card", "slot", "merchant"}}
              J == {j \in DOMAIN click : Shown(click[j]) /\ ~Unsafe(click[j])}
  <2>1. click = At(cs, I) /\ sound = At(click, J)  BY DEF Clickables, Such
  <2>2. i \in I  BY <1>5 DEF IsSound
  <2>3. PICK j \in DOMAIN At(cs, I) : At(cs, I)[j] = cs[i]
    <3>. HIDE DEF I
    <3>1. I \in SUBSET DOMAIN cs  BY DEF I
    <3>. QED  BY <2>2, <3>1, AtElements
  <2>4. j \in J  BY <1>5, <2>1, <2>3 DEF IsSound
  <2>5. PICK k \in DOMAIN At(click, J) : At(click, J)[k] = click[j]
    <3>. HIDE DEF J, click
    <3>1. J \in SUBSET DOMAIN click  BY DEF J
    <3>. QED  BY <1>1, <2>4, <3>1, AtElements
  <2>. HIDE DEF sound
  <2>. QED  BY <1>2, <2>1, <2>5
<1>. HIDE DEF sound, click
<1>6. LastResort(cs) \in Seq(OpenFor(C))  BY <1>2, <1>3, <1>4, PlainOptions
<1>7. DOMAIN LastResort(cs) = DOMAIN sound  BY <1>3
<1>8. Len(LastResort(cs)) = Len(sound)  BY <1>2, <1>6, <1>7
<1>. QED  BY <1>5, <1>6, <1>8

LEMMA FallbackReading ==
  ASSUME NEW C \in SUBSET Controls, NEW cs \in Seq(C), NEW O, OpenFor(C) \subseteq O,
         NEW r \in Readings(O)
  PROVE  /\ WithFallback(r, cs) \in Readings(O)
         /\ WithFallback(r, cs).type = r.type
         /\ r.options # << >> => WithFallback(r, cs) = r
         /\ r.options = << >> => WithFallback(r, cs).options = LastResort(cs)
<1>1. CASE r.options # << >>
  BY <1>1 DEF WithFallback
<1>2. CASE r.options = << >>
  <2>1. LastResort(cs) \in Seq(O)
    BY LastResortOptions, SeqOfMore
  <2>2. WithFallback(r, cs) = Added(r, LastResort(cs))  BY <1>2 DEF WithFallback, LastResort
  <2>3. << >> \o LastResort(cs) = LastResort(cs)  BY <2>1
  <2>. QED  BY <1>2, <2>1, <2>2, <2>3, AddedReading
<1>. QED  BY <1>1, <1>2

(* Something may be chosen. *)
HasOpen(q) == \E k \in DOMAIN q : q[k].enabled

(* So it is in a reading that has options at all. *)
Lively(r) == r.options # << >> => HasOpen(r.options)

LEMMA OpenHasOpen ==
  ASSUME NEW C, NEW q \in Seq(OpenFor(C)), q # << >>
  PROVE  HasOpen(q)
<1>1. Len(q) \in Nat /\ DOMAIN q = 1..Len(q) /\ Len(q) # 0  OBVIOUS
<1>2. 1 \in DOMAIN q  BY <1>1
<1>3. q[1] \in OpenFor(C)  BY <1>2
<1>. QED  BY <1>2, <1>3 DEF HasOpen, OpenFor

LEMMA ConcatenationHasOpen ==
  ASSUME NEW O, NEW q \in Seq(O), NEW r \in Seq(O), HasOpen(q) \/ HasOpen(r)
  PROVE  HasOpen(q \o r)
<1>1. /\ Len(q) \in Nat /\ DOMAIN q = 1..Len(q)
      /\ Len(r) \in Nat /\ DOMAIN r = 1..Len(r)
      /\ DOMAIN (q \o r) = 1..(Len(q) + Len(r))
  OBVIOUS
<1>2. CASE HasOpen(q)
  <2>1. PICK k \in DOMAIN q : q[k].enabled  BY <1>2 DEF HasOpen
  <2>2. k \in DOMAIN (q \o r) /\ (q \o r)[k] = q[k]  BY <1>1
  <2>. QED  BY <2>1, <2>2 DEF HasOpen
<1>3. CASE HasOpen(r)
  <2>1. PICK k \in DOMAIN r : r[k].enabled  BY <1>3 DEF HasOpen
  <2>2. Len(q) + k \in DOMAIN (q \o r) /\ (q \o r)[Len(q) + k] = r[k]  BY <1>1
  <2>. QED  BY <2>1, <2>2 DEF HasOpen
<1>. QED  BY <1>2, <1>3

(* The open choices of an event, and the options that do not let the agent *)
(* die where it need not.                                                  *)
IsChoice(c) == c.class = "event" /\ "enabled" \in c.is /\ "locked" \notin c.is

FineFor(C, cs) ==
    {o \in OptionsFor(C) : o.enabled /\ "lethal" \in o.control.is =>
                              \A i \in DOMAIN cs : IsChoice(cs[i]) => "lethal" \in cs[i].is}

EventOpen(cs) == Such(Of(cs, "event"), LAMBDA c : "enabled" \in c.is /\ "locked" \notin c.is)

LEMMA OpenChoices ==
  ASSUME NEW C, NEW cs \in Seq(C)
  PROVE  /\ EventOpen(cs) \in Seq(C)
         /\ \A i \in DOMAIN cs : IsChoice(cs[i]) =>
               \E k \in DOMAIN EventOpen(cs) : EventOpen(cs)[k] = cs[i]
<1>. DEFINE events == Of(cs, "event")
            I == {i \in DOMAIN cs : cs[i].class = "event"}
            J == {j \in DOMAIN events : "enabled" \in events[j].is /\ "locked" \notin events[j].is}
<1>1. events = At(cs, I) /\ EventOpen(cs) = At(events, J)  BY DEF EventOpen, Of, Such
<1>2. events \in Seq(C)  BY OfClass
<1>3. EventOpen(cs) \in Seq(C)
  <2>1. J \in SUBSET DOMAIN events  OBVIOUS
  <2>. HIDE DEF J, events
  <2>. QED  BY <1>1, <1>2, <2>1, AtElements
<1>4. ASSUME NEW i \in DOMAIN cs, IsChoice(cs[i])
      PROVE  \E k \in DOMAIN EventOpen(cs) : EventOpen(cs)[k] = cs[i]
  <2>1. i \in I  BY <1>4 DEF IsChoice
  <2>2. PICK j \in DOMAIN At(cs, I) : At(cs, I)[j] = cs[i]
    <3>1. I \in SUBSET DOMAIN cs  OBVIOUS
    <3>. HIDE DEF I
    <3>. QED  BY <2>1, <3>1, AtElements
  <2>3. j \in J  BY <1>1, <1>4, <2>2 DEF IsChoice
  <2>4. PICK k \in DOMAIN At(events, J) : At(events, J)[k] = events[j]
    <3>1. J \in SUBSET DOMAIN events  OBVIOUS
    <3>. HIDE DEF J, events
    <3>. QED  BY <1>2, <2>3, <3>1, AtElements
  <2>. QED  BY <1>1, <2>2, <2>4
<1>. QED  BY <1>3, <1>4

(* What is read of an event: the options that were there already, and fine *)
(* ones; and where something can be clicked, one of them is enabled.       *)
LEMMA EventOptions ==
  ASSUME NEW C \in SUBSET Controls, NEW cs \in Seq(C), NEW O, FineFor(C, cs) \subseteq O,
         NEW r \in Readings(O)
  PROVE  /\ EventReading(r, cs) \in Readings(O)
         /\ EventReading(r, cs).type = r.type
         /\ /\ Whole(Of(cs, "event")) /\ Clear(Of(cs, "event"))
            /\ Lively(r)
            /\ \E i \in DOMAIN cs : IsSound(cs[i])
            => HasOpen(EventReading(r, cs).options)
<1>. DEFINE open == EventOpen(cs)
            up == UpToBroken(open)
            kind(c) == IF Says(c, {"proceed"}) THEN "proceed" ELSE "event"
            listed == Options(up, LAMBDA c : Option(c, kind(c), {}, EventEnabled(c, open)))
            events == Added(r, listed)
            W == {"dialogue", "proceed", "continue", "cell"}
            named == Added(r, Named(cs, W))
            first == IF events.options # << >> THEN events ELSE named
            clear == Clear(Of(cs, "event"))
            whole == Whole(open)
<1>1. EventReading(r, cs) = IF ~clear THEN r
                            ELSE IF ~whole THEN events ELSE WithFallback(first, cs)
  BY DEF EventReading, EventOpen
<1>2. open \in Seq(C) /\ up \in Seq(C)  BY OpenChoices, UpToBrokenControls
<1>w. whole => up = open  BY DEF UpToBroken
<1>3. listed = [k \in DOMAIN up |-> Option(up[k], kind(up[k]), {}, EventEnabled(up[k], open))]
  BY DEF Options
<1>v. Whole(Of(cs, "event")) => whole
  <2>. DEFINE of == Of(cs, "event")
              J == {j \in DOMAIN of : "enabled" \in of[j].is /\ "locked" \notin of[j].is}
  <2>1. open = At(of, J) /\ J \in SUBSET DOMAIN of  BY DEF EventOpen, Such
  <2>2. of \in Seq(C)  BY OfClass
  <2>. HIDE DEF of, J, open
  <2>3. \A k \in DOMAIN open : \E j \in J : open[k] = of[j]  BY <2>1, <2>2, AtElements
  <2>. QED  BY <2>1, <2>3 DEF Whole, of
<1>4. ASSUME NEW c \in C
      PROVE  /\ Option(c, kind(c), {}, EventEnabled(c, open)) \in OptionsFor(C)
             /\ Option(c, kind(c), {}, EventEnabled(c, open)).control = c
             /\ Option(c, kind(c), {}, EventEnabled(c, open)).enabled = EventEnabled(c, open)
  <2>. DEFINE enabled == EventEnabled(c, open)
  <2>1. enabled \in BOOLEAN  BY DEF EventEnabled
  <2>2. kind(c) \in Kinds  BY DEF Kinds
  <2>. HIDE DEF enabled, kind
  <2>. QED  BY <2>1, <2>2, OptionOf DEF enabled
<1>5. \A k \in DOMAIN up : up[k] \in C  BY <1>2
<1>6. ASSUME NEW c, EventEnabled(c, open), "lethal" \in c.is,
             NEW i \in DOMAIN cs, IsChoice(cs[i])
      PROVE  "lethal" \in cs[i].is
  BY <1>6, OpenChoices DEF EventEnabled
<1>7. open # << >> => \E k \in DOMAIN open : EventEnabled(open[k], open)
  <2>1. CASE \E i \in DOMAIN open : "lethal" \notin open[i].is
    BY <2>1 DEF EventEnabled
  <2>2. CASE ~\E i \in DOMAIN open : "lethal" \notin open[i].is
    <3>1. open # << >> => 1 \in DOMAIN open
      <4>. HIDE DEF open
      <4>. QED  BY <1>2
    <3>. QED  BY <2>2, <3>1 DEF EventEnabled
  <2>. QED  BY <2>1, <2>2
<1>8. open = << >> => OpenFor(C) \subseteq O
  <2>1. SUFFICES ASSUME open = << >> PROVE OpenFor(C) \subseteq FineFor(C, cs)  OBVIOUS
  <2>2. \A i \in DOMAIN cs : ~IsChoice(cs[i])
    <3>1. DOMAIN open = {}  BY <2>1
    <3>. HIDE DEF open
    <3>2. \A i \in DOMAIN cs : IsChoice(cs[i]) => \E k \in DOMAIN open : open[k] = cs[i]
      BY OpenChoices DEF open
    <3>. QED  BY <3>1, <3>2
  <2>. QED  BY <2>2 DEF OpenFor, FineFor
<1>e. open = << >> => whole /\ up = << >>
  <2>1. open = << >> => DOMAIN open = {}  OBVIOUS
  <2>2. open = << >> => whole  BY <2>1 DEF Whole
  <2>. QED  BY <1>w, <2>2
<1>. HIDE DEF open, up, whole, clear
<1>9. /\ listed \in Seq(O)
      /\ whole /\ open # << >> => HasOpen(listed)
      /\ open = << >> => listed = << >>
  <2>. DEFINE option(c) == Option(c, kind(c), {}, EventEnabled(c, open))
  <2>1. listed = [k \in DOMAIN up |-> option(up[k])]  BY <1>3
  <2>2. \A c \in C : /\ option(c) \in OptionsFor(C)
                     /\ option(c).control = c
                     /\ option(c).enabled = EventEnabled(c, open)
    BY <1>4
  <2>. HIDE DEF option, listed
  <2>3. ASSUME NEW k \in DOMAIN up PROVE option(up[k]) \in FineFor(C, cs)
    BY <1>5, <1>6, <2>2 DEF FineFor
  <2>4. listed \in [DOMAIN up -> O]  BY <2>1, <2>3
  <2>5. listed \in Seq(O)  BY <1>2, <2>4, SeqOfFunction
  <2>6. whole /\ open # << >> => HasOpen(listed)
    BY <1>5, <1>7, <1>w, <2>1, <2>2 DEF HasOpen
  <2>7. open = << >> => listed = << >>
    <3>1. DOMAIN listed = DOMAIN up  BY <2>1
    <3>2. open = << >> => DOMAIN up = {}  BY <1>e
    <3>. QED  BY <2>5, <3>1, <3>2
  <2>. QED  BY <2>5, <2>6, <2>7
<1>. HIDE DEF kind, listed, W
<1>10. /\ events \in Readings(O)
       /\ events.type = r.type
       /\ events.options = r.options \o listed
  BY <1>9, AddedReading
<1>11. r.options \in Seq(O)  BY DEF Readings
<1>a. CASE ~clear
  BY <1>1, <1>a DEF clear
<1>b. CASE clear /\ ~whole
  BY <1>1, <1>10, <1>b, <1>v
<1>12. CASE clear /\ whole /\ open # << >>
  <2>1. HasOpen(events.options)  BY <1>9, <1>10, <1>11, <1>12, ConcatenationHasOpen
  <2>2. events.options # << >>  BY <2>1 DEF HasOpen
  <2>3. first = events  BY <2>2
  <2>. HIDE DEF first, events
  <2>4. WithFallback(first, cs) = events  BY <2>2, <2>3 DEF WithFallback
  <2>. QED  BY <1>1, <1>10, <1>12, <2>1, <2>4
<1>13. CASE clear /\ whole /\ open = << >>
  <2>1. OpenFor(C) \subseteq O /\ events.options = r.options
    <3>1. listed = << >>  BY <1>9, <1>13
    <3>. HIDE DEF events
    <3>. QED  BY <1>8, <1>10, <1>11, <1>13, <3>1
  <2>2. Named(cs, W) \in Seq(OpenFor(C))  BY NamedOptions
  <2>3. Named(cs, W) \in Seq(O)  BY <2>1, <2>2, SeqOfMore
  <2>4. /\ named \in Readings(O)
        /\ named.type = r.type
        /\ named.options = r.options \o Named(cs, W)
    BY <2>3, AddedReading
  <2>. HIDE DEF events, named
  <2>5. first \in Readings(O) /\ first.type = r.type  BY <1>10, <2>4
  <2>6. /\ WithFallback(first, cs) \in Readings(O)
        /\ WithFallback(first, cs).type = r.type
        /\ first.options # << >> => WithFallback(first, cs) = first
        /\ first.options = << >> => WithFallback(first, cs).options = LastResort(cs)
    <3>. HIDE DEF first
    <3>. QED  BY <2>1, <2>5, FallbackReading
  <2>7. ASSUME Lively(r),
               \E i \in DOMAIN cs : IsSound(cs[i])
        PROVE  HasOpen(WithFallback(first, cs).options)
    <3>1. CASE r.options # << >>
      <4>1. first = events  BY <2>1, <3>1
      <4>. HIDE DEF first
      <4>. QED  BY <2>1, <2>6, <2>7, <3>1, <4>1 DEF Lively
    <3>2. CASE r.options = << >>
      <4>1. first = named /\ named.options = Named(cs, W)
        <5>1. << >> \o Named(cs, W) = Named(cs, W)  BY <2>2
        <5>. QED  BY <2>1, <2>4, <3>2, <5>1
      <4>. HIDE DEF first
      <4>2. LastResort(cs) \in Seq(OpenFor(C)) /\ LastResort(cs) # << >>
        BY <2>7, LastResortOptions
      <4>3. HasOpen(LastResort(cs))  BY <4>2, OpenHasOpen
      <4>4. Named(cs, W) # << >> => HasOpen(Named(cs, W))  BY <2>2, OpenHasOpen
      <4>. QED  BY <2>6, <4>1, <4>3, <4>4
    <3>. QED  BY <3>1, <3>2
  <2>. HIDE DEF first
  <2>. QED  BY <1>1, <1>13, <2>6, <2>7
<1>. QED  BY <1>a, <1>b, <1>12, <1>13

(* A reading that enabled options, and else the last resort, are added to. *)
LEMMA ResortReading ==
  ASSUME NEW C \in SUBSET Controls, NEW q \in Seq(OpenFor(C)), NEW cs \in Seq(C),
         NEW O, OpenFor(C) \subseteq O, NEW r \in Readings(O)
  PROVE  /\ WithFallback(Added(r, q), cs) \in Readings(O)
         /\ WithFallback(Added(r, q), cs).type = r.type
         /\ Lively(r) => Lively(WithFallback(Added(r, q), cs))
         /\ Lively(r) /\ (\E i \in DOMAIN cs : IsSound(cs[i]))
            => HasOpen(WithFallback(Added(r, q), cs).options)
<1>. DEFINE added == Added(r, q)
<1>1. q \in Seq(O)  BY SeqOfMore
<1>2. added \in Readings(O) /\ added.type = r.type /\ added.options = r.options \o q
  BY <1>1, AddedReading
<1>3. r.options \in Seq(O)  BY DEF Readings
<1>. HIDE DEF added
<1>4. /\ WithFallback(added, cs) \in Readings(O)
      /\ WithFallback(added, cs).type = r.type
      /\ added.options # << >> => WithFallback(added, cs) = added
      /\ added.options = << >> => WithFallback(added, cs).options = LastResort(cs)
  BY <1>2, FallbackReading
<1>5. ASSUME Lively(r)
      PROVE  /\ Lively(WithFallback(added, cs))
             /\ (\E i \in DOMAIN cs : IsSound(cs[i])) => HasOpen(WithFallback(added, cs).options)
  <2>1. CASE r.options # << >> \/ q # << >>
    <3>1. HasOpen(r.options) \/ HasOpen(q)  BY <1>5, <2>1, OpenHasOpen DEF Lively
    <3>2. HasOpen(added.options)  BY <1>1, <1>2, <1>3, <3>1, ConcatenationHasOpen
    <3>3. added.options # << >>  BY <3>2 DEF HasOpen
    <3>. QED  BY <1>4, <3>2, <3>3 DEF Lively
  <2>2. CASE r.options = << >> /\ q = << >>
    <3>1. added.options = << >>  BY <1>2, <2>2
    <3>2. /\ LastResort(cs) \in Seq(OpenFor(C))
          /\ (\E i \in DOMAIN cs : IsSound(cs[i])) => LastResort(cs) # << >>
      BY LastResortOptions
    <3>3. LastResort(cs) # << >> => HasOpen(LastResort(cs))  BY <3>2, OpenHasOpen
    <3>. QED  BY <1>4, <3>1, <3>2, <3>3 DEF Lively
  <2>. QED  BY <2>1, <2>2
<1>. QED  BY <1>4, <1>5 DEF added

LEMMA TreasureOptions ==
  ASSUME NEW C \in SUBSET Controls, NEW cs \in Seq(C),
         NEW O, OpenFor(C) \subseteq O, NEW r \in Readings(O)
  PROVE  /\ TreasureReading(r, cs) \in Readings(O)
         /\ TreasureReading(r, cs).type = r.type
         /\ Lively(r) /\ (\E i \in DOMAIN cs : IsSound(cs[i]))
            => HasOpen(TreasureReading(r, cs).options)
<1>. DEFINE shown  == Such(UpToBroken(Of(cs, "relic")), Shown)
            relics == Options(shown, LAMBDA c : Option(c, "relic", {}, TRUE))
            q      == relics \o Named(cs, {"chest"}) \o Proceeds(cs)
<1>1. shown \in Seq(C)
  <2>1. UpToBroken(Of(cs, "relic")) \in Seq(C)  BY OfClass, UpToBrokenControls
  <2>. QED  BY <2>1, AtElements DEF Such
<1>2. relics = [k \in DOMAIN shown |-> Option(shown[k], "relic", {}, TRUE)]  BY DEF Options
<1>3. "relic" \in Kinds  BY DEF Kinds, RewardKinds
<1>4. TreasureReading(r, cs) = WithFallback(Added(r, q), cs)  BY DEF TreasureReading
<1>. HIDE DEF shown, relics
<1>5. relics \in Seq(OpenFor(C))  BY <1>1, <1>2, <1>3, PlainOptions
<1>6. Named(cs, {"chest"}) \in Seq(OpenFor(C)) /\ Proceeds(cs) \in Seq(OpenFor(C))
  BY NamedOptions, ProceedOptions
<1>7. q \in Seq(OpenFor(C))  BY <1>5, <1>6, Concatenation
<1>. HIDE DEF q
<1>. QED  BY <1>4, <1>7, ResortReading

LEMMA GenericOptions ==
  ASSUME NEW C \in SUBSET Controls, NEW cs \in Seq(C),
         NEW O, OpenFor(C) \subseteq O, NEW r \in Readings(O)
  PROVE  /\ GenericReading(r, cs) \in Readings(O)
         /\ GenericReading(r, cs).type = r.type
         /\ Lively(r) => Lively(GenericReading(r, cs))
         /\ /\ Whole(Of(cs, "card"))
            /\ Lively(r) /\ (\E i \in DOMAIN cs : IsSound(cs[i]))
            => HasOpen(GenericReading(r, cs).options)
<1>. DEFINE cards  == UpToBroken(Of(cs, "card"))
            listed == Options(cards, LAMBDA c : Option(c, "card", {}, TRUE))
            like   == Such(Clickables(cs), LAMBDA c : Shown(c) /\ ~Unsafe(c) /\ Says(c, ChoiceLike))
            rest   == Options(like, LAMBDA c : Option(c, KindOf(c), {}, TRUE))
            whole  == Whole(Of(cs, "card"))
            q      == listed \o (IF whole THEN rest ELSE << >>)
            last   == IF whole THEN cs ELSE << >>
<1>1. cards \in Seq(C) /\ like \in Seq(C)
  <2>1. cards \in Seq(C)  BY OfClass, UpToBrokenControls
  <2>2. like \in Seq(C)  BY ClickableControls, AtElements DEF Such
  <2>. QED  BY <2>1, <2>2
<1>2. listed = [k \in DOMAIN cards |-> Option(cards[k], "card", {}, TRUE)]  BY DEF Options
<1>3. rest = [k \in DOMAIN like |-> Option(like[k], KindOf(like[k]), {}, TRUE)]  BY DEF Options
<1>4. "card" \in Kinds  BY DEF Kinds
<1>5. GenericReading(r, cs) = WithFallback(Added(r, q), last)
  BY DEF GenericReading, Listed
<1>. HIDE DEF cards, listed, like, rest, whole
<1>6. listed \in Seq(OpenFor(C))  BY <1>1, <1>2, <1>4, PlainOptions
<1>7. rest \in Seq(OpenFor(C))
  <2>1. \A c \in C : Option(c, KindOf(c), {}, TRUE) \in OpenFor(C)
    BY OptionOf, KindsOfControls
  <2>2. \A k \in DOMAIN like : like[k] \in C  BY <1>1
  <2>3. rest \in [DOMAIN like -> OpenFor(C)]  BY <1>3, <2>1, <2>2
  <2>. QED  BY <1>1, <2>3, SeqOfFunction
<1>8. q \in Seq(OpenFor(C))  BY <1>6, <1>7, Concatenation, NothingIsSeq
<1>9. last \in Seq(C) /\ (whole => last = cs)  BY NothingIsSeq
<1>. HIDE DEF q, last
<1>10. /\ GenericReading(r, cs) \in Readings(O)
       /\ GenericReading(r, cs).type = r.type
       /\ Lively(r) => Lively(GenericReading(r, cs))
       /\ Lively(r) /\ (\E i \in DOMAIN last : IsSound(last[i]))
          => HasOpen(GenericReading(r, cs).options)
  BY <1>5, <1>8, <1>9, ResortReading
<1>. QED  BY <1>9, <1>10 DEF whole

(***************************************************************************)
(* The screens: what a builder makes of a layer.                           *)
(***************************************************************************)
TypeOf(layer) == IF layer.type = "INVENTORY" THEN "SHOP" ELSE layer.type

LEMMA BuiltReading ==
  ASSUME NEW C \in SUBSET Controls, NEW layer, layer.controls \in Seq(C),
         layer.type \in RoomTypes \union OverlayTypes \union {"MODAL", "MAIN_MENU", "MAP"},
         NEW O, FineFor(C, layer.controls) \subseteq O, NEW r \in Readings(O),
         layer.type = "EVENT" \/ OptionsFor(C) \subseteq O, NEW s
  PROVE  /\ Built(s, r, layer) \in Readings(O)
         /\ Built(s, r, layer).type = TypeOf(layer)
         /\ Lively(r) /\ layer.type \in {"none", "MAIN_MENU", "MAP"} => Lively(Built(s, r, layer))
         /\ /\ Lively(r) /\ Whole(layer.controls) /\ Clear(layer.controls)
            /\ layer.type \in {"EVENT", "TREASURE", "SPECIAL_EVENT", "BUNDLE_SELECT"}
            /\ \E i \in DOMAIN layer.controls : IsSound(layer.controls[i])
            => HasOpen(Built(s, r, layer).options)
<1>. DEFINE cs == layer.controls
            typed == [r EXCEPT !.type = TypeOf(layer)]
            q == CASE layer.type = "MAIN_MENU"      -> MainMenuChoices(cs)
                   [] layer.type = "REWARDS"        -> RewardChoices(cs, s.fullBelt)
                   [] layer.type \in CardScreens    -> CardChoices(cs)
                   [] layer.type = "RELIC_SELECT"   -> RelicChoices(cs)
                   [] layer.type = "MAP"            -> MapChoices(cs)
                   [] layer.type = "CRYSTAL_SPHERE" -> CrystalSphereChoices(cs)
                   [] layer.type = "GAME_OVER"      -> GameOverChoices(cs)
                   [] layer.type = "REST"           -> RestChoices(cs)
                   [] layer.type = "SHOP"           -> ShopChoices(cs)
                   [] layer.type = "INVENTORY"      -> InventoryChoices(cs)
            Listing == {"MAIN_MENU", "REWARDS", "CARD_REWARD", "CARD_SELECT", "RELIC_SELECT", "MAP",
                        "CRYSTAL_SPHERE", "GAME_OVER", "REST", "SHOP", "INVENTORY"}
<1>1. TypeOf(layer) \in ScreenTypes
  BY DEF TypeOf, ScreenTypes, RoomTypes, OverlayTypes
<1>2. typed \in Readings(O) /\ typed.type = TypeOf(layer) /\ typed.options = r.options
  BY <1>1 DEF Readings
<1>3. Lively(r) => Lively(typed)  BY <1>2 DEF Lively
<1>4. \A class : /\ Whole(cs) => Whole(Of(cs, class))
                 /\ Clear(cs) => Clear(Of(cs, class))
  <2>1. TAKE class
  <2>. DEFINE I == {i \in DOMAIN cs : cs[i].class = class}
  <2>2. Of(cs, class) = At(cs, I)  BY DEF Of, Such
  <2>3. \A k \in DOMAIN At(cs, I) : \E i \in I : At(cs, I)[k] = cs[i]
    <3>1. I \in SUBSET DOMAIN cs  OBVIOUS
    <3>. HIDE DEF I
    <3>. QED  BY <3>1, AtElements
  <2>. QED  BY <2>2, <2>3 DEF Whole, Clear
<1>5. CASE layer.type = "EVENT"
  <2>1. Built(s, r, layer) = EventReading(typed, cs)
    BY <1>5 DEF Built, TypeOf, CardScreens
  <2>. HIDE DEF typed
  <2>. QED  BY <1>2, <1>3, <1>4, <1>5, <2>1, EventOptions
<1>6. CASE layer.type # "EVENT"
  <2>1. OptionsFor(C) \subseteq O /\ OpenFor(C) \subseteq O  BY <1>6 DEF OpenFor
  <2>2. CASE layer.type = "TREASURE"
    <3>1. Built(s, r, layer) = TreasureReading(typed, cs)
      BY <2>2 DEF Built, TypeOf, CardScreens
    <3>. HIDE DEF typed
    <3>. QED  BY <1>2, <1>3, <2>1, <2>2, <3>1, TreasureOptions
  <2>3. CASE layer.type \in Listing
    <3>1. Built(s, r, layer) = Added(typed, q)
      BY <2>3 DEF Built, TypeOf, CardScreens
    <3>2. q \in Seq(OptionsFor(C))
      BY <2>3, MainMenuOptions, RewardOptions, CardOptions, RelicOptions, MapOptions,
         CrystalSphereOptions, GameOverOptions, RestOptions, ShopOptions, InventoryOptions,
         OpenIsOption DEF CardScreens
    <3>3. layer.type \in {"MAIN_MENU", "MAP"} => q \in Seq(OpenFor(C))
      BY MainMenuOptions, MapOptions DEF CardScreens
    <3>. HIDE DEF typed, q
    <3>4. q \in Seq(O)  BY <2>1, <3>2, SeqOfMore
    <3>5. Added(typed, q) \in Readings(O) /\ Added(typed, q).type = typed.type
          /\ Added(typed, q).options = typed.options \o q
      BY <1>2, <3>4, AddedReading
    <3>6. ASSUME Lively(typed), q \in Seq(OpenFor(C)) PROVE Lively(Added(typed, q))
      <4>1. typed.options \in Seq(O)  BY <1>2 DEF Readings
      <4>2. SUFFICES ASSUME typed.options \o q # << >> PROVE HasOpen(typed.options \o q)
        BY <3>5 DEF Lively
      <4>3. typed.options # << >> \/ q # << >>  BY <4>1, <4>2, <3>4
      <4>4. HasOpen(typed.options) \/ HasOpen(q)  BY <3>6, <4>3, OpenHasOpen DEF Lively
      <4>. QED  BY <3>4, <4>1, <4>4, ConcatenationHasOpen
    <3>. QED  BY <1>2, <1>3, <2>3, <3>1, <3>3, <3>5, <3>6
  <2>4. CASE layer.type \in {"none", "MODAL", "SPECIAL_EVENT", "BUNDLE_SELECT"}
    <3>1. Built(s, r, layer) = GenericReading(typed, cs)
      BY <2>4 DEF Built, TypeOf, CardScreens
    <3>. HIDE DEF typed
    <3>. QED  BY <1>2, <1>3, <1>4, <2>1, <2>4, <3>1, GenericOptions
  <2>. QED  BY <1>6, <2>2, <2>3, <2>4 DEF RoomTypes, OverlayTypes
<1>. QED  BY <1>5, <1>6

(***************************************************************************)
(* What a way through the map is worth.                                    *)
(***************************************************************************)
(* The operators of the modules that are instances are these.              *)
LEMMA SameOperators ==
  ASSUME NEW q, NEW I
  PROVE  /\ Route!FlattenSeq(q) = FlattenSeq(q)
         /\ Route!SumFunction(q) = SumFunction(q)
         /\ Route!Range(q) = Range(q)
         /\ Route!Max(q) = Max(q) /\ Route!Min(q) = Min(q) /\ Deck!Min(q) = Min(q)
         /\ Route!Cardinality(q) = Cardinality(q) /\ Deck!Cardinality(q) = Cardinality(q)
         /\ Route!IsFiniteSet(q) = IsFiniteSet(q)
         /\ Route!At(q, I) = At(q, I)
<1>1. Route!FlattenSeq(q) = FlattenSeq(q)
  BY DEF Route!FlattenSeq, FlattenSeq
<1>2. Route!SumFunction(q) = SumFunction(q)
  BY DEF SumFunction, SumFunctionOnSet, FoldFunctionOnSet, MapThenFoldSet,
         Route!SumFunction, Route!SumFunctionOnSet, Route!FoldFunctionOnSet, Route!MapThenFoldSet
<1>3. Route!Range(q) = Range(q)  BY DEF Range, Route!Range
<1>4. Route!Max(q) = Max(q) /\ Route!Min(q) = Min(q) /\ Deck!Min(q) = Min(q)
  BY DEF Max, Min, Route!Max, Route!Min, Deck!Min
<1>5. Route!Cardinality(q) = Cardinality(q) /\ Deck!Cardinality(q) = Cardinality(q)
  BY DEF Cardinality, Route!Cardinality, Deck!Cardinality
<1>6. Route!IsFiniteSet(q) = IsFiniteSet(q)
  BY DEF IsFiniteSet, Route!IsFiniteSet
<1>7. Route!At(q, I) = At(q, I)
  BY DEF At, Route!At, Cardinality, Route!Cardinality
<1>. QED  BY <1>1, <1>2, <1>3, <1>4, <1>5, <1>6, <1>7

LEMMA OneElement ==
  ASSUME NEW T, NEW x \in T
  PROVE  <<x>> \in Seq(T) /\ <<x>> # << >>
OBVIOUS

(* Sequences joined to one. *)
Joined(q) == CHOOSE f : f = [i \in 1..Len(q) |-> IF i = 1 THEN q[i] ELSE f[i-1] \o q[i]]

LEMMA JoinedSequences ==
  ASSUME NEW T, NEW q \in Seq(Seq(T))
  PROVE  /\ FlattenSeq(q) \in Seq(T)
         /\ Range(FlattenSeq(q)) = UNION {Range(q[i]) : i \in DOMAIN q}
         /\ \A i \in DOMAIN q : Len(q[i]) <= Len(FlattenSeq(q))
<1>. DEFINE n == Len(q)
            X == 1..n
            Step(f) == [i \in X |-> IF i = 1 THEN q[i] ELSE f[i-1] \o q[i]]
            G == [f \in [X -> Seq(T)] |-> Step(f)]
            m == [i \in X |-> i]
<1>1. n \in Nat /\ \A i \in X : q[i] \in Seq(T)  OBVIOUS
<1>2. CASE n = 0
  <2>1. FlattenSeq(q) = q /\ q = << >> /\ DOMAIN q = {}  BY <1>2 DEF FlattenSeq
  <2>2. Range(q) = {}  BY <2>1 DEF Range
  <2>3. q \in Seq(T)  BY <2>1
  <2>4. UNION {Range(q[i]) : i \in DOMAIN q} = {}  BY <2>1
  <2>. QED  BY <2>1, <2>2, <2>3, <2>4
<1>3. CASE n # 0
  <2>1. FlattenSeq(q) = Joined(q)[n]
    BY <1>3 DEF FlattenSeq, Joined
  <2>2. ASSUME NEW f \in [X -> Seq(T)], NEW i \in X
        PROVE  (IF i = 1 THEN q[i] ELSE f[i-1] \o q[i]) \in Seq(T)
    <3>1. i # 1 => i - 1 \in X  BY <1>1
    <3>2. i # 1 => f[i - 1] \in Seq(T)  BY <3>1
    <3>. QED  BY <1>1, <3>2, Concatenation
  <2>3. G \in [[X -> Seq(T)] -> [X -> Seq(T)]]
    <3>1. \A f \in [X -> Seq(T)] : Step(f) \in [X -> Seq(T)]  BY <2>2
    <3>. HIDE DEF Step
    <3>. QED  BY <3>1
  <2>4. m \in [X -> 0..n] /\ m \in [X -> Nat]  BY <1>1
  <2>5. ASSUME NEW f \in [X -> Seq(T)], NEW h \in [X -> Seq(T)], NEW i \in X,
               \A j \in X : m[j] < m[i] => f[j] = h[j]
        PROVE  G[f][i] = G[h][i]
    <3>1. i # 1 => i - 1 \in X /\ m[i - 1] < m[i]  BY <1>1
    <3>2. i # 1 => f[i - 1] = h[i - 1]  BY <2>5, <3>1
    <3>. QED  BY <3>2
  <2>6. \E f \in [X -> Seq(T)] : f = G[f]
    <3>1. << >> \in Seq(T)  OBVIOUS
    <3>2. IsRecursion(G, m, n, X, Seq(T))
      <4>. HIDE DEF G, m, X
      <4>. QED  BY <1>1, <2>3, <2>4, <2>5, <3>1 DEF IsRecursion
    <3>. HIDE DEF G, m, X
    <3>. QED  BY <3>2, RecursionExists
  <2>7. Joined(q) = Step(Joined(q))
    <3>1. \E f : f = Step(f)  BY <2>6
    <3>2. Joined(q) = CHOOSE f : f = Step(f)  BY DEF Joined
    <3>. HIDE DEF Step
    <3>. QED  BY <3>1, <3>2
  <2>. DEFINE g == Joined(q)
              P == {i \in X : /\ g[i] \in Seq(T)
                              /\ Range(g[i]) = UNION {Range(q[j]) : j \in 1..i}
                              /\ \A j \in 1..i : Len(q[j]) <= Len(g[i])}
  <2>8. \A i \in X : g[i] = IF i = 1 THEN q[i] ELSE g[i-1] \o q[i]
    <3>. HIDE DEF g
    <3>1. g = Step(g)  BY <2>7 DEF g
    <3>. QED  BY <3>1
  <2>. HIDE DEF g
  <2>9. ASSUME NEW i \in X, \A j \in X : m[j] < m[i] => j \in P
        PROVE  i \in P
    <3>1. CASE i = 1
      <4>1. g[i] = q[i] /\ 1..i = {i}  BY <1>1, <2>8, <3>1
      <4>2. UNION {Range(q[j]) : j \in {i}} = Range(q[i])  OBVIOUS
      <4>3. q[i] \in Seq(T) /\ Len(q[i]) \in Nat  BY <1>1
      <4>. QED  BY <4>1, <4>2, <4>3
    <3>2. CASE i # 1
      <4>1. i - 1 \in X /\ m[i - 1] < m[i]  BY <1>1, <3>2
      <4>2. i - 1 \in P
        <5>. HIDE DEF P, m, X
        <5>. QED  BY <2>9, <4>1
      <4>a. PICK a : a = g[i - 1]  OBVIOUS
      <4>b. PICK b : b = q[i]  OBVIOUS
      <4>3. a \in Seq(T) /\ b \in Seq(T) /\ g[i] = a \o b
        BY <1>1, <2>8, <3>2, <4>2, <4>a, <4>b
      <4>4. /\ a \o b \in Seq(T) /\ Range(a \o b) = Range(a) \union Range(b)
            /\ Len(a) \in Nat /\ Len(b) \in Nat /\ Len(a \o b) = Len(a) + Len(b)
        BY <4>3, Concatenation, RangeOfBoth
      <4>5. 1..i = (1..(i - 1)) \union {i}  BY <1>1, <3>2
      <4>6. Range(g[i]) = UNION {Range(q[j]) : j \in 1..i}
        <5>1. Range(a) = UNION {Range(q[j]) : j \in 1..(i - 1)}  BY <4>2, <4>a
        <5>. QED  BY <4>3, <4>4, <4>5, <4>b, <5>1
      <4>7. ASSUME NEW j \in 1..i PROVE Len(q[j]) <= Len(g[i])
        <5>1. CASE j = i  BY <4>3, <4>4, <4>b, <5>1
        <5>2. CASE j # i
          <6>1. j \in 1..(i - 1) /\ j \in X  BY <1>1, <5>2
          <6>2. Len(q[j]) <= Len(a)  BY <4>2, <4>a, <6>1
          <6>3. Len(q[j]) \in Nat  BY <1>1, <6>1
          <6>. QED  BY <4>3, <4>4, <6>2, <6>3
        <5>. QED  BY <5>1, <5>2
      <4>. QED  BY <4>3, <4>4, <4>6, <4>7
    <3>. QED  BY <3>1, <3>2
  <2>10. X \subseteq P
    <3>. HIDE DEF m, X, P
    <3>. QED  BY <2>4, <2>9, NoFirstException
  <2>11. n \in X /\ DOMAIN q = 1..n  BY <1>1, <1>3
  <2>12. n \in P  BY <2>10, <2>11
  <2>. QED  BY <2>1, <2>11, <2>12 DEF g
<1>. QED  BY <1>2, <1>3

(* What is kept is a part, and all if it is shorter than it may be.        *)
LEMMA KeptPart ==
  ASSUME NEW T, NEW q \in Seq(T)
  PROVE  /\ Route!Kept(q) \in Seq(T)
         /\ Range(Route!Kept(q)) \subseteq Range(q)
         /\ q # << >> => Route!Kept(q) # << >>
         /\ Len(Route!Kept(q)) < Route!PathLimit => Route!Kept(q) = q
<1>n. PICK n : n = Len(q)  OBVIOUS
<1>l. PICK l : l = Min({256, n})  OBVIOUS
<1>1. Route!PathLimit = 256  BY DEF Route!PathLimit
<1>2. Route!Kept(q) = SubSeq(q, 1, l)  BY <1>1, <1>n, <1>l, SameOperators DEF Route!Kept
<1>3. n \in Nat /\ n \in Int /\ 256 \in Int /\ DOMAIN q = 1..n  BY <1>n
<1>4. l \in {256, n} /\ l <= 256 /\ l <= n
  <2>a. PICK a : a = 256  OBVIOUS
  <2>1. a \in Int /\ l = Min({a, n})  BY <1>l, <2>a
  <2>2. Min({a, n}) \in {a, n}  BY <1>3, <2>1, MinOfTwo
  <2>3. Min({a, n}) <= a  BY <1>3, <2>1, MinOfTwo
  <2>4. Min({a, n}) <= n  BY <1>3, <2>1, MinOfTwo
  <2>. QED  BY <2>1, <2>2, <2>3, <2>4, <2>a
<1>5. l \in 0..n  BY <1>3, <1>4
<1>k. PICK k : k = SubSeq(q, 1, l)  OBVIOUS
<1>6. k \in Seq(T) /\ Len(k) = l /\ DOMAIN k = 1..l /\ \A i \in 1..l : k[i] = q[i]
  BY <1>3, <1>5, <1>k, <1>n
<1>7. Range(k) \subseteq Range(q)
  <2>1. \A i \in DOMAIN k : i \in DOMAIN q /\ k[i] = q[i]  BY <1>3, <1>5, <1>6
  <2>. QED  BY <2>1 DEF Range
<1>8. q # << >> => k # << >>
  <2>1. q # << >> => n # 0  BY <1>n
  <2>2. n # 0 => l # 0  BY <1>4
  <2>3. k = << >> => Len(k) = 0  OBVIOUS
  <2>. QED  BY <1>6, <2>1, <2>2, <2>3
<1>9. Len(k) < 256 => k = q
  <2>1. SUFFICES ASSUME l < 256 PROVE k = q  BY <1>6
  <2>2. l = n  BY <1>4, <2>1
  <2>. QED  BY <1>3, <1>6, <1>n, <2>2
<1>. QED  BY <1>1, <1>2, <1>6, <1>7, <1>8, <1>9, <1>k

(* Route!Paths, step by step. *)
PathsFrom(map, f, x) ==
    LET n == x[1]
        tails == Route!FlattenSeq([k \in DOMAIN Route!Children(map, n) |->
                                      f[<<Route!Children(map, n)[k], x[2] \union {n}>>]])
    IN  IF n \in x[2] THEN << >>
        ELSE IF Route!Children(map, n) = << >> THEN << <<n>> >>
        ELSE Route!Kept([k \in DOMAIN tails |-> <<n>> \o tails[k]])

Visits(map) == (DOMAIN map) \X SUBSET (DOMAIN map)

PathTable(map) == CHOOSE f : f = [x \in Visits(map) |-> PathsFrom(map, f, x)]

LEMMA PathsOfTable ==
  ASSUME NEW map, NEW start
  PROVE  Route!Paths(map, start) = IF PathTable(map)[<<start, {}>>] = << >> THEN << <<start>> >>
                                   ELSE PathTable(map)[<<start, {}>>]
BY DEF Route!Paths, PathTable, PathsFrom, Visits

LEMMA ChildNodes ==
  ASSUME NEW map, NEW n \in DOMAIN map, NEW T, map[n].children \in Seq(T)
  PROVE  Route!Children(map, n) \in Seq(DOMAIN map)
<1>. DEFINE cs == map[n].children
            I  == {i \in DOMAIN cs : cs[i] \in DOMAIN map}
<1>1. Route!Children(map, n) = At(cs, I)
  BY SameOperators DEF Route!Children, Route!Such
<1>. HIDE DEF cs
<1>2. I \in SUBSET DOMAIN cs /\ \A i \in I : cs[i] \in DOMAIN map  OBVIOUS
<1>. HIDE DEF I
<1>3. cs \in Seq(T)  BY DEF cs
<1>4. /\ At(cs, I) \in Seq(T)
      /\ \A k \in DOMAIN At(cs, I) : \E i \in I : At(cs, I)[k] = cs[i]
  BY <1>2, <1>3, AtElements
<1>5. \A k \in DOMAIN At(cs, I) : At(cs, I)[k] \in DOMAIN map  BY <1>2, <1>4
<1>. QED  BY <1>1, <1>4, <1>5, SeqOfValues

(* What remains to be met. *)
Ahead(map) == [x \in Visits(map) |-> Cardinality((DOMAIN map) \ x[2])]

LEMMA AheadShrinks ==
  ASSUME NEW map, IsFiniteSet(DOMAIN map)
  PROVE  /\ Cardinality(DOMAIN map) \in Nat
         /\ Ahead(map) \in [Visits(map) -> 0..Cardinality(DOMAIN map)]
         /\ \A x \in Visits(map) : \A c \in DOMAIN map :
               x[1] \notin x[2] =>
                  /\ <<c, x[2] \union {x[1]}>> \in Visits(map)
                  /\ Ahead(map)[<<c, x[2] \union {x[1]}>>] < Ahead(map)[x]
<1>. DEFINE D == DOMAIN map
<1>1. \A A \in SUBSET D : /\ IsFiniteSet(A)
                          /\ Cardinality(A) \in Nat
                          /\ Cardinality(A) <= Cardinality(D)
  BY FS_Subset, FS_CardinalityType
<1>2. Ahead(map) \in [Visits(map) -> 0..Cardinality(D)]
  <2>1. \A x \in Visits(map) : D \ x[2] \in SUBSET D  OBVIOUS
  <2>2. \A x \in Visits(map) : Cardinality(D \ x[2]) \in 0..Cardinality(D)
    <3>1. Cardinality(D) \in Nat  BY <1>1
    <3>. QED  BY <1>1, <2>1, <3>1
  <2>. QED  BY <2>2 DEF Ahead
<1>3. ASSUME NEW x \in Visits(map), NEW c \in D, x[1] \notin x[2]
      PROVE  /\ <<c, x[2] \union {x[1]}>> \in Visits(map)
             /\ Ahead(map)[<<c, x[2] \union {x[1]}>>] < Ahead(map)[x]
  <2>1. x[1] \in D /\ x[2] \in SUBSET D  BY DEF Visits
  <2>. DEFINE A == D \ x[2]
              y == <<c, x[2] \union {x[1]}>>
  <2>2. A \in SUBSET D /\ x[1] \in A /\ D \ y[2] = A \ {x[1]}  BY <1>3, <2>1
  <2>3. y \in Visits(map)  BY <2>1 DEF Visits
  <2>4. Ahead(map)[y] = Cardinality(A \ {x[1]}) /\ Ahead(map)[x] = Cardinality(A)
    BY <2>2, <2>3 DEF Ahead
  <2>. HIDE DEF A, y
  <2>5. IsFiniteSet(A) /\ Cardinality(A) \in Nat  BY <1>1, <2>2
  <2>6. Cardinality(A \ {x[1]}) = Cardinality(A) - 1  BY <2>2, <2>5, FS_RemoveElement
  <2>7. Ahead(map)[y] < Ahead(map)[x]  BY <2>4, <2>5, <2>6
  <2>. QED  BY <2>3, <2>7 DEF y
<1>. QED  BY <1>1, <1>2, <1>3

IsMap(map) == IsFiniteSet(DOMAIN map) /\ \A n \in DOMAIN map : map[n].children \in Seq(STRING)

LEMMA PathsFromType ==
  ASSUME NEW map, IsMap(map), NEW f, NEW x \in Visits(map),
         \A y \in Visits(map) : Ahead(map)[y] < Ahead(map)[x] => f[y] \in Seq(Seq(DOMAIN map))
  PROVE  PathsFrom(map, f, x) \in Seq(Seq(DOMAIN map))
<1>. DEFINE D == DOMAIN map
            n == x[1]
            cs == Route!Children(map, n)
            on == [k \in DOMAIN cs |-> f[<<cs[k], x[2] \union {n}>>]]
            tails == FlattenSeq(on)
            more == [k \in DOMAIN tails |-> <<n>> \o tails[k]]
<1>1. n \in D  BY DEF Visits
<1>2. cs \in Seq(D)  BY <1>1, ChildNodes DEF IsMap
<1>3. CASE n \in x[2]
  <2>1. PathsFrom(map, f, x) = << >>  BY <1>3 DEF PathsFrom
  <2>. QED  BY <2>1
<1>4. CASE n \notin x[2] /\ cs = << >>
  <2>1. PathsFrom(map, f, x) = << <<n>> >>  BY <1>4 DEF PathsFrom
  <2>. QED  BY <1>1, <2>1
<1>5. CASE n \notin x[2] /\ cs # << >>
  <2>1. PathsFrom(map, f, x) = Route!Kept(more)
    <3>1. PathsFrom(map, f, x) = Route!Kept([k \in DOMAIN Route!FlattenSeq(on) |->
                                                <<n>> \o Route!FlattenSeq(on)[k]])
      BY <1>5 DEF PathsFrom
    <3>2. Route!FlattenSeq(on) = tails
      <4>. HIDE DEF on
      <4>. QED  BY SameOperators
    <3>. HIDE DEF tails, on
    <3>. QED  BY <3>1, <3>2
  <2>2. \A k \in DOMAIN cs : f[<<cs[k], x[2] \union {n}>>] \in Seq(Seq(D))
    <3>1. \A k \in DOMAIN cs : cs[k] \in D
      <4>. HIDE DEF cs
      <4>. QED  BY <1>2
    <3>. HIDE DEF cs
    <3>. QED  BY <1>5, <3>1, AheadShrinks DEF IsMap
  <2>3. on \in Seq(Seq(Seq(D)))
    <3>1. on \in [DOMAIN cs -> Seq(Seq(D))]  BY <2>2
    <3>. HIDE DEF on, cs
    <3>. QED  BY <1>2, <3>1, SeqOfFunction
  <2>. HIDE DEF on, cs, n, D
  <2>4. tails \in Seq(Seq(D))  BY <2>3, JoinedSequences
  <2>5. more \in Seq(Seq(D))
    <3>. HIDE DEF tails
    <3>1. \A k \in DOMAIN tails : tails[k] \in Seq(D)  BY <2>4
    <3>2. \A k \in DOMAIN tails : <<n>> \o tails[k] \in Seq(D)  BY <1>1, <3>1
    <3>3. more \in [DOMAIN tails -> Seq(D)]  BY <3>2
    <3>. HIDE DEF more
    <3>. QED  BY <2>4, <3>3, SeqOfFunction
  <2>. HIDE DEF tails, more
  <2>6. Route!Kept(more) \in Seq(Seq(D))  BY <2>5, KeptPart
  <2>. QED  BY <2>1, <2>6 DEF D
<1>. QED  BY <1>3, <1>4, <1>5

(* Where two tables agree on what is smaller, they lead to the same paths. *)
LEMMA PathsFromLooksAhead ==
  ASSUME NEW map, IsMap(map), NEW f, NEW h, NEW x \in Visits(map),
         \A y \in Visits(map) : Ahead(map)[y] < Ahead(map)[x] => f[y] = h[y]
  PROVE  PathsFrom(map, f, x) = PathsFrom(map, h, x)
<1>. DEFINE n == x[1]
            cs == Route!Children(map, n)
            on(g) == [k \in DOMAIN cs |-> g[<<cs[k], x[2] \union {n}>>]]
            rest(g) == LET tails == Route!FlattenSeq(on(g))
                       IN  Route!Kept([k \in DOMAIN tails |-> <<n>> \o tails[k]])
<1>1. n \in DOMAIN map  BY DEF Visits
<1>2. cs \in Seq(DOMAIN map)  BY <1>1, ChildNodes DEF IsMap
<1>3. \A g : PathsFrom(map, g, x) = IF n \in x[2] THEN << >>
                                    ELSE IF cs = << >> THEN << <<n>> >> ELSE rest(g)
  BY DEF PathsFrom
<1>4. CASE n \in x[2]
  BY <1>3, <1>4
<1>5. CASE n \notin x[2]
  <2>1. \A k \in DOMAIN cs : f[<<cs[k], x[2] \union {n}>>] = h[<<cs[k], x[2] \union {n}>>]
    <3>1. \A k \in DOMAIN cs : cs[k] \in DOMAIN map
      <4>. HIDE DEF cs
      <4>. QED  BY <1>2
    <3>. HIDE DEF cs
    <3>. QED  BY <1>5, <3>1, AheadShrinks DEF IsMap
  <2>2. on(f) = on(h)
    <3>. HIDE DEF cs, n
    <3>. QED  BY <2>1
  <2>3. rest(f) = rest(h)
    <3>. HIDE DEF on
    <3>. QED  BY <2>2
  <2>. HIDE DEF rest, cs, n
  <2>. QED  BY <1>3, <2>3
<1>. QED  BY <1>4, <1>5

LEMMA PathTableType ==
  ASSUME NEW map, IsMap(map)
  PROVE  \A x \in Visits(map) :
            /\ PathTable(map)[x] \in Seq(Seq(DOMAIN map))
            /\ PathTable(map)[x] = PathsFrom(map, PathTable(map), x)
<1>. DEFINE X == Visits(map)
            Y == Seq(Seq(DOMAIN map))
            Step(f) == [x \in X |-> PathsFrom(map, f, x)]
            G == [f \in [X -> Y] |-> Step(f)]
            m == Ahead(map)
            N == Cardinality(DOMAIN map)
<1>1. N \in Nat /\ m \in [X -> 0..N] /\ m \in [X -> Nat]
  <2>1. N \in Nat /\ m \in [X -> 0..N]  BY AheadShrinks DEF IsMap
  <2>. HIDE DEF m, N, X
  <2>. QED  BY <2>1
<1>2. IsRecursion(G, m, N, X, Y)
  <2>1. \A f \in [X -> Y] : \A x \in X : PathsFrom(map, f, x) \in Y
    <3>. HIDE DEF X
    <3>. QED  BY PathsFromType DEF X
  <2>2. \A f \in [X -> Y] : Step(f) \in [X -> Y]  BY <2>1
  <2>3. \A f, h \in [X -> Y] : \A x \in X :
           (\A y \in X : m[y] < m[x] => f[y] = h[y]) => PathsFrom(map, f, x) = PathsFrom(map, h, x)
    <3>. HIDE DEF X
    <3>. QED  BY PathsFromLooksAhead DEF X
  <2>4. \A f \in [X -> Y] : \A x \in X : G[f][x] = PathsFrom(map, f, x)  OBVIOUS
  <2>5. G \in [[X -> Y] -> [X -> Y]]
    <3>. HIDE DEF Step
    <3>. QED  BY <2>2
  <2>6. Y # {}
    <3>1. << >> \in Y  OBVIOUS
    <3>. QED  BY <3>1
  <2>. HIDE DEF G, X, Y, m, N
  <2>. QED  BY <1>1, <2>3, <2>4, <2>5, <2>6 DEF IsRecursion
<1>3. PathTable(map) = Step(PathTable(map))
  <2>1. \E f \in [X -> Y] : f = G[f]
    <3>. HIDE DEF G, X, Y, m, N
    <3>. QED  BY <1>2, RecursionExists
  <2>2. \E f : f = Step(f)  BY <2>1
  <2>3. PathTable(map) = CHOOSE f : f = Step(f)  BY DEF PathTable
  <2>. HIDE DEF Step
  <2>. QED  BY <2>2, <2>3
<1>. DEFINE g == PathTable(map)
            P == {x \in X : g[x] \in Y}
<1>4. \A x \in X : g[x] = PathsFrom(map, g, x)
  <2>. HIDE DEF g
  <2>1. g = Step(g)  BY <1>3 DEF g
  <2>. HIDE DEF X
  <2>. QED  BY <2>1
<1>5. \A x \in X : (\A y \in X : m[y] < m[x] => y \in P) => x \in P
  <2>1. TAKE x \in X
  <2>2. HAVE \A y \in X : m[y] < m[x] => y \in P
  <2>3. \A y \in X : m[y] < m[x] => g[y] \in Y  BY <2>2
  <2>. HIDE DEF g
  <2>4. PathsFrom(map, g, x) \in Y  BY <2>3, PathsFromType
  <2>5. g[x] \in Y  BY <1>4, <2>4
  <2>. QED  BY <2>5
<1>6. X \subseteq P
  <2>. HIDE DEF m, X, P
  <2>. QED  BY <1>1, <1>5, NoFirstException
<1>. HIDE DEF g
<1>7. \A x \in X : g[x] \in Y /\ g[x] = PathsFrom(map, g, x)  BY <1>4, <1>6
<1>. QED  BY <1>7 DEF g

(* The score of a node is a number, on every map. *)
LEMMA NodeScoreType ==
  ASSUME NEW t, Route!IsRoute(t), NEW n \in DOMAIN t.map
  PROVE  Route!NodeScore(t.map[n].room, t) \in Int
<1>. DEFINE room == t.map[n].room
            more == CASE room = "elite"   -> IF Route!Below(t, 70) THEN -350 ELSE 150
                      [] room = "monster" -> IF Route!Below(t, 40) THEN -220 ELSE 0
                      [] room \in {"event", "rest"} -> IF Route!Below(t, 50) THEN 180 ELSE 0
                      [] room = "shop"    -> IF t.gold >= 180 THEN 300
                                             ELSE IF t.gold >= 100 THEN 120 ELSE -100
                      [] OTHER            -> 0
<1>1. room \in {"monster", "elite", "event", "rest", "shop", "treasure", "ancient", "boss"}
  BY DEF Route!IsRoute, Route!Rooms
<1>2. Route!NodeScore(room, t) = Route!Weight[room] + more  BY DEF Route!NodeScore
<1>. HIDE DEF room
<1>3. Route!Weight[room] \in Int  BY <1>1 DEF Route!Weight
<1>4. more \in Int  OBVIOUS
<1>. HIDE DEF more
<1>. QED  BY <1>2, <1>3, <1>4 DEF room

LEMMA PathsType ==
  ASSUME NEW map, IsMap(map), NEW start \in DOMAIN map
  PROVE  Route!Paths(map, start) \in Seq(Seq(DOMAIN map)) /\ Route!Paths(map, start) # << >>
<1>. DEFINE D == DOMAIN map
            paths == Route!Paths(map, start)
            first == PathTable(map)[<<start, {}>>]
<1>1. <<start, {}>> \in Visits(map)  BY DEF Visits
<1>2. first \in Seq(Seq(D))  BY <1>1, PathTableType
<1>3. paths = IF first = << >> THEN << <<start>> >> ELSE first  BY PathsOfTable
<1>4. << <<start>> >> \in Seq(Seq(D)) /\ << <<start>> >> # << >>
  <2>1. <<start>> \in Seq(D)  BY OneElement
  <2>. HIDE DEF D
  <2>. QED  BY <2>1, OneElement
<1>5. CASE first = << >>
  <2>1. paths = << <<start>> >>  BY <1>3, <1>5
  <2>. QED  BY <1>4, <2>1
<1>6. CASE first # << >>
  <2>1. paths = first  BY <1>3, <1>6
  <2>. HIDE DEF first, paths
  <2>. QED  BY <1>2, <1>6, <2>1 DEF paths
<1>. QED  BY <1>5, <1>6

(* The score of a path is a number, and it adds up from node to node.      *)
ScoresOn(t, p) == [k \in DOMAIN p |-> Route!NodeScore(t.map[p[k]].room, t)]

LEMMA PathScoreType ==
  ASSUME NEW t, Route!IsRoute(t), NEW p \in Seq(DOMAIN t.map)
  PROVE  /\ Route!PathScore(t.map, t, p) = SumFunction(ScoresOn(t, p))
         /\ Route!PathScore(t.map, t, p) \in Int
         /\ Len(p) \in Nat /\ DOMAIN p = 1..Len(p)
         /\ ScoresOn(t, p) \in [1..Len(p) -> Int]
<1>. DEFINE f == ScoresOn(t, p)
<1>1. Route!PathScore(t.map, t, p) = SumFunction(f)
  <2>1. Route!PathScore(t.map, t, p) = Route!SumFunction(f)  BY DEF Route!PathScore, ScoresOn
  <2>. HIDE DEF f
  <2>. QED  BY <2>1, SameOperators
<1>2. Len(p) \in Nat /\ DOMAIN p = 1..Len(p)  OBVIOUS
<1>3. IsFiniteSet(1..Len(p))  BY <1>2, IndicesAreFinite
<1>4. \A k \in DOMAIN p : p[k] \in DOMAIN t.map  OBVIOUS
<1>5. DOMAIN f = 1..Len(p) /\ f \in [1..Len(p) -> Int]
  BY <1>2, <1>4, NodeScoreType DEF ScoresOn
<1>6. SumFunction(f) \in Int
  <2>1. IsFiniteSet(DOMAIN f) /\ f \in [DOMAIN f -> Int]  BY <1>3, <1>5
  <2>. HIDE DEF f
  <2>. QED  BY <2>1, SumType
<1>. QED  BY <1>1, <1>2, <1>5, <1>6

LEMMA HeadAndTail ==
  ASSUME NEW T, NEW n \in T
  PROVE  /\ <<n>> \in Seq(T) /\ Len(<<n>>) = 1 /\ <<n>>[1] = n
         /\ \A q \in Seq(T) :
               /\ <<n>> \o q \in Seq(T) /\ Len(q) \in Nat /\ Len(<<n>> \o q) = Len(q) + 1
               /\ (<<n>> \o q)[1] = n
               /\ \A k \in 1..Len(q) : (<<n>> \o q)[k + 1] = q[k]
<1>1. <<n>> \in Seq(T) /\ Len(<<n>>) = 1 /\ <<n>>[1] = n  OBVIOUS
<1>h. PICK h : h = <<n>>  OBVIOUS
<1>2. ASSUME NEW q \in Seq(T)
      PROVE  /\ h \o q \in Seq(T) /\ Len(q) \in Nat /\ Len(h \o q) = Len(q) + 1
             /\ (h \o q)[1] = n
             /\ \A k \in 1..Len(q) : (h \o q)[k + 1] = q[k]
  <2>1. h \in Seq(T) /\ Len(h) = 1 /\ h[1] = n /\ Len(q) \in Nat  BY <1>1, <1>h
  <2>p. PICK p : p = h \o q  OBVIOUS
  <2>2. /\ p \in Seq(T) /\ Len(p) = Len(h) + Len(q) /\ DOMAIN p = 1..Len(p)
        /\ DOMAIN h = 1..Len(h) /\ DOMAIN q = 1..Len(q)
    <3>1. p \in Seq(T)  BY <2>1, <2>p, Concatenation
    <3>2. Len(p) = Len(h) + Len(q)  BY <2>1, <2>p, RangeOfBoth
    <3>. QED  BY <2>1, <3>1, <3>2
  <2>3. \A i \in DOMAIN h : i \in DOMAIN p /\ p[i] = h[i]  BY <2>1, <2>2, <2>p
  <2>6. \A i \in DOMAIN q : Len(h) + i \in DOMAIN p /\ p[Len(h) + i] = q[i]
    BY <2>1, <2>2, <2>p
  <2>4. ASSUME NEW k \in 1..Len(q) PROVE p[k + 1] = q[k]
    <3>1. p[Len(h) + k] = q[k]  BY <2>2, <2>6
    <3>2. Len(h) + k = k + 1  BY <2>1
    <3>. QED  BY <3>1, <3>2
  <2>5. Len(p) = Len(q) + 1  BY <2>1, <2>2
  <2>7. 1 \in DOMAIN h  BY <2>1, <2>2
  <2>8. p[1] = n  BY <2>1, <2>3, <2>7
  <2>. QED  BY <2>1, <2>2, <2>4, <2>5, <2>8, <2>p
<1>. QED  BY <1>1, <1>2, <1>h

LEMMA PathScoreAddsUp ==
  ASSUME NEW t, Route!IsRoute(t), NEW n \in DOMAIN t.map
  PROVE  /\ Route!PathScore(t.map, t, <<n>>) = Route!NodeScore(t.map[n].room, t)
         /\ \A q \in Seq(DOMAIN t.map) :
               Route!PathScore(t.map, t, <<n>> \o q)
               = Route!NodeScore(t.map[n].room, t) + Route!PathScore(t.map, t, q)
<1>. DEFINE D == DOMAIN t.map
            a == Route!NodeScore(t.map[n].room, t)
<1>1. Route!PathScore(t.map, t, <<n>>) = a
  <2>p. PICK p : p = <<n>>  OBVIOUS
  <2>f. PICK f : f = ScoresOn(t, p)  OBVIOUS
  <2>1. p \in Seq(D) /\ Len(p) = 1 /\ p[1] = n  BY <2>p, HeadAndTail
  <2>2. Route!PathScore(t.map, t, p) = SumFunction(f) /\ f \in [1..1 -> Int]
    BY <2>1, <2>f, PathScoreType
  <2>3. 1..1 = {1} /\ 1 \in DOMAIN p  BY <2>1
  <2>4. f[1] = a  BY <2>1, <2>3, <2>f DEF ScoresOn
  <2>5. f \in [{1} -> Int]  BY <2>2, <2>3
  <2>6. SumFunction(f) = f[1]  BY <2>5, SumOfOne
  <2>. QED  BY <2>2, <2>4, <2>6, <2>p
<1>2. ASSUME NEW q \in Seq(D)
      PROVE  Route!PathScore(t.map, t, <<n>> \o q) = a + Route!PathScore(t.map, t, q)
  <2>p. PICK p : p = <<n>> \o q  OBVIOUS
  <2>f. PICK f : f = ScoresOn(t, p)  OBVIOUS
  <2>g. PICK g : g = ScoresOn(t, q)  OBVIOUS
  <2>1. /\ p \in Seq(D) /\ Len(q) \in Nat /\ Len(p) = Len(q) + 1
        /\ p[1] = n /\ \A k \in 1..Len(q) : p[k + 1] = q[k]
    <3>. HIDE DEF D
    <3>1. n \in D  BY DEF D
    <3>. QED  BY <2>p, <3>1, HeadAndTail
  <2>2. /\ Route!PathScore(t.map, t, p) = SumFunction(f)
        /\ f \in [1..(Len(q) + 1) -> Int]
    BY <2>1, <2>f, PathScoreType
  <2>3. Route!PathScore(t.map, t, q) = SumFunction(g) /\ g \in [1..Len(q) -> Int]
    BY <2>g, PathScoreType
  <2>4. f[1] = a
    <3>1. 1 \in DOMAIN p  BY <2>1
    <3>. QED  BY <2>1, <2>f, <3>1 DEF ScoresOn
  <2>5. \A k \in 1..Len(q) : f[k + 1] = g[k]
    <3>1. \A k \in 1..Len(q) : k \in DOMAIN q /\ k + 1 \in DOMAIN p  BY <2>1
    <3>. QED  BY <2>1, <2>f, <2>g, <3>1 DEF ScoresOn
  <2>6. SumFunction(f) = f[1] + SumFunction(g)  BY <2>1, <2>2, <2>3, <2>5, SumOfSequence
  <2>. QED  BY <2>2, <2>3, <2>4, <2>6, <2>p
<1>. QED  BY <1>1, <1>2

(* The score of a route is the greatest of its paths'.                     *)
LEMMA RouteScoreType ==
  ASSUME NEW t, Route!IsRoute(t), NEW start \in DOMAIN t.map
  PROVE  /\ Route!RouteScore(t.map, t, start) \in Int
         /\ \E p \in Range(Route!Paths(t.map, start)) :
               Route!RouteScore(t.map, t, start) = Route!PathScore(t.map, t, p)
         /\ \A p \in Range(Route!Paths(t.map, start)) :
               Route!PathScore(t.map, t, p) <= Route!RouteScore(t.map, t, start)
<1>. DEFINE D == DOMAIN t.map
            paths == Route!Paths(t.map, start)
            score(p) == Route!PathScore(t.map, t, p)
            S == {score(p) : p \in Range(paths)}
<1>1. IsMap(t.map)
  BY SameOperators DEF Route!IsRoute, IsMap
<1>2. paths \in Seq(Seq(D)) /\ paths # << >>  BY <1>1, PathsType
<1>. HIDE DEF paths
<1>3. \A p \in Seq(D) : score(p) \in Int  BY PathScoreType
<1>4. Range(paths) \in SUBSET Seq(D) /\ Range(paths) # {} /\ IsFiniteSet(Range(paths))
  <2>1. Len(paths) \in Nat /\ DOMAIN paths = 1..Len(paths) /\ Len(paths) # 0  BY <1>2
  <2>2. IsFiniteSet(DOMAIN paths) /\ 1 \in DOMAIN paths  BY <2>1, IndicesAreFinite
  <2>3. Range(paths) = {paths[k] : k \in DOMAIN paths}  BY DEF Range
  <2>4. IsFiniteSet(Range(paths))  BY <2>2, <2>3, ImageIsFinite
  <2>5. \A k \in DOMAIN paths : paths[k] \in Seq(D)  BY <1>2
  <2>. QED  BY <2>2, <2>3, <2>4, <2>5
<1>5. S \in SUBSET Int /\ S # {} /\ IsFiniteSet(S)
  <2>. DEFINE f == [p \in Range(paths) |-> score(p)]
  <2>1. S = {f[p] : p \in Range(paths)} /\ DOMAIN f = Range(paths)  OBVIOUS
  <2>2. IsFiniteSet(S)
    <3>. HIDE DEF f, S
    <3>. QED  BY <1>4, <2>1, ImageIsFinite
  <2>. HIDE DEF score
  <2>. QED  BY <1>3, <1>4, <2>2
<1>6. Route!RouteScore(t.map, t, start) = Max(S)
  BY SameOperators DEF Route!RouteScore, paths
<1>7. Max(S) \in S /\ \A y \in S : y <= Max(S)
  <2>. HIDE DEF S
  <2>. QED  BY <1>5, MaxOfIntegers
<1>8. \E p \in Range(paths) : Max(S) = score(p)  BY <1>7
<1>9. \A p \in Range(paths) : score(p) <= Max(S)  BY <1>7
<1>. HIDE DEF S
<1>. QED  BY <1>5, <1>6, <1>7, <1>8, <1>9 DEF paths

(* The best way on, where no way leads back.  A node has a rank that is    *)
(* greater than its children's.                                            *)
HasRanks(map, m) ==
    /\ m \in [DOMAIN map -> 0..Cardinality(DOMAIN map)]
    /\ \A n \in DOMAIN map : \A c \in Range(Route!Children(map, n)) : c \in DOMAIN map /\ m[c] < m[n]

(* The first k nodes have ranks. *)
RankedSoFar(map, m, A, k) ==
    /\ A \in SUBSET DOMAIN map /\ Cardinality(A) = k
    /\ \A n \in A : /\ m[n] < k
                    /\ \A c \in Range(Route!Children(map, n)) : c \in A /\ m[c] < m[n]

LEMMA NextRank ==
  ASSUME NEW map, IsMap(map), Route!HasNoCycle(map), NEW k \in Nat, k < Cardinality(DOMAIN map),
         NEW m \in [DOMAIN map -> 0..Cardinality(DOMAIN map)], NEW A, RankedSoFar(map, m, A, k)
  PROVE  \E w \in [DOMAIN map -> 0..Cardinality(DOMAIN map)] : \E B : RankedSoFar(map, w, B, k + 1)
<1>. DEFINE D == DOMAIN map
            Next(n) == Range(Route!Children(map, n))
<1>1. IsFiniteSet(D) /\ Cardinality(D) \in Nat  BY FS_CardinalityType DEF IsMap
<1>2. A \in SUBSET D /\ Cardinality(A) = k /\ IsFiniteSet(A)
  BY <1>1, FS_Subset DEF RankedSoFar
<1>3. D \ A # {}
  <2>1. SUFFICES ASSUME D = A PROVE FALSE  BY <1>2
  <2>. QED  BY <1>1, <1>2, <2>1
<1>4. \A n \in D : Next(n) \subseteq D
  <2>1. TAKE n \in D
  <2>2. Route!Children(map, n) \in Seq(D)  BY ChildNodes DEF IsMap
  <2>. QED  BY <2>2 DEF Range
<1>5. PICK x \in D \ A : Next(x) \cap (D \ A) = {}
  <2>1. \A S \in SUBSET D : S # {} => \E n \in S : Next(n) \cap S = {}
    BY SameOperators DEF Route!HasNoCycle
  <2>. HIDE DEF Next, D
  <2>2. D \ A \in SUBSET D  OBVIOUS
  <2>. QED  BY <1>3, <2>1, <2>2
<1>. DEFINE B == A \union {x}
            w == [m EXCEPT ![x] = k]
<1>6. B \in SUBSET D /\ Cardinality(B) = k + 1
  <2>1. Cardinality(B) = Cardinality(A) + 1  BY <1>2, <1>5, FS_AddElement
  <2>. QED  BY <1>2, <1>5, <2>1
<1>7. w \in [D -> 0..Cardinality(D)] /\ w[x] = k /\ \A n \in A : w[n] = m[n]
  <2>1. k \in 0..Cardinality(D)  BY <1>1
  <2>. QED  BY <1>2, <1>5, <2>1
<1>8. ASSUME NEW n \in B
      PROVE  w[n] < k + 1 /\ \A c \in Next(n) : c \in B /\ w[c] < w[n]
  <2>1. CASE n = x
    <3>1. \A c \in Next(x) : c \in A  BY <1>4, <1>5
    <3>2. \A c \in A : w[c] < k  BY <1>7 DEF RankedSoFar
    <3>3. w[x] < k + 1  BY <1>7
    <3>. HIDE DEF w, Next
    <3>. QED  BY <1>7, <2>1, <3>1, <3>2, <3>3
  <2>2. CASE n \in A
    <3>1. m[n] < k /\ \A c \in Next(n) : c \in A /\ m[c] < m[n]
      BY <2>2 DEF RankedSoFar
    <3>2. m[n] \in Nat  BY <1>1, <1>2, <2>2
    <3>. HIDE DEF w, Next
    <3>3. w[n] = m[n] /\ \A c \in Next(n) : c \in B /\ w[c] = m[c]  BY <1>7, <2>2, <3>1
    <3>4. w[n] < k + 1  BY <3>1, <3>2, <3>3
    <3>. QED  BY <3>1, <3>3, <3>4
  <2>. QED  BY <2>1, <2>2
<1>9. RankedSoFar(map, w, B, k + 1)
  <2>. HIDE DEF w, B
  <2>. QED  BY <1>6, <1>8 DEF RankedSoFar
<1>. QED  BY <1>7, <1>9

LEMMA RanksExist ==
  ASSUME NEW map, IsMap(map), Route!HasNoCycle(map)
  PROVE  \E m : HasRanks(map, m)
<1>. DEFINE D == DOMAIN map
            N == Cardinality(D)
            F == [D -> 0..N]
            Good(k) == \E m \in F : \E A : RankedSoFar(map, m, A, k)
            P == {k \in Nat : k <= N => Good(k)}
            id == [k \in Nat |-> k]
<1>1. IsFiniteSet(D) /\ N \in Nat  BY FS_CardinalityType DEF IsMap
<1>2. Good(0)
  <2>m. PICK m : m = [n \in D |-> 0]  OBVIOUS
  <2>1. m \in F  BY <1>1, <2>m
  <2>2. RankedSoFar(map, m, {}, 0)  BY FS_EmptySet DEF RankedSoFar
  <2>. QED  BY <2>1, <2>2
<1>3. ASSUME NEW k \in Nat, k < N, Good(k) PROVE Good(k + 1)
  <2>1. PICK m \in F : \E A : RankedSoFar(map, m, A, k)  BY <1>3
  <2>2. PICK A : RankedSoFar(map, m, A, k)  BY <2>1
  <2>. QED  BY <1>3, <2>2, NextRank
<1>. HIDE DEF Good
<1>4. ASSUME NEW k \in Nat, \A j \in Nat : id[j] < id[k] => j \in P PROVE k \in P
  <2>1. CASE k = 0  BY <1>2, <2>1
  <2>2. CASE k # 0
    <3>1. SUFFICES ASSUME k <= N PROVE Good(k)  OBVIOUS
    <3>2. k - 1 \in Nat /\ id[k - 1] < id[k] /\ k - 1 < N /\ k - 1 <= N /\ k - 1 + 1 = k
      BY <1>1, <2>2, <3>1
    <3>3. k - 1 \in P
      <4>. HIDE DEF P, id
      <4>. QED  BY <1>4, <3>2
    <3>4. Good(k - 1)  BY <3>2, <3>3
    <3>5. Good(k - 1 + 1)  BY <1>3, <3>2, <3>4
    <3>. QED  BY <3>2, <3>5
  <2>. QED  BY <2>1, <2>2
<1>5. Nat \subseteq P
  <2>1. id \in [Nat -> Nat]  OBVIOUS
  <2>. HIDE DEF P, id
  <2>. QED  BY <1>4, <2>1, NoFirstException
<1>6. Good(N)  BY <1>1, <1>5
<1>7. PICK m \in F : \E A : RankedSoFar(map, m, A, N)  BY <1>6 DEF Good
<1>8. PICK A : RankedSoFar(map, m, A, N)  BY <1>7
<1>9. A = D
  <2>1. A \in SUBSET D /\ Cardinality(A) = N  BY <1>8 DEF RankedSoFar
  <2>. QED  BY <1>1, <2>1, FS_Subset
<1>10. HasRanks(map, m)  BY <1>8, <1>9 DEF HasRanks, RankedSoFar
<1>. QED  BY <1>10

(* Route!BestFrom, step by step. *)
BestStep(t, g, n) ==
    Route!NodeScore(t.map[n].room, t) +
    IF Route!Children(t.map, n) = << >> THEN 0
    ELSE Route!Max({g[c] : c \in Route!Range(Route!Children(t.map, n))})

BestTable(t) == CHOOSE g : g = [n \in DOMAIN t.map |-> BestStep(t, g, n)]

LEMMA BestOfTable ==
  ASSUME NEW t, NEW n
  PROVE  Route!BestFrom(t.map, t, n) = BestTable(t)[n]
BY DEF Route!BestFrom, BestTable, BestStep

(* b is the best from n on, when the best from its children on are g's.    *)
IsBest(t, g, n, b) ==
    LET a == Route!NodeScore(t.map[n].room, t)
        next == Range(Route!Children(t.map, n))
    IN  /\ b \in Int
        /\ Route!Children(t.map, n) = << >> => b = a
        /\ Route!Children(t.map, n) # << >> => \E c \in next : b = a + g[c]
        /\ \A c \in next : a + g[c] <= b

LEMMA BestStepType ==
  ASSUME NEW t, Route!IsRoute(t), NEW n \in DOMAIN t.map, NEW g,
         \A c \in Range(Route!Children(t.map, n)) : g[c] \in Int
  PROVE  IsBest(t, g, n, BestStep(t, g, n))
<1>. DEFINE D == DOMAIN t.map
            a == Route!NodeScore(t.map[n].room, t)
            cs == Route!Children(t.map, n)
            next == Range(cs)
            V == {g[c] : c \in next}
<1>1. a \in Int  BY NodeScoreType
<1>2. BestStep(t, g, n) = a + IF cs = << >> THEN 0 ELSE Max(V)
  BY SameOperators DEF BestStep
<1>3. cs \in Seq(D)
  <2>1. IsMap(t.map)  BY SameOperators DEF Route!IsRoute, IsMap
  <2>. QED  BY <2>1, ChildNodes DEF IsMap
<1>g. \A c \in next : g[c] \in Int  OBVIOUS
<1>d. IsBest(t, g, n, BestStep(t, g, n)) <=>
        LET b == BestStep(t, g, n)
        IN  /\ b \in Int
            /\ cs = << >> => b = a
            /\ cs # << >> => \E c \in next : b = a + g[c]
            /\ \A c \in next : a + g[c] <= b
  BY DEF IsBest
<1>b. PICK b : b = BestStep(t, g, n)  OBVIOUS
<1>. HIDE DEF a, cs
<1>4. CASE cs = << >>
  <2>1. next = {}  BY <1>4 DEF Range
  <2>2. b = a  BY <1>1, <1>2, <1>4, <1>b
  <2>. QED  BY <1>1, <1>4, <1>b, <1>d, <2>1, <2>2
<1>5. CASE cs # << >>
  <2>1. Len(cs) \in Nat /\ DOMAIN cs = 1..Len(cs) /\ Len(cs) # 0  BY <1>3, <1>5
  <2>2. IsFiniteSet(DOMAIN cs) /\ 1 \in DOMAIN cs  BY <2>1, IndicesAreFinite
  <2>3. next = {cs[k] : k \in DOMAIN cs}  BY DEF Range
  <2>4. IsFiniteSet(next) /\ next # {}  BY <2>2, <2>3, ImageIsFinite
  <2>5. V \in SUBSET Int /\ V # {} /\ IsFiniteSet(V)
    <3>. DEFINE f == [c \in next |-> g[c]]
    <3>1. V = {f[c] : c \in next} /\ DOMAIN f = next  OBVIOUS
    <3>2. IsFiniteSet(V)
      <4>. HIDE DEF f, V, next
      <4>. QED  BY <2>4, <3>1, ImageIsFinite
    <3>. HIDE DEF next
    <3>. QED  BY <1>g, <2>4, <3>2
  <2>6. Max(V) \in V /\ \A y \in V : y <= Max(V)
    <3>. HIDE DEF V
    <3>. QED  BY <2>5, MaxOfIntegers
  <2>x. PICK x : x = Max(V)  OBVIOUS
  <2>7. x \in Int /\ b = a + x  BY <1>2, <1>5, <1>b, <2>5, <2>6, <2>x
  <2>8. \E c \in next : g[c] = x  BY <2>6, <2>x
  <2>9. \A c \in next : g[c] <= x  BY <2>6, <2>x
  <2>. HIDE DEF V, next
  <2>10. \A c \in next : a + g[c] <= b  BY <1>1, <1>g, <2>7, <2>9
  <2>. QED  BY <1>1, <1>5, <1>b, <1>d, <2>7, <2>8, <2>10
<1>. QED  BY <1>4, <1>5

LEMMA BestTableType ==
  ASSUME NEW t, Route!IsRoute(t), NEW m, HasRanks(t.map, m)
  PROVE  \A n \in DOMAIN t.map : IsBest(t, BestTable(t), n, BestTable(t)[n])
<1>. DEFINE D == DOMAIN t.map
            N == Cardinality(D)
            F == [D -> Int]
            Step(f) == [n \in D |-> BestStep(t, f, n)]
            G == [f \in F |-> Step(f)]
            next(n) == Range(Route!Children(t.map, n))
<1>0. IsFiniteSet(D) /\ N \in Nat
  <2>1. IsFiniteSet(D)  BY SameOperators DEF Route!IsRoute
  <2>. QED  BY <2>1, FS_CardinalityType
<1>1. /\ m \in [D -> 0..N] /\ m \in [D -> Nat]
      /\ \A n \in D : \A c \in next(n) : c \in D /\ m[c] < m[n]
  <2>1. m \in [D -> 0..N]  BY DEF HasRanks
  <2>2. \A n \in D : \A c \in next(n) : c \in D /\ m[c] < m[n]  BY DEF HasRanks
  <2>. HIDE DEF next
  <2>. QED  BY <1>0, <2>1, <2>2
<1>2. ASSUME NEW n \in D, NEW g, \A c \in next(n) : g[c] \in Int
      PROVE  IsBest(t, g, n, BestStep(t, g, n)) /\ BestStep(t, g, n) \in Int
  <2>1. IsBest(t, g, n, BestStep(t, g, n))  BY <1>2, BestStepType
  <2>. QED  BY <2>1 DEF IsBest
<1>3. IsRecursion(G, m, N, D, Int)
  <2>1. \A f \in F : \A n \in D : BestStep(t, f, n) \in Int
    <3>1. TAKE f \in F
    <3>2. TAKE n \in D
    <3>3. \A c \in next(n) : f[c] \in Int
      <4>. HIDE DEF next
      <4>. QED  BY <1>1
    <3>. QED  BY <1>2, <3>3
  <2>2. \A f \in F : Step(f) \in F  BY <2>1
  <2>3. ASSUME NEW f \in F, NEW h \in F, NEW n \in D, \A y \in D : m[y] < m[n] => f[y] = h[y]
        PROVE  BestStep(t, f, n) = BestStep(t, h, n)
    <3>1. \A c \in next(n) : f[c] = h[c]
      <4>. HIDE DEF next
      <4>. QED  BY <1>1, <2>3
    <3>2. {f[c] : c \in next(n)} = {h[c] : c \in next(n)}
      <4>. HIDE DEF next
      <4>. QED  BY <3>1
    <3>3. \A g : BestStep(t, g, n) = Route!NodeScore(t.map[n].room, t) +
                     IF Route!Children(t.map, n) = << >> THEN 0 ELSE Max({g[c] : c \in next(n)})
      BY SameOperators DEF BestStep
    <3>. HIDE DEF next
    <3>. QED  BY <3>2, <3>3
  <2>4. \A f \in F : \A n \in D : G[f][n] = BestStep(t, f, n)  OBVIOUS
  <2>5. G \in [F -> F]
    <3>. HIDE DEF Step
    <3>. QED  BY <2>2
  <2>6. \A f, h \in F : \A n \in D :
           (\A y \in D : m[y] < m[n] => f[y] = h[y]) => G[f][n] = G[h][n]
    <3>. HIDE DEF G
    <3>. QED  BY <2>3, <2>4
  <2>7. Int # {}
    <3>1. 0 \in Int  OBVIOUS
    <3>. QED  BY <3>1
  <2>. HIDE DEF G, D, N
  <2>. QED  BY <1>0, <1>1, <2>5, <2>6, <2>7 DEF IsRecursion
<1>4. BestTable(t) = Step(BestTable(t))
  <2>1. \E f \in F : f = G[f]
    <3>. HIDE DEF G, D, N
    <3>. QED  BY <1>3, RecursionExists
  <2>2. \E f : f = Step(f)  BY <2>1
  <2>3. BestTable(t) = CHOOSE f : f = Step(f)  BY DEF BestTable
  <2>. HIDE DEF Step
  <2>. QED  BY <2>2, <2>3
<1>. DEFINE g == BestTable(t)
            P == {n \in D : IsBest(t, g, n, g[n])}
<1>5. \A n \in D : g[n] = BestStep(t, g, n)
  <2>. HIDE DEF g
  <2>1. g = Step(g)  BY <1>4 DEF g
  <2>. QED  BY <2>1
<1>. HIDE DEF g
<1>6. \A n \in D : (\A y \in D : m[y] < m[n] => y \in P) => n \in P
  <2>1. TAKE n \in D
  <2>2. HAVE \A y \in D : m[y] < m[n] => y \in P
  <2>3. \A c \in next(n) : c \in P
    <3>. HIDE DEF next, P
    <3>. QED  BY <1>1, <2>2
  <2>4. \A c \in next(n) : g[c] \in Int  BY <2>3 DEF IsBest
  <2>5. IsBest(t, g, n, BestStep(t, g, n))  BY <1>2, <2>4
  <2>. QED  BY <1>5, <2>5
<1>7. D \subseteq P
  <2>. HIDE DEF D, P
  <2>. QED  BY <1>1, <1>6, NoFirstException
<1>8. \A n \in D : IsBest(t, g, n, g[n])  BY <1>7
<1>. QED  BY <1>8 DEF g

(* No path of T is worth more than the best way on from n, and one is      *)
(* worth as much, if T is all there is.                                    *)
Solved(t, n, T) ==
    /\ T \in Seq(Seq(DOMAIN t.map)) /\ T # << >>
    /\ \A p \in Range(T) : Route!PathScore(t.map, t, p) <= BestTable(t)[n]
    /\ Len(T) < Route!PathLimit =>
          \E p \in Range(T) : Route!PathScore(t.map, t, p) = BestTable(t)[n]

(* What is solved from the children on is solved from the node on.         *)
LEMMA SolvedOn ==
  ASSUME NEW t, Route!IsRoute(t), NEW n \in DOMAIN t.map, NEW g, g = BestTable(t),
         IsBest(t, g, n, g[n]),
         NEW U, NEW cs, cs = Route!Children(t.map, n), cs # << >>,
         \A c \in Range(cs) : g[c] \in Int /\ Solved(t, c, U[c]),
         NEW tails, tails = FlattenSeq([i \in DOMAIN cs |-> U[cs[i]]])
  PROVE  Solved(t, n, Route!Kept([k \in DOMAIN tails |-> <<n>> \o tails[k]]))
<1>. DEFINE D == DOMAIN t.map
            score(p) == Route!PathScore(t.map, t, p)
            on == [i \in DOMAIN cs |-> U[cs[i]]]
            more == [k \in DOMAIN tails |-> <<n>> \o tails[k]]
<1>a. PICK a : a = Route!NodeScore(t.map[n].room, t)  OBVIOUS
<1>1. /\ a \in Int /\ g[n] \in Int
      /\ \E c \in Range(cs) : g[n] = a + g[c]
      /\ \A c \in Range(cs) : a + g[c] <= g[n]
  BY <1>a, NodeScoreType DEF IsBest
<1>2. cs \in Seq(D) /\ Len(cs) \in Nat /\ DOMAIN cs = 1..Len(cs) /\ 1 \in DOMAIN cs
  <2>1. IsMap(t.map)  BY SameOperators DEF Route!IsRoute, IsMap
  <2>2. cs \in Seq(D)  BY <2>1, ChildNodes DEF IsMap
  <2>. QED  BY <2>2
<1>3. /\ \A i \in DOMAIN cs : cs[i] \in Range(cs) /\ on[i] = U[cs[i]]
      /\ \A c \in Range(cs) : \E i \in DOMAIN cs : c = cs[i]
  BY DEF Range
<1>4. \A q \in Seq(D) : /\ <<n>> \o q \in Seq(D) /\ score(q) \in Int
                        /\ score(<<n>> \o q) = a + score(q)
  <2>1. \A q \in Seq(D) : score(<<n>> \o q) = a + score(q)  BY <1>a, PathScoreAddsUp
  <2>2. \A q \in Seq(D) : score(q) \in Int  BY PathScoreType
  <2>3. \A q \in Seq(D) : <<n>> \o q \in Seq(D)
    <3>1. n \in D  OBVIOUS
    <3>. HIDE DEF D
    <3>. QED  BY <3>1, HeadAndTail
  <2>. HIDE DEF score
  <2>. QED  BY <2>1, <2>2, <2>3
<1>5. \A i \in DOMAIN cs : /\ on[i] \in Seq(Seq(D)) /\ on[i] # << >>
                           /\ \A q \in Range(on[i]) : score(q) <= g[cs[i]]
                           /\ Len(on[i]) < Route!PathLimit =>
                                 \E q \in Range(on[i]) : score(q) = g[cs[i]]
  <2>. HIDE DEF on
  <2>. QED  BY <1>3 DEF Solved
<1>. HIDE DEF score
<1>6. on \in Seq(Seq(Seq(D))) /\ DOMAIN on = DOMAIN cs
  <2>1. on \in [DOMAIN cs -> Seq(Seq(D))]
    <3>1. \A i \in DOMAIN cs : on[i] \in Seq(Seq(D))  BY <1>5
    <3>. QED  BY <3>1
  <2>. HIDE DEF on
  <2>. QED  BY <1>2, <2>1, SeqOfFunction
<1>. HIDE DEF on, D
<1>7. /\ tails \in Seq(Seq(D))
      /\ Range(tails) = UNION {Range(on[i]) : i \in DOMAIN on}
      /\ \A i \in DOMAIN on : Len(on[i]) <= Len(tails)
  <2>1. tails = FlattenSeq(on)  BY DEF on
  <2>. QED  BY <1>6, <2>1, JoinedSequences
<1>8. more \in Seq(Seq(D)) /\ Len(more) = Len(tails) /\ DOMAIN more = DOMAIN tails
  <2>1. \A k \in DOMAIN tails : tails[k] \in Seq(D)  BY <1>7
  <2>2. more \in [DOMAIN tails -> Seq(D)]  BY <1>4, <2>1
  <2>. HIDE DEF more
  <2>. QED  BY <1>7, <2>2, SeqOfFunction
<1>9. Range(more) = {<<n>> \o q : q \in Range(tails)}
  <2>1. \A k \in DOMAIN tails : more[k] = <<n>> \o tails[k]  OBVIOUS
  <2>. HIDE DEF more
  <2>2. Range(more) = {more[k] : k \in DOMAIN tails}  BY <1>8 DEF Range
  <2>3. Range(tails) = {tails[k] : k \in DOMAIN tails}  BY DEF Range
  <2>4. ASSUME NEW p \in Range(more) PROVE \E q \in Range(tails) : p = <<n>> \o q
    <3>1. PICK k \in DOMAIN tails : p = more[k]  BY <2>2
    <3>2. tails[k] \in Range(tails) /\ p = <<n>> \o tails[k]  BY <2>1, <2>3, <3>1
    <3>. QED  BY <3>2
  <2>5. \A q \in Range(tails) : <<n>> \o q \in Range(more)  BY <2>1, <2>2, <2>3
  <2>. QED  BY <2>4, <2>5
<1>. HIDE DEF more
<1>10. more # << >>
  <2>o. PICK o : o = on[1]  OBVIOUS
  <2>1. o \in Seq(Seq(D)) /\ o # << >> /\ Len(o) <= Len(tails)  BY <1>2, <1>5, <1>6, <1>7, <2>o
  <2>2. Len(o) \in Nat /\ Len(o) # 0 /\ Len(tails) \in Nat  BY <1>7, <2>1
  <2>3. Len(more) # 0  BY <1>8, <2>1, <2>2
  <2>4. Len(<< >>) = 0  OBVIOUS
  <2>. QED  BY <2>3, <2>4
<1>k. PICK T : T = Route!Kept(more)  OBVIOUS
<1>11. /\ T \in Seq(Seq(D)) /\ T # << >> /\ Range(T) \subseteq Range(more)
       /\ Len(T) < Route!PathLimit => T = more
  BY <1>8, <1>10, <1>k, KeptPart
<1>12. ASSUME NEW p \in Range(T) PROVE score(p) <= g[n]
  <2>1. PICK q \in Range(tails) : p = <<n>> \o q  BY <1>9, <1>11
  <2>2. PICK i \in DOMAIN cs : q \in Range(on[i])  BY <1>6, <1>7
  <2>3. q \in Seq(D)  BY <1>7 DEF Range
  <2>c. PICK c : c = cs[i]  OBVIOUS
  <2>4. score(q) <= g[c] /\ g[c] \in Int /\ a + g[c] <= g[n]  BY <1>1, <1>3, <1>5, <2>2, <2>c
  <2>5. score(p) = a + score(q) /\ score(q) \in Int  BY <1>4, <2>1, <2>3
  <2>. QED  BY <1>1, <2>4, <2>5
<1>13. ASSUME Len(T) < Route!PathLimit PROVE \E p \in Range(T) : score(p) = g[n]
  <2>1. PICK c \in Range(cs) : g[n] = a + g[c]  BY <1>1
  <2>2. PICK i \in DOMAIN cs : c = cs[i]  BY <1>3
  <2>o. PICK o : o = on[i]  OBVIOUS
  <2>3. Len(o) < Route!PathLimit
    <3>1. Len(o) <= Len(T)  BY <1>6, <1>7, <1>8, <1>11, <1>13, <2>o
    <3>2. o \in Seq(Seq(D))  BY <1>5, <2>o
    <3>3. Len(o) \in Nat /\ Len(T) \in Nat /\ Route!PathLimit \in Nat
      BY <1>11, <3>2 DEF Route!PathLimit
    <3>. QED  BY <1>13, <3>1, <3>3
  <2>4. PICK q \in Range(o) : score(q) = g[c]  BY <1>5, <2>2, <2>3, <2>o
  <2>5. q \in Range(tails) /\ q \in Seq(D)
    <3>1. q \in Range(tails)  BY <1>6, <1>7, <2>o
    <3>2. \A k \in DOMAIN tails : tails[k] \in Seq(D)  BY <1>7
    <3>. QED  BY <3>1, <3>2 DEF Range
  <2>6. <<n>> \o q \in Range(T)  BY <1>9, <1>11, <1>13, <2>5
  <2>7. score(<<n>> \o q) = g[n]  BY <1>4, <2>1, <2>4, <2>5
  <2>. QED  BY <2>6, <2>7
<1>14. Solved(t, n, T)
  BY <1>11, <1>12, <1>13 DEF Solved, score, D
<1>. QED  BY <1>14, <1>k DEF more

(* The planner's paths from any node on, past nodes of higher rank.        *)
LEMMA PathsAreSolved ==
  ASSUME NEW t, Route!IsRoute(t), NEW m, HasRanks(t.map, m),
         NEW n \in DOMAIN t.map, NEW V \in SUBSET DOMAIN t.map, \A v \in V : m[n] < m[v],
         \A c \in DOMAIN t.map : m[c] < m[n] =>
            \A W \in SUBSET DOMAIN t.map :
               (\A v \in W : m[c] < m[v]) => Solved(t, c, PathTable(t.map)[<<c, W>>])
  PROVE  Solved(t, n, PathTable(t.map)[<<n, V>>])
<1>. DEFINE D == DOMAIN t.map
            table == PathTable(t.map)
            U == [c \in D |-> table[<<c, V \union {n}>>]]
<1>g. PICK g : g = BestTable(t)  OBVIOUS
<1>c. PICK cs : cs = Route!Children(t.map, n)  OBVIOUS
<1>f. PICK tails : tails = FlattenSeq([i \in DOMAIN cs |-> table[<<cs[i], V \union {n}>>]])
  OBVIOUS
<1>0. IsMap(t.map)  BY SameOperators DEF Route!IsRoute, IsMap
<1>1. cs \in Seq(D)  BY <1>0, <1>c, ChildNodes DEF IsMap
<1>2. /\ \A x \in D : m[x] \in Nat
      /\ \A c \in Range(cs) : c \in D /\ m[c] < m[n]
  <2>1. Cardinality(D) \in Nat  BY <1>0, FS_CardinalityType DEF IsMap
  <2>2. m \in [D -> 0..Cardinality(D)]  BY DEF HasRanks
  <2>3. \A c \in Range(cs) : c \in D /\ m[c] < m[n]  BY <1>c DEF HasRanks
  <2>. HIDE DEF D
  <2>. QED  BY <2>1, <2>2, <2>3
<1>3. n \notin V
  <2>1. ~(m[n] < m[n])  BY <1>2
  <2>. QED  BY <2>1
<1>4. \A c \in Range(cs) : g[c] \in Int /\ Solved(t, c, U[c])
  <2>1. TAKE c \in Range(cs)
  <2>2. c \in D /\ m[c] < m[n]  BY <1>2
  <2>3. g[c] \in Int
    <3>1. IsBest(t, g, c, g[c])  BY <1>g, <2>2, BestTableType
    <3>. QED  BY <3>1 DEF IsBest
  <2>4. \A v \in V \union {n} : m[c] < m[v]
    <3>1. \A v \in V : m[n] < m[v] /\ m[v] \in Nat  BY <1>2
    <3>2. m[c] \in Nat /\ m[n] \in Nat  BY <1>2, <2>2
    <3>3. \A v \in V : m[c] < m[v]  BY <2>2, <3>1, <3>2
    <3>. QED  BY <2>2, <3>3
  <2>5. Solved(t, c, table[<<c, V \union {n}>>])
    <3>1. V \union {n} \in SUBSET D  OBVIOUS
    <3>. QED  BY <2>2, <2>4, <3>1
  <2>. QED  BY <2>2, <2>3, <2>5
<1>5. table[<<n, V>>] = IF cs = << >> THEN << <<n>> >>
                        ELSE Route!Kept([k \in DOMAIN tails |-> <<n>> \o tails[k]])
  <2>1. <<n, V>> \in Visits(t.map)  BY DEF Visits
  <2>2. table[<<n, V>>] = PathsFrom(t.map, table, <<n, V>>)  BY <1>0, <2>1, PathTableType
  <2>h. PICK h : h = table  OBVIOUS
  <2>3. table[<<n, V>>] = PathsFrom(t.map, h, <<n, V>>)  BY <2>2, <2>h
  <2>. DEFINE on == [i \in DOMAIN cs |-> h[<<cs[i], V \union {n}>>]]
  <2>4. Route!FlattenSeq(on) = tails
    <3>1. tails = FlattenSeq(on)  BY <1>f, <2>h
    <3>. HIDE DEF on
    <3>. QED  BY <3>1, SameOperators
  <2>5. PathsFrom(t.map, h, <<n, V>>) =
          IF cs = << >> THEN << <<n>> >>
          ELSE Route!Kept([k \in DOMAIN Route!FlattenSeq(on) |-> <<n>> \o Route!FlattenSeq(on)[k]])
    BY <1>3, <1>c DEF PathsFrom
  <2>. HIDE DEF table, on
  <2>. QED  BY <2>3, <2>4, <2>5
<1>6. IsBest(t, g, n, g[n])  BY <1>g, BestTableType
<1>7. CASE cs = << >>
  <2>a. PICK a : a = Route!NodeScore(t.map[n].room, t)  OBVIOUS
  <2>p. PICK p : p = <<n>>  OBVIOUS
  <2>T. PICK T : T = <<p>>  OBVIOUS
  <2>1. g[n] = a /\ a \in Int  BY <1>6, <1>7, <1>c, <2>a DEF IsBest
  <2>2. Route!PathScore(t.map, t, p) = a  BY <2>a, <2>p, PathScoreAddsUp
  <2>3. p \in Seq(D)
    <3>1. n \in D  OBVIOUS
    <3>. HIDE DEF D
    <3>. QED  BY <2>p, <3>1, HeadAndTail
  <2>4. T \in Seq(Seq(D)) /\ T # << >> /\ Range(T) = {p}
    <3>. HIDE DEF D
    <3>1. T \in Seq(Seq(D)) /\ T # << >>  BY <2>3, <2>T, OneElement
    <3>2. DOMAIN T = {1} /\ T[1] = p  BY <2>T
    <3>. QED  BY <3>1, <3>2 DEF Range
  <2>5. Solved(t, n, T)  BY <1>g, <2>1, <2>2, <2>4 DEF Solved
  <2>6. table[<<n, V>>] = T  BY <1>5, <1>7, <2>p, <2>T
  <2>. QED  BY <2>5, <2>6
<1>8. CASE cs # << >>
  <2>1. tails = FlattenSeq([i \in DOMAIN cs |-> U[cs[i]]])
    <3>1. \A i \in DOMAIN cs : cs[i] \in D  BY <1>1
    <3>2. \A i \in DOMAIN cs : U[cs[i]] = table[<<cs[i], V \union {n}>>]
      <4>. HIDE DEF table
      <4>. QED  BY <3>1
    <3>3. [i \in DOMAIN cs |-> U[cs[i]]] = [i \in DOMAIN cs |-> table[<<cs[i], V \union {n}>>]]
      <4>. HIDE DEF table, U
      <4>. QED  BY <3>2
    <3>. HIDE DEF table, U
    <3>. QED  BY <1>f, <3>3
  <2>. HIDE DEF U, table
  <2>2. Solved(t, n, Route!Kept([k \in DOMAIN tails |-> <<n>> \o tails[k]]))
    BY <1>4, <1>6, <1>8, <1>c, <1>g, <2>1, SolvedOn
  <2>. QED  BY <1>5, <1>8, <2>2 DEF table
<1>. QED  BY <1>7, <1>8

(* A route is worth no more than the best way, and no less where all of    *)
(* its paths are known.                                                    *)
LEMMA RouteIsBest ==
  ASSUME NEW t, Route!IsRoute(t), Route!HasNoCycle(t.map), NEW n \in DOMAIN t.map
  PROVE  /\ Route!RouteScore(t.map, t, n) \in Int
         /\ Route!BestFrom(t.map, t, n) \in Int
         /\ Route!RouteScore(t.map, t, n) <= Route!BestFrom(t.map, t, n)
         /\ Len(Route!Paths(t.map, n)) < Route!PathLimit =>
               Route!RouteScore(t.map, t, n) = Route!BestFrom(t.map, t, n)
<1>. DEFINE D == DOMAIN t.map
<1>0. IsMap(t.map)  BY SameOperators DEF Route!IsRoute, IsMap
<1>m. PICK m : HasRanks(t.map, m)  BY <1>0, RanksExist
<1>. DEFINE Done(x) == \A V \in SUBSET D :
                          (\A v \in V : m[x] < m[v]) => Solved(t, x, PathTable(t.map)[<<x, V>>])
            P == {x \in D : Done(x)}
<1>1. m \in [D -> Nat]
  <2>1. Cardinality(D) \in Nat  BY <1>0, FS_CardinalityType DEF IsMap
  <2>2. m \in [D -> 0..Cardinality(D)]  BY <1>m DEF HasRanks
  <2>. HIDE DEF D
  <2>. QED  BY <2>1, <2>2
<1>2. ASSUME NEW x \in D, \A y \in D : m[y] < m[x] => y \in P PROVE x \in P
  <2>1. \A c \in D : m[c] < m[x] => Done(c)  BY <1>2
  <2>2. ASSUME NEW V \in SUBSET D, \A v \in V : m[x] < m[v]
        PROVE  Solved(t, x, PathTable(t.map)[<<x, V>>])
    BY <1>m, <2>1, <2>2, PathsAreSolved
  <2>. QED  BY <2>2
<1>3. D \subseteq P
  <2>. HIDE DEF D, P
  <2>. QED  BY <1>1, <1>2, NoFirstException
<1>T. PICK T : T = PathTable(t.map)[<<n, {}>>]  OBVIOUS
<1>4. Solved(t, n, T)
  <2>1. Done(n)  BY <1>3
  <2>2. {} \in SUBSET D  OBVIOUS
  <2>. QED  BY <1>T, <2>1, <2>2
<1>5. Route!Paths(t.map, n) = T  BY <1>4, <1>T, PathsOfTable DEF Solved
<1>b. PICK b : b = Route!BestFrom(t.map, t, n)  OBVIOUS
<1>r. PICK r : r = Route!RouteScore(t.map, t, n)  OBVIOUS
<1>6. b = BestTable(t)[n] /\ b \in Int
  <2>1. b = BestTable(t)[n]  BY <1>b, BestOfTable
  <2>2. IsBest(t, BestTable(t), n, BestTable(t)[n])  BY <1>m, BestTableType
  <2>. QED  BY <2>1, <2>2 DEF IsBest
<1>7. /\ r \in Int
      /\ \E p \in Range(T) : r = Route!PathScore(t.map, t, p)
      /\ \A p \in Range(T) : Route!PathScore(t.map, t, p) <= r
  BY <1>5, <1>r, RouteScoreType
<1>8. /\ \A p \in Range(T) : Route!PathScore(t.map, t, p) <= b
      /\ Len(T) < Route!PathLimit => \E p \in Range(T) : Route!PathScore(t.map, t, p) = b
  BY <1>4, <1>6 DEF Solved
<1>9. r <= b  BY <1>7, <1>8
<1>10. ASSUME Len(T) < Route!PathLimit PROVE r = b
  <2>1. b <= r  BY <1>7, <1>8, <1>10
  <2>. QED  BY <1>6, <1>7, <1>9, <2>1
<1>. QED  BY <1>5, <1>6, <1>7, <1>9, <1>10, <1>b, <1>r

(***************************************************************************)
(* The choice.                                                             *)
(***************************************************************************)
(* A status or a curse that fills at most one of the deck's needs is worth *)
(* less than any other card.                                               *)
LEMMA CardWorth ==
  ASSUME NEW card, NEW deck \in Seq(Faces)
  PROVE  /\ Deck!CardValue(card, deck) \in Int
         /\ "burden" \notin Deck!Roles(card) => Deck!CardValue(card, deck) >= -230
         /\ /\ "burden" \in Deck!Roles(card) /\ card.rarity \notin {"UNCOMMON", "RARE"}
            /\ Cardinality(Deck!Roles(card) \cap Deck!Needs(deck)) <= 1
            => Deck!CardValue(card, deck) <= -300
<1>. DEFINE needed == Deck!Roles(card) \cap Deck!Needs(deck)
            copies == Deck!Copies(card, deck)
            rare   == CASE card.rarity = "RARE" -> 120 [] card.rarity = "UNCOMMON" -> 50 [] OTHER -> 0
            many   == IF copies >= 2 THEN Min({150, 35 * copies}) ELSE 0
            burden == IF "burden" \in Deck!Roles(card) THEN 500 ELSE 0
            large  == IF /\ Len(deck) >= Deck!LargeDeck
                         /\ Deck!Roles(card) \cap {"draw", "scaling", "energy"} = {}
                      THEN 80 ELSE 0
<1>1. Cardinality(needed) \in Nat
  <2>1. needed \subseteq {"damage", "block", "draw", "scaling"}
    BY DEF Deck!Needs, Deck!Minimum
  <2>2. IsFiniteSet({"damage", "block", "draw", "scaling"})
    <3>. DEFINE f == [i \in 1..4 |-> CASE i = 1 -> "damage" [] i = 2 -> "block"
                                         [] i = 3 -> "draw" [] i = 4 -> "scaling"]
    <3>1. {f[i] : i \in 1..4} = {"damage", "block", "draw", "scaling"}
      <4>1. f[1] = "damage" /\ f[2] = "block" /\ f[3] = "draw" /\ f[4] = "scaling"  OBVIOUS
      <4>2. 1..4 = {1, 2, 3, 4}  OBVIOUS
      <4>. HIDE DEF f
      <4>. QED  BY <4>1, <4>2
    <3>2. DOMAIN f = 1..4 /\ IsFiniteSet(1..4)  BY IndicesAreFinite
    <3>. HIDE DEF f
    <3>3. IsFiniteSet({f[i] : i \in 1..4})  BY <3>2, ImageIsFinite
    <3>. QED  BY <3>1, <3>3
  <2>. HIDE DEF needed
  <2>3. IsFiniteSet(needed)  BY <2>1, <2>2, FS_Subset
  <2>. QED  BY <2>3, FS_CardinalityType
<1>2. copies \in Nat
  <2>. DEFINE same == {i \in DOMAIN deck : deck[i].name = card.name}
  <2>1. copies = Cardinality(same)  BY SameOperators DEF Deck!Copies
  <2>2. Len(deck) \in Nat /\ DOMAIN deck = 1..Len(deck) /\ same \subseteq DOMAIN deck  OBVIOUS
  <2>3. IsFiniteSet(DOMAIN deck)  BY <2>2, IndicesAreFinite
  <2>. HIDE DEF same, copies
  <2>4. IsFiniteSet(same)  BY <2>2, <2>3, FS_Subset
  <2>. QED  BY <2>1, <2>4, FS_CardinalityType
<1>3. Deck!CardValue(card, deck) = 200 * Cardinality(needed) + rare - many - burden - large
  BY SameOperators DEF Deck!CardValue
<1>. HIDE DEF needed, copies
<1>4. many \in 0..150
  <2>. DEFINE loss == 35 * copies
  <2>1. loss \in Nat /\ 150 \in Int  BY <1>2
  <2>. HIDE DEF loss
  <2>m. PICK m : m = Min({150, loss})  OBVIOUS
  <2>a. PICK a : a = 150  OBVIOUS
  <2>b. PICK b : b = loss  OBVIOUS
  <2>2. a \in Int /\ b \in Int /\ b >= 0 /\ m = Min({a, b})  BY <2>1, <2>a, <2>b, <2>m
  <2>3. (m = a \/ m = b) /\ m <= a
    <3>1. Min({a, b}) \in {a, b}  BY <2>2, MinOfTwo
    <3>2. Min({a, b}) <= a  BY <2>2, MinOfTwo
    <3>. QED  BY <2>2, <3>1, <3>2
  <2>4. m \in 0..150
    <3>1. m \in Int /\ m >= 0  BY <2>2, <2>3, <2>a
    <3>2. m <= 150  BY <2>3, <2>a
    <3>. QED  BY <3>1, <3>2
  <2>5. Min({150, loss}) \in 0..150  BY <2>4, <2>m
  <2>. QED  BY <2>5 DEF loss
<1>5. /\ rare \in Nat /\ burden \in Nat /\ large \in 0..80
      /\ card.rarity \notin {"UNCOMMON", "RARE"} => rare = 0
      /\ burden = IF "burden" \in Deck!Roles(card) THEN 500 ELSE 0
  OBVIOUS
<1>6. Cardinality(needed) = Cardinality(Deck!Roles(card) \cap Deck!Needs(deck))  BY DEF needed
<1>. HIDE DEF rare, many, burden, large
<1>. QED  BY <1>1, <1>3, <1>4, <1>5, <1>6

LEMMA PriorityRange ==
  ASSUME NEW o
  PROVE  Priority(o) \in Int /\ Priority(o) >= -1000
BY DEF Priority

(* A point that the route knows has the score of its route. *)
LEMMA ScoreOnRoute ==
  ASSUME NEW r, NEW o, OnRoute(r, o)
  PROVE  Score(r, o) = Route!RouteScore(r.route.map, r.route, o.control.id)
BY DEF Score

LEMMA ScoreType ==
  ASSUME NEW r, Route!IsRoute(r.route), r.deck \in Seq(Faces), NEW o
  PROVE  Score(r, o) \in Int
<1>1. CASE OnRoute(r, o)
  <2>1. o.control.id \in DOMAIN r.route.map  BY <1>1 DEF OnRoute
  <2>. QED  BY <1>1, <2>1, ScoreOnRoute, RouteScoreType
<1>2. CASE ~OnRoute(r, o)
  <2>1. Score(r, o) = IF o.card # NoCard THEN Deck!CardValue(o.card, r.deck) ELSE 0
    BY <1>2 DEF Score
  <2>2. Deck!CardValue(o.card, r.deck) \in Int  BY CardWorth
  <2>. QED  BY <2>1, <2>2
<1>. QED  BY <1>1, <1>2

LEMMA EnabledPlaces ==
  ASSUME NEW O, NEW r, r.options \in Seq(O)
  PROVE  Enabled(r) \in SUBSET Nat /\ IsFiniteSet(Enabled(r))
<1>1. Len(r.options) \in Nat /\ DOMAIN r.options = 1..Len(r.options)
  OBVIOUS
<1>2. IsFiniteSet(DOMAIN r.options) /\ DOMAIN r.options \in SUBSET Nat
  BY <1>1, IndicesAreFinite
<1>3. Enabled(r) \subseteq DOMAIN r.options  BY DEF Enabled
<1>. QED  BY <1>2, <1>3, FS_Subset

(* The first of those with the greatest value. *)
LEMMA FirstOfTheBest ==
  ASSUME NEW S \in SUBSET Nat, IsFiniteSet(S), S # {}, NEW v \in [S -> Int]
  PROVE  /\ {k \in S : \A j \in S : v[j] <= v[k]} # {}
         /\ Min({k \in S : \A j \in S : v[j] <= v[k]}) \in S
         /\ \A j \in S : v[j] <= v[Min({k \in S : \A i \in S : v[i] <= v[k]})]
<1>. DEFINE B == {k \in S : \A j \in S : v[j] <= v[k]}
<1>1. B # {} /\ B \in SUBSET Nat /\ B \subseteq S  BY GreatestExists
<1>. HIDE DEF B
<1>2. Min(B) \in B  BY <1>1, MinOfNaturals
<1>3. \A k \in B : \A j \in S : v[j] <= v[k]  BY DEF B
<1>. QED  BY <1>1, <1>2, <1>3 DEF B

LEMMA AutoChoiceIsEnabled ==
  ASSUME NEW O, NEW r, r.options \in Seq(O), Enabled(r) # {}
  PROVE  AutoChoice(r) \subseteq Enabled(r)
<1>. DEFINE cards    == OfKind(r, {"card"})
            selected == {k \in cards : r.options[k].selected}
            confirm  == OfKind(r, {"confirm", "proceed", "skip"})
            S == CASE selected # {} /\ confirm # {} -> confirm
                   [] cards \ selected # {}         -> cards \ selected
                   [] cards # {}                    -> cards
                   [] OTHER                         -> Enabled(r)
<1>1. S # {} /\ S \subseteq Enabled(r)
  <2>1. cards \subseteq Enabled(r) /\ confirm \subseteq Enabled(r)  BY DEF OfKind
  <2>. HIDE DEF cards, confirm, selected
  <2>2. CASE selected # {} /\ confirm # {}
    BY <2>1, <2>2
  <2>3. CASE ~(selected # {} /\ confirm # {}) /\ cards \ selected # {}
    <3>1. S = cards \ selected \/ S = cards  BY <2>3
    <3>2. cards # {}  BY <2>3
    <3>. QED  BY <2>1, <2>3, <3>1, <3>2
  <2>4. CASE ~(selected # {} /\ confirm # {}) /\ cards \ selected = {}
    BY <2>1, <2>4
  <2>. QED  BY <2>2, <2>3, <2>4
<1>2. AutoChoice(r) = IF r.type = "CARD_SELECT" THEN {Min(S)}
                      ELSE IF Cardinality(Enabled(r)) = 1 THEN Enabled(r) ELSE {}
  BY DEF AutoChoice
<1>. HIDE DEF S
<1>3. Min(S) \in S
  <2>1. S \in SUBSET Nat  BY <1>1, EnabledPlaces
  <2>. QED  BY <1>1, <2>1, MinOfNaturals
<1>. QED  BY <1>1, <1>2, <1>3

(* Nothing else untried has a higher priority than k, or the same one and  *)
(* a higher score.                                                         *)
Foremost(r, k, P) ==
    \A j \in Enabled(r) \ (P \union {k}) :
        /\ Priority(r.options[j]) <= Priority(r.options[k])
        /\ Priority(r.options[j]) = Priority(r.options[k])
           => Score(r, r.options[j]) <= Score(r, r.options[k])

LEMMA PreferredIsEnabled ==
  ASSUME NEW O, NEW r, r.options \in Seq(O),
         Route!IsRoute(r.route), r.deck \in Seq(Faces), Enabled(r) # {}, NEW tried
  PROVE  /\ Preferred(r, tried) \in Enabled(r)
         /\ Foremost(r, Preferred(r, tried), tried)
         /\ Preferred(r, tried) \in tried => Enabled(r) \subseteq tried
<1>. DEFINE S == Enabled(r)
            priority(k) == IF k \in tried THEN StalledPriority ELSE Priority(r.options[k])
            v == [k \in S |-> priority(k)]
            first == {k \in S : \A j \in S : v[j] <= v[k]}
            w == [k \in first |-> Score(r, r.options[k])]
            best == {k \in first : \A j \in first : w[j] <= w[k]}
<1>1. S \in SUBSET Nat /\ IsFiniteSet(S) /\ S # {}  BY EnabledPlaces
<1>2. v \in [S -> Int]
  <2>1. \A k \in S : priority(k) \in Int  BY PriorityRange DEF StalledPriority
  <2>. HIDE DEF priority
  <2>. QED  BY <2>1
<1>3. first = {k \in S : \A j \in S : priority(j) <= priority(k)}
  <2>. HIDE DEF priority
  <2>. QED  OBVIOUS
<1>4. best = {k \in first : \A j \in first : Score(r, r.options[j]) <= Score(r, r.options[k])}
  <2>. HIDE DEF first
  <2>. QED  OBVIOUS
<1>5. Preferred(r, tried) = Min(best)
  <2>1. Preferred(r, tried) =
          LET f == {k \in S : \A j \in S : priority(j) <= priority(k)}
          IN  Min({k \in f : \A j \in f : Score(r, r.options[j]) <= Score(r, r.options[k])})
    BY DEF Preferred
  <2>. HIDE DEF first, best, priority, S
  <2>. QED  BY <1>3, <1>4, <2>1
<1>. HIDE DEF S, v
<1>6. first # {} /\ first \subseteq S  BY <1>1, <1>2, FirstOfTheBest
<1>. HIDE DEF first
<1>7. first \in SUBSET Nat /\ IsFiniteSet(first)  BY <1>1, <1>6, FS_Subset
<1>8. w \in [first -> Int]  BY ScoreType
<1>. HIDE DEF w
<1>k. PICK k : k = Min(best)  OBVIOUS
<1>9. k \in first /\ \A j \in first : w[j] <= w[k]  BY <1>6, <1>7, <1>8, <1>k, FirstOfTheBest
<1>10. k \in S /\ \A j \in S : priority(j) <= priority(k)  BY <1>3, <1>9
<1>11. \A j \in first : Score(r, r.options[j]) <= Score(r, r.options[k])  BY <1>9 DEF w
<1>13. ASSUME NEW j \in Enabled(r) \ tried PROVE k \notin tried
  <2>p. PICK p : p = Priority(r.options[j])  OBVIOUS
  <2>1. j \in S /\ priority(j) = p  BY <1>13, <2>p DEF S
  <2>2. p \in Int /\ p >= -1000  BY <2>p, PriorityRange
  <2>3. SUFFICES ASSUME k \in tried PROVE FALSE  OBVIOUS
  <2>4. priority(k) = -4000  BY <2>3 DEF StalledPriority
  <2>5. p <= -4000  BY <1>10, <2>1, <2>4
  <2>. QED  BY <2>2, <2>5
<1>12. ASSUME NEW j \in Enabled(r) \ tried
       PROVE  /\ Priority(r.options[j]) <= Priority(r.options[k])
              /\ Priority(r.options[j]) = Priority(r.options[k])
                 => Score(r, r.options[j]) <= Score(r, r.options[k])
  <2>p. PICK p : p = Priority(r.options[j])  OBVIOUS
  <2>q. PICK q : q = Priority(r.options[k])  OBVIOUS
  <2>1. j \in S /\ priority(j) = p  BY <2>p DEF S
  <2>2. p \in Int /\ p >= -1000 /\ q \in Int  BY <2>p, <2>q, PriorityRange
  <2>3. k \notin tried  BY <1>12, <1>13
  <2>4. priority(k) = q  BY <2>3, <2>q
  <2>5. p <= q  BY <1>10, <2>1, <2>4
  <2>6. ASSUME p = q PROVE j \in first
    <3>1. priority(j) = priority(k)  BY <2>1, <2>4, <2>6
    <3>. HIDE DEF priority
    <3>. QED  BY <1>3, <1>10, <2>1, <3>1
  <2>. QED  BY <1>11, <2>5, <2>6, <2>p, <2>q
<1>. QED  BY <1>5, <1>10, <1>12, <1>13, <1>k DEF S, Foremost

LEMMA MenuFallbackIsEnabled ==
  ASSUME NEW O, NEW r, r.options \in Seq(O),
         Route!IsRoute(r.route), r.deck \in Seq(Faces), Enabled(r) # {}, NEW tried
  PROVE  /\ MenuFallback(r, tried) \in Enabled(r)
         /\ MenuFallback(r, tried) \in tried => Enabled(r) \subseteq tried
<1>. DEFINE open   == IF Enabled(r) \subseteq tried THEN Enabled(r) ELSE Enabled(r) \ tried
            routes == {k \in open : OnRoute(r, r.options[k])}
            cards  == {k \in open : r.options[k].card # NoCard}
            best(K) == {k \in K : \A j \in K : Score(r, r.options[j]) <= Score(r, r.options[k])}
            K == CASE routes # {} -> best(routes)
                   [] routes = {} /\ cards # {} -> best(cards)
                   [] OTHER -> open
<1>1. open # {} /\ open \subseteq Enabled(r)  OBVIOUS
<1>10. \A k \in open : k \in tried => Enabled(r) \subseteq tried  OBVIOUS
<1>2. open \in SUBSET Nat /\ IsFiniteSet(open)
  <2>1. Enabled(r) \in SUBSET Nat /\ IsFiniteSet(Enabled(r))  BY EnabledPlaces
  <2>. HIDE DEF open
  <2>. QED  BY <1>1, <2>1, FS_Subset
<1>3. MenuFallback(r, tried) = Min(K)  BY DEF MenuFallback
<1>4. routes \subseteq open /\ cards \subseteq open  OBVIOUS
<1>. HIDE DEF open, routes, cards
<1>5. ASSUME NEW P, P \subseteq open, P # {} PROVE Min(best(P)) \in P
  <2>1. P \in SUBSET Nat /\ IsFiniteSet(P)  BY <1>2, <1>5, FS_Subset
  <2>. DEFINE v == [k \in P |-> Score(r, r.options[k])]
  <2>2. v \in [P -> Int]  BY ScoreType
  <2>3. best(P) = {k \in P : \A j \in P : v[j] <= v[k]}  OBVIOUS
  <2>. HIDE DEF v, best
  <2>. QED  BY <1>5, <2>1, <2>2, <2>3, FirstOfTheBest
<1>6. Min(open) \in open  BY <1>1, <1>2, MinOfNaturals
<1>. HIDE DEF best
<1>7. CASE routes # {}
  <2>1. K = best(routes)  BY <1>7
  <2>2. Min(best(routes)) \in open  BY <1>4, <1>5, <1>7
  <2>. HIDE DEF K
  <2>. QED  BY <1>1, <1>3, <1>10, <2>1, <2>2
<1>8. CASE routes = {} /\ cards # {}
  <2>1. K = best(cards)  BY <1>8
  <2>2. Min(best(cards)) \in open  BY <1>4, <1>5, <1>8
  <2>. HIDE DEF K
  <2>. QED  BY <1>1, <1>3, <1>10, <2>1, <2>2
<1>9. CASE routes = {} /\ cards = {}
  <2>1. K = open  BY <1>9
  <2>. HIDE DEF K
  <2>. QED  BY <1>1, <1>3, <1>6, <1>10, <2>1
<1>. QED  BY <1>7, <1>8, <1>9

(* Whatever decides, an option is chosen that is enabled. *)
LEMMA MenuChoicesAreEnabled ==
  ASSUME policy \in Policies,
         NEW O, NEW r, r.options \in Seq(O),
         Route!IsRoute(r.route), r.deck \in Seq(Faces), Enabled(r) # {}, NEW tried
  PROVE  MenuChoices(r, tried) \subseteq Enabled(r)
<1>. DEFINE said == 1..(Len(r.options) + 1)
            thoughts == Thoughts(said, FirstAvailable(r, tried))
            fallback == MenuFallback(r, tried)
            decided == Decided(thoughts, Enabled(r), fallback)
<1>1. AutoChoice(r) \subseteq Enabled(r)  BY AutoChoiceIsEnabled
<1>2. Preferred(r, tried) \in Enabled(r)  BY PreferredIsEnabled
<1>3. fallback \in Enabled(r)  BY MenuFallbackIsEnabled
<1>4. CASE AutoChoice(r) # {}
  BY <1>1, <1>4 DEF MenuChoices
<1>5. CASE AutoChoice(r) = {} /\ policy = "local"
  <2>1. MenuChoices(r, tried) = {Preferred(r, tried)}  BY <1>5 DEF MenuChoices
  <2>. QED  BY <1>2, <2>1
<1>6. CASE AutoChoice(r) = {} /\ policy = "learned"
  <2>1. MenuChoices(r, tried) = Enabled(r)  BY <1>6 DEF MenuChoices
  <2>. QED  BY <2>1
<1>7. CASE AutoChoice(r) = {} /\ policy \in LanguageModels
  <2>1. MenuChoices(r, tried) = decided
    BY <1>7 DEF MenuChoices, LanguageModels
  <2>. HIDE DEF thoughts, fallback
  <2>2. ASSUME NEW t \in thoughts, t \intersect Enabled(r) # {} PROVE t \subseteq Enabled(r)
    <3>1. \E x : t = {x} \/ t = {}
      BY <1>7, <2>2 DEF thoughts, Thoughts, LanguageModels
    <3>. QED  BY <2>2, <3>1
  <2>. QED  BY <1>3, <2>1, <2>2 DEF Decided
<1>. QED  BY <1>4, <1>5, <1>6, <1>7 DEF Policies

(* The local policy chooses what is foremost, except where cards are       *)
(* selected one after the other.                                           *)
LEMMA LocalChoiceIsForemost ==
  ASSUME policy = "local",
         NEW O, NEW r, r.options \in Seq(O),
         Route!IsRoute(r.route), r.deck \in Seq(Faces), Enabled(r) # {}, r.type # "CARD_SELECT",
         NEW tried, NEW k \in MenuChoices(r, tried)
  PROVE  Foremost(r, k, tried)
<1>1. CASE AutoChoice(r) # {}
  <2>1. AutoChoice(r) = Enabled(r) /\ Cardinality(Enabled(r)) = 1
    BY <1>1 DEF AutoChoice
  <2>2. k \in Enabled(r)  BY <1>1, <2>1 DEF MenuChoices
  <2>3. \A j \in Enabled(r) : j = k
    <3>1. IsFiniteSet(Enabled(r))  BY EnabledPlaces
    <3>2. PICK x : Enabled(r) = {x}  BY <2>1, <3>1, FS_Singleton
    <3>. QED  BY <2>2, <3>2
  <2>. QED  BY <2>3 DEF Foremost
<1>2. CASE AutoChoice(r) = {}
  <2>1. MenuChoices(r, tried) = {Preferred(r, tried)}  BY <1>2 DEF MenuChoices
  <2>2. k = Preferred(r, tried)  BY <2>1
  <2>. QED  BY <2>2, PreferredIsEnabled
<1>. QED  BY <1>1, <1>2

(* Neither the local policy nor the fallback of a language model that does *)
(* not answer chooses what was tried while something is untried.           *)
LEMMA UntriedComeFirst ==
  ASSUME policy \in {"local", "silent"},
         NEW O, NEW r, r.options \in Seq(O),
         Route!IsRoute(r.route), r.deck \in Seq(Faces), Enabled(r) # {}, r.type # "CARD_SELECT",
         NEW tried, NEW k \in MenuChoices(r, tried), k \in tried
  PROVE  Enabled(r) \subseteq tried
<1>1. CASE AutoChoice(r) # {}
  <2>1. AutoChoice(r) = Enabled(r) /\ Cardinality(Enabled(r)) = 1
    BY <1>1 DEF AutoChoice
  <2>2. k \in Enabled(r)  BY <1>1, <2>1 DEF MenuChoices
  <2>3. IsFiniteSet(Enabled(r))  BY EnabledPlaces
  <2>4. PICK x : Enabled(r) = {x}  BY <2>1, <2>3, FS_Singleton
  <2>. QED  BY <2>2, <2>4
<1>2. CASE AutoChoice(r) = {} /\ policy = "local"
  <2>1. MenuChoices(r, tried) = {Preferred(r, tried)}  BY <1>2 DEF MenuChoices
  <2>2. k = Preferred(r, tried)  BY <2>1
  <2>. QED  BY <2>2, PreferredIsEnabled
<1>3. CASE AutoChoice(r) = {} /\ policy = "silent"
  <2>. DEFINE said == 1..(Len(r.options) + 1)
              thoughts == Thoughts(said, FirstAvailable(r, tried))
              fallback == MenuFallback(r, tried)
  <2>1. MenuChoices(r, tried) = Decided(thoughts, Enabled(r), fallback)
    BY <1>3 DEF MenuChoices
  <2>2. thoughts = {{}}  BY <1>3 DEF Thoughts
  <2>3. fallback \in tried => Enabled(r) \subseteq tried  BY MenuFallbackIsEnabled
  <2>. HIDE DEF thoughts, fallback
  <2>4. k = fallback  BY <2>1, <2>2 DEF Decided
  <2>. QED  BY <2>3, <2>4
<1>. QED  BY <1>1, <1>2, <1>3

(***************************************************************************)
(* What was read of the map, of the player and of the deck.                *)
(***************************************************************************)
LEMMA GlimpseParts ==
  ASSUME NEW s, Route!IsRoute(s.route), s.deck \in Seq(Faces), NEW g \in Glimpses(s)
  PROVE  Route!IsRoute(g.route) /\ g.deck \in Seq(Faces)
<1>. DEFINE t == s.route
            Glimpse(N, hp, maxHp, gold, deck) ==
              [route |-> [map |-> Restrict(t.map, N), hp |-> hp, maxHp |-> maxHp, gold |-> gold],
               deck |-> deck]
<1>1. /\ IsFiniteSet(DOMAIN t.map)
      /\ \A n \in DOMAIN t.map : t.map[n].room \in Route!Rooms /\ t.map[n].children \in Seq(STRING)
      /\ t.hp \in Nat /\ t.maxHp \in Nat /\ t.gold \in Nat
  BY SameOperators DEF Route!IsRoute
<1>2. ASSUME NEW N \in SUBSET DOMAIN t.map, NEW hp \in Nat, NEW gold \in Nat, NEW deck \in Seq(Faces)
      PROVE  /\ Route!IsRoute(Glimpse(N, hp, 0, gold, deck).route)
             /\ Glimpse(N, hp, 0, gold, deck).deck \in Seq(Faces)
  <2>. DEFINE m == Restrict(t.map, N)
              u == [map |-> m, hp |-> hp, maxHp |-> 0, gold |-> gold]
  <2>1. DOMAIN m = N /\ \A n \in N : m[n] = t.map[n]  BY DEF Restrict
  <2>2. IsFiniteSet(N)  BY <1>1, FS_Subset
  <2>. HIDE DEF m
  <2>3. u.map = m /\ u.hp = hp /\ u.maxHp = 0 /\ u.gold = gold  OBVIOUS
  <2>. HIDE DEF u
  <2>4. \A n \in DOMAIN u.map : u.map[n].room \in Route!Rooms /\ u.map[n].children \in Seq(STRING)
    BY <1>1, <2>1, <2>3
  <2>5. Route!IsFiniteSet(DOMAIN u.map)  BY <2>1, <2>2, <2>3, SameOperators
  <2>6. u.hp \in Nat /\ u.maxHp \in Nat /\ u.gold \in Nat  BY <2>3
  <2>7. Route!IsRoute(u)  BY <2>4, <2>5, <2>6 DEF Route!IsRoute
  <2>. QED  BY <2>7 DEF u, m
<1>. HIDE DEF Glimpse
<1>3. CASE s.halfRead = "map"
  <2>1. PICK N \in MapParts(t.map) : g = Glimpse(N, 0, 0, 0, << >>)
    BY <1>3 DEF Glimpses, Glimpse
  <2>2. N \in SUBSET DOMAIN t.map /\ << >> \in Seq(Faces)  BY DEF MapParts
  <2>. QED  BY <1>2, <2>1, <2>2
<1>4. CASE s.halfRead = "player"
  <2>1. PICK x \in {<<0, 0>>, <<0, t.gold>>, <<t.hp, t.gold>>} :
             g = Glimpse(DOMAIN t.map, x[1], 0, x[2], << >>)
    BY <1>4 DEF Glimpses, Glimpse
  <2>2. x[1] \in Nat /\ x[2] \in Nat /\ << >> \in Seq(Faces)  BY <1>1
  <2>. QED  BY <1>2, <2>1, <2>2
<1>5. CASE s.halfRead = "deck"
  <2>1. PICK n \in 0..Len(s.deck) : g = [route |-> t, deck |-> SubSeq(s.deck, 1, n)]
    BY <1>5 DEF Glimpses
  <2>2. SubSeq(s.deck, 1, n) \in Seq(Faces)  OBVIOUS
  <2>. QED  BY <2>1, <2>2
<1>6. CASE s.halfRead \notin {"map", "player", "deck"}
  <2>1. g = [route |-> t, deck |-> s.deck]  BY <1>6 DEF Glimpses
  <2>. QED  BY <2>1
<1>. QED  BY <1>3, <1>4, <1>5, <1>6

(* A screen is a reading, with what was read of the rest.                  *)
LEMMA ScreenParts ==
  ASSUME NEW s, Route!IsRoute(s.route), s.deck \in Seq(Faces), NEW r \in Screens(s)
  PROVE  /\ r.type = Read(s).type /\ r.options = Read(s).options
         /\ Route!IsRoute(r.route) /\ r.deck \in Seq(Faces)
         /\ Enabled(r) = Enabled(Read(s)) /\ (ShouldAct(r) <=> ShouldAct(Read(s)))
<1>1. PICK g \in Glimpses(s) : r = [type |-> Read(s).type, options |-> Read(s).options,
                                    route |-> g.route, deck |-> g.deck]
  BY DEF Screens
<1>2. /\ r.type = Read(s).type /\ r.options = Read(s).options
      /\ r.route = g.route /\ r.deck = g.deck
  BY <1>1
<1>. QED  BY <1>2, GlimpseParts DEF Enabled, ShouldAct
==============================================================================
