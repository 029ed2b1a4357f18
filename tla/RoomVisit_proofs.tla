--------------------------- MODULE RoomVisit_proofs ---------------------------
(* A visit to a room, proved: its state has its types, the agent dies in   *)
(* an event only when it must, no unknown screen is a dead end, the local  *)
(* policy takes no burden where it could take another card, and a decision *)
(* about the fight is accepted, for the first of its players, unless the   *)
(* fight has changed; whatever the scenes, the cards, the maps, the policy *)
(* and its answers.                                                        *)
EXTENDS RoomVisit, CombatTurn_proofs, MenuChoice_proofs

(***************************************************************************)
(* What a scene is made of.                                                *)
(***************************************************************************)
LEMMA LayerParts ==
  ASSUME NEW types, NEW layer \in LayersOf(types)
  PROVE  /\ layer.type \in types
         /\ layer.controls \in Seq(Controls)
         /\ \A i \in DOMAIN layer.controls : FitsIn(layer.controls[i], layer.type)
         /\ layer.controls \in Seq(Range(layer.controls))
         /\ Range(layer.controls) \in SUBSET Controls
         /\ \A c \in Range(layer.controls) : FitsIn(c, layer.type)
<1>1. /\ layer.type \in types
      /\ layer.controls \in Seq(Controls)
      /\ \A i \in DOMAIN layer.controls : FitsIn(layer.controls[i], layer.type)
  BY DEF LayersOf
<1>2. layer.controls \in Seq(Range(layer.controls))  BY <1>1, OwnElements
<1>3. Range(layer.controls) = {layer.controls[i] : i \in DOMAIN layer.controls}  BY DEF Range
<1>. QED  BY <1>1, <1>2, <1>3

(* No layer is a layer without controls. *)
LEMMA NoLayerParts ==
  /\ \A types : "none" \in types => NoLayer \in LayersOf(types)
  /\ NoLayer.type = "none" /\ NoLayer.controls = << >> /\ Range(NoLayer.controls) = {}
<1>1. << >> \in Seq(Controls) /\ DOMAIN << >> = {}  OBVIOUS
<1>2. NoLayer.type = "none" /\ NoLayer.controls = << >>  BY DEF NoLayer
<1>3. Range(NoLayer.controls) = {}  BY <1>1, <1>2 DEF Range
<1>4. \A types : "none" \in types => NoLayer \in LayersOf(types)
  BY <1>1 DEF NoLayer, LayersOf
<1>. QED  BY <1>2, <1>3, <1>4

(* A scene is made of layers in which the controls fit. *)
LEMMA SceneParts ==
  ASSUME NEW s \in AllScenes
  PROVE  /\ s.modal \in LayersOf({"none", "MODAL"})
         /\ s.menu \in LayersOf({"none", "MAIN_MENU"})
         /\ s.map \in LayersOf({"none", "MAP"})
         /\ s.overlays \in Seq(Overlays)
         /\ s.room \in LayersOf(RoomTypes)
         /\ s.victory \in Seq(Controls)
         /\ \A i \in DOMAIN s.victory : FitsIn(s.victory[i], "none")
         /\ s.inRun \in BOOLEAN /\ s.fight \in BOOLEAN /\ s.halfRead \in HalfReads
         /\ s.fullBelt \in BOOLEAN
         /\ s.route \in Routes /\ s.deck \in Seq(Faces)
         /\ MainMenu(s) \in LayersOf({"none", "MAIN_MENU"})
         /\ TopOverlay(s) \in LayersOf(OverlayTypes \union {"none"})
         /\ s.overlays # << >> => TopOverlay(s) \in Overlays
<1>1. /\ s.modal \in LayersOf({"none", "MODAL"})
      /\ s.menu \in LayersOf({"none", "MAIN_MENU"})
      /\ s.map \in LayersOf({"none", "MAP"})
      /\ s.overlays \in Seq(Overlays)
      /\ s.room \in LayersOf(RoomTypes)
      /\ s.victory \in Seq(Controls)
      /\ \A i \in DOMAIN s.victory : FitsIn(s.victory[i], "none")
      /\ s.inRun \in BOOLEAN /\ s.fight \in BOOLEAN /\ s.halfRead \in HalfReads
      /\ s.fullBelt \in BOOLEAN
      /\ s.route \in Routes /\ s.deck \in Seq(Faces)
  BY DEF AllScenes, MapLayers
<1>2. MainMenu(s) \in LayersOf({"none", "MAIN_MENU"})  BY <1>1, NoLayerParts DEF MainMenu
<1>3. s.overlays # << >> => TopOverlay(s) \in Overlays
  <2>1. s.overlays # << >> => Last(s.overlays) \in Overlays  BY <1>1 DEF Last
  <2>. QED  BY <2>1 DEF TopOverlay
<1>4. TopOverlay(s) \in LayersOf(OverlayTypes \union {"none"})
  <2>1. Overlays \subseteq LayersOf(OverlayTypes \union {"none"})  BY DEF Overlays, LayersOf
  <2>2. s.overlays = << >> => TopOverlay(s) = NoLayer  BY DEF TopOverlay
  <2>3. NoLayer \in LayersOf(OverlayTypes \union {"none"})  BY NoLayerParts
  <2>. QED  BY <1>3, <2>1, <2>2, <2>3
<1>. QED  BY <1>1, <1>2, <1>3, <1>4

(***************************************************************************)
(* What is read of a scene.                                                *)
(***************************************************************************)
ControlsOf(s) ==
    Range(s.modal.controls) \union Range(MainMenu(s).controls) \union Range(s.map.controls)
    \union Range(TopOverlay(s).controls) \union Range(s.victory) \union Range(s.room.controls)

(* Options for the controls of a scene, none of which kills without need.  *)
Fine(s) == FineFor(ControlsOf(s), s.room.controls)

(* Death is offered in an event's room only. *)
LEMMA HarmlessControls ==
  ASSUME NEW s \in AllScenes, NEW C \in SUBSET ControlsOf(s), \A c \in C : "lethal" \notin c.is
  PROVE  OptionsFor(C) \subseteq Fine(s)
BY DEF OptionsFor, Fine, FineFor

(* What is not an event offers no death. *)
LEMMA HarmlessLayer ==
  ASSUME NEW s \in AllScenes, NEW types, NEW layer \in LayersOf(types), layer.type # "EVENT",
         Range(layer.controls) \subseteq ControlsOf(s)
  PROVE  OptionsFor(Range(layer.controls)) \subseteq Fine(s)
<1>1. \A c \in Range(layer.controls) : "lethal" \notin c.is  BY LayerParts DEF FitsIn
<1>. QED  BY <1>1, HarmlessControls

(* Nor does an event where another choice is open. *)
LEMMA RoomIsFine ==
  ASSUME NEW s \in AllScenes
  PROVE  FineFor(Range(s.room.controls), s.room.controls) \subseteq Fine(s)
BY DEF Fine, FineFor, OptionsFor, ControlsOf

LayerTypes == RoomTypes \union OverlayTypes \union {"MODAL", "MAIN_MENU", "MAP"}

(* A probe hands on a reading of the same options. *)
LEMMA OutcomeReading ==
  ASSUME NEW O, NEW r, r \in Readings(O), NEW layer
  PROVE  /\ Outcome(r, layer).reading \in Readings(O)
         /\ Lively(r) => Lively(Outcome(r, layer).reading)
         /\ Outcome(r, layer).reading.type \in {r.type, ""}
         /\ Whole(layer.controls) =>
               Outcome(r, layer).done \/ (layer.type = "MODAL" /\ r.options = << >>)
         /\ layer.type # "MODAL" => Outcome(r, layer).reading = r
         /\ Outcome(r, layer).done \in BOOLEAN
<1>1. [r EXCEPT !.type = ""] \in Readings(O)
      /\ [r EXCEPT !.type = ""].options = r.options /\ [r EXCEPT !.type = ""].type = ""
  BY DEF Readings, ScreenTypes
<1>2. Whole(layer.controls) \in BOOLEAN  BY DEF Whole
<1>3. Lively(r) => Lively(Outcome(r, layer).reading)  BY <1>1 DEF Outcome, Lively
<1>. QED  BY <1>1, <1>2, <1>3 DEF Outcome

(* A probe of anything but an event. *)
LEMMA ProbedReading ==
  ASSUME NEW s \in AllScenes, NEW types \in SUBSET LayerTypes, NEW layer \in LayersOf(types),
         layer.type # "EVENT", Range(layer.controls) \subseteq ControlsOf(s),
         NEW found, found.reading \in Readings(Fine(s)), found.done \in BOOLEAN
  PROVE  /\ Probed(s, found, layer).reading \in Readings(Fine(s))
         /\ Probed(s, found, layer).done \in BOOLEAN
         /\ Probed(s, found, layer).reading.type \in {found.reading.type, TypeOf(layer), ""}
         /\ Lively(found.reading) /\ layer.type \in {"none", "MAIN_MENU", "MAP"}
            => Lively(Probed(s, found, layer).reading)
         /\ found.done \/ layer = NoLayer => Probed(s, found, layer) = found
         /\ ~found.done /\ layer # NoLayer
            => Probed(s, found, layer) = Outcome(Built(s, found.reading, layer), layer)
<1>. DEFINE C == Range(layer.controls)
<1>1. C \in SUBSET Controls /\ layer.controls \in Seq(C) /\ layer.type \in types
  BY LayerParts
<1>2. OptionsFor(C) \subseteq Fine(s)  BY HarmlessLayer
<1>3. FineFor(C, layer.controls) \subseteq Fine(s)  BY <1>2 DEF FineFor
<1>. HIDE DEF C
<1>r. PICK r : r = Built(s, found.reading, layer)  OBVIOUS
<1>4. /\ r \in Readings(Fine(s))
      /\ r.type = TypeOf(layer)
      /\ Lively(found.reading) /\ layer.type \in {"none", "MAIN_MENU", "MAP"} => Lively(r)
  BY <1>1, <1>2, <1>3, <1>r, BuiltReading DEF LayerTypes
<1>5. CASE found.done \/ layer = NoLayer
  <2>1. Probed(s, found, layer) = found  BY <1>5 DEF Probed
  <2>. QED  BY <1>5, <2>1
<1>6. CASE ~(found.done \/ layer = NoLayer)
  <2>1. Probed(s, found, layer) = Outcome(r, layer)  BY <1>6, <1>r DEF Probed
  <2>2. /\ Outcome(r, layer).reading \in Readings(Fine(s))
        /\ Lively(r) => Lively(Outcome(r, layer).reading)
        /\ Outcome(r, layer).reading.type \in {r.type, ""}
        /\ Outcome(r, layer).done \in BOOLEAN
    BY <1>4, OutcomeReading
  <2>. QED  BY <1>4, <1>6, <1>r, <2>1, <2>2
<1>. QED  BY <1>5, <1>6

(***************************************************************************)
(* The reading, probe by probe.                                            *)
(***************************************************************************)
AfterModal(s)   == Probed(s, [reading |-> Empty, done |-> FALSE], s.modal)
AfterMenu(s)    == Probed(s, AfterModal(s), MainMenu(s))
AfterMap(s)     == Probed(s, AfterMenu(s), s.map)
AfterOverlay(s) == Probed(s, AfterMap(s), TopOverlay(s))

EarlyTypes == {"IDLE", "", "none", "MODAL", "MAIN_MENU", "MAP"}

(* Read, said with the probes named. *)
LEMMA ReadByProbes ==
  ASSUME NEW s
  PROVE  Read(s) =
           IF AfterOverlay(s).done THEN AfterOverlay(s).reading
           ELSE IF s.fight /\ s.halfRead = "no"
                THEN [AfterOverlay(s).reading EXCEPT !.type = "COMBAT"]
           ELSE IF VictoryChoices(s) # << >>
                THEN Added([AfterOverlay(s).reading EXCEPT !.type = "VICTORY"], VictoryChoices(s))
           ELSE IF s.room # NoLayer THEN Built(s, AfterOverlay(s).reading, s.room)
           ELSE [AfterOverlay(s).reading EXCEPT !.type = IF s.inRun THEN "WAITING" ELSE "MAIN_MENU"]
BY DEF Read, Shows, Behind, AfterOverlay, AfterMap, AfterMenu, AfterModal

(* A modal that could be read leaves nothing behind that cannot be chosen. *)
LEMMA ModalReading ==
  ASSUME NEW s \in AllScenes
  PROVE  /\ AfterModal(s).reading \in Readings(Fine(s))
         /\ AfterModal(s).done \in BOOLEAN
         /\ AfterModal(s).reading.type \in EarlyTypes \ {"MAP"}
         /\ Whole(s.modal.controls) /\ ~AfterModal(s).done => Lively(AfterModal(s).reading)
<1>. DEFINE start == [reading |-> Empty, done |-> FALSE]
<1>1. /\ start.reading \in Readings(Fine(s)) /\ start.done \in BOOLEAN
      /\ start.reading.type = "IDLE" /\ Lively(start.reading) /\ ~start.done
  <2>1. << >> \in Seq(Fine(s))  OBVIOUS
  <2>. QED  BY <2>1 DEF Empty, Readings, ScreenTypes, Lively
<1>. DEFINE types == {"none", "MODAL"}
<1>2. /\ s.modal \in LayersOf(types) /\ types \in SUBSET LayerTypes
      /\ Range(s.modal.controls) \subseteq ControlsOf(s)
  BY SceneParts DEF ControlsOf, LayerTypes, RoomTypes
<1>3. s.modal.type \in types  BY <1>2, LayerParts
<1>4. AfterModal(s) = Probed(s, start, s.modal)  BY DEF AfterModal
<1>. HIDE DEF start
<1>5. s.modal.type # "EVENT" /\ TypeOf(s.modal) \in types  BY <1>3 DEF TypeOf
<1>. HIDE DEF types
<1>6. /\ AfterModal(s).reading \in Readings(Fine(s))
      /\ AfterModal(s).done \in BOOLEAN
      /\ AfterModal(s).reading.type \in {start.reading.type, TypeOf(s.modal), ""}
      /\ s.modal = NoLayer => AfterModal(s) = start
      /\ s.modal # NoLayer
         => AfterModal(s) = Outcome(Built(s, start.reading, s.modal), s.modal)
  BY <1>1, <1>2, <1>4, <1>5, ProbedReading
<1>7. ASSUME Whole(s.modal.controls), ~AfterModal(s).done PROVE Lively(AfterModal(s).reading)
  <2>1. CASE s.modal = NoLayer  BY <1>1, <1>6, <2>1
  <2>2. CASE s.modal # NoLayer
    <3>r. PICK r : r = Built(s, start.reading, s.modal)  OBVIOUS
    <3>1. AfterModal(s) = Outcome(r, s.modal)  BY <1>6, <2>2, <3>r
    <3>2. s.modal.type = "MODAL" /\ r.options = << >>
      <4>1. CASE s.modal.type = "MODAL" /\ r.options = << >>  BY <4>1
      <4>2. CASE ~(s.modal.type = "MODAL" /\ r.options = << >>)
        <5>1. Outcome(r, s.modal) = [reading |-> r, done |-> Whole(s.modal.controls)]
          BY <4>2 DEF Outcome
        <5>2. Outcome(r, s.modal).done = Whole(s.modal.controls)  BY <5>1
        <5>. QED  BY <1>7, <3>1, <5>2
      <4>. QED  BY <4>1, <4>2
    <3>e. PICK e : e = [r EXCEPT !.type = ""]  OBVIOUS
    <3>3. AfterModal(s).reading = e
      <4>1. Outcome(r, s.modal) = [reading |-> e, done |-> FALSE]
        BY <1>7, <3>2, <3>e DEF Outcome
      <4>. QED  BY <3>1, <4>1
    <3>4. r \in Readings(Fine(s))
      <4>. DEFINE C == Range(s.modal.controls)
      <4>1. C \in SUBSET Controls /\ s.modal.controls \in Seq(C)  BY <1>2, LayerParts
      <4>2. OptionsFor(C) \subseteq Fine(s)  BY <1>2, <1>5, HarmlessLayer
      <4>3. FineFor(C, s.modal.controls) \subseteq Fine(s)  BY <4>2 DEF FineFor
      <4>4. s.modal.type \in LayerTypes  BY <3>2 DEF LayerTypes
      <4>. HIDE DEF C
      <4>. QED  BY <1>1, <3>r, <4>1, <4>2, <4>3, <4>4, BuiltReading DEF LayerTypes
    <3>5. AfterModal(s).reading.options = << >>  BY <3>2, <3>3, <3>4, <3>e DEF Readings
    <3>. QED  BY <3>5 DEF Lively
  <2>. QED  BY <2>1, <2>2
<1>. QED  BY <1>1, <1>3, <1>5, <1>6, <1>7 DEF EarlyTypes, types

(* Neither do the menu and the map. *)
LEMMA EarlyReading ==
  ASSUME NEW s \in AllScenes
  PROVE  /\ AfterMap(s).reading \in Readings(Fine(s))
         /\ AfterMap(s).done \in BOOLEAN
         /\ AfterMap(s).reading.type \in EarlyTypes
         /\ Whole(s.modal.controls) /\ ~AfterMap(s).done => Lively(AfterMap(s).reading)
<1>. DEFINE types == {"none", "MAIN_MENU"}
            more == {"none", "MAP"}
<1>1. /\ MainMenu(s) \in LayersOf(types) /\ types \in SUBSET LayerTypes
      /\ Range(MainMenu(s).controls) \subseteq ControlsOf(s)
      /\ s.map \in LayersOf(more) /\ more \in SUBSET LayerTypes
      /\ Range(s.map.controls) \subseteq ControlsOf(s)
  BY SceneParts DEF ControlsOf, LayerTypes, RoomTypes
<1>2. MainMenu(s).type \in types /\ s.map.type \in more  BY <1>1, LayerParts
<1>3. /\ MainMenu(s).type # "EVENT" /\ TypeOf(MainMenu(s)) = MainMenu(s).type
      /\ s.map.type # "EVENT" /\ TypeOf(s.map) = s.map.type
      /\ MainMenu(s).type \in {"none", "MAIN_MENU", "MAP"}
      /\ s.map.type \in {"none", "MAIN_MENU", "MAP"}
  BY <1>2 DEF TypeOf
<1>. HIDE DEF types, more
<1>4. /\ AfterMenu(s).reading \in Readings(Fine(s))
      /\ AfterMenu(s).done \in BOOLEAN
      /\ AfterMenu(s).reading.type \in {AfterModal(s).reading.type, TypeOf(MainMenu(s)), ""}
      /\ Lively(AfterModal(s).reading) => Lively(AfterMenu(s).reading)
      /\ AfterModal(s).done => AfterMenu(s).done
  BY <1>1, <1>3, ModalReading, ProbedReading DEF AfterMenu
<1>5. /\ AfterMap(s).reading \in Readings(Fine(s))
      /\ AfterMap(s).done \in BOOLEAN
      /\ AfterMap(s).reading.type \in {AfterMenu(s).reading.type, TypeOf(s.map), ""}
      /\ Lively(AfterMenu(s).reading) => Lively(AfterMap(s).reading)
      /\ AfterMenu(s).done => AfterMap(s).done
  BY <1>1, <1>3, <1>4, ProbedReading DEF AfterMap
<1>. QED  BY <1>2, <1>3, <1>4, <1>5, ModalReading DEF EarlyTypes, types, more

(* The overlay on top, probed after them. *)
LEMMA OverlayReading ==
  ASSUME NEW s \in AllScenes
  PROVE  /\ TopOverlay(s).type \in OverlayTypes \union {"none"}
         /\ TypeOf(TopOverlay(s)) = TopOverlay(s).type
         /\ AfterOverlay(s).reading \in Readings(Fine(s))
         /\ AfterOverlay(s).done \in BOOLEAN
         /\ AfterOverlay(s).reading.type \in EarlyTypes \union {TopOverlay(s).type}
         /\ AfterMap(s).done \/ TopOverlay(s) = NoLayer => AfterOverlay(s) = AfterMap(s)
         /\ ~AfterMap(s).done /\ TopOverlay(s) # NoLayer
            => AfterOverlay(s) = Outcome(Built(s, AfterMap(s).reading, TopOverlay(s)), TopOverlay(s))
<1>. DEFINE types == OverlayTypes \union {"none"}
<1>1. /\ TopOverlay(s) \in LayersOf(types) /\ types \in SUBSET LayerTypes
      /\ Range(TopOverlay(s).controls) \subseteq ControlsOf(s)
  BY SceneParts DEF ControlsOf, LayerTypes, RoomTypes
<1>2. TopOverlay(s).type \in types  BY <1>1, LayerParts
<1>3. TopOverlay(s).type # "EVENT" /\ TypeOf(TopOverlay(s)) = TopOverlay(s).type
  BY <1>2 DEF TypeOf, OverlayTypes
<1>. HIDE DEF types
<1>4. /\ AfterOverlay(s).reading \in Readings(Fine(s))
      /\ AfterOverlay(s).done \in BOOLEAN
      /\ AfterOverlay(s).reading.type \in {AfterMap(s).reading.type, TypeOf(TopOverlay(s)), ""}
      /\ AfterMap(s).done \/ TopOverlay(s) = NoLayer => AfterOverlay(s) = AfterMap(s)
      /\ ~AfterMap(s).done /\ TopOverlay(s) # NoLayer
         => AfterOverlay(s) = Outcome(Built(s, AfterMap(s).reading, TopOverlay(s)), TopOverlay(s))
  BY <1>1, <1>3, EarlyReading, ProbedReading DEF AfterOverlay
<1>. QED  BY <1>2, <1>3, <1>4, EarlyReading DEF EarlyTypes, types

(* What an overlay that was found and could be read makes of the reading.  *)
LEMMA WholeOverlay ==
  ASSUME NEW s \in AllScenes, ~AfterMap(s).done, TopOverlay(s) # NoLayer,
         Whole(TopOverlay(s).controls)
  PROVE  /\ AfterOverlay(s).done
         /\ AfterOverlay(s).reading = Built(s, AfterMap(s).reading, TopOverlay(s))
<1>1. TopOverlay(s).type # "MODAL"  BY OverlayReading DEF OverlayTypes
<1>r. PICK r : r = Built(s, AfterMap(s).reading, TopOverlay(s))  OBVIOUS
<1>2. Outcome(r, TopOverlay(s)) = [reading |-> r, done |-> Whole(TopOverlay(s).controls)]
  BY <1>1 DEF Outcome
<1>3. AfterOverlay(s) = Outcome(r, TopOverlay(s))  BY <1>r, OverlayReading
<1>. QED  BY <1>2, <1>3, <1>r

(* A typed reading whatever its type is set to. *)
LEMMA Retyped ==
  ASSUME NEW O, NEW r, r \in Readings(O), NEW type \in ScreenTypes
  PROVE  [r EXCEPT !.type = type] \in Readings(O) /\ [r EXCEPT !.type = type].type = type
BY DEF Readings

(* The room, built when no probe found its screen. *)
LEMMA RoomReading ==
  ASSUME NEW s \in AllScenes
  PROVE  /\ Built(s, AfterOverlay(s).reading, s.room) \in Readings(Fine(s))
         /\ Built(s, AfterOverlay(s).reading, s.room).type = TypeOf(s.room)
         /\ s.room.type \in RoomTypes
         /\ /\ Lively(AfterOverlay(s).reading)
            /\ Whole(s.room.controls) /\ Clear(s.room.controls)
            /\ s.room.type \in {"EVENT", "TREASURE", "SPECIAL_EVENT", "BUNDLE_SELECT"}
            /\ \E i \in DOMAIN s.room.controls : IsSound(s.room.controls[i])
            => HasOpen(Built(s, AfterOverlay(s).reading, s.room).options)
<1>. DEFINE C == Range(s.room.controls)
<1>0. s.room \in LayersOf(RoomTypes)  BY SceneParts
<1>1. C \in SUBSET Controls /\ s.room.controls \in Seq(C) /\ s.room.type \in RoomTypes
  BY <1>0, LayerParts
<1>2. s.room.type = "EVENT" \/ OptionsFor(C) \subseteq Fine(s)
  <2>1. Range(s.room.controls) \subseteq ControlsOf(s)  BY DEF ControlsOf
  <2>. QED  BY <1>0, <2>1, HarmlessLayer
<1>3. FineFor(C, s.room.controls) \subseteq Fine(s)  BY RoomIsFine
<1>. HIDE DEF C
<1>r. PICK r : r = AfterOverlay(s).reading  OBVIOUS
<1>4. r \in Readings(Fine(s))  BY <1>r, OverlayReading
<1>5. s.room.type \in RoomTypes \union OverlayTypes \union {"MODAL", "MAIN_MENU", "MAP"}
  BY <1>1
<1>. QED  BY <1>1, <1>2, <1>3, <1>4, <1>5, <1>r, BuiltReading

(* The victory screen. *)
LEMMA VictoryReading ==
  ASSUME NEW s \in AllScenes, NEW r, r \in Readings(Fine(s))
  PROVE  /\ Added([r EXCEPT !.type = "VICTORY"], VictoryChoices(s)) \in Readings(Fine(s))
         /\ Added([r EXCEPT !.type = "VICTORY"], VictoryChoices(s)).type = "VICTORY"
<1>. DEFINE C == Range(s.victory)
<1>1. s.victory \in Seq(Controls) /\ \A i \in DOMAIN s.victory : FitsIn(s.victory[i], "none")
  BY SceneParts
<1>2. C \in SUBSET Controls /\ s.victory \in Seq(C) /\ C \in SUBSET ControlsOf(s)
  BY <1>1, OwnElements DEF Range, ControlsOf
<1>3. \A c \in C : "lethal" \notin c.is  BY <1>1 DEF FitsIn, Range
<1>4. OptionsFor(C) \subseteq Fine(s)  BY <1>2, <1>3, HarmlessControls
<1>. HIDE DEF C
<1>5. VictoryChoices(s) \in Seq(OpenFor(C))  BY <1>2, VictoryOptions
<1>6. OpenFor(C) \subseteq Fine(s)  BY <1>4 DEF OpenFor
<1>7. VictoryChoices(s) \in Seq(Fine(s))  BY <1>5, <1>6, SeqOfMore
<1>e. PICK e : e = [r EXCEPT !.type = "VICTORY"]  OBVIOUS
<1>8. e \in Readings(Fine(s)) /\ e.type = "VICTORY"  BY <1>e, Retyped DEF ScreenTypes
<1>. QED  BY <1>7, <1>8, <1>e, AddedReading

(* What the mod reads of any scene: options for the controls of the scene, *)
(* of which none that can be chosen kills while another choice does not.   *)
LEMMA ReadType ==
  ASSUME NEW s \in AllScenes
  PROVE  Read(s) \in Readings(Fine(s))
<1>r. PICK r : r = AfterOverlay(s).reading  OBVIOUS
<1>1. r \in Readings(Fine(s))  BY <1>r, OverlayReading
<1>2. [r EXCEPT !.type = "COMBAT"] \in Readings(Fine(s))  BY <1>1, Retyped DEF ScreenTypes
<1>3. Added([r EXCEPT !.type = "VICTORY"], VictoryChoices(s)) \in Readings(Fine(s))
  BY <1>1, VictoryReading
<1>4. Built(s, r, s.room) \in Readings(Fine(s))  BY <1>r, RoomReading
<1>5. [r EXCEPT !.type = IF s.inRun THEN "WAITING" ELSE "MAIN_MENU"] \in Readings(Fine(s))
  <2>1. (IF s.inRun THEN "WAITING" ELSE "MAIN_MENU") \in ScreenTypes  BY DEF ScreenTypes
  <2>. QED  BY <1>1, <2>1, Retyped
<1>. QED  BY <1>1, <1>2, <1>3, <1>4, <1>5, <1>r, ReadByProbes

(***************************************************************************)
(* No dead end.                                                            *)
(***************************************************************************)
(* A control that can be clicked, of a class that the dead end speaks of.  *)
IsWay(c) == c.class \in {"button", "event", "proceed", "relic"} /\ Shown(c) /\ ~Unsafe(c)

(* Such a control is one that the last resort offers. *)
LEMMA WaysAreSound ==
  ASSUME NEW types, NEW layer \in LayersOf(types), NEW c \in Range(layer.controls), IsWay(c)
  PROVE  \E i \in DOMAIN layer.controls : IsSound(layer.controls[i])
<1>1. PICK i \in DOMAIN layer.controls : layer.controls[i] = c  BY DEF Range
<1>2. IsSound(c)  BY DEF IsWay, IsSound
<1>. QED  BY <1>1, <1>2

(* With an open option on a screen that has a name, the agent acts. *)
LEMMA OpenToChoose ==
  ASSUME NEW r, HasOpen(r.options), r.type \notin {"", "COMBAT"}
  PROVE  ShouldAct(r)
BY DEF HasOpen, ShouldAct, Enabled

(* A screen over the room.                                                 *)
LEMMA WayOutOfOverlay ==
  ASSUME NEW s \in AllScenes, Readable(s), ~AfterMap(s).done,
         TopOverlay(s).type \in {"SPECIAL_EVENT", "BUNDLE_SELECT"},
         \E c \in Range(TopOverlay(s).controls) : IsWay(c)
  PROVE  ShouldAct(Read(s))
<1>. DEFINE o == TopOverlay(s)
            C == Range(o.controls)
<1>1. o # NoLayer /\ o \in Range(s.overlays) /\ o \in LayersOf(OverlayTypes \union {"none"})
  <2>1. o # NoLayer  BY NoLayerParts
  <2>2. s.overlays # << >>  BY <2>1 DEF TopOverlay
  <2>3. s.overlays \in Seq(Overlays)  BY SceneParts
  <2>4. o = s.overlays[Len(s.overlays)] /\ Len(s.overlays) \in DOMAIN s.overlays
    BY <2>2, <2>3 DEF TopOverlay, Last
  <2>5. o \in Range(s.overlays)  BY <2>4 DEF Range
  <2>. QED  BY <2>1, <2>5, SceneParts
<1>2. Whole(o.controls) /\ Clear(o.controls)  BY <1>1 DEF Readable
<1>3. AfterOverlay(s).done /\ AfterOverlay(s).reading = Built(s, AfterMap(s).reading, o)
  BY <1>1, <1>2, WholeOverlay
<1>4. Read(s) = Built(s, AfterMap(s).reading, o)  BY <1>3, ReadByProbes
<1>5. \E i \in DOMAIN o.controls : IsSound(o.controls[i])  BY <1>1, WaysAreSound
<1>6. C \in SUBSET Controls /\ o.controls \in Seq(C)  BY <1>1, LayerParts
<1>7. OptionsFor(C) \subseteq Fine(s)
  <2>1. Range(o.controls) \subseteq ControlsOf(s)  BY DEF ControlsOf
  <2>. QED  BY <1>1, <2>1, HarmlessLayer
<1>8. FineFor(C, o.controls) \subseteq Fine(s)  BY <1>7 DEF FineFor
<1>9. o.type \in RoomTypes \union OverlayTypes \union {"MODAL", "MAIN_MENU", "MAP"}
  BY DEF OverlayTypes
<1>10. Lively(AfterMap(s).reading)
  <2>1. Whole(s.modal.controls)  BY DEF Readable
  <2>. QED  BY <2>1, EarlyReading
<1>11. o.type \in {"SPECIAL_EVENT", "BUNDLE_SELECT"}  OBVIOUS
<1>. HIDE DEF C, o
<1>r. PICK r : r = AfterMap(s).reading  OBVIOUS
<1>12. r \in Readings(Fine(s))  BY <1>r, EarlyReading
<1>13. HasOpen(Built(s, r, o).options) /\ Built(s, r, o).type = TypeOf(o)
  BY <1>2, <1>5, <1>6, <1>7, <1>8, <1>9, <1>10, <1>11, <1>12, <1>r, BuiltReading
<1>14. TypeOf(o) \notin {"", "COMBAT"}  BY <1>11 DEF TypeOf
<1>. QED  BY <1>4, <1>13, <1>14, <1>r, OpenToChoose

(* The room itself.                                                        *)
LEMMA WayOutOfRoom ==
  ASSUME NEW s \in AllScenes, Readable(s), ~AfterOverlay(s).done,
         Read(s) = Built(s, AfterOverlay(s).reading, s.room),
         s.room.type \in {"EVENT", "TREASURE"},
         \E c \in Range(s.room.controls) : IsWay(c)
  PROVE  ShouldAct(Read(s))
<1>1. Lively(AfterOverlay(s).reading)
  <2>1. Whole(s.modal.controls)  BY DEF Readable
  <2>2. TopOverlay(s) = NoLayer
    <3>1. SUFFICES ASSUME TopOverlay(s) # NoLayer PROVE FALSE  OBVIOUS
    <3>2. ~AfterMap(s).done  BY OverlayReading
    <3>3. s.overlays # << >>  BY <3>1 DEF TopOverlay
    <3>4. s.overlays \in Seq(Overlays)  BY SceneParts
    <3>5. TopOverlay(s) = s.overlays[Len(s.overlays)] /\ Len(s.overlays) \in DOMAIN s.overlays
      BY <3>3, <3>4 DEF TopOverlay, Last
    <3>6. TopOverlay(s) \in Range(s.overlays)  BY <3>5 DEF Range
    <3>7. Whole(TopOverlay(s).controls)  BY <3>6 DEF Readable
    <3>. QED  BY <3>1, <3>2, <3>7, WholeOverlay
  <2>3. AfterOverlay(s) = AfterMap(s)  BY <2>2, OverlayReading
  <2>. QED  BY <2>1, <2>3, EarlyReading
<1>2. Whole(s.room.controls) /\ Clear(s.room.controls)  BY DEF Readable
<1>3. s.room \in LayersOf(RoomTypes)  BY SceneParts
<1>4. \E i \in DOMAIN s.room.controls : IsSound(s.room.controls[i])  BY <1>3, WaysAreSound
<1>5. HasOpen(Read(s).options) /\ Read(s).type = TypeOf(s.room)
  BY <1>1, <1>2, <1>4, RoomReading
<1>6. TypeOf(s.room) \notin {"", "COMBAT"}  BY DEF TypeOf
<1>. QED  BY <1>5, <1>6, OpenToChoose

(* Whichever scene it is, and however it came about. *)
LEMMA NoSceneIsDeadEnd ==
  ASSUME NEW s \in AllScenes, Readable(s),
         \E c \in Range(Unknown(s, Read(s)).controls) : IsWay(c)
  PROVE  ShouldAct(Read(s))
<1>. DEFINE unknown == {"EVENT", "TREASURE", "SPECIAL_EVENT", "BUNDLE_SELECT"}
<1>1. Read(s).type \in unknown
  <2>1. Range(NoLayer.controls) = {}  BY NoLayerParts
  <2>2. Read(s).type \notin unknown => Unknown(s, Read(s)) = NoLayer  BY DEF Unknown
  <2>. QED  BY <2>1, <2>2
<1>r. PICK r : r = AfterOverlay(s).reading  OBVIOUS
<1>2. r \in Readings(Fine(s))  BY <1>r, OverlayReading
<1>3. CASE AfterOverlay(s).done
  <2>1. Read(s) = r  BY <1>3, <1>r, ReadByProbes
  <2>2. r.type \in EarlyTypes \union {TopOverlay(s).type}  BY <1>r, OverlayReading
  <2>3. r.type = TopOverlay(s).type /\ r.type \notin EarlyTypes
    BY <1>1, <2>1, <2>2 DEF EarlyTypes
  <2>4. r.type \in {"SPECIAL_EVENT", "BUNDLE_SELECT"}
    BY <1>1, <2>1, <2>3, OverlayReading DEF OverlayTypes
  <2>5. Unknown(s, Read(s)) = TopOverlay(s)  BY <2>1, <2>4 DEF Unknown
  <2>6. ~AfterMap(s).done
    <3>1. AfterMap(s).done => AfterOverlay(s) = AfterMap(s)  BY OverlayReading
    <3>2. AfterMap(s).reading.type \in EarlyTypes  BY EarlyReading
    <3>. QED  BY <1>r, <2>3, <3>1, <3>2
  <2>. QED  BY <2>3, <2>4, <2>5, <2>6, WayOutOfOverlay
<1>4. CASE ~AfterOverlay(s).done
  <2>1. [r EXCEPT !.type = "COMBAT"].type = "COMBAT"  BY <1>2 DEF Readings
  <2>2. Added([r EXCEPT !.type = "VICTORY"], VictoryChoices(s)).type = "VICTORY"
    BY <1>2, VictoryReading
  <2>3. [r EXCEPT !.type = IF s.inRun THEN "WAITING" ELSE "MAIN_MENU"].type
           \in {"WAITING", "MAIN_MENU"}
    BY <1>2 DEF Readings
  <2>4. Read(s) = Built(s, AfterOverlay(s).reading, s.room)
    BY <1>1, <1>4, <1>r, <2>1, <2>2, <2>3, ReadByProbes
  <2>5. Read(s).type = TypeOf(s.room) /\ s.room.type \in RoomTypes  BY <2>4, RoomReading
  <2>6. s.room.type \in {"EVENT", "TREASURE"} /\ Read(s).type = s.room.type
    BY <1>1, <2>5 DEF TypeOf, RoomTypes
  <2>7. Unknown(s, Read(s)) = s.room  BY <2>6 DEF Unknown
  <2>. QED  BY <1>4, <2>4, <2>6, <2>7, WayOutOfRoom
<1>. QED  BY <1>2, <1>3, <1>4, OverlayReading

(* In every scene, reachable or not. *)
LEMMA NoDeadEndAnywhere ==
  ASSUME scene \in AllScenes
  PROVE  NoDeadEnd
BY NoSceneIsDeadEnd DEF NoDeadEnd, IsWay

(***************************************************************************)
(* The game's answers lead from scenes to scenes.                          *)
(***************************************************************************)
(* A control that fits in wherever another one does. *)
Alike(d, c) ==
    /\ d.class = c.class
    /\ "lethal" \in d.is => "lethal" \in c.is
    /\ "unclear" \in d.is => "unclear" \in c.is

(* What is like a control that fits, fits. *)
LEMMA AlikeFits ==
  ASSUME NEW c, NEW d, Alike(d, c), NEW type, FitsIn(c, type)
  PROVE  FitsIn(d, type)
BY DEF Alike, FitsIn

(* A layer with other controls that are like those it has. *)
LEMMA ChangedLayer ==
  ASSUME NEW types, NEW layer \in LayersOf(types), NEW q \in Seq(Controls),
         \A k \in DOMAIN q : \E i \in DOMAIN layer.controls : Alike(q[k], layer.controls[i])
  PROVE  [layer EXCEPT !.controls = q] \in LayersOf(types)
<1>1. /\ layer \in [type : types, controls : Seq(Controls)]
      /\ \A i \in DOMAIN layer.controls : FitsIn(layer.controls[i], layer.type)
  BY DEF LayersOf
<1>2. \A k \in DOMAIN q : FitsIn(q[k], layer.type)  BY <1>1, AlikeFits
<1>. QED  BY <1>1, <1>2 DEF LayersOf

(* Each control of a layer changed. *)
LEMMA EachInLayer ==
  ASSUME NEW types, NEW layer \in LayersOf(types),
         NEW f \in [DOMAIN layer.controls -> Controls],
         \A i \in DOMAIN layer.controls : Alike(f[i], layer.controls[i])
  PROVE  [layer EXCEPT !.controls = f] \in LayersOf(types)
<1>1. layer.controls \in Seq(Controls)  BY LayerParts
<1>2. f \in Seq(Controls) /\ DOMAIN f = DOMAIN layer.controls  BY <1>1, SeqOfFunction
<1>. QED  BY <1>2, ChangedLayer

(* Some of the controls of a layer. *)
LEMMA SomeOfLayer ==
  ASSUME NEW types, NEW layer \in LayersOf(types), NEW I \in SUBSET DOMAIN layer.controls
  PROVE  /\ [layer EXCEPT !.controls = At(layer.controls, I)] \in LayersOf(types)
         /\ At(layer.controls, I) \in Seq(Range(layer.controls))
<1>1. layer.controls \in Seq(Controls)  BY LayerParts
<1>2. /\ At(layer.controls, I) \in Seq(Controls)
      /\ \A k \in DOMAIN At(layer.controls, I) :
            \E i \in I : At(layer.controls, I)[k] = layer.controls[i]
  BY <1>1, AtElements
<1>3. \A k \in DOMAIN At(layer.controls, I) :
         \E i \in DOMAIN layer.controls : Alike(At(layer.controls, I)[k], layer.controls[i])
  BY <1>2 DEF Alike
<1>4. layer.controls \in Seq(Range(layer.controls))  BY LayerParts
<1>5. At(layer.controls, I) \in Seq(Range(layer.controls))  BY <1>4, AtElements
<1>. QED  BY <1>2, <1>3, <1>5, ChangedLayer

(* A control that leaves its layer. *)
LEMMA GoneFromLayer ==
  ASSUME NEW types, NEW layer \in LayersOf(types), NEW c
  PROVE  Gone(layer, c) \in LayersOf(types) /\ Gone(layer, c).type = layer.type
<1>. DEFINE I == {i \in DOMAIN layer.controls : layer.controls[i] # c}
<1>1. Gone(layer, c) = [layer EXCEPT !.controls = At(layer.controls, I)]  BY DEF Gone, Such
<1>2. I \in SUBSET DOMAIN layer.controls  OBVIOUS
<1>. HIDE DEF I
<1>3. [layer EXCEPT !.controls = At(layer.controls, I)] \in LayersOf(types)
  BY <1>2, SomeOfLayer
<1>4. [layer EXCEPT !.controls = At(layer.controls, I)].type = layer.type
  BY DEF LayersOf
<1>. QED  BY <1>1, <1>3, <1>4

(* A change of traits other than those of an event's choice. *)
LEMMA TraitsOfControls ==
  ASSUME NEW c \in Controls, NEW trait \in Traits
  PROVE  /\ WithTrait(c, trait) \in Controls /\ WithoutTrait(c, trait) \in Controls
         /\ Alike(WithoutTrait(c, trait), c)
         /\ trait \notin {"lethal", "unclear"} => Alike(WithTrait(c, trait), c)
BY DEF WithTrait, WithoutTrait, Controls, Alike

(* Any control is like itself. *)
LEMMA AlikeItself ==
  ASSUME NEW c
  PROVE  Alike(c, c)
BY DEF Alike

(* Controls that show, or that can be clicked. *)
LEMMA ShownInLayer ==
  ASSUME NEW types, NEW layer \in LayersOf(types), NEW trait \in Traits,
         trait \notin {"lethal", "unclear"}
  PROVE  Each(layer, LAMBDA d : WithTrait(d, trait)) \in LayersOf(types)
<1>. DEFINE f == [i \in DOMAIN layer.controls |-> WithTrait(layer.controls[i], trait)]
<1>1. Each(layer, LAMBDA d : WithTrait(d, trait)) = [layer EXCEPT !.controls = f]
  BY DEF Each, Options
<1>2. \A i \in DOMAIN layer.controls : layer.controls[i] \in Controls  BY LayerParts
<1>3. \A i \in DOMAIN layer.controls :
         /\ WithTrait(layer.controls[i], trait) \in Controls
         /\ Alike(WithTrait(layer.controls[i], trait), layer.controls[i])
  BY <1>2, TraitsOfControls
<1>4. /\ f \in [DOMAIN layer.controls -> Controls]
      /\ \A i \in DOMAIN layer.controls : Alike(f[i], layer.controls[i])
  BY <1>3
<1>. HIDE DEF f
<1>. QED  BY <1>1, <1>4, EachInLayer

(* Controls that can be read again. *)
Mended(c) == [c EXCEPT !.is = @ \ {"unclear", "broken"}]

LEMMA MendedControl ==
  ASSUME NEW c \in Controls
  PROVE  /\ Mended(c) \in Controls /\ Alike(Mended(c), c)
         /\ "lethal" \in Mended(c).is <=> "lethal" \in c.is
         /\ IsChoice(Mended(c)) <=> IsChoice(c)
BY DEF Mended, Controls, Alike, IsChoice

LEMMA RepairedLayer ==
  ASSUME NEW types, NEW layer \in LayersOf(types)
  PROVE  /\ Repaired(layer) \in LayersOf(types)
         /\ Range(Repaired(layer).controls) = {Mended(c) : c \in Range(layer.controls)}
<1>. DEFINE f == [i \in DOMAIN layer.controls |-> Mended(layer.controls[i])]
<1>1. Repaired(layer) = [layer EXCEPT !.controls = f]
  BY DEF Repaired, Each, Options, Mended
<1>2. \A i \in DOMAIN layer.controls : layer.controls[i] \in Controls  BY LayerParts
<1>3. \A i \in DOMAIN layer.controls :
         /\ Mended(layer.controls[i]) \in Controls
         /\ Alike(Mended(layer.controls[i]), layer.controls[i])
  BY <1>2, MendedControl
<1>4. /\ f \in [DOMAIN layer.controls -> Controls]
      /\ \A i \in DOMAIN layer.controls : Alike(f[i], layer.controls[i])
  BY <1>3
<1>5. Range(f) = {Mended(c) : c \in Range(layer.controls)}  BY DEF Range
<1>. HIDE DEF f
<1>6. Repaired(layer).controls = f  BY <1>1 DEF LayersOf
<1>. QED  BY <1>1, <1>4, <1>5, <1>6, EachInLayer

(* The next page of an event, a rest or a menu. *)
LEMMA TurnedLayer ==
  ASSUME NEW types, NEW layer \in LayersOf(types)
  PROVE  TurnedPage(layer) \in LayersOf(types)
<1>. DEFINE I == {i \in DOMAIN layer.controls :
                     layer.controls[i].class = "proceed" \/ "visible" \notin layer.controls[i].is}
            q == At(layer.controls, I)
            f == [k \in DOMAIN q |-> WithTrait(q[k], "visible")]
<1>1. TurnedPage(layer) = [layer EXCEPT !.controls = f]
  BY DEF TurnedPage, Options, Such
<1>2. I \in SUBSET DOMAIN layer.controls  OBVIOUS
<1>. HIDE DEF I
<1>3. layer.controls \in Seq(Controls)  BY LayerParts
<1>4. q \in Seq(Controls) /\ \A k \in DOMAIN q : \E i \in DOMAIN layer.controls :
                                 q[k] = layer.controls[i]
  BY <1>2, <1>3, AtElements
<1>. HIDE DEF q
<1>5. \A k \in DOMAIN q : /\ WithTrait(q[k], "visible") \in Controls
                          /\ Alike(WithTrait(q[k], "visible"), q[k])
  BY <1>4, TraitsOfControls DEF Traits
<1>6. f \in [DOMAIN q -> Controls]  BY <1>5
<1>7. \A k \in DOMAIN q : Alike(f[k], q[k])  BY <1>5
<1>. HIDE DEF f
<1>8. f \in Seq(Controls) /\ DOMAIN f = DOMAIN q  BY <1>4, <1>6, SeqOfFunction
<1>9. \A k \in DOMAIN f : \E i \in DOMAIN layer.controls : Alike(f[k], layer.controls[i])
  BY <1>4, <1>7, <1>8
<1>. QED  BY <1>1, <1>8, <1>9, ChangedLayer

(* Selecting a card and taking it back; Divined and Claimed. *)
LEMMA SelectedLayer ==
  ASSUME NEW types, NEW layer \in LayersOf(types), NEW c
  PROVE  Selected(layer, c) \in LayersOf(types)
<1>. DEFINE flip(d) == IF d # c THEN d ELSE IF "selected" \in c.is THEN WithoutTrait(c, "selected")
                                            ELSE WithTrait(c, "selected")
            cards  == Of(Each(layer, flip).controls, "card")
            enough == Len(Such(cards, LAMBDA d : "selected" \in d.is)) >= Min({2, Len(cards)})
<1>b. PICK b : b = enough  OBVIOUS
<1>. HIDE DEF cards
<1>. DEFINE new(d) == IF ~Says(d, {"confirm"}) THEN flip(d)
                      ELSE IF b THEN WithTrait(d, "enabled") ELSE WithoutTrait(d, "enabled")
            f == [i \in DOMAIN layer.controls |-> new(layer.controls[i])]
<1>1. Selected(layer, c) = [layer EXCEPT !.controls = f]
  BY <1>b DEF Selected, Each, Options, cards
<1>2. \A i \in DOMAIN layer.controls : layer.controls[i] \in Controls  BY LayerParts
<1>3. \A d \in Controls : flip(d) \in Controls /\ Alike(flip(d), d)
  BY TraitsOfControls, AlikeItself DEF Traits
<1>4. \A d \in Controls : /\ WithTrait(d, "enabled") \in Controls
                          /\ WithoutTrait(d, "enabled") \in Controls
                          /\ Alike(WithTrait(d, "enabled"), d)
                          /\ Alike(WithoutTrait(d, "enabled"), d)
  BY TraitsOfControls DEF Traits
<1>. HIDE DEF flip
<1>5. \A d \in Controls : new(d) \in Controls /\ Alike(new(d), d)  BY <1>3, <1>4
<1>. HIDE DEF new
<1>6. /\ f \in [DOMAIN layer.controls -> Controls]
      /\ \A i \in DOMAIN layer.controls : Alike(f[i], layer.controls[i])
  BY <1>2, <1>5
<1>. HIDE DEF f
<1>. QED  BY <1>1, <1>6, EachInLayer

(* A cell of the crystal sphere. *)
LEMMA DivinedLayer ==
  ASSUME NEW types, NEW layer \in LayersOf(types), NEW c
  PROVE  Divined(layer, c) \in LayersOf(types)
<1>1. Gone(layer, c) \in LayersOf(types)  BY GoneFromLayer
<1>2. Each(Gone(layer, c), LAMBDA d : WithTrait(d, "visible")) \in LayersOf(types)
  BY <1>1, ShownInLayer DEF Traits
<1>. QED  BY <1>1, <1>2 DEF Divined

(* A scene with other layers, and its overlays, is a scene. *)
LEMMA ChangedScene ==
  ASSUME NEW s \in AllScenes
  PROVE  /\ \A l \in LayersOf(RoomTypes) : [s EXCEPT !.room = l] \in AllScenes
         /\ \A q \in Seq(Overlays) : [s EXCEPT !.overlays = q] \in AllScenes
         /\ \A l \in LayersOf({"none", "MODAL"}) : [s EXCEPT !.modal = l] \in AllScenes
         /\ \A l \in LayersOf({"none", "MAIN_MENU"}) : [s EXCEPT !.menu = l] \in AllScenes
         /\ [s EXCEPT !.inRun = TRUE] \in AllScenes
         /\ [s EXCEPT !.fullBelt = FALSE] \in AllScenes
BY DEF AllScenes

(* Screens that open, close and change over the room. *)
LEMMA OverlaidScene ==
  ASSUME NEW s \in AllScenes
  PROVE  /\ Below(s) \in AllScenes
         /\ \A l \in Overlays : OnTop(s, l) \in AllScenes
         /\ \A L : L \subseteq Overlays => Opened(s, L) \subseteq AllScenes
<1>1. s.overlays \in Seq(Overlays)  BY SceneParts
<1>2. Front(s.overlays) \in Seq(Overlays)  BY <1>1 DEF Front
<1>3. Below(s) \in AllScenes  BY <1>2, ChangedScene DEF Below
<1>4. \A l \in Overlays : OnTop(s, l) \in AllScenes
  <2>. TAKE l \in Overlays
  <2>1. Append(Front(s.overlays), l) \in Seq(Overlays)  BY <1>2
  <2>. QED  BY <2>1, ChangedScene DEF OnTop
<1>5. \A l \in Overlays : [s EXCEPT !.overlays = Append(@, l)] \in AllScenes
  <2>. TAKE l \in Overlays
  <2>1. Append(s.overlays, l) \in Seq(Overlays)  BY <1>1
  <2>. QED  BY <2>1, ChangedScene
<1>. QED  BY <1>3, <1>4, <1>5 DEF Opened

(* The map that opens when the room is over. *)
LEMMA MapOverScene ==
  ASSUME NEW s \in AllScenes
  PROVE  MapOpened(s) \subseteq AllScenes
<1>1. \A m \in Maps :
         m.layer \in LayersOf({"none", "MAP"}) /\ m.route \in Routes /\ m.halfRead \in HalfReads
  BY ScenesAssumption DEF MapLayers
<1>2. ASSUME NEW l \in LayersOf({"none", "MAP"}), NEW t \in Routes, NEW h \in HalfReads
      PROVE  [s EXCEPT !.map = l, !.route = t, !.halfRead = h] \in AllScenes
  BY DEF AllScenes, MapLayers
<1>. SUFFICES ASSUME NEW m \in Maps
              PROVE  [s EXCEPT !.map = m.layer, !.route = m.route, !.halfRead = m.halfRead]
                        \in AllScenes
  BY DEF MapOpened
<1>. QED  BY <1>1, <1>2

(* The reward that a card was chosen from is gone. *)
LEMMA ClaimedScene ==
  ASSUME NEW s \in AllScenes
  PROVE  Claimed(s) \in AllScenes
<1>1. CASE s.overlays = << >>  BY <1>1 DEF Claimed
<1>2. CASE s.overlays # << >>
  <2>. DEFINE l == TopOverlay(s)
              I == {i \in DOMAIN l.controls : ~Says(l.controls[i], {"card_reward"})}
  <2>1. Claimed(s) = OnTop(s, [l EXCEPT !.controls = At(l.controls, I)])
    BY <1>2 DEF Claimed, Such
  <2>2. l \in LayersOf(OverlayTypes)  BY <1>2, SceneParts DEF Overlays
  <2>3. I \in SUBSET DOMAIN l.controls  OBVIOUS
  <2>. HIDE DEF l, I
  <2>4. [l EXCEPT !.controls = At(l.controls, I)] \in LayersOf(OverlayTypes)
    BY <2>2, <2>3, SomeOfLayer
  <2>. QED  BY <2>1, <2>4, OverlaidScene DEF Overlays
<1>. QED  BY <1>1, <1>2

(* A click on the rewards. *)
LEMMA RewardAnswersType ==
  ASSUME NEW s \in AllScenes, s.overlays # << >>, NEW c
  PROVE  RewardAnswers(s, c) \subseteq AllScenes
<1>. DEFINE taken == OnTop(s, Gone(TopOverlay(s), c))
<1>1. Gone(TopOverlay(s), c) \in Overlays
  <2>1. TopOverlay(s) \in LayersOf(OverlayTypes)  BY SceneParts DEF Overlays
  <2>. QED  BY <2>1, GoneFromLayer DEF Overlays
<1>2. taken \in AllScenes  BY <1>1, OverlaidScene
<1>. HIDE DEF taken
<1>3. [taken EXCEPT !.fullBelt = FALSE] \in AllScenes  BY <1>2, ChangedScene
<1>4. MapOpened(s) \subseteq AllScenes /\ MapOpened(Below(s)) \subseteq AllScenes
  BY MapOverScene, OverlaidScene
<1>5. Opened(s, CardRewards) \subseteq AllScenes
  BY OverlaidScene, ScenesAssumption
<1>6. RewardAnswers(s, c) \in {MapOpened(s) \union MapOpened(Below(s)),
         {[taken EXCEPT !.fullBelt = FALSE]}, Opened(s, CardRewards), {s}, {taken}}
  BY DEF RewardAnswers, taken
<1>. QED  BY <1>2, <1>3, <1>4, <1>5, <1>6

(* A click on any screen over the room. *)
LEMMA OverlayAnswersType ==
  ASSUME NEW s \in AllScenes, s.overlays # << >>, NEW c
  PROVE  OverlayAnswers(s, c) \subseteq AllScenes
<1>. DEFINE l == TopOverlay(s)
<1>1. l \in LayersOf(OverlayTypes)  BY SceneParts DEF Overlays
<1>2. RewardAnswers(s, c) \subseteq AllScenes  BY RewardAnswersType
<1>3. Below(s) \in AllScenes /\ Claimed(Below(s)) \in AllScenes
  BY OverlaidScene, ClaimedScene
<1>. HIDE DEF l
<1>4. /\ Selected(l, c) \in Overlays
      /\ Divined(l, c) \in Overlays
      /\ Each(Gone(l, c), LAMBDA d : WithTrait(d, "visible")) \in Overlays
  <2>1. Gone(l, c) \in LayersOf(OverlayTypes)  BY <1>1, GoneFromLayer
  <2>2. Each(Gone(l, c), LAMBDA d : WithTrait(d, "visible")) \in Overlays
    BY <2>1, ShownInLayer DEF Traits, Overlays
  <2>. QED  BY <1>1, <2>2, SelectedLayer, DivinedLayer DEF Overlays
<1>m. PICK m : m = Each(Gone(l, c), LAMBDA d : WithTrait(d, "visible"))  OBVIOUS
<1>5. OnTop(s, Selected(l, c)) \in AllScenes /\ OnTop(s, Divined(l, c)) \in AllScenes
      /\ OnTop(s, m) \in AllScenes
  BY <1>4, <1>m, OverlaidScene
<1>6. [s EXCEPT !.overlays = << >>, !.room = NoLayer, !.inRun = FALSE] \in AllScenes
  <2>1. << >> \in Seq(Overlays)  OBVIOUS
  <2>2. NoLayer \in LayersOf(RoomTypes)  BY NoLayerParts DEF RoomTypes
  <2>. QED  BY <2>1, <2>2 DEF AllScenes
<1>e. PICK e : e = [s EXCEPT !.overlays = << >>, !.room = NoLayer, !.inRun = FALSE]  OBVIOUS
<1>7. OverlayAnswers(s, c) \in {RewardAnswers(s, c),
         {Claimed(Below(s))} \union (IF c.class = "card" THEN {} ELSE {Below(s)}),
         {OnTop(s, Selected(l, c))}, {OnTop(s, Divined(l, c))}, {OnTop(s, m)}, {e}, {Below(s)}}
  BY <1>m, <1>e DEF OverlayAnswers, l
<1>8. e \in AllScenes  BY <1>6, <1>e
<1>. QED  BY <1>2, <1>3, <1>5, <1>7, <1>8

(* A purchase, after which there may be no money for more. *)
LEMMA BoughtInLayer ==
  ASSUME NEW types, NEW layer \in LayersOf(types), NEW c, NEW more \in BOOLEAN
  PROVE  [layer EXCEPT !.controls =
             [i \in DOMAIN layer.controls |->
                 IF layer.controls[i] = c THEN WithoutTrait(layer.controls[i], "stocked")
                 ELSE IF more THEN layer.controls[i]
                 ELSE WithoutTrait(layer.controls[i], "affordable")]]
            \in LayersOf(types)
<1>. DEFINE bought(d) == IF d = c THEN WithoutTrait(d, "stocked")
                         ELSE IF more THEN d ELSE WithoutTrait(d, "affordable")
            f == [i \in DOMAIN layer.controls |-> bought(layer.controls[i])]
<1>2. \A i \in DOMAIN layer.controls : layer.controls[i] \in Controls  BY LayerParts
<1>3. \A d \in Controls : bought(d) \in Controls /\ Alike(bought(d), d)
  BY TraitsOfControls, AlikeItself DEF Traits
<1>4. /\ f \in [DOMAIN layer.controls -> Controls]
      /\ \A i \in DOMAIN layer.controls : Alike(f[i], layer.controls[i])
  <2>. HIDE DEF bought
  <2>. QED  BY <1>2, <1>3
<1>5. [layer EXCEPT !.controls = f] \in LayersOf(types)
  <2>. HIDE DEF f
  <2>. QED  BY <1>4, EachInLayer
<1>. QED  BY <1>5

(* A shop is entered and left; what is in it fits in both. *)
LEMMA ShopScene ==
  ASSUME NEW s \in AllScenes, s.room.type \in {"SHOP", "INVENTORY"},
         NEW type \in {"SHOP", "INVENTORY"}
  PROVE  [s EXCEPT !.room.type = type] \in AllScenes
<1>. DEFINE l == [s.room EXCEPT !.type = type]
<1>1. s.room \in LayersOf(RoomTypes)  BY SceneParts
<1>2. l \in LayersOf(RoomTypes)
  <2>1. \A i \in DOMAIN s.room.controls : FitsIn(s.room.controls[i], type)
    BY <1>1, LayerParts DEF FitsIn
  <2>. QED  BY <1>1, <2>1 DEF LayersOf, RoomTypes
<1>3. [s EXCEPT !.room.type = type] = [s EXCEPT !.room = l]  OBVIOUS
<1>. HIDE DEF l
<1>. QED  BY <1>2, <1>3, ChangedScene

(* A click in the room. *)
LEMMA RoomAnswersType ==
  ASSUME NEW s \in AllScenes, NEW c \in Range(s.room.controls)
  PROVE  RoomAnswers(s, c) \subseteq AllScenes
<1>. DEFINE turned == [s EXCEPT !.room = TurnedPage(@)]
            less(more) == [s.room EXCEPT !.controls =
                              [i \in DOMAIN s.room.controls |->
                                  IF s.room.controls[i] = c
                                  THEN WithoutTrait(s.room.controls[i], "stocked")
                                  ELSE IF more THEN s.room.controls[i]
                                  ELSE WithoutTrait(s.room.controls[i], "affordable")]]
            after == {[s EXCEPT !.room = less(more)] : more \in BOOLEAN}
            entered == [s EXCEPT !.room.type = "INVENTORY"]
            out == [s EXCEPT !.room.type = "SHOP"]
            enters == c.class = "merchant"
            leaves == s.room.type = "INVENTORY" /\ Says(c, {"back"})
<1>1. s.room \in LayersOf(RoomTypes)  BY SceneParts
<1>2. turned \in AllScenes
  <2>1. TurnedPage(s.room) \in LayersOf(RoomTypes)  BY <1>1, TurnedLayer
  <2>. QED  BY <2>1, ChangedScene
<1>3. after \subseteq AllScenes
  <2>1. \A more \in BOOLEAN : less(more) \in LayersOf(RoomTypes)  BY <1>1, BoughtInLayer
  <2>. HIDE DEF less
  <2>2. \A more \in BOOLEAN : [s EXCEPT !.room = less(more)] \in AllScenes
    BY <2>1, ChangedScene
  <2>. QED  BY <2>2
<1>4. enters => entered \in AllScenes
  <2>1. enters => s.room.type \in {"SHOP", "INVENTORY"}  BY <1>1, LayerParts DEF FitsIn
  <2>. QED  BY <2>1, ShopScene
<1>5. leaves => out \in AllScenes  BY ShopScene
<1>6. MapOpened(s) \subseteq AllScenes  BY MapOverScene
<1>7. Opened(s, GameOvers) \subseteq AllScenes  BY OverlaidScene, ScenesAssumption
<1>8. Opened(turned, Selections) \subseteq AllScenes
  BY <1>2, OverlaidScene, ScenesAssumption
<1>9. RoomAnswers(s, c) =
        CASE c.class = "proceed" \/ Says(c, {"proceed"}) -> MapOpened(s)
          [] "lethal" \in c.is     -> Opened(s, GameOvers)
          [] "locked" \in c.is     -> {s}
          [] c.class = "slot" /\ "affordable" \notin c.is -> {s}
          [] enters                -> {entered}
          [] c.class = "slot"      -> after
          [] leaves                -> {out}
          [] OTHER                 -> {turned} \union Opened(turned, Selections)
  BY DEF RoomAnswers, Each, Options
<1>. HIDE DEF turned, after, entered, out, enters, leaves
<1>10. \/ RoomAnswers(s, c) \in {MapOpened(s), Opened(s, GameOvers), {s}, after,
                                 {turned} \union Opened(turned, Selections)}
       \/ enters /\ RoomAnswers(s, c) = {entered}
       \/ leaves /\ RoomAnswers(s, c) = {out}
  BY <1>9
<1>. QED  BY <1>2, <1>3, <1>4, <1>5, <1>6, <1>7, <1>8, <1>10

(* A click in the main menu. *)
LEMMA MenuAnswersType ==
  ASSUME NEW s \in AllScenes, NEW c
  PROVE  MenuAnswers(s, c) \subseteq AllScenes
<1>1. [s EXCEPT !.inRun = TRUE] \in AllScenes  BY ChangedScene
<1>2. [s EXCEPT !.menu = TurnedPage(@)] \in AllScenes
  <2>1. s.menu \in LayersOf({"none", "MAIN_MENU"})  BY SceneParts
  <2>2. TurnedPage(s.menu) \in LayersOf({"none", "MAIN_MENU"})  BY <2>1, TurnedLayer
  <2>. QED  BY <2>2, ChangedScene
<1>3. MenuAnswers(s, c) \in {{[s EXCEPT !.inRun = TRUE]}, {s},
                             {[s EXCEPT !.menu = TurnedPage(@)]}}
  BY DEF MenuAnswers
<1>. QED  BY <1>1, <1>2, <1>3

(* The game answers a click on any control that is read, of any layer but  *)
(* the map, with a scene.                                                  *)
LEMMA AnswersType ==
  ASSUME NEW s \in AllScenes, NEW c \in ControlsOf(s), c \notin Range(s.map.controls)
  PROVE  Answers(s, c) \subseteq AllScenes
<1>1. [s EXCEPT !.modal = NoLayer] \in AllScenes
  <2>1. NoLayer \in LayersOf({"none", "MODAL"})  BY NoLayerParts
  <2>. QED  BY <2>1, ChangedScene
<1>2. MenuAnswers(s, c) \subseteq AllScenes  BY MenuAnswersType
<1>3. In(TopOverlay(s), c) => OverlayAnswers(s, c) \subseteq AllScenes
  <2>1. In(TopOverlay(s), c) => s.overlays # << >>
    BY NoLayerParts DEF In, TopOverlay
  <2>. QED  BY <2>1, OverlayAnswersType
<1>4. MapOpened(s) \subseteq AllScenes  BY MapOverScene
<1>5. In(s.room, c) => RoomAnswers(s, c) \subseteq AllScenes
  BY RoomAnswersType DEF In
<1>6. \/ In(s.modal, c) \/ (In(s.menu, c) /\ ~s.inRun) \/ In(TopOverlay(s), c)
      \/ c \in Range(s.victory) \/ In(s.room, c)
  BY NoLayerParts DEF ControlsOf, In, MainMenu
<1>7. \/ Answers(s, c) \in {{[s EXCEPT !.modal = NoLayer]}, MenuAnswers(s, c), MapOpened(s)}
      \/ In(TopOverlay(s), c) /\ Answers(s, c) = OverlayAnswers(s, c)
      \/ In(s.room, c) /\ Answers(s, c) = RoomAnswers(s, c)
  BY <1>6 DEF Answers
<1>. QED  BY <1>1, <1>2, <1>3, <1>4, <1>5, <1>7

(* A screen that has settled is a screen. *)
LEMMA SettledScene ==
  ASSUME NEW s \in AllScenes
  PROVE  [s EXCEPT !.overlays = Options(@, Repaired), !.room = Repaired(@),
                   !.modal = Repaired(@), !.halfRead = "no"] \in AllScenes
<1>. DEFINE f == [k \in DOMAIN s.overlays |-> Repaired(s.overlays[k])]
<1>1. Options(s.overlays, Repaired) = f  BY DEF Options
<1>2. s.overlays \in Seq(Overlays)  BY SceneParts
<1>3. f \in [DOMAIN s.overlays -> Overlays]
  <2>1. \A k \in DOMAIN s.overlays : s.overlays[k] \in LayersOf(OverlayTypes)
    BY <1>2 DEF Overlays
  <2>2. \A k \in DOMAIN s.overlays : Repaired(s.overlays[k]) \in LayersOf(OverlayTypes)
    BY <2>1, RepairedLayer
  <2>. QED  BY <2>2 DEF Overlays
<1>. HIDE DEF f
<1>4. f \in Seq(Overlays)  BY <1>2, <1>3, SeqOfFunction
<1>5. Repaired(s.room) \in LayersOf(RoomTypes) /\ Repaired(s.modal) \in LayersOf({"none", "MODAL"})
  BY SceneParts, RepairedLayer
<1>6. "no" \in HalfReads  BY DEF HalfReads
<1>. QED  BY <1>1, <1>4, <1>5, <1>6 DEF AllScenes

(***************************************************************************)
(* Where death is offered, and what an index may click.                    *)
(***************************************************************************)
(* The controls that kill are the room's. *)
LEMMA KillersAreInTheRoom ==
  ASSUME NEW s \in AllScenes, NEW c \in ControlsOf(s), "lethal" \in c.is
  PROVE  c \in Range(s.room.controls)
<1>1. ASSUME NEW types, "EVENT" \notin types, NEW layer \in LayersOf(types)
      PROVE  c \notin Range(layer.controls)
  <2>1. layer.type # "EVENT"  BY <1>1, LayerParts
  <2>. QED  BY <2>1, LayerParts DEF FitsIn
<1>. DEFINE modals == {"none", "MODAL"}  menus == {"none", "MAIN_MENU"}  maps == {"none", "MAP"}
            tops == OverlayTypes \union {"none"}
<1>2. "EVENT" \notin modals /\ "EVENT" \notin menus /\ "EVENT" \notin maps /\ "EVENT" \notin tops
  BY DEF OverlayTypes
<1>3. /\ s.modal \in LayersOf(modals) /\ MainMenu(s) \in LayersOf(menus)
      /\ s.map \in LayersOf(maps) /\ TopOverlay(s) \in LayersOf(tops)
  BY SceneParts
<1>. HIDE DEF modals, menus, maps, tops
<1>4. /\ c \notin Range(s.modal.controls) /\ c \notin Range(MainMenu(s).controls)
      /\ c \notin Range(s.map.controls) /\ c \notin Range(TopOverlay(s).controls)
  BY <1>1, <1>2, <1>3
<1>5. c \notin Range(s.victory)
  <2>1. \A i \in DOMAIN s.victory : FitsIn(s.victory[i], "none")  BY SceneParts
  <2>. QED  BY <2>1 DEF FitsIn, Range
<1>. QED  BY <1>4, <1>5 DEF ControlsOf

(* The control of an option of the reading, open or not.                   *)
LEMMA OptionsControl ==
  ASSUME NEW s \in AllScenes, NEW k \in DOMAIN Read(s).options
  PROVE  /\ Read(s).options[k].control \in ControlsOf(s)
         /\ Read(s).options[k].enabled /\ "lethal" \in Read(s).options[k].control.is =>
               \A c \in Range(s.room.controls) : IsChoice(c) => "lethal" \in c.is
<1>1. Read(s) \in Readings(Fine(s))  BY ReadType
<1>2. Read(s).options \in Seq(Fine(s))  BY <1>1 DEF Readings
<1>o. PICK o : o = Read(s).options[k]  OBVIOUS
<1>3. o \in Fine(s)  BY <1>2, <1>o
<1>4. /\ o.control \in ControlsOf(s)
      /\ o.enabled /\ "lethal" \in o.control.is =>
           \A i \in DOMAIN s.room.controls :
              IsChoice(s.room.controls[i]) => "lethal" \in s.room.controls[i].is
  BY <1>3 DEF Fine, FineFor, OptionsFor
<1>. QED  BY <1>4, <1>o DEF Range

(* What an index names when the decision arrives is a control of the scene.*)
LEMMA HitIsShown ==
  ASSUME scene \in AllScenes
  PROVE  Hit \subseteq ControlsOf(scene)
<1>. SUFFICES ASSUME NEW c \in Hit PROVE c \in ControlsOf(scene)  OBVIOUS
<1>1. choice \in DOMAIN Read(scene).options /\ c = Read(scene).options[choice].control
  BY DEF Hit
<1>2. Read(scene).options[choice].control \in ControlsOf(scene)  BY <1>1, OptionsControl
<1>. QED  BY <1>1, <1>2

(***************************************************************************)
(* The invariant.                                                          *)
(***************************************************************************)
(* Death is chosen only where all open choices are death.  It stays so as  *)
(* long as the room stays, whatever opens, closes or settles over it, and  *)
(* the room that follows a fight offers none: an index that hits a control *)
(* that kills hits it in the room that it was chosen in.                   *)
Doomed(room)   == \A c \in Range(room.controls) : IsChoice(c) => "lethal" \in c.is
Harmless(room) == \A c \in Range(room.controls) : "lethal" \notin c.is

DeathInv ==
    choice # 0 /\ "lethal" \in Chosen.control.is => Doomed(scene.room) \/ Harmless(scene.room)

(* While a decision about a screen is on its way, none about the fight is: *)
(* the scene changes only by itself.                                       *)
VisitIInv ==
    /\ IInv
    /\ MenuTypeOK
    /\ policy \in Policies
    /\ choice # 0 => /\ decision = NoDecision
                     /\ Route!IsRoute(screen.route) /\ screen.deck \in Seq(Faces)
    /\ DeathInv

LEMMA DeathIsDue == VisitIInv => DiesOnlyWhenItMust
<1>. SUFFICES ASSUME VisitIInv, choice # 0, Chosen.control \in Hit, "lethal" \in Chosen.control.is
              PROVE  Doomed(scene.room)
  BY DEF DiesOnlyWhenItMust, Doomed, IsChoice
<1>1. scene \in AllScenes  BY DEF VisitIInv, MenuTypeOK
<1>2. Chosen.control \in ControlsOf(scene)  BY <1>1, HitIsShown
<1>s. PICK s : s = scene  OBVIOUS
<1>c. PICK c : c = Chosen.control  OBVIOUS
<1>3. c \in Range(s.room.controls)  BY <1>1, <1>2, <1>s, <1>c, KillersAreInTheRoom
<1>4. ~Harmless(scene.room)  BY <1>3, <1>s, <1>c DEF Harmless
<1>. QED  BY <1>4 DEF VisitIInv, DeathInv

(* A room without a fight. *)
LEMMA QuietIsState == Quiet \in States
<1>1. << >> \in Seq(Cards) /\ << >> \in Seq(Foes) /\ << >> \in Seq(Potions)  OBVIOUS
<1>. QED  BY <1>1 DEF Quiet, States

(* A visit begins within the invariant. *)
LEMMA VisitBegins == VisitInit => VisitIInv
<1>. SUFFICES ASSUME VisitInit PROVE VisitIInv  OBVIOUS
<1>1. MenuInit  BY DEF VisitInit
<1>2. scene \in AllScenes  BY <1>1, ScenesAssumption DEF MenuInit
<1>3. MenuTypeOK
  <2>1. left \in BOOLEAN /\ choice = 0 /\ tried = {} /\ lost = 0  BY <1>1 DEF MenuInit
  <2>2. lost \in 0..MaxLost  BY <2>1, MaxLostAssumption
  <2>. QED  BY <1>2, <2>1, <2>2 DEF MenuTypeOK
<1>4. IInv /\ policy \in Policies
  <2>1. CASE Init  BY <2>1, InitInvariant DEF Init
  <2>2. CASE /\ game = Quiet /\ seen = Quiet /\ decision = NoDecision
             /\ over = "won" /\ owed = FALSE
             /\ policy \in Policies
    <3>1. NoDecision \in Decisions(seen)  BY DEF Decisions
    <3>. QED  BY <2>2, <3>1, QuietIsState DEF IInv, TypeOK
  <2>. QED  BY <2>1, <2>2 DEF VisitInit
<1>. QED  BY <1>1, <1>3, <1>4 DEF VisitIInv, MenuInit, DeathInv

(* What is about the screens when they stay as they are. *)
LEMMA ScreensStay ==
  ASSUME VisitIInv, UNCHANGED menuVars, UNCHANGED policy, IInv', choice # 0 => UNCHANGED decision
  PROVE  VisitIInv'
BY DEF VisitIInv, menuVars, MenuTypeOK, DeathInv, Chosen

(* Without a choice on its way, any scene may follow. *)
LEMMA NothingIsChosen ==
  ASSUME VisitIInv, UNCHANGED <<policy, tried, lost, left>>, IInv', choice' = 0,
         scene' \in AllScenes
  PROVE  VisitIInv'
BY DEF VisitIInv, MenuTypeOK, DeathInv

(* A decision about the fight is on its way only while none about a screen *)
(* is.                                                                     *)
LEMMA FightGoesOn ==
  ASSUME VisitIInv, UNCHANGED policy,
         DecidesInFight \/ PlaysInFight \/ ActsInFight \/ MateKillsInFight
  PROVE  VisitIInv'
<1>1. IInv /\ MenuTypeOK /\ scene \in AllScenes  BY DEF VisitIInv, MenuTypeOK
<1>2. Next => IInv'  BY <1>1, StepInvariant
<1>3. CASE DecidesInFight
  <2>1. IInv'  BY <1>2, <1>3 DEF DecidesInFight, Next
  <2>. QED  BY <1>1, <1>3, <2>1, NothingIsChosen DEF DecidesInFight
<1>4. CASE PlaysInFight
  <2>1. IInv'  BY <1>2, <1>4 DEF PlaysInFight, Next, ModStep
  <2>2. choice = 0
    <3>1. decision # NoDecision
      BY <1>4 DEF PlaysInFight, Plays, Executing, NoDecision
    <3>. QED  BY <3>1 DEF VisitIInv
  <2>3. scene' \in AllScenes
    <3>1. Asked \subseteq Overlays  BY VisitsAssumption
    <3>2. Opened(scene, Asked) \subseteq AllScenes  BY <1>1, <3>1, OverlaidScene
    <3>. QED  BY <1>1, <1>4, <3>2 DEF PlaysInFight
  <2>. QED  BY <1>4, <2>1, <2>2, <2>3, NothingIsChosen DEF PlaysInFight
<1>5. CASE ActsInFight
  <2>1. IInv'  BY <1>2, <1>5 DEF ActsInFight, Next, ModStep
  <2>2. decision # NoDecision
    BY <1>5 DEF ActsInFight, Drinks, Ends, Refuses, ActsForAnother, Executing, NoDecision
  <2>3. UNCHANGED menuVars  BY <1>5 DEF ActsInFight
  <2>. QED  BY <2>1, <2>2, <2>3, ScreensStay DEF VisitIInv
<1>6. CASE MateKillsInFight
  <2>1. IInv'  BY <1>2, <1>6 DEF MateKillsInFight, Next
  <2>2. UNCHANGED decision  BY <1>6 DEF MateKillsInFight, MateKills
  <2>3. UNCHANGED menuVars  BY <1>6 DEF MateKillsInFight
  <2>. QED  BY <2>1, <2>2, <2>3, ScreensStay
<1>. QED  BY <1>3, <1>4, <1>5, <1>6

(* A fight that is won gives way to what comes after it, in which nothing  *)
(* kills, even with an answer to a screen of the fight on its way.         *)
LEMMA FightEnds ==
  ASSUME VisitIInv, UNCHANGED policy, FightIsOver
  PROVE  VisitIInv'
<1>1. scene' \in AllScenes  BY VisitsAssumption DEF FightIsOver
<1>2. IInv'
  <2>1. NoDecision \in Decisions(Quiet)  BY DEF Decisions
  <2>. QED  BY <2>1, QuietIsState DEF FightIsOver, VisitIInv, IInv, TypeOK
<1>3. Harmless(scene'.room)  BY VisitsAssumption DEF FightIsOver, Harmless
<1>4. decision' = NoDecision /\ UNCHANGED <<screen, choice, tried, lost, left>>
  BY DEF FightIsOver
<1>. QED  BY <1>1, <1>2, <1>3, <1>4 DEF VisitIInv, MenuTypeOK, DeathInv, Harmless

(* What the agent decides on is a reading, as far as it got.               *)
LEMMA DecidedScreen ==
  ASSUME VisitIInv, DecidesInMenu
  PROVE  /\ UNCHANGED <<scene, tried, lost, left>>
         /\ screen'.options = Read(scene).options /\ Enabled(screen') = Enabled(Read(scene))
         /\ screen'.options \in Seq(Fine(scene))
         /\ Enabled(screen') # {}
         /\ Route!IsRoute(screen'.route) /\ screen'.deck \in Seq(Faces)
         /\ choice' \in MenuChoices(screen', TriedOn(screen)')
<1>1. scene \in AllScenes  BY DEF VisitIInv, MenuTypeOK
<1>2. Decides  BY DEF DecidesInMenu
<1>3. PICK r \in Screens(scene) :
         ShouldAct(r) /\ screen' = r /\ choice' \in MenuChoices(r, TriedOn(r))
  BY <1>2 DEF Decides
<1>4. UNCHANGED <<scene, tried, lost, left>>  BY <1>2 DEF Decides
<1>5. Route!IsRoute(scene.route) /\ scene.deck \in Seq(Faces)
  BY <1>1, SceneParts, ScenesAssumption
<1>6. /\ r.options = Read(scene).options /\ Enabled(r) = Enabled(Read(scene))
      /\ Route!IsRoute(r.route) /\ r.deck \in Seq(Faces)
  <2>s. PICK s : s = scene  OBVIOUS
  <2>. QED  BY <1>5, <2>s, ScreenParts
<1>7. r.options \in Seq(Fine(scene))
  <2>1. Read(scene) \in Readings(Fine(scene))  BY <1>1, ReadType
  <2>. QED  BY <1>6, <2>1 DEF Readings
<1>8. TriedOn(screen)' = TriedOn(r)  BY <1>3, <1>4 DEF TriedOn
<1>. QED  BY <1>3, <1>4, <1>6, <1>7, <1>8 DEF ShouldAct

(* The agent decides on a screen. *)
LEMMA ScreenIsDecided ==
  ASSUME VisitIInv, UNCHANGED policy, DecidesInMenu
  PROVE  VisitIInv'
<1>1. scene \in AllScenes /\ policy \in Policies  BY DEF VisitIInv, MenuTypeOK
<1>2. decision = NoDecision /\ UNCHANGED vars  BY DEF DecidesInMenu
<1>3. IInv'  BY <1>2, StepInvariant DEF VisitIInv, vars
<1>r. PICK r : r = screen'  OBVIOUS
<1>s. PICK s : s = scene  OBVIOUS
<1>k. PICK k : k = choice'  OBVIOUS
<1>t. PICK t : t = TriedOn(screen)'  OBVIOUS
<1>4. /\ UNCHANGED <<scene, tried, lost, left>>
      /\ r.options = Read(s).options /\ Enabled(r) = Enabled(Read(s))
      /\ r.options \in Seq(Fine(s)) /\ Enabled(r) # {}
      /\ Route!IsRoute(r.route) /\ r.deck \in Seq(Faces)
      /\ k \in MenuChoices(r, t)
  BY <1>r, <1>s, <1>k, <1>t, DecidedScreen
<1>5. k \in Enabled(r)
  <2>1. MenuChoices(r, t) \subseteq Enabled(r)
    BY <1>1, <1>4, MenuChoicesAreEnabled
  <2>. QED  BY <1>4, <2>1
<1>6. "lethal" \in r.options[k].control.is => Doomed(s.room)
  <2>1. k \in DOMAIN Read(s).options /\ Read(s).options[k].enabled
    BY <1>4, <1>5 DEF Enabled
  <2>2. "lethal" \in Read(s).options[k].control.is =>
           \A c \in Range(s.room.controls) : IsChoice(c) => "lethal" \in c.is
    BY <1>1, <1>s, <2>1, OptionsControl
  <2>. QED  BY <1>4, <2>2 DEF Doomed
<1>7. DeathInv'
  <2>1. Chosen' = r.options[k]  BY <1>r, <1>k DEF Chosen
  <2>2. scene'.room = s.room  BY <1>4, <1>s
  <2>. QED  BY <1>6, <2>1, <2>2 DEF DeathInv
<1>8. decision' = NoDecision  BY <1>2 DEF vars
<1>9. MenuTypeOK'
  <2>1. choice' \in Enabled(screen')  BY <1>5, <1>r, <1>k
  <2>2. UNCHANGED <<scene, tried, lost, left>>  BY <1>4
  <2>. QED  BY <2>1, <2>2 DEF VisitIInv, MenuTypeOK
<1>. QED  BY <1>1, <1>3, <1>4, <1>7, <1>8, <1>9, <1>r DEF VisitIInv

(* The mod and the game answer, whatever the index names by then. *)
LEMMA ClickIsAnswered ==
  ASSUME VisitIInv, UNCHANGED policy, ModAnswers, UNCHANGED vars
  PROVE  VisitIInv'
<1>1. scene \in AllScenes /\ policy \in Policies  BY DEF VisitIInv, MenuTypeOK
<1>2. IInv'  BY StepInvariant DEF VisitIInv
<1>3. Clicks(Hit) \/ Travels(Hit) \/ ClickIsLost(Hit) \/ ClickIsRefused(Hit)  BY DEF ModAnswers
<1>4. choice # 0 /\ choice' = 0
  BY <1>3 DEF Clicks, Travels, ClickIsLost, ClickIsRefused, Answered
<1>5. \A m \in tried \union {<<screen, choice>>} : m[2] \in Enabled(m[1])
  BY <1>4 DEF VisitIInv, MenuTypeOK
<1>6. tried' = tried \/ tried' = tried \union {<<screen, choice>>}
  BY <1>3 DEF Clicks, Travels, ClickIsLost, ClickIsRefused, Remembers, Mark
<1>7. \A m \in tried' : m[2] \in Enabled(m[1])
  BY <1>5, <1>6 DEF VisitIInv, MenuTypeOK
<1>8. lost' \in 0..MaxLost
  BY <1>3, MaxLostAssumption
  DEF VisitIInv, MenuTypeOK, Clicks, Travels, ClickIsLost, ClickIsRefused
<1>9. scene' \in AllScenes
  <2>1. CASE Clicks(Hit)
    <3>1. PICK c \in Hit : ~In(scene.map, c) /\ scene' \in Answers(scene, c)
      BY <2>1 DEF Clicks
    <3>2. c \in ControlsOf(scene)  BY <1>1, <3>1, HitIsShown
    <3>s. PICK s : s = scene  OBVIOUS
    <3>3. Answers(s, c) \subseteq AllScenes  BY <1>1, <3>1, <3>2, <3>s, AnswersType DEF In
    <3>. QED  BY <3>1, <3>3, <3>s
  <2>2. CASE Travels(Hit) \/ ClickIsLost(Hit) \/ ClickIsRefused(Hit)
    BY <1>1, <2>2 DEF Travels, ClickIsLost, ClickIsRefused
  <2>. QED  BY <1>3, <2>1, <2>2
<1>10. left' \in BOOLEAN
  <2>1. left \in BOOLEAN  BY DEF VisitIInv, MenuTypeOK
  <2>2. CASE Clicks(Hit)
    <3>1. (scene'.inRun # scene.inRun) \in BOOLEAN  OBVIOUS
    <3>. QED  BY <2>2, <3>1 DEF Clicks
  <2>3. CASE Travels(Hit)  BY <2>3 DEF Travels
  <2>4. CASE ClickIsLost(Hit) \/ ClickIsRefused(Hit)
    BY <2>1, <2>4 DEF ClickIsLost, ClickIsRefused
  <2>. QED  BY <1>3, <2>2, <2>3, <2>4
<1>. QED  BY <1>1, <1>2, <1>4, <1>7, <1>8, <1>9, <1>10 DEF VisitIInv, MenuTypeOK, DeathInv

(* What stays true of a choice while the scene changes by itself.          *)
LEMMA ChoiceStays ==
  ASSUME VisitIInv, UNCHANGED <<vars, policy, screen, choice, tried, left>>,
         scene' \in AllScenes, lost' \in 0..MaxLost,
         Doomed(scene.room) => Doomed(scene'.room), Harmless(scene.room) => Harmless(scene'.room)
  PROVE  VisitIInv'
<1>1. IInv'  BY StepInvariant DEF VisitIInv
<1>2. Chosen' = Chosen  BY DEF Chosen
<1>3. DeathInv'  BY <1>2 DEF VisitIInv, DeathInv
<1>4. decision' = decision  BY DEF vars
<1>. QED  BY <1>1, <1>3, <1>4 DEF VisitIInv, MenuTypeOK

(* What was changing can be read. *)
LEMMA ScreenSettles ==
  ASSUME VisitIInv, UNCHANGED policy, Settles, UNCHANGED vars
  PROVE  VisitIInv'
<1>1. scene \in AllScenes /\ lost \in 0..MaxLost  BY DEF VisitIInv, MenuTypeOK
<1>2. scene' \in AllScenes  BY <1>1, SettledScene DEF Settles
<1>3. scene'.room = Repaired(scene.room)  BY <1>1 DEF Settles, AllScenes
<1>s. PICK s : s = scene  OBVIOUS
<1>q. PICK q : q = scene'.room  OBVIOUS
<1>4. /\ Range(q.controls) = {Mended(c) : c \in Range(s.room.controls)}
      /\ Range(s.room.controls) \in SUBSET Controls
  BY <1>1, <1>3, <1>s, <1>q, SceneParts, LayerParts, RepairedLayer
<1>5. \A c \in Range(s.room.controls) :
         /\ "lethal" \in Mended(c).is <=> "lethal" \in c.is
         /\ IsChoice(Mended(c)) <=> IsChoice(c)
  BY <1>4, MendedControl
<1>6. /\ Doomed(s.room) => Doomed(q)
      /\ Harmless(s.room) => Harmless(q)
  BY <1>4, <1>5 DEF Doomed, Harmless
<1>7. UNCHANGED <<screen, choice, tried, lost, left>>  BY DEF Settles
<1>. QED  BY <1>1, <1>2, <1>6, <1>7, <1>s, <1>q, ChoiceStays

(* A screen that was closed goes late. *)
LEMMA ScreenVanishes ==
  ASSUME VisitIInv, UNCHANGED policy, Vanishes, UNCHANGED vars
  PROVE  VisitIInv'
<1>1. scene \in AllScenes /\ lost \in 0..MaxLost  BY DEF VisitIInv, MenuTypeOK
<1>2. lost' \in 0..MaxLost  BY <1>1, MaxLostAssumption DEF Vanishes
<1>3. scene' \in AllScenes /\ scene'.room = scene.room
  <2>1. CASE scene' = [scene EXCEPT !.modal = NoLayer]
    <3>1. NoLayer \in LayersOf({"none", "MODAL"})  BY NoLayerParts
    <3>2. scene' \in AllScenes  BY <1>1, <2>1, <3>1, ChangedScene
    <3>. QED  BY <1>1, <2>1, <3>2 DEF AllScenes
  <2>2. CASE scene' = Below(scene)
    <3>1. scene' \in AllScenes  BY <1>1, <2>2, OverlaidScene
    <3>. QED  BY <1>1, <2>2, <3>1 DEF Below, AllScenes
  <2>. QED  BY <2>1, <2>2 DEF Vanishes
<1>4. UNCHANGED <<screen, choice, tried, left>>  BY DEF Vanishes
<1>. QED  BY <1>2, <1>3, <1>4, ChoiceStays

(* Every step of a visit keeps the invariant. *)
LEMMA VisitGoesOn == VisitIInv /\ [VisitNext]_visitVars => VisitIInv'
<1>. SUFFICES ASSUME VisitIInv, [VisitNext]_visitVars PROVE VisitIInv'  OBVIOUS
<1>1. CASE UNCHANGED visitVars
  <2>1. UNCHANGED <<vars, menuVars, policy>>  BY <1>1 DEF visitVars
  <2>2. IInv'  BY <2>1, StepInvariant DEF VisitIInv
  <2>. QED  BY <2>1, <2>2, ScreensStay DEF vars
<1>2. CASE VisitIsOver /\ UNCHANGED policy
  <2>1. IInv'  BY <1>2, StepInvariant DEF VisitIInv, VisitIsOver
  <2>. QED  BY <1>2, <2>1, ScreensStay DEF VisitIsOver, vars
<1>. QED
  BY <1>1, <1>2, FightGoesOn, FightEnds, ScreenIsDecided, ClickIsAnswered, ScreenSettles,
     ScreenVanishes
  DEF VisitNext, InMenus

(* A block that is due stays so while a selection that a card asks for is  *)
(* made, and no step of the screens makes one due.                         *)
LEMMA VisitKeepsOwed == VisitIInv /\ OwedInv /\ [VisitNext]_visitVars => OwedInv'
<1>. SUFFICES ASSUME VisitIInv, OwedInv, [VisitNext]_visitVars PROVE OwedInv'  OBVIOUS
<1>1. IInv  BY DEF VisitIInv
<1>2. [Next]_<<vars, policy>> => OwedInv'  BY <1>1, OwedGoesOn
<1>3. CASE FightIsOver  BY <1>3, OwedBegins DEF FightIsOver, OwedInv
<1>4. CASE UNCHANGED <<vars, policy>>  BY <1>2, <1>4
<1>5. CASE (DecidesInFight \/ PlaysInFight \/ ActsInFight \/ MateKillsInFight) /\ UNCHANGED policy
  BY <1>2, <1>5 DEF DecidesInFight, PlaysInFight, ActsInFight, MateKillsInFight, Next, ModStep
<1>. QED  BY <1>3, <1>4, <1>5 DEF VisitNext, InMenus, DecidesInMenu, VisitIsOver, visitVars

(* While a screen is played nothing of the fight is used up, and a step of *)
(* the fight uses up as much as without screens.                           *)
LEMMA VisitShrinks ==
  ASSUME VisitIInv, [VisitNext]_visitVars
  PROVE  [over = "no" /\ game.leads => StepsLeft' < StepsLeft]_vars
<1>1. IInv  BY DEF VisitIInv
<1>2. CASE FightIsOver  BY <1>2 DEF FightIsOver
<1>3. CASE UNCHANGED vars  BY <1>3
<1>4. CASE (DecidesInFight \/ PlaysInFight \/ ActsInFight \/ MateKillsInFight) /\ UNCHANGED policy
  <2>1. Next
    BY <1>4 DEF DecidesInFight, PlaysInFight, ActsInFight, MateKillsInFight, Next, ModStep
  <2>. QED  BY <1>1, <2>1, StepShrinks
<1>. QED  BY <1>2, <1>3, <1>4 DEF VisitNext, InMenus, DecidesInMenu, VisitIsOver, visitVars

(***************************************************************************)
(* The order of the choices.                                               *)
(***************************************************************************)
(* What has no effect is repeated last, and the local policy's choice is   *)
(* the foremost of what was not tried.                                     *)
ChoiceInv ==
    /\ RepeatsLast
    /\ policy = "local" /\ choice # 0 =>
          screen.type = "CARD_SELECT" \/ Foremost(screen, choice, TriedOn(screen))

LEMMA ChoiceBegins == VisitInit => ChoiceInv
BY DEF VisitInit, MenuInit, ChoiceInv, RepeatsLast

LEMMA ForemostIsChosen ==
  ASSUME VisitIInv, UNCHANGED policy, DecidesInMenu
  PROVE  ChoiceInv'
<1>r. PICK r : r = screen'  OBVIOUS
<1>s. PICK s : s = scene  OBVIOUS
<1>k. PICK k : k = choice'  OBVIOUS
<1>t. PICK t : t = TriedOn(screen)'  OBVIOUS
<1>1. /\ r.options \in Seq(Fine(s)) /\ Enabled(r) # {}
      /\ Route!IsRoute(r.route) /\ r.deck \in Seq(Faces)
      /\ k \in MenuChoices(r, t)
  BY <1>r, <1>s, <1>k, <1>t, DecidedScreen
<1>2. ASSUME policy \in {"local", "silent"}, k \in t, r.type # "CARD_SELECT"
      PROVE  Enabled(r) \subseteq t
  BY <1>1, <1>2, UntriedComeFirst
<1>3. ASSUME policy = "local", r.type # "CARD_SELECT"
      PROVE  Foremost(r, k, t)
  BY <1>1, <1>3, LocalChoiceIsForemost
<1>4. RepeatsLast'  BY <1>2, <1>r, <1>k, <1>t DEF RepeatsLast
<1>5. (policy = "local" /\ choice # 0 =>
          screen.type = "CARD_SELECT" \/ Foremost(screen, choice, TriedOn(screen)))'
  BY <1>3, <1>r, <1>k, <1>t
<1>. QED  BY <1>4, <1>5 DEF ChoiceInv

(* A mark is made only when the choice is answered. *)
LEMMA ChoiceGoesOn == VisitIInv /\ ChoiceInv /\ [VisitNext]_visitVars => ChoiceInv'
<1>. SUFFICES ASSUME VisitIInv, ChoiceInv, [VisitNext]_visitVars PROVE ChoiceInv'  OBVIOUS
<1>1. CASE UNCHANGED <<screen, choice, tried, policy>>
  <2>1. TriedOn(screen)' = TriedOn(screen)  BY <1>1 DEF TriedOn
  <2>. QED  BY <1>1, <2>1 DEF ChoiceInv, RepeatsLast
<1>2. CASE choice' = 0  BY <1>2 DEF ChoiceInv, RepeatsLast
<1>3. CASE DecidesInMenu /\ UNCHANGED policy  BY <1>3, ForemostIsChosen
<1>4. CASE ModAnswers
  BY <1>2, <1>4 DEF ModAnswers, Clicks, Travels, ClickIsLost, ClickIsRefused, Answered
<1>. QED
  BY <1>1, <1>3, <1>4 DEF VisitNext, InMenus, DecidesInFight, PlaysInFight, ActsInFight,
     MateKillsInFight, FightIsOver, Settles, Vanishes, VisitIsOver, visitVars, menuVars

(* A burden that the deck does not need is worth less than what is neither *)
(* scored as a way nor put behind by a word: no card, and any other card.  *)
LEMMA BurdenIsBehind ==
  ASSUME NEW r, Route!IsRoute(r.route), r.deck \in Seq(Faces), NEW c, NEW o,
         c.kind = "card", Needless(c.card, r.deck), Priority(c) = 0,
         o.kind # "map", Priority(o) >= 0,
         Priority(o) <= Priority(c),
         Priority(o) = Priority(c) => Score(r, o) <= Score(r, c)
  PROVE  Burden(o.card)
<1>1. Priority(o) = 0
  <2>p. PICK p : p = Priority(o)  OBVIOUS
  <2>1. p \in Int /\ p >= 0 /\ p <= 0  BY <2>p, PriorityRange
  <2>. QED  BY <2>1, <2>p
<1>2. Score(r, o) <= Score(r, c)  BY <1>1
<1>3. Score(r, c) <= -300
  <2>1. ~OnRoute(r, c) /\ c.card # NoCard  BY DEF OnRoute, Needless, Burden
  <2>2. Score(r, c) = Deck!CardValue(c.card, r.deck)  BY <2>1 DEF Score
  <2>3. Deck!CardValue(c.card, r.deck) <= -300
    <3>1. PICK card : card = c.card  OBVIOUS
    <3>2. Deck!CardValue(card, r.deck) <= -300  BY <3>1, CardWorth DEF Needless, Burden
    <3>. QED  BY <3>1, <3>2
  <2>. QED  BY <2>2, <2>3
<1>4. ~OnRoute(r, o)  BY DEF OnRoute
<1>5. SUFFICES ASSUME ~Burden(o.card) PROVE FALSE  OBVIOUS
<1>6. Score(r, o) >= -230 /\ Score(r, o) \in Int
  <2>1. CASE o.card = NoCard
    <3>1. Score(r, o) = 0  BY <1>4, <2>1 DEF Score
    <3>. QED  BY <3>1
  <2>2. CASE o.card # NoCard
    <3>1. Score(r, o) = Deck!CardValue(o.card, r.deck)  BY <1>4, <2>2 DEF Score
    <3>2. "burden" \notin Deck!Roles(o.card)  BY <1>5, <2>2 DEF Burden
    <3>3. PICK card : card = o.card  OBVIOUS
    <3>4. Deck!CardValue(card, r.deck) \in Int /\ Deck!CardValue(card, r.deck) >= -230
      BY <3>2, <3>3, CardWorth
    <3>. QED  BY <3>1, <3>3, <3>4
  <2>. QED  BY <2>1, <2>2
<1>7. Score(r, c) \in Int  BY ScoreType
<1>. QED  BY <1>2, <1>3, <1>6, <1>7

LEMMA NoBurdenIsChosen == VisitIInv /\ ChoiceInv => TakesNoBurden
<1>. SUFFICES ASSUME VisitIInv, ChoiceInv, policy = "local" /\ choice # 0,
                     screen.type = "CARD_REWARD", Chosen.kind = "card",
                     Needless(Chosen.card, screen.deck), Priority(Chosen) = 0,
                     NEW o \in Others, o.kind # "map" /\ Priority(o) >= 0
              PROVE  Burden(o.card)
  BY DEF TakesNoBurden
<1>r. PICK r : r = screen  OBVIOUS
<1>k. PICK k : k = choice  OBVIOUS
<1>c. PICK c : c = r.options[k]  OBVIOUS
<1>1. Route!IsRoute(r.route) /\ r.deck \in Seq(Faces)  BY <1>r DEF VisitIInv
<1>2. Foremost(r, k, TriedOn(r))  BY <1>r, <1>k DEF ChoiceInv
<1>3. PICK j \in Enabled(r) \ (TriedOn(r) \union {k}) : r.options[j] = o
  BY <1>r, <1>k DEF Others
<1>4. /\ Priority(o) <= Priority(c)
      /\ Priority(o) = Priority(c) => Score(r, o) <= Score(r, c)
  BY <1>2, <1>3, <1>c DEF Foremost
<1>5. c.kind = "card" /\ Needless(c.card, r.deck) /\ Priority(c) = 0
  BY <1>c, <1>k, <1>r DEF Chosen
<1>. QED  BY <1>1, <1>4, <1>5, BurdenIsBehind

(* The ways that are compared have the priority of the chosen one, so that *)
(* the routes' scores decide between them.                                 *)
LEMMA BestIsTravelled == VisitIInv /\ ChoiceInv => TravelsBest
<1>. SUFFICES ASSUME VisitIInv, ChoiceInv, policy = "local" /\ choice # 0,
                     screen.type = "MAP", OnRoute(screen, Chosen), screen.route = scene.route,
                     Route!HasNoCycle(scene.route.map),
                     NEW o \in Others, OnRoute(screen, o),
                     AllPathsKnown(scene.route, o.control.id), Priority(o) >= Priority(Chosen)
              PROVE  Route!BestFrom(scene.route.map, scene.route, o.control.id)
                     <= Route!BestFrom(scene.route.map, scene.route, Chosen.control.id)
  BY DEF TravelsBest
<1>r. PICK r : r = screen  OBVIOUS
<1>k. PICK k : k = choice  OBVIOUS
<1>c. PICK c : c = r.options[k]  OBVIOUS
<1>t. PICK t : t = r.route  OBVIOUS
<1>1. Route!IsRoute(t) /\ Route!HasNoCycle(t.map) /\ scene.route = t
  BY <1>r, <1>t DEF VisitIInv
<1>2. Foremost(r, k, TriedOn(r))  BY <1>r, <1>k DEF ChoiceInv
<1>3. PICK j \in Enabled(r) \ (TriedOn(r) \union {k}) : r.options[j] = o
  BY <1>r, <1>k DEF Others
<1>4. /\ Priority(o) <= Priority(c)
      /\ Priority(o) = Priority(c) => Score(r, o) <= Score(r, c)
  BY <1>2, <1>3, <1>c DEF Foremost
<1>5. Chosen = c  BY <1>c, <1>k, <1>r DEF Chosen
<1>6. Score(r, o) <= Score(r, c)
  <2>1. Priority(o) >= Priority(c)  BY <1>5
  <2>2. Priority(o) \in Int /\ Priority(c) \in Int  BY PriorityRange
  <2>3. Priority(o) = Priority(c)  BY <1>4, <2>1, <2>2
  <2>. QED  BY <1>4, <2>3
<1>m. PICK m : m = o.control.id  OBVIOUS
<1>n. PICK n : n = c.control.id  OBVIOUS
<1>7. m \in DOMAIN t.map /\ n \in DOMAIN t.map
  BY <1>5, <1>m, <1>n, <1>r, <1>t DEF OnRoute
<1>8. Score(r, o) = Route!RouteScore(t.map, t, m)
  BY <1>m, <1>r, <1>t, ScoreOnRoute
<1>9. Score(r, c) = Route!RouteScore(t.map, t, n)
  BY <1>5, <1>n, <1>r, <1>t, ScoreOnRoute
<1>10. /\ Route!RouteScore(t.map, t, m) = Route!BestFrom(t.map, t, m)
       /\ Route!RouteScore(t.map, t, m) \in Int
  <2>1. Len(Route!Paths(t.map, m)) < Route!PathLimit  BY <1>1, <1>m DEF AllPathsKnown
  <2>. QED  BY <1>1, <1>7, <2>1, RouteIsBest
<1>11. /\ Route!RouteScore(t.map, t, n) <= Route!BestFrom(t.map, t, n)
       /\ Route!RouteScore(t.map, t, n) \in Int /\ Route!BestFrom(t.map, t, n) \in Int
  BY <1>1, <1>7, RouteIsBest
<1>12. Route!BestFrom(t.map, t, m) <= Route!BestFrom(t.map, t, n)
  BY <1>6, <1>8, <1>9, <1>10, <1>11
<1>. QED  BY <1>1, <1>5, <1>12, <1>m, <1>n

(***************************************************************************)
(* The theorems.                                                           *)
(***************************************************************************)
(* The invariant holds in every state of a visit. *)
THEOREM VisitInvariance == VisitSpec => []VisitIInv
BY VisitBegins, VisitGoesOn, PTL DEF VisitSpec

(* Whatever the scenes, the clicks that are lost and the policy: the game  *)
(* stays within the scenes that it can show, and what the agent chooses is *)
(* an option that was enabled on the screen it decided on.                 *)
THEOREM VisitTyped == VisitSpec => []VisitTypeOK
<1>1. VisitIInv => VisitTypeOK  BY DEF VisitIInv, IInv, VisitTypeOK
<1>. QED  BY <1>1, VisitInvariance, PTL

(* The fight's decisions are accepted in a visit, too, where the screens   *)
(* that its cards open come in between and may vanish: for the first of the*)
(* combat's players, unless the fight changed.                             *)
THEOREM VisitNeverRefusedUnchanged == VisitSpec => []AcceptedUnlessChanged
<1>1. VisitIInv => AcceptedUnlessChanged  BY DEF VisitIInv, IInv, AcceptedUnlessChanged
<1>. QED  BY <1>1, VisitInvariance, PTL

(* The block that minimum_defense has called for is played in a visit, too,*)
(* where a card may have another one selected in between, unless a card's  *)
(* effect exhausted or altered others.                                     *)
THEOREM VisitDefendsWhenWarned == VisitSpec => []DefendsWhenWarned
<1>1. VisitInit => OwedInv  BY OwedBegins DEF VisitInit, Init
<1>2. VisitIInv /\ OwedInv /\ [VisitNext]_visitVars => OwedInv'  BY VisitKeepsOwed
<1>. QED  BY <1>1, <1>2, VisitBegins, VisitGoesOn, OwedIsPaid, PTL DEF VisitSpec

(* A turn of a fight does not go round in circles in a visit, either, for  *)
(* any hands, draws, foes and scenes and whatever selections its cards     *)
(* open, as long as the agent's player is the first of the combat's.       *)
THEOREM VisitTurnIsShort == VisitSpec => TurnShrinks
<1>1. VisitIInv /\ [VisitNext]_visitVars
      => [over = "no" /\ game.leads => StepsLeft' < StepsLeft]_vars
  BY VisitShrinks
<1>. QED  BY <1>1, VisitBegins, VisitGoesOn, PTL DEF VisitSpec, TurnShrinks

(* No policy, learned or not, and no answer of a language model makes the  *)
(* agent choose death in an event where a choice is open that does not     *)
(* kill; nor does a choice become such a one on its way, whatever closes,  *)
(* settles or ends until the mod reads the screen again.                   *)
THEOREM VisitDiesOnlyWhenItMust == VisitSpec => []DiesOnlyWhenItMust
BY VisitInvariance, DeathIsDue, PTL

(* Every unknown event or screen that can be read and that has a control to*)
(* click is one that the agent acts on.                                    *)
THEOREM VisitHasNoDeadEnd == VisitSpec => []NoDeadEnd
<1>1. VisitIInv => NoDeadEnd  BY NoDeadEndAnywhere DEF VisitIInv, MenuTypeOK
<1>. QED  BY <1>1, VisitInvariance, PTL

(* Both invariants hold. *)
THEOREM ChoiceInvariance == VisitSpec => [](VisitIInv /\ ChoiceInv)
<1>1. VisitInit => VisitIInv /\ ChoiceInv  BY VisitBegins, ChoiceBegins
<1>2. (VisitIInv /\ ChoiceInv) /\ [VisitNext]_visitVars => (VisitIInv /\ ChoiceInv)'
  BY VisitGoesOn, ChoiceGoesOn
<1>. QED  BY <1>1, <1>2, PTL DEF VisitSpec

(* On every screen, whatever its options say and whichever clicks are lost *)
(* or hit something else, the local policy and the fallback for a silent   *)
(* language model repeat a choice without effect only when all the options *)
(* have been tried.                                                        *)
THEOREM VisitRepeatsLast == VisitSpec => []RepeatsLast
<1>1. VisitIInv /\ ChoiceInv => RepeatsLast  BY DEF ChoiceInv
<1>. QED  BY <1>1, ChoiceInvariance, PTL

(* The local policy takes a status or a curse that the deck, as far as it  *)
(* was read, does not need only when no other card, and no way past the    *)
(* cards, is left to choose, but for those that a word puts behind.        *)
THEOREM VisitTakesNoBurden == VisitSpec => []TakesNoBurden
BY ChoiceInvariance, NoBurdenIsChosen, PTL

(* The local policy begins no route while another, better one could be     *)
(* chosen, on every map that was read whole and on which no way leads back,*)
(* and for every traveller; of the better one all paths have to be known.  *)
THEOREM VisitTravelsBest == VisitSpec => []TravelsBest
BY ChoiceInvariance, BestIsTravelled, PTL
==============================================================================
