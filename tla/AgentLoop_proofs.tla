------------------------- MODULE AgentLoop_proofs --------------------------
(***************************************************************************)
(* Proofs about AgentLoop, for any set of screens, any durations and any   *)
(* faults: which option is blamed for a stall, that an unchanged screen is *)
(* no reason to click again, and that no transition is lost.               *)
(***************************************************************************)
EXTENDS AgentLoop, FiniteSetTheorems, WellFoundedInduction, TLAPS

USE ScreensAssumption, NoScreenAssumption, DurationsAssumption, BoundsAssumption

-----------------------------------------------------------------------------
(* As much of the types as the proofs need.                                *)
TypeInv ==
  /\ screen \in Screens /\ lastRead \in Screens \union {NoScreen}
  /\ rev \in Nat /\ acting.rev \in Nat /\ pending.rev \in Nat /\ restarts \in Nat
  /\ sinceAction \in 0..StallAfter /\ sinceAcked \in 0..StallAfter

(* The mod numbers its states from 1 on.                                   *)
NumberedInv == lastRead \in Screens => rev > 0

(* What the loop remembers as the last screen is that of its last decision.*)
LastInv == lastScreen \in {NoId, lastDecision.on}

(* The acknowledged action's screen is remembered until it has stalled, and*)
(* who acts on it again has waited.                                        *)
AckedInv ==
  acked # NoId => /\ sinceAcked = sinceAction
                  /\ lastScreen = acked \/ (lastScreen = NoId /\ sinceAcked = StallAfter)
ActingInv ==
  pc = "post" => /\ acting.id # NoId
                 /\ acting.id = acked => sinceAcked = StallAfter

(* As long as the game was not started anew, nothing is newer than the     *)
(* mod's revision, and a transition that is open when an action is posted  *)
(* has the revision that action was decided on.                            *)
PendingInv ==
  restarts = 0 => /\ pending.rev <= rev /\ acting.rev <= rev
                  /\ pc = "post" /\ pending # NoPending => pending.rev = acting.rev

IInv == TypeInv /\ NumberedInv /\ LastInv /\ AckedInv /\ ActingInv /\ PendingInv

-----------------------------------------------------------------------------
(* A refresh numbers the state, and never goes back.                       *)
LEMMA RevAfterProperties ==
  ASSUME TypeInv, NumberedInv
  PROVE  /\ RevAfter \in Nat \ {0} /\ rev <= RevAfter
         /\ Refreshed => rev' = RevAfter /\ lastRead' = screen
BY DEF TypeInv, NumberedInv, RevAfter, Refreshed

(* No screen that is served has the identity of no screen.                 *)
LEMMA ScreenIdIsReal ==
  ASSUME TypeInv, NumberedInv
  PROVE  ScreenId(Snapshot) # NoId
<1>1. Snapshot.rev = RevAfter /\ Snapshot.screen = screen  BY DEF Snapshot
<1>2. CASE screen.type = "COMBAT"
  <2>1. ScreenId(Snapshot).rev = RevAfter  BY <1>1, <1>2 DEF ScreenId, NoId
  <2>. QED  BY <2>1, RevAfterProperties DEF NoId
<1>3. CASE screen.type # "COMBAT"
  <2>1. ScreenId(Snapshot).type = screen.type  BY <1>1, <1>3 DEF ScreenId, ContentId
  <2>2. screen.type # "none"  BY DEF TypeInv, IsScreen
  <2>. QED  BY <2>1, <2>2 DEF NoId
<1>. QED  BY <1>2, <1>3

(* What an iteration up to its POST does to the variables of IInv.         *)
Polled ==
  LET v == Snapshot IN
  /\ pc = "poll" /\ Refreshed
  /\ pending' = IF Settles(v) THEN NoPending ELSE pending
  /\ lastScreen' = IF Stalled(v) THEN NoId ELSE lastScreen
  /\ \/ pc' = "poll" /\ acting' = acting
     \/ /\ Acts(v) /\ pc' = "post"
        /\ acting'.id = ScreenId(v) /\ acting'.rev = v.rev
  /\ UNCHANGED <<screen, restarts, lastDecision, sinceAction, acked, sinceAcked>>

LEMMA PollCases ==
  ASSUME Poll
  PROVE  Polled
<1>1. CASE Acts(Snapshot)
  BY <1>1 DEF Poll, Polled, worldVars, histVars
<1>2. CASE ~Acts(Snapshot)
  BY <1>2 DEF Poll, Polled, worldVars, histVars
<1>. QED  BY <1>1, <1>2

(* What a POST does to them: it is refused, it is carried out and          *)
(* acknowledged, or carried out and its answer lost.                       *)
Refuses == UNCHANGED <<lastVars, pending, sinceAcked>>
Posted ==
  /\ pc = "post" /\ pc' = "poll" /\ acting' = NoActing /\ Refreshed
  /\ restarts' = restarts
  /\ \/ screen' = screen /\ acked' = acked /\ Refuses
     \/ screen' \in Screens /\ acked' = acting.id /\ Accepted /\ sinceAcked' = 0
     \/ /\ screen' \in Screens /\ acked' = NoId /\ sinceAcked' = 0
        /\ UNCHANGED <<lastVars, pending>>

LEMMA PostCases ==
  ASSUME TypeInv, PostRefused \/ PostExecuted
  PROVE  Posted
<1>1. CASE PostRefused
  BY <1>1 DEF PostRefused, Posted, Refuses, Rejected, worldVars, watchVars, histVars
<1>2. CASE PostExecuted
  BY <1>2 DEF PostExecuted, Posted, Rejected, watchVars, TypeInv
<1>. QED  BY <1>1, <1>2

-----------------------------------------------------------------------------
LEMMA InitIInv == Init => IInv
<1>. SUFFICES ASSUME Init PROVE IInv  OBVIOUS
<1>. USE DEF Init, NoActing, NoPending
<1>1. TypeInv  BY DEF TypeInv
<1>2. NumberedInv /\ LastInv  BY DEF NumberedInv, LastInv
<1>3. AckedInv /\ ActingInv /\ PendingInv  BY DEF AckedInv, ActingInv, PendingInv
<1>. QED  BY <1>1, <1>2, <1>3 DEF IInv

LEMMA PollIInv ==
  ASSUME IInv, Poll
  PROVE  IInv'
<1>. USE DEF IInv
<1>. DEFINE v == Snapshot
<1>0. Polled /\ v.rev = RevAfter  BY PollCases DEF Snapshot
<1>1. /\ rev' = RevAfter /\ RevAfter \in Nat \ {0} /\ rev <= RevAfter /\ lastRead' = screen
      /\ ScreenId(v) # NoId
  BY <1>0, RevAfterProperties, ScreenIdIsReal DEF Polled
<1>2. acting'.rev \in Nat /\ pending'.rev \in Nat
  BY <1>0, <1>1 DEF Polled, TypeInv, NoPending
<1>3. TypeInv'  BY <1>0, <1>1, <1>2 DEF Polled, TypeInv
<1>4. NumberedInv' /\ LastInv'  BY <1>0, <1>1 DEF Polled, NumberedInv, LastInv
<1>5. Stalled(v) => ScreenId(v) = lastScreen /\ sinceAction = StallAfter
  BY DEF Stalled, TypeInv
<1>6. AckedInv'
  <2>1. acked' = acked /\ sinceAcked' = sinceAcked /\ sinceAction' = sinceAction
    BY <1>0 DEF Polled
  <2>2. CASE Stalled(v)
    <3>1. lastScreen' = NoId  BY <1>0, <2>2 DEF Polled
    <3>. QED  BY <1>5, <2>1, <2>2, <3>1 DEF AckedInv
  <2>3. CASE ~Stalled(v)
    <3>1. lastScreen' = lastScreen  BY <1>0, <2>3 DEF Polled
    <3>. QED  BY <2>1, <3>1 DEF AckedInv
  <2>. QED  BY <2>2, <2>3
<1>7. ActingInv'
  <2>. SUFFICES ASSUME pc' = "post"
                PROVE  /\ acting'.id # NoId
                       /\ acting'.id = acked' => sinceAcked' = StallAfter
    BY DEF ActingInv
  <2>1. /\ Acts(v) /\ acting'.id = ScreenId(v) /\ acked' = acked /\ sinceAcked' = sinceAcked
    BY <1>0 DEF Polled
  <2>2. ScreenId(v) # lastScreen \/ Stalled(v)  BY <2>1 DEF Acts
  <2>. QED  BY <1>1, <1>5, <2>1, <2>2 DEF AckedInv
<1>8. PendingInv'
  <2>. SUFFICES ASSUME restarts = 0 PROVE PendingInv'
    BY <1>0 DEF Polled, PendingInv
  <2>1. pending.rev \in Nat /\ acting.rev \in Nat /\ rev \in Nat
        /\ pending.rev <= rev /\ acting.rev <= rev
    BY DEF TypeInv, PendingInv
  <2>2. pending'.rev <= rev' /\ acting'.rev <= rev'
    BY <1>0, <1>1, <2>1 DEF Polled, NoPending
  <2>3. pc' = "post" /\ pending' # NoPending => pending'.rev = acting'.rev
    <3>. SUFFICES ASSUME pc' = "post", pending' # NoPending PROVE pending'.rev = acting'.rev
      OBVIOUS
    <3>1. ~Settles(v) /\ pending' = pending /\ acting'.rev = RevAfter  BY <1>0 DEF Polled
    <3>2. ~(RevAfter > pending.rev)  BY <1>0, <3>1 DEF Settles
    <3>. QED  BY <1>1, <2>1, <3>1, <3>2
  <2>. QED  BY <2>2, <2>3 DEF PendingInv
<1>. QED  BY <1>3, <1>4, <1>6, <1>7, <1>8

LEMMA PostIInv ==
  ASSUME IInv, PostRefused \/ PostExecuted
  PROVE  IInv'
<1>. USE DEF IInv
<1>0. Posted  BY PostCases
<1>1. rev' = RevAfter /\ RevAfter \in Nat \ {0} /\ rev <= RevAfter /\ lastRead' = screen
  BY <1>0, RevAfterProperties DEF Posted
<1>2. acting' = NoActing /\ acting'.rev = 0 /\ pc' = "poll"  BY <1>0 DEF Posted, NoActing
<1>3. NumberedInv' /\ ActingInv'  BY <1>1, <1>2 DEF NumberedInv, ActingInv
<1>4. CASE screen' = screen /\ acked' = acked /\ Refuses
  <2>. USE DEF Refuses, lastVars
  <2>1. TypeInv'  BY <1>0, <1>1, <1>2, <1>4 DEF TypeInv, Posted
  <2>2. LastInv' /\ AckedInv'  BY <1>4 DEF LastInv, AckedInv
  <2>3. PendingInv'  BY <1>0, <1>1, <1>2, <1>4 DEF PendingInv, Posted, TypeInv
  <2>. QED  BY <1>3, <2>1, <2>2, <2>3
<1>5. CASE screen' \in Screens /\ acked' = acting.id /\ Accepted /\ sinceAcked' = 0
  <2>. USE DEF Accepted
  <2>1. TypeInv'  BY <1>0, <1>1, <1>2, <1>5 DEF TypeInv, Posted
  <2>2. LastInv' /\ AckedInv'  BY <1>5 DEF LastInv, AckedInv
  <2>3. PendingInv'  BY <1>0, <1>1, <1>2, <1>5 DEF PendingInv, Posted, TypeInv
  <2>. QED  BY <1>3, <2>1, <2>2, <2>3
<1>6. CASE /\ screen' \in Screens /\ acked' = NoId /\ sinceAcked' = 0
           /\ UNCHANGED <<lastVars, pending>>
  <2>. USE DEF lastVars
  <2>1. TypeInv'  BY <1>0, <1>1, <1>2, <1>6 DEF TypeInv, Posted
  <2>2. LastInv' /\ AckedInv'  BY <1>6 DEF LastInv, AckedInv
  <2>3. PendingInv'  BY <1>0, <1>1, <1>2, <1>6 DEF PendingInv, Posted, TypeInv
  <2>. QED  BY <1>3, <2>1, <2>2, <2>3
<1>. QED  BY <1>0, <1>4, <1>5, <1>6 DEF Posted

LEMMA NextIInv == IInv /\ [Next]_vars => IInv'
<1>. SUFFICES ASSUME IInv, [Next]_vars PROVE IInv'  OBVIOUS
<1>. USE DEF IInv, worldVars, modVars, lastVars, retryVars, watchVars, histVars
<1>1. CASE PollAborts
  <2>1. /\ rev' = RevAfter /\ RevAfter \in Nat \ {0} /\ rev <= RevAfter /\ lastRead' = screen
        /\ UNCHANGED <<screen, restarts, pc, acting, lastScreen, lastDecision, sinceAction,
                       pending, acked, sinceAcked>>
    BY <1>1, RevAfterProperties DEF PollAborts
  <2>2. TypeInv' /\ NumberedInv'  BY <2>1 DEF TypeInv, NumberedInv
  <2>3. LastInv' /\ AckedInv' /\ ActingInv'  BY <2>1 DEF LastInv, AckedInv, ActingInv
  <2>4. PendingInv'  BY <2>1 DEF PendingInv, TypeInv
  <2>. QED  BY <2>2, <2>3, <2>4
<1>2. ASSUME screen' \in Screens,
             UNCHANGED <<restarts, modVars, pc, acting, lastVars, pending, histVars>>
      PROVE  IInv'
  <2>1. TypeInv' /\ NumberedInv'  BY <1>2 DEF TypeInv, NumberedInv
  <2>2. LastInv' /\ AckedInv' /\ ActingInv'  BY <1>2 DEF LastInv, AckedInv, ActingInv
  <2>3. PendingInv'  BY <1>2 DEF PendingInv
  <2>. QED  BY <2>1, <2>2, <2>3
<1>3. CASE GameMoves  BY <1>2, <1>3 DEF GameMoves
<1>4. CASE DiskChanges  BY <1>2, <1>4 DEF DiskChanges, TypeInv
<1>5. CASE UNCHANGED vars  BY <1>2, <1>5 DEF vars, TypeInv
<1>6. CASE GameRestarts
  <2>1. TypeInv' /\ NumberedInv'  BY <1>6 DEF GameRestarts, TypeInv, NumberedInv
  <2>2. LastInv' /\ AckedInv' /\ ActingInv'
    BY <1>6 DEF GameRestarts, LastInv, AckedInv, ActingInv
  <2>3. PendingInv'
    <3>1. restarts' # 0  BY <1>6 DEF GameRestarts, TypeInv
    <3>. QED  BY <3>1 DEF PendingInv
  <2>. QED  BY <2>1, <2>2, <2>3
<1>7. CASE Tick
  <2>1. UNCHANGED <<screen, restarts, rev, lastRead, pc, acting, lastScreen, lastDecision,
                    pending, acked>>
    BY <1>7 DEF Tick
  <2>2. /\ sinceAction' = Smaller(sinceAction + 1, StallAfter)
        /\ sinceAcked' = Smaller(sinceAcked + 1, StallAfter)
    BY <1>7 DEF Tick
  <2>3. TypeInv' /\ NumberedInv'  BY <2>1, <2>2 DEF TypeInv, NumberedInv, Smaller
  <2>4. sinceAcked = StallAfter => sinceAcked' = StallAfter
    BY <2>2 DEF Smaller
  <2>5. LastInv' /\ AckedInv' /\ ActingInv'
    BY <2>1, <2>2, <2>4 DEF LastInv, AckedInv, ActingInv
  <2>6. PendingInv'  BY <2>1 DEF PendingInv
  <2>. QED  BY <2>3, <2>5, <2>6
<1>. QED
  BY <1>1, <1>3, <1>4, <1>5, <1>6, <1>7, PollIInv, PostIInv DEF Next

LEMMA IInvAlways == Spec => []IInv
BY InitIInv, NextIInv, PTL DEF Spec

-----------------------------------------------------------------------------
(* Type correctness.  Records are given their fields, so that a step that  *)
(* changes one of them can be followed.                                    *)
Flights   == [type : {"choose_option", "play_card", "end_turn", "none"},
              base : Screens, age : 0..GateDeadline]
Sigs      == {NoStuck.sig} \union {Signature(s) : s \in Screens}
Runs      == [id : 0..1, completed : BOOLEAN, completions : 0..2]
ShapeInv ==
  /\ moves \in 0..MaxMoves /\ restarts \in 0..MaxRestarts /\ writable \in BOOLEAN
  /\ flight \in Flights \union {NoFlight}
  /\ pc \in {"poll", "post"} /\ (pc = "post" <=> acting # NoActing)
  /\ acting.session \in 0..restarts /\ pending.session \in 0..restarts
  /\ PlausibleDecision(acting.decision) /\ PlausibleDecision(lastDecision.decision)
  /\ delay \in 0..MaxBackoff /\ failures \in 0..MaxFailures
  /\ run \in Runs
  /\ team \in [turn : Nat \union {NoTurn}, waited : 0..TeamTimeout]
  /\ stuck \in [sig : Sigs, age : 0..StuckAfter]

LEMMA ShapeIsType == TypeInv /\ ShapeInv => TypeOK
<1>. SUFFICES ASSUME TypeInv, ShapeInv PROVE TypeOK  OBVIOUS
<1>1. flight = NoFlight \/ (flight.base \in Screens /\ flight.age \in 0..GateDeadline)
  BY DEF ShapeInv, Flights
<1>2. run.id \in 0..1 /\ run.completed \in BOOLEAN /\ run.completions \in 0..2
  BY DEF ShapeInv, Runs
<1>3. team.waited \in 0..TeamTimeout /\ stuck.age \in 0..StuckAfter
  BY DEF ShapeInv
<1>. QED  BY <1>1, <1>2, <1>3 DEF TypeOK, TypeInv, ShapeInv

(* A power of two is a number: the count of the subsets of 1..n.           *)
LEMMA PowerOfTwo ==
  ASSUME NEW n \in Nat
  PROVE  2^n \in Nat
<1>1. IsFiniteSet(1..n) /\ Cardinality(1..n) = n
  <2>1. /\ IsFiniteSet(1..n)
        /\ Cardinality(1..n) = IF 1 > n THEN 0 ELSE n - 1 + 1
    BY FS_Interval, 1 \in Int, n \in Int, Zenon
  <2>. QED  BY <2>1
<1>2. IsFiniteSet(SUBSET (1..n)) /\ Cardinality(SUBSET (1..n)) = 2^n
  BY <1>1, FS_SUBSET
<1>. QED  BY <1>2, FS_CardinalityType

(* However many rejections: the delay is a number up to MaxBackoff.        *)
LEMMA BackoffIsCapped ==
  ASSUME NEW n \in Nat \ {0}
  PROVE  Backoff(n) \in 0..MaxBackoff
<1>. DEFINE k == Smaller(n, MaxFailures) - 1
<1>1. k \in Nat  BY DEF Smaller
<1>2. 2^k \in Nat  BY <1>1, PowerOfTwo
<1>. QED  BY <1>2 DEF Backoff, Smaller

(* First finds the least number of a set that has one.                     *)
LEMMA FirstIsLeast ==
  ASSUME NEW S \in SUBSET Nat, S # {}
  PROVE  First(S) \in S /\ \A y \in S : First(S) <= y
<1>1. PICK x \in S : \A y \in S : ~(<<y, x>> \in OpToRel(<, Nat))
  BY NatLessThanWellFounded, WFMin
<1>2. ASSUME NEW y \in S PROVE x <= y
  <2>1. x \in Nat /\ y \in Nat  OBVIOUS
  <2>2. ~(y < x)  BY <1>1, <2>1, Zenon DEF OpToRel
  <2>. QED  BY <2>1, <2>2
<1>. QED  BY <1>2 DEF First

(* The automatic choice and the policy's are options of the screen.        *)
LEMMA ChoicesAreOffered ==
  ASSUME NEW s \in Screens, Enabled(s) # {}
  PROVE  /\ AutoChoice(s) \subseteq Enabled(s)
         /\ \A avoided : PolicyChoice(s, avoided) \subseteq Enabled(s)
<1>. DEFINE selected == OfKind(s, {"selected"})  cards == OfKind(s, {"card"})
            confirm  == OfKind(s, {"confirm"})   any   == Enabled(s)
            of == CASE selected # {} /\ confirm # {} -> confirm
                    [] cards # {}                    -> cards
                    [] selected # {}                 -> selected
                    [] OTHER                         -> any
<1>1. \A kinds : OfKind(s, kinds) \subseteq Enabled(s)  BY DEF OfKind
<1>2. Enabled(s) \subseteq Nat  BY DEF IsScreen, Enabled
<1>3. of # {} /\ of \subseteq Enabled(s)
  <2>1. CASE selected # {} /\ confirm # {}  BY <1>1, <2>1
  <2>2. CASE ~(selected # {} /\ confirm # {}) /\ cards # {}  BY <1>1, <2>2
  <2>3. CASE ~(selected # {} /\ confirm # {}) /\ cards = {} /\ selected # {}
    BY <1>1, <2>3
  <2>4. CASE cards = {} /\ selected = {}  BY <2>4
  <2>. QED  BY <2>1, <2>2, <2>3, <2>4
<1>4. First(of) \in Enabled(s)
  <2>. HIDE DEF of
  <2>. QED  BY <1>2, <1>3, FirstIsLeast
<1>5. AutoChoice(s) = IF s.type = "CARD_SELECT" THEN {First(of)}
                      ELSE IF Cardinality(any) = 1 THEN any ELSE {}
  BY DEF AutoChoice
<1>. QED  BY <1>4, <1>5 DEF PolicyChoice

LEMMA DecisionsArePlausible ==
  ASSUME NEW s \in Screens, NEW avoided, NEW d \in Decisions(s, avoided)
  PROVE  PlausibleDecision(d) /\ d.type \in {"choose_option", "play_card", "end_turn"}
<1>1. CASE Handler(s) = "CHOICE"
  <2>1. Enabled(s) # {}  BY <1>1 DEF Handler
  <2>2. PICK i : /\ i \in IF AutoChoice(s) # {} THEN AutoChoice(s) ELSE PolicyChoice(s, avoided)
                 /\ d = Choose(i)
    BY <1>1 DEF Decisions
  <2>3. i \in Enabled(s)  BY <2>1, <2>2, ChoicesAreOffered
  <2>. QED  BY <2>2, <2>3 DEF PlausibleDecision, Choose
<1>2. CASE Handler(s) = "COMBAT"
  BY <1>2 DEF Decisions, PlausibleDecision, Play, EndTurn
<1>3. CASE Handler(s) \notin {"CHOICE", "COMBAT"}
  BY <1>3 DEF Decisions, PlausibleDecision, EndTurn
<1>. QED  BY <1>1, <1>2, <1>3

LEMMA NoStuckShape == NoStuck \in [sig : Sigs, age : 0..StuckAfter]
BY DEF NoStuck, Sigs

LEMMA PlausibleTypes ==
  ASSUME NEW d, PlausibleDecision(d)
  PROVE  d.type \in {"choose_option", "play_card", "end_turn", "none"}
<1>1. CASE d \in {NoDecision, Play, EndTurn}  BY <1>1 DEF NoDecision, Play, EndTurn
<1>2. CASE \E s \in Screens : \E i \in Enabled(s) : d = Choose(i)  BY <1>2 DEF Choose
<1>. QED  BY <1>1, <1>2 DEF PlausibleDecision

LEMMA InitShape == Init => ShapeInv
<1>. SUFFICES ASSUME Init PROVE ShapeInv  OBVIOUS
<1>. USE DEF Init, NoActing, NoPending, NoLast, Alone
<1>1. PlausibleDecision(acting.decision) /\ PlausibleDecision(lastDecision.decision)
  BY DEF PlausibleDecision
<1>2. stuck \in [sig : Sigs, age : 0..StuckAfter]
  BY NoStuckShape
<1>3. run \in Runs /\ team \in [turn : Nat \union {NoTurn}, waited : 0..TeamTimeout]
  BY DEF Runs
<1>. QED  BY <1>1, <1>2, <1>3 DEF ShapeInv

(* The flight after a refresh, and what a rejection leaves behind.         *)
LEMMA AfterRefresh == ShapeInv => FlightAfter \in Flights \union {NoFlight}
BY DEF ShapeInv, FlightAfter

LEMMA RejectedShape ==
  ASSUME ShapeInv, Rejected
  PROVE  /\ delay' \in 0..MaxBackoff /\ failures' \in 0..MaxFailures
         /\ UNCHANGED <<lastDecision, pending>>
<1>1. failures + 1 \in Nat \ {0}  BY DEF ShapeInv
<1>2. delay' \in 0..MaxBackoff  BY <1>1, BackoffIsCapped DEF Rejected
<1>3. failures' \in 0..MaxFailures  BY DEF ShapeInv, Rejected, Smaller
<1>. QED  BY <1>2, <1>3 DEF Rejected, lastVars

(* What an iteration makes of the run, the team and the stuck report.      *)
LEMMA WatchShape ==
  ASSUME TypeInv, ShapeInv
  PROVE  /\ RunAfter(Snapshot) \in Runs
         /\ Ensured(Snapshot) \in Runs
         /\ TeamAfter(screen) \in [turn : Nat \union {NoTurn}, waited : 0..TeamTimeout]
         /\ Observe(Snapshot) => stuck' \in [sig : Sigs, age : 0..StuckAfter]
<1>. DEFINE v == Snapshot
<1>0. v.screen = screen /\ screen \in Screens  BY DEF Snapshot, TypeInv
<1>. HIDE DEF v
<1>1. Ensured(v) \in Runs  BY DEF ShapeInv, Ensured, Runs
<1>2. Completed(v) \in Runs
  <2>1. Smaller(Ensured(v).completions + 1, 2) \in 0..2  BY <1>1 DEF Runs, Smaller
  <2>. QED  BY <1>1, <2>1 DEF Completed, Runs
<1>3. RunAfter(v) \in Runs  BY <1>2 DEF RunAfter, Runs
<1>4. TeamAfter(screen) \in [turn : Nat \union {NoTurn}, waited : 0..TeamTimeout]
  <2>1. screen.turn \in Nat  BY <1>0 DEF IsScreen
  <2>2. 0 \in 0..TeamTimeout  OBVIOUS
  <2>. QED  BY <2>1, <2>2 DEF TeamAfter, ShapeInv
<1>5. Observe(v) => stuck' \in [sig : Sigs, age : 0..StuckAfter]
  <2>1. NoStuck \in [sig : Sigs, age : 0..StuckAfter]  BY NoStuckShape
  <2>2. [sig |-> Signature(v.screen), age |-> 0] \in [sig : Sigs, age : 0..StuckAfter]
    BY <1>0 DEF Sigs
  <2>. QED  BY <2>1, <2>2 DEF Observe, ShapeInv
<1>. QED  BY <1>1, <1>3, <1>4, <1>5 DEF v

LEMMA PollShape ==
  ASSUME IInv, ShapeInv, Poll
  PROVE  ShapeInv'
<1>. DEFINE v == Snapshot
<1>0. v.screen = screen /\ TypeInv /\ NumberedInv  BY DEF Snapshot, IInv
<1>1. /\ flight' = FlightAfter /\ run' = RunAfter(v) /\ team' = TeamAfter(screen) /\ Observe(v)
      /\ UNCHANGED <<moves, restarts, writable, lastDecision, failures>>
      /\ pending' \in {pending, NoPending} /\ delay' \in {delay, 0}
  BY DEF Poll, worldVars, Snapshot
<1>2. /\ pc' \in {"poll", "post"} /\ (pc' = "post" <=> acting' # NoActing)
      /\ acting'.session \in 0..restarts /\ PlausibleDecision(acting'.decision)
  <2>1. CASE ~Acts(v)
    <3>1. pc' = pc /\ acting' = acting  BY <2>1 DEF Poll
    <3>. QED  BY <3>1 DEF ShapeInv, PlausibleDecision
  <2>2. CASE Acts(v)
    <3>1. PICK avoided : \E d \in Decisions(screen, avoided) :
                 acting' = [id |-> ScreenId(v), rev |-> v.rev, session |-> restarts, decision |-> d]
      BY <1>0, <2>2, Zenon DEF Poll
    <3>2. PICK d \in Decisions(screen, avoided) :
                 acting' = [id |-> ScreenId(v), rev |-> v.rev, session |-> restarts, decision |-> d]
      BY <3>1
    <3>3. PlausibleDecision(d)  BY <1>0, DecisionsArePlausible DEF TypeInv
    <3>4. acting'.id # NoId  BY <1>0, <3>2, ScreenIdIsReal
    <3>5. pc' = "post"  BY <2>2 DEF Poll
    <3>6. acting' # NoActing  BY <3>4 DEF NoActing
    <3>7. PlausibleDecision(acting'.decision)  BY <3>2, <3>3 DEF PlausibleDecision
    <3>8. acting'.session \in 0..restarts  BY <3>2 DEF ShapeInv
    <3>. QED  BY <3>5, <3>6, <3>7, <3>8
  <2>. QED  BY <2>1, <2>2
<1>3. flight' \in Flights \union {NoFlight}  BY <1>1, AfterRefresh
<1>4. /\ run' \in Runs /\ team' \in [turn : Nat \union {NoTurn}, waited : 0..TeamTimeout]
      /\ stuck' \in [sig : Sigs, age : 0..StuckAfter]
  BY <1>0, <1>1, WatchShape
<1>5. pending'.session \in 0..restarts' /\ delay' \in 0..MaxBackoff
  BY <1>1 DEF ShapeInv, NoPending
<1>6. PlausibleDecision(lastDecision.decision)'
  BY <1>1 DEF ShapeInv, PlausibleDecision
<1>. QED  BY <1>1, <1>2, <1>3, <1>4, <1>5, <1>6 DEF ShapeInv, PlausibleDecision

LEMMA PostShape ==
  ASSUME IInv, ShapeInv, PostRefused \/ PostExecuted
  PROVE  ShapeInv'
<1>1. /\ pc' = "poll" /\ acting' = NoActing
      /\ UNCHANGED <<restarts, writable, watchVars>>
      /\ pc = "post"
  BY DEF PostRefused, PostExecuted, worldVars
<1>2. moves' \in 0..MaxMoves
  BY DEF PostRefused, PostExecuted, worldVars, ShapeInv
<1>3. flight' \in Flights \union {NoFlight}
  <2>1. CASE PostRefused  BY <2>1, AfterRefresh DEF PostRefused
  <2>2. CASE PostExecuted
    <3>1. flight' = [type |-> acting.decision.type, base |-> screen, age |-> 0]
      BY <2>2 DEF PostExecuted
    <3>2. acting.decision.type \in {"choose_option", "play_card", "end_turn", "none"}
      BY PlausibleTypes DEF ShapeInv
    <3>. QED  BY <3>1, <3>2 DEF Flights, IInv, TypeInv
  <2>. QED  BY <2>1, <2>2
<1>4. /\ delay' \in 0..MaxBackoff /\ failures' \in 0..MaxFailures
      /\ pending'.session \in 0..restarts /\ PlausibleDecision(lastDecision'.decision)
  <2>1. CASE Rejected  BY <2>1, RejectedShape DEF ShapeInv
  <2>2. CASE Accepted  BY <2>2 DEF Accepted, ShapeInv
  <2>. QED  BY <2>1, <2>2 DEF PostRefused, PostExecuted
<1>5. PlausibleDecision(NoActing.decision) /\ NoActing.session = 0
  BY DEF NoActing, PlausibleDecision
<1>. QED  BY <1>1, <1>2, <1>3, <1>4, <1>5 DEF ShapeInv, watchVars, PlausibleDecision

LEMMA NextShape == IInv /\ ShapeInv /\ [Next]_vars => ShapeInv'
<1>. SUFFICES ASSUME IInv, ShapeInv, [Next]_vars PROVE ShapeInv'  OBVIOUS
<1>. USE DEF worldVars, modVars, lastVars, retryVars, watchVars, histVars
<1>1. CASE PollAborts
  <2>1. flight' = FlightAfter /\ run' \in {run, Ensured(Snapshot)}  BY <1>1 DEF PollAborts
  <2>2. flight' \in Flights \union {NoFlight} /\ run' \in Runs
    BY <2>1, AfterRefresh, WatchShape DEF ShapeInv, IInv
  <2>. QED  BY <1>1, <2>2 DEF PollAborts, ShapeInv, PlausibleDecision
<1>2. ASSUME moves' \in 0..MaxMoves, writable' \in BOOLEAN,
             UNCHANGED <<restarts, flight, pc, acting, lastDecision, delay, failures, pending,
                         run, team, stuck>>
      PROVE  ShapeInv'
  BY <1>2 DEF ShapeInv, PlausibleDecision
<1>5. CASE GameMoves  BY <1>2, <1>5 DEF GameMoves, ShapeInv
<1>6. CASE DiskChanges  BY <1>2, <1>6 DEF DiskChanges, ShapeInv
<1>7. CASE UNCHANGED vars  BY <1>2, <1>7 DEF vars, ShapeInv
<1>3. CASE GameRestarts
  BY <1>3 DEF GameRestarts, ShapeInv, PlausibleDecision
<1>4. CASE Tick
  <2>1. flight' \in Flights \union {NoFlight}
    BY <1>4 DEF Tick, ShapeInv, Flights, Smaller, inFlight
  <2>2. delay' \in 0..MaxBackoff  BY <1>4 DEF Tick, ShapeInv
  <2>3. team' \in [turn : Nat \union {NoTurn}, waited : 0..TeamTimeout]
    <3>1. Smaller(team.waited + 1, TeamTimeout) \in 0..TeamTimeout  BY DEF ShapeInv, Smaller
    <3>. QED  BY <1>4, <3>1 DEF Tick, ShapeInv
  <2>4. stuck' \in [sig : Sigs, age : 0..StuckAfter]
    <3>1. Smaller(stuck.age + 1, StuckAfter) \in 0..StuckAfter  BY DEF ShapeInv, Smaller
    <3>. QED  BY <1>4, <3>1 DEF Tick, ShapeInv
  <2>. QED  BY <1>4, <2>1, <2>2, <2>3, <2>4 DEF Tick, ShapeInv, PlausibleDecision
<1>. QED  BY <1>1, <1>3, <1>4, <1>5, <1>6, <1>7, PollShape, PostShape DEF Next

(* For any screens and durations the variables keep their types: among     *)
(* them, a decision is always one that its screen offers, nothing but a    *)
(* decision is posted, and a retry never waits longer than MaxBackoff.     *)
THEOREM Typed == Spec => []TypeOK
BY InitShape, NextShape, IInvAlways, ShapeIsType, PTL DEF Spec, IInv

-----------------------------------------------------------------------------
(* Whatever the screens and however the answers get lost: an option is     *)
(* marked as stalled only on the screen it was chosen on, because its POST *)
(* just failed or because it is the last accepted decision.                *)
THEOREM BlamesOnlyTheTried == Spec => BlamesTriedOption
<1>. DEFINE Blamed == \A m \in stalled' \ stalled :
                        \/ pc = "post" /\ m = <<acting.id, acting.decision.option>>
                        \/ m = <<lastDecision.on, lastDecision.decision.option>>
<1>1. IInv /\ [Next]_vars => [Blamed]_vars
  <2>. SUFFICES ASSUME IInv, Next, NEW m \in stalled' \ stalled
                PROVE  \/ pc = "post" /\ m = <<acting.id, acting.decision.option>>
                       \/ m = <<lastDecision.on, lastDecision.decision.option>>
    OBVIOUS
  <2>. USE DEF retryVars, watchVars, worldVars, histVars
  <2>1. CASE Poll
    <3>1. /\ Stalled(Snapshot)
          /\ m = <<ScreenId(Snapshot), lastDecision.decision.option>>
      BY <2>1 DEF Poll
    <3>2. ScreenId(Snapshot) = lastScreen /\ ScreenId(Snapshot) # NoId
      BY <3>1, ScreenIdIsReal DEF Stalled, IInv
    <3>. QED  BY <3>1, <3>2 DEF IInv, LastInv
  <2>2. CASE PostRefused  BY <2>2 DEF PostRefused, Rejected
  <2>3. CASE PostExecuted  BY <2>3 DEF PostExecuted, Rejected, Accepted
  <2>4. CASE PollAborts \/ GameMoves \/ GameRestarts \/ DiskChanges \/ Tick
    BY <2>4 DEF PollAborts, GameMoves, GameRestarts, DiskChanges, Tick
  <2>. QED  BY <2>1, <2>2, <2>3, <2>4 DEF Next
<1>. QED  BY <1>1, IInvAlways, PTL DEF Spec, BlamesTriedOption

(* The screen of the last acknowledged action is acted on again only after *)
(* that action had StallAfter to show an effect, however the screens come  *)
(* and go and whatever restarts in between.                                *)
THEOREM NeverRepeatsBlindly == Spec => NoBlindRepeat
<1>1. IInv /\ [Next]_vars
        => [pc = "post" /\ sinceAcked' = 0 /\ flight' # FlightAfter /\ acting.id = acked
              => sinceAcked = StallAfter]_vars
  BY DEF IInv, ActingInv
<1>. QED  BY <1>1, IInvAlways, PTL DEF Spec, NoBlindRepeat

(* Unless the game is started anew, the transition of an accepted action is*)
(* recorded before the slot is taken by the next one, unless the state had *)
(* not changed in between.                                                 *)
THEOREM TransitionsAreKept == Spec => LosesNoTransition
<1>1. IInv /\ [Next]_vars
        => [pc = "post" /\ pending # NoPending /\ pending' # pending /\ restarts = 0
              => pending.rev = acting.rev]_vars
  BY DEF IInv, PendingInv
<1>. QED  BY <1>1, IInvAlways, PTL DEF Spec, LosesNoTransition
=============================================================================
