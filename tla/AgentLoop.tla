----------------------------- MODULE AgentLoop ------------------------------
(***************************************************************************)
(* The Python agent's main loop (engine/main.py): one iteration polls the  *)
(* mod, settles the previous action, keeps the run's identity, picks a     *)
(* handler and at most one decision, and posts it.  The mod and the game   *)
(* take part as far as the agent can tell: each HTTP call is one step here,*)
(* since the agent makes one call at a time (DecisionGate has the steps).  *)
(*                                                                         *)
(* Time is counted in ticks; the durations of the code are constants.      *)
(* Not here because no state of the code reaches them: the restart flow,   *)
(* which needs run_completed to survive an iteration (see Completes), and  *)
(* the CARD_SELECT guard, which asks a handler's screen_type that is always*)
(* CHOICE.  Decisions are those of the default mode, local_policy, with no *)
(* trained model on disk.                                                  *)
(***************************************************************************)
EXTENDS Integers, FiniteSets

CONSTANTS
  Screens,      (* bound: what the game may show, records of ScreenType    *)
  NoScreen,
  GateDeadline, (* 10 s: the mod gives up waiting for an action's effect   *)
  StallAfter,   (* 12 s: the agent gives up waiting for it                 *)
  MaxBackoff,   (* 30 s: the longest delay after rejections                *)
  MaxFailures,  (* 5: the rejections that the delay counts                 *)
  StuckAfter,   (* 8 s: a screen without actions is reported               *)
  TeamTimeout,  (* 20 s: the longest wait for team mates                   *)
  MaxMoves,     (* bound: how often the game changes or restarts           *)
  MaxRestarts,  (* bound: how often the game is restarted                  *)
  Lossy,        (* may the answer to a POST get lost?                      *)
  DiskFaults    (* may the data directory become read-only?                *)

(* A screen: options maps the indices of its enabled options to their kind,*)
(* shown counts the disabled ones too; place stands for the floor and all  *)
(* else it shows; mates says whether a living team mate is still in its    *)
(* Play phase.                                                             *)
OptionKinds == {"card", "selected", "confirm", "other"}
NoOption    == -1
IsScreen(s) ==
  /\ s.type \in {"COMBAT", "MAIN_MENU", "GAME_OVER", "VICTORY", "CARD_SELECT", "MAP",
                 "REST", "WAITING"}
  /\ \A i \in DOMAIN s.options : i \in Nat /\ s.options[i] \in OptionKinds
  /\ IsFiniteSet(DOMAIN s.options)
  /\ s.shown \in Nat /\ s.shown >= Cardinality(DOMAIN s.options)
  /\ s.place \in Nat /\ s.turn \in Nat
  /\ {s.inRun, s.play, s.busy, s.foes, s.mates} \subseteq BOOLEAN
  /\ s.type = "COMBAT" => s.options = << >>

ASSUME ScreensAssumption   == Screens # {} /\ \A s \in Screens : IsScreen(s)
ASSUME NoScreenAssumption  == NoScreen \notin Screens
ASSUME DurationsAssumption ==
  {GateDeadline, StallAfter, MaxBackoff, MaxFailures, StuckAfter, TeamTimeout} \subseteq Nat \ {0}
ASSUME BoundsAssumption    == MaxMoves \in Nat /\ MaxRestarts \in Nat
ASSUME SwitchesAssumption  == Lossy \in BOOLEAN /\ DiskFaults \in BOOLEAN

VARIABLES
  screen, moves, restarts, writable,    \* the game and the data directory
  rev, lastRead, flight,                \* the mod: snapshot cache and gate
  pc, acting,                           \* the iteration: what it is posting
  lastScreen, lastDecision, sinceAction,\* the last accepted decision
  delay, failures, stalled,             \* retries
  pending,                              \* the transition yet to be observed
  run, team, stuck, reported,           \* lifecycle, TeamCoordinator, stuck report
  acked, sinceAcked                     \* history: the last action to be acknowledged

worldVars == <<screen, moves, restarts, writable>>
modVars   == <<rev, lastRead, flight>>
lastVars  == <<lastScreen, lastDecision, sinceAction>>
retryVars == <<delay, failures, stalled>>
watchVars == <<run, team, stuck, reported>>
histVars  == <<acked, sinceAcked>>
vars == <<worldVars, modVars, pc, acting, lastVars, retryVars, pending, watchVars, histVars>>

-----------------------------------------------------------------------------
Smaller(a, b) == IF a < b THEN a ELSE b
First(S) == CHOOSE x \in S : \A y \in S : x <= y
Enabled(s) == DOMAIN s.options
OfKind(s, kinds) == {i \in Enabled(s) : s.options[i] \in kinds}

(* The mod: can it take a decision on this screen, is an action over?      *)
CanDecide(s) == IF s.type = "COMBAT" THEN s.play /\ ~s.busy ELSE Enabled(s) # {}
NoFlight == [type |-> "none", base |-> NoScreen, age |-> 0]
inFlight == flight # NoFlight
Settled  ==
  \/ flight.age >= GateDeadline
  \/ Enabled(screen) # {}
  \/ /\ ~screen.busy
     /\ IF flight.type = "end_turn" THEN screen.turn > flight.base.turn
                                    ELSE screen # flight.base

(* What a Refresh leaves behind, and the snapshot it serves.  (150 ms have *)
(* always passed since the action: the agent sleeps longer between calls.) *)
FlightAfter == IF inFlight /\ ~Settled THEN flight ELSE NoFlight
RevAfter    == IF lastRead = screen THEN rev ELSE rev + 1
ReadyAfter  == FlightAfter = NoFlight /\ CanDecide(screen)
Snapshot    == [screen |-> screen, rev |-> RevAfter, ready |-> ReadyAfter,
                inFlight |-> FlightAfter # NoFlight]
Refreshed   == rev' = RevAfter /\ lastRead' = screen

-----------------------------------------------------------------------------
(* The handlers.  A screen with options is the generic handler's; COMBAT   *)
(* and REST (for all screens with a handler of their own) are handled too, *)
(* anything else without options is not.                                   *)
Handler(s) ==
  CASE Enabled(s) # {}    -> "CHOICE"
    [] s.type = "COMBAT"  -> "COMBAT"
    [] s.type = "REST"    -> "REST"
    [] OTHER              -> "none"
ShouldAct(v) ==
  CASE Handler(v.screen) = "CHOICE" -> v.ready
    [] Handler(v.screen) = "COMBAT" -> v.ready /\ v.screen.foes
    [] Handler(v.screen) = "REST"   -> TRUE
    [] OTHER                        -> FALSE

(* _compute_screen_id: a combat is known by its revision, anything else by *)
(* its content, to which decision_ready belongs.                           *)
NoId == [rev |-> 0, type |-> "none", options |-> << >>, shown |-> 0, place |-> 0, ready |-> FALSE]
ContentId(s, ready) ==
  [NoId EXCEPT !.type = s.type, !.options = s.options, !.shown = s.shown,
               !.place = s.place, !.ready = ready]
ScreenId(v) == IF v.screen.type = "COMBAT" THEN [NoId EXCEPT !.rev = v.rev]
                                           ELSE ContentId(v.screen, v.ready)

(* try_auto_decision of the generic handler: the options it may settle on, *)
(* none if the choice is left to the policy.                               *)
AutoChoice(s) ==
  LET selected == OfKind(s, {"selected"})  cards == OfKind(s, {"card"})
      confirm  == OfKind(s, {"confirm"})   any   == Enabled(s)
  IN IF s.type = "CARD_SELECT"
     THEN {First(CASE selected # {} /\ confirm # {} -> confirm
                   [] cards # {}                    -> cards
                   [] selected # {}                 -> selected
                   [] OTHER                         -> any)}
     ELSE IF Cardinality(any) = 1 THEN any ELSE {}

(* Mutant: the policy does not look at stalled_options.                    *)
PolicyChoiceForgets(s, avoided) == Enabled(s)

(* LocalPolicy ranks every option that stalled below every one that did    *)
(* not, and leaves the rest to the scores.                                 *)
PolicyChoice(s, avoided) ==
  IF Enabled(s) \subseteq avoided THEN Enabled(s) ELSE Enabled(s) \ avoided

Choose(i)  == [type |-> "choose_option", option |-> i]
Play       == [type |-> "play_card", option |-> NoOption]
EndTurn    == [type |-> "end_turn", option |-> NoOption]
NoDecision == [type |-> "none", option |-> NoOption]
Decisions(s, avoided) ==
  CASE Handler(s) = "CHOICE" ->
         {Choose(i) : i \in IF AutoChoice(s) # {} THEN AutoChoice(s) ELSE PolicyChoice(s, avoided)}
    [] Handler(s) = "COMBAT" -> {Play, EndTurn}
    [] OTHER                 -> {EndTurn}
AvoidedOn(id, marks) == {m[2] : m \in {x \in marks : x[1] = id}}

-----------------------------------------------------------------------------
(* What an iteration is about to post, and for whom: the id of the screen, *)
(* the revision and (history) the game session it was decided in.          *)
NoActing  == [id |-> NoId, rev |-> 0, session |-> 0, decision |-> NoDecision]
NoPending == [rev |-> 0, session |-> 0]
NoLast    == [decision |-> NoDecision, on |-> NoId]   \* on: history
NoTurn    == -1
Alone     == [turn |-> NoTurn, waited |-> 0]
NoStuck   == [sig |-> <<"", 0, 0>>, age |-> 0]

Init ==
  /\ screen \in Screens /\ moves = 0 /\ restarts = 0 /\ writable = TRUE
  /\ rev = 0 /\ lastRead = NoScreen /\ flight = NoFlight
  /\ pc = "poll" /\ acting = NoActing
  /\ lastScreen = NoId /\ lastDecision = NoLast /\ sinceAction = 0
  /\ delay = 0 /\ failures = 0 /\ stalled = {} /\ pending = NoPending
  /\ run = [id |-> 0, completed |-> FALSE, completions |-> 0]
  /\ team = Alone /\ stuck = NoStuck /\ reported = {}
  /\ acked = NoId /\ sinceAcked = 0

-----------------------------------------------------------------------------
(* Mutant: the state after the decision is not new enough.                 *)
SettlesLate(v) == pending # NoPending /\ v.rev > pending.rev + 1

(* _settle_pending_transition: the action's effect shows, and is written to*)
(* the experience database.                                                *)
Settles(v) == pending # NoPending /\ v.rev > pending.rev

(* _ensure_run: the first screen of a game in progress starts a run; a run *)
(* once started keeps its id for as long as the agent lives.               *)
Ensured(v) ==
  IF run.id = 0 /\ v.screen.inRun /\ v.screen.type # "MAIN_MENU"
  THEN [id |-> 1, completed |-> FALSE, completions |-> 0]
  ELSE run

(* _complete_run_if_needed, which finalizes the run's experiences and emits*)
(* run_completed; then _check_run_restarted, which takes any screen but the*)
(* main menu for a new game.                                               *)
Completes(v) ==
  Ensured(v).id # 0 /\ ~Ensured(v).completed /\ v.screen.type \in {"GAME_OVER", "VICTORY"}
Completed(v) ==
  IF Completes(v)
  THEN [Ensured(v) EXCEPT !.completed = TRUE, !.completions = Smaller(@ + 1, 2)]
  ELSE Ensured(v)
RunAfter(v) ==
  IF v.screen.type = "MAIN_MENU" THEN Completed(v) ELSE [Completed(v) EXCEPT !.completed = FALSE]

(* Mutant: starts waiting anew every time.                                 *)
TeamAfterForgets(s) ==
  IF Handler(s) = "COMBAT" THEN [turn |-> IF s.mates THEN s.turn ELSE NoTurn, waited |-> 0] ELSE team

(* TeamCoordinator.should_wait.                                            *)
TeamAfter(s) ==
  CASE Handler(s) # "COMBAT" -> team
    [] ~s.mates              -> [team EXCEPT !.turn = NoTurn]
    [] team.turn # s.turn    -> [turn |-> s.turn, waited |-> 0]
    [] OTHER                 -> team
WaitsForTeam(s) ==
  Handler(s) = "COMBAT" /\ s.mates /\ TeamAfter(s).waited < TeamTimeout

(* Mutant: does not give the action its time.                              *)
StalledAtOnce(v) == ScreenId(v) = lastScreen /\ v.ready /\ ~v.inFlight

(* The last action was accepted long ago, and here is its screen again.    *)
Stalled(v) ==
  ScreenId(v) = lastScreen /\ sinceAction >= StallAfter /\ v.ready /\ ~v.inFlight

Acts(v) ==
  /\ ScreenId(v) # lastScreen \/ Stalled(v)
  /\ delay = 0 \/ Stalled(v)
  /\ ~WaitsForTeam(v.screen)
  /\ ShouldAct(v)

(* What identifies a screen without actions: the number of its options,    *)
(* those that cannot be chosen included.                                   *)
Signature(s) == <<s.type, s.place, s.shown>>

(* Mutant: keeps the signature but not the time it was first seen.         *)
ObserveForgets(v) ==
  IF ShouldAct(v) \/ v.inFlight \/ v.screen.busy
  THEN stuck' = NoStuck /\ UNCHANGED reported
  ELSE /\ stuck' = [sig |-> Signature(v.screen), age |-> 0]
       /\ reported' = IF stuck.sig # Signature(v.screen) \/ stuck.age < StuckAfter
                      THEN reported ELSE reported \union {stuck.sig}

(* _observe_non_actionable_state.                                          *)
Observe(v) ==
  IF ShouldAct(v) \/ v.inFlight \/ v.screen.busy
  THEN stuck' = NoStuck /\ UNCHANGED reported
  ELSE IF v.screen.type = "COMBAT" THEN UNCHANGED <<stuck, reported>>
  ELSE IF stuck.sig # Signature(v.screen)
  THEN stuck' = [sig |-> Signature(v.screen), age |-> 0] /\ UNCHANGED reported
  ELSE /\ reported' = IF stuck.age < StuckAfter THEN reported
                                                ELSE reported \union {stuck.sig}
       /\ UNCHANGED stuck

(* An iteration up to its POST, if there is one.                           *)
Poll ==
  LET v == Snapshot
      id == ScreenId(v)
      marks == IF Stalled(v) /\ lastDecision.decision.type = "choose_option"
               THEN stalled \union {<<id, lastDecision.decision.option>>} ELSE stalled
  IN
  /\ pc = "poll"
  /\ writable \/ ~(Settles(v) \/ Completes(v))
  /\ Refreshed /\ flight' = FlightAfter
  /\ pending' = IF Settles(v) THEN NoPending ELSE pending
  /\ run' = RunAfter(v)
  /\ team' = TeamAfter(v.screen)
  /\ stalled' = marks
  /\ lastScreen' = IF Stalled(v) THEN NoId ELSE lastScreen
  /\ delay' = IF Stalled(v) THEN 0 ELSE delay
  /\ IF Acts(v)
     THEN /\ pc' = "post"
          /\ \E d \in Decisions(v.screen, AvoidedOn(id, marks)) :
               acting' = [id |-> id, rev |-> v.rev, session |-> restarts, decision |-> d]
     ELSE UNCHANGED <<pc, acting>>
  /\ Observe(v)
  /\ UNCHANGED <<worldVars, lastDecision, sinceAction, failures, histVars>>

(* An SQLite error ends the iteration where it happens; the main loop tries*)
(* again after 2 s.                                                        *)
PollAborts ==
  LET v == Snapshot IN
  /\ pc = "poll"
  /\ ~writable /\ (Settles(v) \/ Completes(v))
  /\ Refreshed /\ flight' = FlightAfter
  /\ run' = IF Settles(v) THEN run ELSE Ensured(v)
  /\ UNCHANGED <<worldVars, pc, acting, lastVars, retryVars, pending, team, stuck,
                 reported, histVars>>

-----------------------------------------------------------------------------
(* _submit_decision and what the main loop makes of its result.            *)
Accepted ==
  /\ pending' = [rev |-> acting.rev, session |-> acting.session]
  /\ lastDecision' = [decision |-> acting.decision, on |-> acting.id]
  /\ lastScreen' = acting.id /\ sinceAction' = 0
  /\ delay' = 0 /\ failures' = 0
  /\ UNCHANGED stalled

(* Mutants: no longest delay; a rejected decision is remembered as the last.*)
BackoffUncapped(n) == 2^(Smaller(n, MaxFailures) - 1)
Backoff(n) == Smaller(MaxBackoff, 2^(Smaller(n, MaxFailures) - 1))
RejectedRemembers ==
  /\ failures' = Smaller(failures + 1, MaxFailures)
  /\ delay' = Backoff(failures + 1)
  /\ stalled' = IF acting.decision.type = "choose_option"
                THEN stalled \union {<<acting.id, acting.decision.option>>} ELSE stalled
  /\ lastDecision' = [decision |-> acting.decision, on |-> acting.id]
  /\ UNCHANGED <<lastScreen, sinceAction, pending>>
Rejected ==
  /\ failures' = Smaller(failures + 1, MaxFailures)
  /\ delay' = Backoff(failures + 1)
  /\ stalled' = IF acting.decision.type = "choose_option"
                THEN stalled \union {<<acting.id, acting.decision.option>>} ELSE stalled
  /\ UNCHANGED <<lastVars, pending>>

(* DecisionExecutor: the index is looked up among the options of the screen*)
(* that is there now; a combat action needs a combat, whatever is open on  *)
(* top of it.                                                              *)
Executable(d) ==
  IF d.type = "choose_option" THEN d.option \in Enabled(screen) ELSE screen.inRun

(* The gate is closed (409), or the action fails and is cancelled.         *)
PostRefused ==
  /\ pc = "post"
  /\ Refreshed
  /\ flight' = FlightAfter
  /\ Rejected
  /\ pc' = "poll" /\ acting' = NoActing
  /\ UNCHANGED <<worldVars, watchVars, histVars>>

(* The action is carried out, with or without an effect on the screen, and *)
(* the answer may get lost: the client times out after 5 s.                *)
PostExecuted ==
  /\ pc = "post"
  /\ Refreshed
  /\ ReadyAfter /\ Executable(acting.decision)
  /\ flight' = [type |-> acting.decision.type, base |-> screen, age |-> 0]
  /\ \/ UNCHANGED <<screen, moves>>
     \/ /\ moves < MaxMoves /\ moves' = moves + 1
        /\ screen' \in Screens \ {screen}
  /\ sinceAcked' = 0
  /\ \/ Accepted /\ acked' = acting.id
     \/ Lossy /\ Rejected /\ acked' = NoId
  /\ pc' = "poll" /\ acting' = NoActing
  /\ UNCHANGED <<restarts, writable, watchVars>>

-----------------------------------------------------------------------------
(* Around the agent: the game changes by itself, or is started anew with   *)
(* the mod in it; the data directory becomes read-only and writable again. *)
GameMoves ==
  /\ moves < MaxMoves /\ moves' = moves + 1
  /\ screen' \in Screens \ {screen}
  /\ UNCHANGED <<restarts, writable, modVars, pc, acting, lastVars, retryVars, pending,
                 watchVars, histVars>>

GameRestarts ==
  /\ restarts < MaxRestarts /\ restarts' = restarts + 1
  /\ moves < MaxMoves /\ moves' = moves + 1
  /\ screen' \in Screens
  /\ rev' = 0 /\ lastRead' = NoScreen /\ flight' = NoFlight
  /\ UNCHANGED <<writable, pc, acting, lastVars, retryVars, pending, watchVars, histVars>>

DiskChanges ==
  /\ DiskFaults
  /\ writable' = ~writable
  /\ UNCHANGED <<screen, moves, restarts, modVars, pc, acting, lastVars, retryVars,
                 pending, watchVars, histVars>>

(* Time passes.  A clock stops where the code no longer looks at it.       *)
Tick ==
  /\ flight' = IF inFlight THEN [flight EXCEPT !.age = Smaller(@ + 1, GateDeadline)] ELSE flight
  /\ sinceAction' = Smaller(sinceAction + 1, StallAfter)
  /\ delay' = IF delay = 0 THEN 0 ELSE delay - 1
  /\ team' = [team EXCEPT !.waited = Smaller(@ + 1, TeamTimeout)]
  /\ stuck' = [stuck EXCEPT !.age = Smaller(@ + 1, StuckAfter)]
  /\ sinceAcked' = Smaller(sinceAcked + 1, StallAfter)
  /\ UNCHANGED <<worldVars, rev, lastRead, pc, acting, lastScreen, lastDecision, failures,
                 stalled, pending, run, reported, acked>>

Next ==
  \/ Poll \/ PollAborts \/ PostRefused \/ PostExecuted
  \/ GameMoves \/ GameRestarts \/ DiskChanges \/ Tick

Spec == Init /\ [][Next]_vars

(* The main loop runs until it is told to stop, its HTTP calls return, and *)
(* time passes.  The game owes nothing.                                    *)
FairSpec ==
  /\ Spec
  /\ WF_vars(Poll \/ PollAborts) /\ WF_vars(PostRefused \/ PostExecuted) /\ WF_vars(Tick)

-----------------------------------------------------------------------------
(* The values of the variables: among them, a retry waits MaxBackoff at    *)
(* most (min(30.0, ...) in _run_iteration).                                *)
PlausibleDecision(d) ==
  d \in {NoDecision, Play, EndTurn} \/ \E s \in Screens : \E i \in Enabled(s) : d = Choose(i)
TypeOK ==
  /\ screen \in Screens /\ lastRead \in Screens \union {NoScreen}
  /\ moves \in 0..MaxMoves /\ restarts \in 0..MaxRestarts /\ writable \in BOOLEAN
  /\ rev \in Nat
  /\ flight = NoFlight \/ (flight.base \in Screens /\ flight.age \in 0..GateDeadline)
  /\ pc \in {"poll", "post"} /\ (pc = "post" <=> acting # NoActing)
  /\ acting.rev \in Nat /\ acting.session \in 0..restarts
  /\ PlausibleDecision(acting.decision) /\ PlausibleDecision(lastDecision.decision)
  /\ sinceAction \in 0..StallAfter /\ sinceAcked \in 0..StallAfter
  /\ delay \in 0..MaxBackoff /\ failures \in 0..MaxFailures
  /\ pending.rev \in Nat /\ pending.session \in 0..restarts
  /\ run.id \in 0..1 /\ run.completed \in BOOLEAN /\ run.completions \in 0..2
  /\ team.waited \in 0..TeamTimeout /\ stuck.age \in 0..StuckAfter

(* An option is marked as stalled only on the screen it was chosen on:     *)
(* either its POST just failed, or it is the last accepted decision and    *)
(* that decision was made on the very screen which is marked.  (A decision *)
(* rejected on another screen in between must not take the blame.)         *)
BlamesTriedOption ==
  [][\A m \in stalled' \ stalled :
       \/ pc = "post" /\ m = <<acting.id, acting.decision.option>>
       \/ m = <<lastDecision.on, lastDecision.decision.option>>]_vars

(* The game does not carry out a second action for the screen of the last  *)
(* acknowledged one before that had StallAfter to show an effect, however  *)
(* often the screen went away and came back: an unchanged screen is no     *)
(* reason to click again.                                                  *)
NoBlindRepeat ==
  [][ pc = "post" /\ sinceAcked' = 0 /\ flight' # FlightAfter /\ acting.id = acked
        => sinceAcked = StallAfter ]_vars

(* The effect of an accepted action is recorded before the next action is  *)
(* accepted, unless it had none (pending_transition is a single slot; a    *)
(* restarted mod numbers its states anew, and then the slot is lost).      *)
LosesNoTransition ==
  [][ pc = "post" /\ pending # NoPending /\ pending' # pending /\ restarts = 0
        => pending.rev = acting.rev ]_vars

(* What the agent acts on when the game stays with it: its own handler's   *)
(* business, and the mod says that it is ready.                            *)
Playable(s) == Handler(s) \in {"CHOICE", "COMBAT"} /\ CanDecide(s)
                 /\ (Handler(s) = "COMBAT" => s.foes)

(* An unattended agent never ends up waiting for good: as long as a screen *)
(* stays that takes decisions, it keeps submitting some, although an action*)
(* showed no effect, answers were lost, team mates never finish and the mod*)
(* had its gate closed: the mod's 10 s come before the agent's 12 s.       *)
KeepsPlaying ==
  \A s \in Screens : Playable(s) =>
    (<>[](screen = s /\ writable) => []<>(pc = "post"))

(* On a screen that stays whatever the agent does, no option is left       *)
(* untried: a stalled one yields to the others (CARD_SELECT excepted, whose*)
(* automatic choice does not look at stalled_options).                     *)
TriesEveryOption ==
  \A s \in Screens : Handler(s) = "CHOICE" /\ s.type # "CARD_SELECT" =>
    (<>[](screen = s /\ writable) =>
       <>(AvoidedOn(ContentId(s, TRUE), stalled) = Enabled(s)))

(* A screen that stays and offers nothing to do is reported as stuck.      *)
StuckIsReported ==
  \A s \in Screens : Handler(s) = "none" /\ ~s.busy =>
    (<>[](screen = s /\ writable) => <>(Signature(s) \in reported))

-----------------------------------------------------------------------------
(* "A terminal game state closes the run exactly once."                    *)
RunClosesOnce == run.completions <= 1

(* "Read-only disk or SQLite error: emit an in-memory telemetry error and  *)
(* continue playing."                                                      *)
PlaysWithoutDisk ==
  \A s \in Screens : Playable(s) => (<>[](screen = s) => []<>(pc = "post"))
=============================================================================
