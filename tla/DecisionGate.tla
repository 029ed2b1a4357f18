---------------------------- MODULE DecisionGate ----------------------------
(***************************************************************************)
(* The mod's HTTP API and the action gate behind it: AiHttpServer's request*)
(* threads, the FIFO of callbacks MainThreadDispatcher posts to the Godot  *)
(* main thread, StateSnapshotCache, UiActionRegistry and DecisionGate, with*)
(* the agent's ModClient as their only caller.                             *)
(*                                                                         *)
(* Each element of Requests is a slot for one HTTP request at a time; a    *)
(* slot is used again once its request is answered and none of its         *)
(* callbacks is left in the queue.  Stall says whether the main thread may *)
(* be late by the 5 s after which the dispatcher and the client give up.   *)
(***************************************************************************)
EXTENDS GatePolicy, Sequences, FiniteSets

CONSTANTS
  Requests,   (* slots for concurrent HTTP requests                        *)
  NoReq,
  NoView,     (* the empty fingerprint: nothing was read yet               *)
  MaxMoves,   (* bound: how often the game changes, or is read only in part*)
  DecisionTypes, (* bound: which types of decisions are posted             *)
  StartPhases,(* bound: where the game may be when the first request comes *)
  Stall,      (* may a 5 s timeout expire?                                 *)
  Throws      (* may a reader throw, and leave a reading in part?          *)

ASSUME NoReqAssumption    == NoReq \notin Requests
ASSUME NoViewAssumption   == NoView \notin Views
ASSUME TypesAssumption    == DecisionTypes \subseteq {"choose_option", "play_card", "end_turn"}
ASSUME MaxMovesAssumption == MaxMoves \in Nat
ASSUME StallAssumption    == Stall \in BOOLEAN /\ Throws \in BOOLEAN
ASSUME BoardsAssumption   == Boards # {}

VARIABLES
  game, moves,                              \* the game
  queue, main,                              \* the main thread
  fingerprint, revision, json, registry,    \* StateSnapshotCache, UiActionRegistry
  ready, lastView, flight,                  \* DecisionGate
  pc, decision,                             \* request threads
  client, seen                              \* ModClient

gameVars   == <<game, moves>>
cacheVars  == <<fingerprint, revision, json, registry>>
gateVars   == <<ready, lastView, flight>>
threadVars == <<pc, decision>>
clientVars == <<client, seen>>
vars == <<gameVars, queue, main, cacheVars, gateVars, threadVars, clientVars>>

-----------------------------------------------------------------------------
(* The decisions a client can post.  "play_card" stands for use_potion too,*)
(* and for the types the mod does not know (pick_card, rest, smith), which *)
(* fare like a card the game refuses.  For choose_option, option is the    *)
(* menu it was chosen from.                                                *)
Decisions == [type: DecisionTypes, option: MenuOrNone]
Poll      == [type |-> "poll", option |-> NoMenu]   \* GET /state, GET /status
Calls     == Decisions \union {Poll}

(* GameStateJson's defaults.                                               *)
Board0    == CHOOSE b \in Boards : TRUE
BlankView == [inCombat |-> FALSE, play |-> FALSE, turn |-> 0, busy |-> FALSE,
              board |-> Board0, menu |-> NoMenu]

Jobs == [kind: {"refresh"}, req: Requests, hasManager: BOOLEAN]
          \union [kind: {"execute"}, req: Requests, decision: Decisions]
RefreshJob(r) == [kind |-> "refresh", req |-> r, hasManager |-> game.phase # "none"]
ExecuteJob(r) == [kind |-> "execute", req |-> r, decision |-> decision[r]]

(* What the main thread is doing: nothing, or a Refresh of request req past*)
(* the reading of view: DecisionGate.Observe comes next ("observe"), which *)
(* notes the gate's two flags, then the writing of the snapshot            *)
(* ("publish").                                                            *)
FlagValues == [ready: BOOLEAN, inFlight: BOOLEAN]
NoFlags == [ready |-> FALSE, inFlight |-> FALSE]
Idle == [stage |-> "idle", req |-> NoReq, view |-> NoView, flags |-> NoFlags]
MainStates ==
  [stage: {"observe", "publish"}, req: Requests, view: Views, flags: FlagValues]
    \union {Idle}

(* The served JSON, with its copies of the gate's flags.                   *)
Snapshots == [view: Views, revision: Nat, flags: FlagValues]

(* What TryBegin notes about the action it lets through, which is read only*)
(* while the gate is in flight: its type, the view it started from and the *)
(* two instants 150 ms and 10 s later (are they past?).  req and fate are  *)
(* history: whose action it is and how far it got.                         *)
NoFlight == [req |-> NoReq, fate |-> "none", type |-> "", baseline |-> NoView,
             notBefore |-> FALSE, deadline |-> FALSE]
Flights  == [req: Requests, fate: {"claimed", "played", "failed"}, type: DecisionTypes,
             baseline: Views \union {NoView}, notBefore: BOOLEAN, deadline: BOOLEAN]
inFlight == flight # NoFlight

PCs     == {"idle", "refreshing", "begin", "post", "executing", "cancel", "respond"}

JobsOf(r) == {i \in DOMAIN queue : queue[i].req = r}

(* The game may have been played for a while before the first request.     *)
Init ==
  /\ game \in {g \in Games : Coherent(g) /\ g.phase \in StartPhases}
  /\ moves = 0
  /\ queue = <<>> /\ main = Idle
  /\ fingerprint = NoView /\ revision = 0 /\ registry = NoMenu
  /\ json = [view |-> BlankView, revision |-> 0, flags |-> NoFlags]
  /\ ready = FALSE /\ lastView = NoView /\ flight = NoFlight
  /\ pc = [r \in Requests |-> "idle"]
  /\ decision = [r \in Requests |-> Poll]
  /\ client = NoReq /\ seen = NoMenu

-----------------------------------------------------------------------------
(* The game changes by itself (animations, enemies, a human at the mouse). *)
(* Game code and posted callbacks share the main thread, so it does so     *)
(* between two callbacks only.                                             *)
GameMoves ==
  /\ main.stage = "idle"
  /\ moves < MaxMoves
  /\ moves' = moves + 1
  /\ \E g \in Games : g # game /\ Evolves(game, g) /\ game' = g
  /\ UNCHANGED <<queue, main, cacheVars, gateVars, threadVars, clientVars>>

-----------------------------------------------------------------------------
(* HTTP threads.  A request starts with ModClient calling get_state,       *)
(* get_status or post_decision; its thread captures CombatHooks'           *)
(* CurrentCombatManager and posts the Refresh callback.  ModClient is      *)
(* synchronous: it makes one call at a time.  (A body that is no AiDecision*)
(* is answered 400 before anything is touched, a stuttering step here.)    *)
Offered(d) ==
  CASE d.type = "choose_option" -> d.option = seen /\ seen \in Menus \ {Bare}
    [] OTHER                    -> d.option = NoMenu

Receive(r, d) ==
  /\ client = NoReq /\ pc[r] = "idle" /\ JobsOf(r) = {} /\ main.req # r
  /\ Offered(d)
  /\ client' = r
  /\ decision' = [decision EXCEPT ![r] = d]
  /\ pc' = [pc EXCEPT ![r] = "refreshing"]
  /\ queue' = Append(queue, RefreshJob(r))
  /\ UNCHANGED <<gameVars, main, cacheVars, gateVars, seen>>

(* The thread goes on when its Refresh callback has run or 5 s are over;   *)
(* the result of Refresh is not looked at.                                 *)
GoOn(r) == pc' = [pc EXCEPT ![r] = IF decision[r] = Poll THEN "respond" ELSE "begin"]

RefreshTimesOut(r) ==
  /\ Stall
  /\ pc[r] = "refreshing"
  /\ GoOn(r)
  /\ UNCHANGED <<gameVars, queue, main, cacheVars, gateVars, decision, clientVars>>

(* Mutant: TryBegin looks at inFlight only.                                *)
TryBeginUnready(r) ==
  /\ pc[r] = "begin"
  /\ IF inFlight
     THEN /\ pc' = [pc EXCEPT ![r] = "respond"]
          /\ UNCHANGED gateVars
     ELSE /\ flight' = [req |-> r, fate |-> "claimed", type |-> decision[r].type,
                        baseline |-> lastView, notBefore |-> FALSE, deadline |-> FALSE]
          /\ ready' = FALSE
          /\ pc' = [pc EXCEPT ![r] = "post"]
          /\ UNCHANGED lastView
  /\ UNCHANGED <<gameVars, queue, main, cacheVars, decision, clientVars>>

(* DecisionGate.TryBegin, and the 409 of a request it turns away.          *)
TryBegin(r) ==
  /\ pc[r] = "begin"
  /\ IF inFlight \/ ~ready
     THEN /\ pc' = [pc EXCEPT ![r] = "respond"]
          /\ UNCHANGED gateVars
     ELSE /\ flight' = [req |-> r, fate |-> "claimed", type |-> decision[r].type,
                        baseline |-> lastView, notBefore |-> FALSE, deadline |-> FALSE]
          /\ ready' = FALSE
          /\ pc' = [pc EXCEPT ![r] = "post"]
          /\ UNCHANGED lastView
  /\ UNCHANGED <<gameVars, queue, main, cacheVars, decision, clientVars>>

(* Mutant: the action is posted without waiting for its outcome.           *)
PostAndForget(r) ==
  /\ pc[r] = "post"
  /\ pc' = [pc EXCEPT ![r] = "respond"]
  /\ queue' = Append(queue, ExecuteJob(r))
  /\ UNCHANGED <<gameVars, main, cacheVars, gateVars, decision, clientVars>>

PostExecute(r) ==
  /\ pc[r] = "post"
  /\ pc' = [pc EXCEPT ![r] = "executing"]
  /\ queue' = Append(queue, ExecuteJob(r))
  /\ UNCHANGED <<gameVars, main, cacheVars, gateVars, decision, clientVars>>

(* Mutant: the dispatcher waits for as long as it takes.                   *)
ExecuteWaitsForever(r) == pc[r] = "executing" /\ JobsOf(r) = {} /\ UNCHANGED vars

(* The dispatcher gives up after 5 s, long after the gate's 150 ms; the    *)
(* posted callback stays in the queue.                                     *)
ExecuteTimesOut(r) ==
  /\ Stall
  /\ pc[r] = "executing"
  /\ pc' = [pc EXCEPT ![r] = "cancel"]
  /\ flight' = IF flight.req = r THEN [flight EXCEPT !.notBefore = TRUE] ELSE flight
  /\ UNCHANGED <<gameVars, queue, main, cacheVars, ready, lastView, decision,
                 clientVars>>

(* Mutants: an action that failed is posted once more; Cancel forgets the  *)
(* action's type, but not the action.                                      *)
CancelRetries(r) ==
  /\ pc[r] = "cancel"
  /\ pc' = [pc EXCEPT ![r] = "post"]
  /\ UNCHANGED <<gameVars, queue, main, cacheVars, gateVars, decision, clientVars>>
CancelKeepsFlight(r) ==
  /\ pc[r] = "cancel"
  /\ flight' = [flight EXCEPT !.type = ""] /\ ready' = TRUE
  /\ pc' = [pc EXCEPT ![r] = "respond"]
  /\ UNCHANGED <<gameVars, queue, main, cacheVars, lastView, decision, clientVars>>

(* DecisionGate.Cancel: opens the gate, whoever closed it.                 *)
Cancel(r) ==
  /\ pc[r] = "cancel"
  /\ flight' = NoFlight /\ ready' = TRUE
  /\ pc' = [pc EXCEPT ![r] = "respond"]
  /\ UNCHANGED <<gameVars, queue, main, cacheVars, lastView, decision, clientVars>>

(* The response, and the end of the thread.  GET /state serves the snapshot*)
(* that is cached by now; of it, the client remembers the menu.            *)
Respond(r) ==
  /\ pc[r] = "respond"
  /\ pc' = [pc EXCEPT ![r] = "idle"]
  /\ decision' = [decision EXCEPT ![r] = Poll]
  /\ client' = IF client = r THEN NoReq ELSE client
  /\ seen' = IF client = r /\ decision[r] = Poll THEN json.view.menu ELSE seen
  /\ UNCHANGED <<gameVars, queue, main, cacheVars, gateVars>>

(* ModClient's own 5 s timeout: the call fails, the server thread goes on. *)
ClientTimesOut ==
  /\ Stall
  /\ client # NoReq
  /\ client' = NoReq
  /\ UNCHANGED <<gameVars, queue, main, cacheVars, gateVars, threadVars, seen>>

-----------------------------------------------------------------------------
(* Mutants: a Refresh that keeps the old registrations when there is no    *)
(* menu; one that numbers changes of the round only.                       *)
RefreshKeepsRegistry ==
  /\ main.stage = "idle" /\ queue # <<>> /\ Head(queue).kind = "refresh"
  /\ LET v == ReadFullState(game, Head(queue).hasManager) IN
       /\ registry' = IF v.menu = NoMenu THEN registry ELSE v.menu
       /\ fingerprint' = v
       /\ revision' = IF fingerprint = v THEN revision ELSE revision + 1
       /\ main' = [stage |-> "observe", req |-> Head(queue).req, view |-> v, flags |-> NoFlags]
  /\ queue' = Tail(queue)
  /\ UNCHANGED <<gameVars, json, gateVars, threadVars, clientVars>>
RefreshNumbersRounds ==
  /\ main.stage = "idle" /\ queue # <<>> /\ Head(queue).kind = "refresh"
  /\ LET v == ReadFullState(game, Head(queue).hasManager) IN
       /\ registry' = v.menu
       /\ fingerprint' = v
       /\ revision' = IF revision > 0 /\ json.view.turn = v.turn THEN revision ELSE revision + 1
       /\ main' = [stage |-> "observe", req |-> Head(queue).req, view |-> v, flags |-> NoFlags]
  /\ queue' = Tail(queue)
  /\ UNCHANGED <<gameVars, json, gateVars, threadVars, clientVars>>

(* The main thread takes the next callback.  A Refresh first reads the     *)
(* game, whole or in part, which re-registers the UI's options, and numbers*)
(* what it read.                                                           *)
RefreshReads ==
  /\ main.stage = "idle" /\ queue # <<>> /\ Head(queue).kind = "refresh"
  /\ \E v \in Views :
       /\ \/ v = ReadFullState(game, Head(queue).hasManager) /\ UNCHANGED moves
          \/ /\ Throws /\ moves < MaxMoves /\ moves' = moves + 1
             /\ v \in HalfReadings(game, Head(queue).hasManager)
       /\ registry' = v.menu
       /\ fingerprint' = v
       /\ revision' = IF fingerprint = v THEN revision ELSE revision + 1
       /\ main' = [stage |-> "observe", req |-> Head(queue).req, view |-> v, flags |-> NoFlags]
  /\ queue' = Tail(queue)
  /\ UNCHANGED <<game, json, gateVars, threadVars, clientVars>>

(* DecisionGate.Observe.                                                   *)
RefreshObserves ==
  /\ main.stage = "observe"
  /\ LET settled == inFlight /\ IsSettled(main.view, flight.baseline, flight.type,
                                            flight.notBefore, flight.deadline)
     IN /\ flight' = IF settled THEN NoFlight ELSE flight
        /\ ready' = CanAcceptDecision(CombatReady(main.view), ChoiceReady(main.view),
                                      main.view.busy, inFlight /\ ~settled)
        /\ main' = [main EXCEPT !.stage = "publish",
                                !.flags = [ready |-> ready', inFlight |-> inFlight /\ ~settled]]
  /\ lastView' = main.view
  /\ UNCHANGED <<gameVars, queue, cacheVars, threadVars, clientVars>>

(* Mutant: the flags are read when the snapshot is written.                *)
RefreshPublishesFlagsOfNow ==
  /\ main.stage = "publish"
  /\ json' = [view |-> main.view, revision |-> revision,
              flags |-> [ready |-> ready, inFlight |-> inFlight]]
  /\ main' = Idle
  /\ IF pc[main.req] = "refreshing" THEN GoOn(main.req) ELSE UNCHANGED pc
  /\ UNCHANGED <<gameVars, queue, fingerprint, revision, registry, gateVars, decision, clientVars>>

(* The snapshot is written; a thread still waiting for it goes on.         *)
RefreshPublishes ==
  /\ main.stage = "publish"
  /\ json' = [view |-> main.view, revision |-> revision, flags |-> main.flags]
  /\ main' = Idle
  /\ IF pc[main.req] = "refreshing" THEN GoOn(main.req) ELSE UNCHANGED pc
  /\ UNCHANGED <<gameVars, queue, fingerprint, revision, registry, gateVars, decision, clientVars>>

(* DecisionExecutor.Execute.  What it cannot do at all it refuses; the rest*)
(* may succeed, and then change the game, or be refused by the game.       *)
Executable(d) ==
  \/ d.type = "choose_option" /\ registry # NoMenu
  \/ d.type \in {"play_card", "end_turn"} /\ game.phase # "none"

Executes ==
  /\ main.stage = "idle" /\ queue # <<>> /\ Head(queue).kind = "execute"
  /\ LET r == Head(queue).req  d == Head(queue).decision IN
     \E outcome \in {"played", "failed"} :
       /\ outcome = "played" => Executable(d)
       /\ flight' = IF flight.req = r THEN [flight EXCEPT !.fate = outcome] ELSE flight
       /\ \/ UNCHANGED gameVars
          \/ /\ outcome = "played" /\ moves < MaxMoves /\ moves' = moves + 1
             /\ \E g \in Games : g # game /\ Evolves(game, g) /\ game' = g
       /\ IF pc[r] = "executing"
          THEN pc' = [pc EXCEPT ![r] = IF outcome = "played" THEN "respond" ELSE "cancel"]
          ELSE UNCHANGED pc
  /\ queue' = Tail(queue)
  /\ UNCHANGED <<main, cacheVars, ready, lastView, decision, clientVars>>

-----------------------------------------------------------------------------
(* The gate's clock: 150 ms and 10 s after TryBegin.  The 10 s cannot be   *)
(* over while the thread that called TryBegin is still in its 5 s wait.    *)
NotBeforeElapses ==
  /\ inFlight /\ ~flight.notBefore
  /\ flight' = [flight EXCEPT !.notBefore = TRUE]
  /\ UNCHANGED <<gameVars, queue, main, cacheVars, ready, lastView, threadVars, clientVars>>

DeadlineElapses ==
  /\ inFlight /\ flight.notBefore /\ ~flight.deadline
  /\ pc[flight.req] \notin {"post", "executing"}
  /\ flight' = [flight EXCEPT !.deadline = TRUE]
  /\ UNCHANGED <<gameVars, queue, main, cacheVars, ready, lastView, threadVars, clientVars>>

-----------------------------------------------------------------------------
ThreadStep(r) ==
  \/ RefreshTimesOut(r) \/ TryBegin(r) \/ PostExecute(r)
  \/ ExecuteTimesOut(r) \/ Cancel(r) \/ Respond(r)
MainStep == RefreshReads \/ RefreshObserves \/ RefreshPublishes \/ Executes
ClockStep == NotBeforeElapses \/ DeadlineElapses

Next ==
  \/ GameMoves
  \/ \E r \in Requests, d \in Calls : Receive(r, d)
  \/ \E r \in Requests : ThreadStep(r)
  \/ ClientTimesOut
  \/ MainStep
  \/ ClockStep

Spec == Init /\ [][Next]_vars

(***************************************************************************)
(* Fairness.  Thread-pool threads run and waits end (FairThreads); the     *)
(* Godot main loop takes its callbacks, time passes and the agent polls    *)
(* for as long as it lives (the rest).  Nothing is assumed of the game.    *)
(***************************************************************************)
FairThreads == \A r \in Requests : WF_vars(ThreadStep(r))

ThreadSpec == Spec /\ FairThreads

FairSpec ==
  /\ ThreadSpec
  /\ WF_vars(MainStep)
  /\ WF_vars(NotBeforeElapses) /\ WF_vars(DeadlineElapses)
  /\ WF_vars(\E r \in Requests : Receive(r, Poll))

-----------------------------------------------------------------------------
TypeOK ==
  /\ game \in Games /\ moves \in 0 .. MaxMoves
  /\ queue \in Seq(Jobs) /\ main \in MainStates
  /\ fingerprint \in Views \union {NoView} /\ revision \in Nat
  /\ json \in Snapshots /\ registry \in MenuOrNone
  /\ ready \in BOOLEAN /\ lastView \in Views \union {NoView}
  /\ flight \in Flights \union {NoFlight}
  /\ pc \in [Requests -> PCs] /\ decision \in [Requests -> Calls]
  /\ client \in Requests \union {NoReq} /\ seen \in MenuOrNone

(* The gate never offers a decision while it holds an action, whatever the *)
(* interleaving of TryBegin, Observe and Cancel (StateSnapshotCache.cs).   *)
ClosedWhileInFlight == ~(inFlight /\ ready)

(* The flags of the served snapshot are about the game that it shows: it   *)
(* offers a decision exactly when that game can take one and no action was *)
(* in flight then, although a request thread may enter or leave the gate   *)
(* between Observe and the writing, and Cancel opens it unseen.            *)
ServedReadiness ==
  json.flags.ready <=> Acceptable(json.view) /\ ~json.flags.inFlight

(* Whenever the main thread is between callbacks, the served snapshot, its *)
(* fingerprint and revision, the gate's last observation and the registered*)
(* options all stem from the same reading of the game, although HTTP       *)
(* threads enter the gate between the steps of a Refresh.                  *)
SnapshotCoherent ==
  main.stage = "idle" /\ fingerprint # NoView =>
    /\ json.view = fingerprint /\ json.revision = revision
    /\ lastView = fingerprint
    /\ registry = json.view.menu

(* Two served snapshots of one revision show the same game, and revisions  *)
(* never go back: what the agent's once-per-revision rule builds on.       *)
RevisionIdentifiesView ==
  [][/\ json'.revision >= json.revision
     /\ json'.revision = json.revision => json'.view = json.view]_json

(* Every HTTP request is answered, even if the main thread never comes     *)
(* back: the dispatcher's waits are bounded.                               *)
EveryCallAnswered == \A r \in Requests : pc[r] # "idle" ~> pc[r] = "idle"

(* The gate never stays closed: an action that changes nothing the mod can *)
(* see is released by the 10 s deadline at the latest.                     *)
GateReopens == inFlight ~> ~inFlight

-----------------------------------------------------------------------------
(* Requests whose accepted action has yet to reach the game.               *)
Outstanding ==
  {r \in Requests : pc[r] = "post" \/ \E i \in JobsOf(r) : queue[i].kind = "execute"}

(* "Ensures that there is at most one game action at any time"             *)
(* (StateSnapshotCache.cs, on DecisionGate).                               *)
AtMostOneAction == Cardinality(Outstanding) <= 1

(* An action is accepted only if the request's own Refresh, the last one to*)
(* run, read a game that can take it; a Cancel of an earlier action leaves *)
(* no readiness behind that a later request could use unchecked.           *)
AcceptedOnReadyGame ==
  [][\A r \in Requests : pc[r] = "begin" /\ pc'[r] = "post" => Acceptable(lastView)]_pc

(* An action never outlives the call that asked for it: while it waits for *)
(* the main thread, its thread and its client wait for it, so that the     *)
(* answer the client acts on is the action's own outcome.                  *)
NoAbandonedAction ==
  \A i \in DOMAIN queue : queue[i].kind = "execute" =>
     pc[queue[i].req] = "executing" /\ client = queue[i].req

(* The option index a choose_option is about to click leads to the menu the*)
(* client chose it from ("a stable option_index", UiAutomation.cs).        *)
ClicksWhatWasChosen ==
  \A job \in {Head(q) : q \in {queue} \ {<<>>}} :
    (/\ main.stage = "idle" /\ registry # NoMenu
     /\ job.kind = "execute" /\ job.decision.type = "choose_option")
       => registry = job.decision.option

(* The promise, and the state of the gate that implements it.              *)
Promise == INSTANCE SingleAction WITH owner <- flight.req, fate <- flight.fate
OneActionAtATime == Promise!Spec
=============================================================================
