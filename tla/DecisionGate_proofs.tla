------------------------ MODULE DecisionGate_proofs ------------------------
(***************************************************************************)
(* Proofs about DecisionGate, for any number of request slots, any game    *)
(* content and any bound.  The first part holds whether or not the main    *)
(* thread may stall; the second one assumes that it does not.              *)
(***************************************************************************)
EXTENDS DecisionGate, FiniteSetTheorems, TLAPS

USE NoReqAssumption, NoViewAssumption, MaxMovesAssumption, StallAssumption,
    BoardsAssumption, NoMenuAssumption, MaxTurnAssumption

(* The empty snapshot before the first refresh is a view.                  *)
LEMMA BlankViewType == BlankView \in Views
<1>1. Board0 \in Boards  BY DEF Board0
<1>. QED  BY <1>1 DEF BlankView, Views, MenuOrNone

(* NoFlight is no flight of an action: it belongs to no request.           *)
LEMMA NoFlightHasNoOwner ==
  ASSUME NEW r \in Requests, flight.req = r
  PROVE  flight # NoFlight
<1>1. NoFlight.req \notin Requests  BY DEF NoFlight
<1>. QED  BY <1>1

(* What the gate holds is nothing or the flight of one request.            *)
LEMMA FlightCases ==
  ASSUME NEW f \in Flights \union {NoFlight}
  PROVE  /\ f # NoFlight <=> f \in Flights
         /\ f \in Flights => f.req \in Requests /\ f.req # NoReq
         /\ f.req \in Requests => f \in Flights
<1>1. NoFlight.req \notin Requests  BY DEF NoFlight
<1>2. f \in Flights => f.req \in Requests  BY DEF Flights
<1>. QED  BY <1>1, <1>2

-----------------------------------------------------------------------------
(* A thread that is about to enter the gate has a decision to bring along. *)
DecisionsPending ==
  \A r \in Requests : pc[r] \in {"begin", "post"} => decision[r] \in Decisions

TypeInv == TypeOK /\ DecisionsPending

(* TypeInv is inductive: the initial states, the arrival of a request,     *)
(* the steps of a thread and of the main thread, then all of Next.         *)
LEMMA InitTypeInv == Init => TypeInv
<1>. SUFFICES ASSUME Init PROVE TypeInv  OBVIOUS
<1>1. queue \in Seq(Jobs)  BY DEF Init
<1>2. json \in Snapshots  BY BlankViewType DEF Init, Snapshots, NoFlags, FlagValues
<1>3. decision \in [Requests -> Calls] /\ pc \in [Requests -> PCs]
  BY DEF Init, Calls, PCs
<1>4. main \in MainStates  BY DEF Init, MainStates
<1>5. game \in Games /\ moves \in 0 .. MaxMoves /\ revision \in Nat
  BY DEF Init
<1>6. registry \in MenuOrNone /\ seen \in MenuOrNone /\ ready \in BOOLEAN
  BY DEF Init, MenuOrNone
<1>7. DecisionsPending  BY DEF Init, DecisionsPending
<1>. QED
  BY <1>1, <1>2, <1>3, <1>4, <1>5, <1>6, <1>7 DEF Init, TypeInv, TypeOK

(* A request that arrives keeps the types.                                 *)
LEMMA ReceiveType ==
  ASSUME TypeInv, NEW r \in Requests, NEW d \in Calls, Receive(r, d)
  PROVE  TypeInv'
<1>1. RefreshJob(r) \in Jobs  BY DEF RefreshJob, Jobs
<1>2. queue' \in Seq(Jobs)  BY <1>1 DEF TypeInv, TypeOK, Receive
<1>3. pc' \in [Requests -> PCs] /\ decision' \in [Requests -> Calls]
  BY DEF TypeInv, TypeOK, Receive, PCs
<1>4. DecisionsPending'
  BY DEF TypeInv, TypeOK, DecisionsPending, Receive
<1>. QED
  BY <1>2, <1>3, <1>4 DEF TypeInv, TypeOK, Receive, gameVars, cacheVars, gateVars

(* So does every step of an HTTP thread.                                   *)
LEMMA ThreadStepType ==
  ASSUME TypeInv, NEW r \in Requests, ThreadStep(r)
  PROVE  TypeInv'
<1>. USE DEF TypeInv, TypeOK, gameVars, cacheVars, gateVars, clientVars, PCs
<1>1. CASE RefreshTimesOut(r)
  <2>1. decision[r] # Poll => decision[r] \in Decisions  BY DEF Calls
  <2>2. pc' \in [Requests -> PCs]  BY <1>1 DEF RefreshTimesOut, GoOn
  <2>3. DecisionsPending'  BY <1>1, <2>1 DEF RefreshTimesOut, GoOn, DecisionsPending
  <2>. QED  BY <1>1, <2>2, <2>3 DEF RefreshTimesOut
<1>2. CASE TryBegin(r)
  <2>1. decision[r] \in Decisions  BY <1>2 DEF TryBegin, DecisionsPending
  <2>2. flight' \in Flights \union {NoFlight}
    <3>1. CASE inFlight \/ ~ready
      BY <1>2, <3>1 DEF TryBegin
    <3>2. CASE ~(inFlight \/ ~ready)
      <4>1. decision[r].type \in DecisionTypes  BY <2>1 DEF Decisions
      <4>2. lastView \in Views \union {NoView}  OBVIOUS
      <4>3. flight' = [req |-> r, fate |-> "claimed", type |-> decision[r].type,
                       baseline |-> lastView, notBefore |-> FALSE, deadline |-> FALSE]
        BY <1>2, <3>2 DEF TryBegin
      <4>. QED  BY <4>1, <4>2, <4>3 DEF Flights
    <3>. QED  BY <3>1, <3>2
  <2>3. ready' \in BOOLEAN /\ lastView' = lastView /\ pc' \in [Requests -> PCs]
    BY <1>2 DEF TryBegin
  <2>4. DecisionsPending'  BY <1>2, <2>1 DEF TryBegin, DecisionsPending
  <2>. QED  BY <1>2, <2>2, <2>3, <2>4 DEF TryBegin
<1>3. CASE PostExecute(r)
  <2>1. decision[r] \in Decisions  BY <1>3 DEF PostExecute, DecisionsPending
  <2>2. ExecuteJob(r) \in Jobs  BY <2>1 DEF ExecuteJob, Jobs
  <2>3. queue' \in Seq(Jobs)  BY <1>3, <2>2 DEF PostExecute
  <2>. QED  BY <1>3, <2>3 DEF PostExecute, DecisionsPending
<1>4. CASE ExecuteTimesOut(r)
  <2>1. flight' \in Flights \union {NoFlight}
    BY <1>4, FlightCases DEF ExecuteTimesOut, Flights
  <2>. QED  BY <1>4, <2>1 DEF ExecuteTimesOut, DecisionsPending
<1>5. CASE Cancel(r)
  BY <1>5 DEF Cancel, DecisionsPending
<1>6. CASE Respond(r)
  <2>1. seen' \in MenuOrNone  BY <1>6 DEF Respond, Snapshots, Views
  <2>2. client' \in Requests \union {NoReq}  BY <1>6 DEF Respond
  <2>3. decision' \in [Requests -> Calls] /\ pc' \in [Requests -> PCs]
    BY <1>6 DEF Respond, Calls
  <2>4. DecisionsPending'  BY <1>6 DEF Respond, DecisionsPending
  <2>. QED  BY <1>6, <2>1, <2>2, <2>3, <2>4 DEF Respond
<1>. QED  BY <1>1, <1>2, <1>3, <1>4, <1>5, <1>6 DEF ThreadStep

(* So does every step of the main thread.                                  *)
LEMMA MainStepType ==
  ASSUME TypeInv, MainStep
  PROVE  TypeInv'
<1>. USE DEF TypeInv, TypeOK, gameVars, cacheVars, gateVars, clientVars, threadVars
<1>1. CASE RefreshReads
  <2>. DEFINE job == Head(queue)
  <2>1. job \in Jobs /\ job.kind = "refresh" /\ queue' \in Seq(Jobs)
    BY <1>1 DEF RefreshReads
  <2>2. job.req \in Requests  BY <2>1 DEF Jobs
  <2>3. PICK v \in Views :
          /\ moves' = moves \/ (moves < MaxMoves /\ moves' = moves + 1)
          /\ registry' = v.menu /\ fingerprint' = v
          /\ revision' = IF fingerprint = v THEN revision ELSE revision + 1
          /\ main' = [stage |-> "observe", req |-> job.req, view |-> v, flags |-> NoFlags]
    BY <1>1 DEF RefreshReads
  <2>4. v.menu \in MenuOrNone  BY <2>3 DEF Views
  <2>5. main' \in MainStates  BY <2>2, <2>3 DEF MainStates, NoFlags, FlagValues
  <2>6. revision' \in Nat /\ moves' \in 0 .. MaxMoves  BY <2>3
  <2>. QED
    BY <1>1, <2>1, <2>3, <2>4, <2>5, <2>6 DEF RefreshReads, DecisionsPending
<1>2. CASE RefreshObserves
  <2>1. main \in [stage: {"observe", "publish"}, req: Requests, view: Views, flags: FlagValues]
    BY <1>2 DEF RefreshObserves, MainStates, Idle
  <2>2. ready' \in BOOLEAN /\ (inFlight /\ ~IsSettled(main.view, flight.baseline, flight.type,
                                            flight.notBefore, flight.deadline)) \in BOOLEAN
    BY <1>2 DEF RefreshObserves, CanAcceptDecision, CombatReady, OnCombatScreen, ChoiceReady
  <2>3. main'.flags \in FlagValues
    BY <1>2, <2>1, <2>2 DEF RefreshObserves, FlagValues
  <2>4. main' \in MainStates /\ lastView' \in Views
    BY <1>2, <2>1, <2>3 DEF RefreshObserves, MainStates
  <2>5. flight' \in Flights \union {NoFlight}
    BY <1>2 DEF RefreshObserves
  <2>. QED  BY <1>2, <2>2, <2>4, <2>5 DEF RefreshObserves, DecisionsPending
<1>3. CASE RefreshPublishes
  <2>1. main \in [stage: {"observe", "publish"}, req: Requests, view: Views, flags: FlagValues]
    BY <1>3 DEF RefreshPublishes, MainStates, Idle
  <2>2. json' \in Snapshots  BY <1>3, <2>1 DEF RefreshPublishes, Snapshots
  <2>3. main' \in MainStates  BY <1>3 DEF RefreshPublishes, MainStates
  <2>4. pc' \in [Requests -> PCs]
    BY <1>3, <2>1 DEF RefreshPublishes, GoOn, PCs
  <2>5. DecisionsPending'
    <3>1. decision[main.req] # Poll => decision[main.req] \in Decisions
      BY <2>1 DEF Calls
    <3>. QED  BY <1>3, <2>1, <3>1 DEF RefreshPublishes, GoOn, DecisionsPending
  <2>. QED  BY <1>3, <2>2, <2>3, <2>4, <2>5 DEF RefreshPublishes
<1>4. CASE Executes
  <2>. DEFINE job == Head(queue)
  <2>1. job \in Jobs /\ job.kind = "execute" /\ queue' \in Seq(Jobs)
    BY <1>4 DEF Executes
  <2>2. job.req \in Requests  BY <2>1 DEF Jobs
  <2>3. PICK outcome \in {"played", "failed"} :
          /\ flight' = IF flight.req = job.req THEN [flight EXCEPT !.fate = outcome] ELSE flight
          /\ \/ UNCHANGED gameVars
             \/ /\ moves < MaxMoves /\ moves' = moves + 1
                /\ \E g \in Games : game' = g
          /\ IF pc[job.req] = "executing"
             THEN pc' = [pc EXCEPT ![job.req] = IF outcome = "played" THEN "respond" ELSE "cancel"]
             ELSE UNCHANGED pc
    BY <1>4 DEF Executes
  <2>4. game' \in Games /\ moves' \in 0 .. MaxMoves  BY <2>3
  <2>5. flight' \in Flights \union {NoFlight}
    BY <2>2, <2>3, FlightCases DEF Flights
  <2>6. pc' \in [Requests -> PCs]  BY <2>2, <2>3 DEF PCs
  <2>7. DecisionsPending'
    BY <1>4, <2>2, <2>3 DEF Executes, DecisionsPending
  <2>. QED  BY <1>4, <2>1, <2>4, <2>5, <2>6, <2>7 DEF Executes
<1>. QED  BY <1>1, <1>2, <1>3, <1>4 DEF MainStep

(* All actions together.                                                   *)
LEMMA NextTypeInv == TypeInv /\ [Next]_vars => TypeInv'
<1>. SUFFICES ASSUME TypeInv, [Next]_vars PROVE TypeInv'  OBVIOUS
<1>. USE DEF gameVars, cacheVars, gateVars, clientVars, threadVars
<1>1. CASE GameMoves
  BY <1>1 DEF GameMoves, TypeInv, TypeOK, DecisionsPending
<1>2. ASSUME NEW r \in Requests, NEW d \in Calls, Receive(r, d) PROVE TypeInv'
  BY <1>2, ReceiveType
<1>3. ASSUME NEW r \in Requests, ThreadStep(r) PROVE TypeInv'
  BY <1>3, ThreadStepType
<1>4. CASE ClientTimesOut
  BY <1>4 DEF ClientTimesOut, TypeInv, TypeOK, DecisionsPending
<1>5. CASE MainStep
  BY <1>5, MainStepType
<1>6. CASE ClockStep
  <2>1. flight \in Flights
    BY <1>6 DEF ClockStep, NotBeforeElapses, DeadlineElapses, inFlight, TypeInv, TypeOK
  <2>2. flight' \in Flights
    BY <1>6, <2>1 DEF ClockStep, NotBeforeElapses, DeadlineElapses, Flights
  <2>. QED
    BY <1>6, <2>2 DEF ClockStep, NotBeforeElapses, DeadlineElapses, TypeInv, TypeOK,
       DecisionsPending
<1>7. CASE UNCHANGED vars
  BY <1>7 DEF vars, TypeInv, TypeOK, DecisionsPending
<1>. QED  BY <1>1, <1>2, <1>3, <1>4, <1>5, <1>6, <1>7 DEF Next

(* TypeInv holds in every reachable state.                                 *)
LEMMA TypeInvariance == Spec => []TypeInv
BY InitTypeInv, NextTypeInv, PTL DEF Spec

(* Type correctness of every reachable state: of the gate's and the        *)
(* snapshot's fields, of the queued callbacks and of the request threads.  *)
THEOREM TypeCorrect == Spec => []TypeOK
BY TypeInvariance, PTL DEF TypeInv

-----------------------------------------------------------------------------
(* Between the steps of a Refresh: what it read is numbered already, then  *)
(* seen by the gate.  SnapshotCoherent follows when it is published.       *)
RefreshInv ==
  main.stage # "idle" =>
    /\ main.view = fingerprint /\ registry = fingerprint.menu
    /\ fingerprint # NoView
    /\ main.stage = "publish" => lastView = fingerprint

(* The revision of the served snapshot is the current one only if the      *)
(* snapshot shows the latest reading.                                      *)
RevisionInv ==
  /\ json.revision <= revision
  /\ json.revision = revision /\ fingerprint # NoView => json.view = fingerprint

CacheInv == SnapshotCoherent /\ RefreshInv /\ RevisionInv

(* CacheInv is inductive relative to TypeInv.                              *)
LEMMA InitCacheInv == Init => CacheInv
BY DEF Init, CacheInv, SnapshotCoherent, RefreshInv, RevisionInv, Idle

(* Only the main thread writes the cache; the other steps leave it alone.  *)
LEMMA NextCacheInv == TypeInv /\ CacheInv /\ [Next]_vars => CacheInv'
<1>. SUFFICES ASSUME TypeInv, CacheInv, [Next]_vars PROVE CacheInv'  OBVIOUS
<1>. USE DEF CacheInv, SnapshotCoherent, RefreshInv, RevisionInv
<1>1. CASE UNCHANGED <<cacheVars, main, lastView>>
  BY <1>1 DEF cacheVars
<1>2. CASE RefreshReads
  <2>1. PICK v \in Views :
          /\ registry' = v.menu /\ fingerprint' = v /\ json' = json
          /\ revision' = IF fingerprint = v THEN revision ELSE revision + 1
          /\ main'.stage = "observe" /\ main'.view = v
    BY <1>2 DEF RefreshReads
  <2>2. revision \in Nat /\ json.revision \in Nat
    BY DEF TypeInv, TypeOK, Snapshots
  <2>. QED  BY <2>1, <2>2
<1>3. CASE RefreshObserves
  <2>1. main'.stage = "publish" /\ main'.view = main.view /\ lastView' = main.view
    BY <1>3 DEF RefreshObserves, TypeInv, TypeOK, MainStates, Idle
  <2>. QED  BY <1>3, <2>1 DEF RefreshObserves, cacheVars
<1>4. CASE RefreshPublishes
  BY <1>4 DEF RefreshPublishes, gateVars, TypeInv, TypeOK, Idle
<1>5. CASE Executes
  BY <1>1, <1>5 DEF Executes
<1>6. ASSUME NEW r \in Requests, ThreadStep(r) PROVE CacheInv'
  BY <1>1, <1>6 DEF ThreadStep, RefreshTimesOut, TryBegin, PostExecute, ExecuteTimesOut,
     Cancel, Respond, gateVars
<1>7. ASSUME NEW r \in Requests, NEW d \in Calls, Receive(r, d) PROVE CacheInv'
  BY <1>1, <1>7 DEF Receive, gateVars
<1>8. CASE GameMoves \/ ClientTimesOut \/ ClockStep
  BY <1>1, <1>8 DEF GameMoves, ClientTimesOut, ClockStep, NotBeforeElapses, DeadlineElapses, gateVars
<1>9. CASE UNCHANGED vars
  BY <1>1, <1>9 DEF vars, gateVars
<1>. QED  BY <1>2, <1>3, <1>4, <1>5, <1>6, <1>7, <1>8, <1>9 DEF Next, MainStep

(* CacheInv holds in every reachable state.                                *)
LEMMA CacheInvariance == Spec => []CacheInv
BY InitCacheInv, TypeInvariance, NextCacheInv, PTL DEF Spec

(* The served snapshot, its fingerprint and revision, the gate's last      *)
(* observation and the registered options agree whenever the main thread   *)
(* is between callbacks.                                                   *)
THEOREM SnapshotIsCoherent == Spec => []SnapshotCoherent
BY CacheInvariance, PTL DEF CacheInv

(* Revisions identify what was served and never go back.                   *)
THEOREM RevisionsIdentifyViews == Spec => RevisionIdentifiesView
<1>1. TypeInv /\ CacheInv /\ [Next]_vars =>
        [/\ json'.revision >= json.revision
         /\ json'.revision = json.revision => json'.view = json.view]_json
  <2>. SUFFICES ASSUME TypeInv, CacheInv, [Next]_vars, json' # json
                PROVE  /\ json'.revision >= json.revision
                       /\ json'.revision = json.revision => json'.view = json.view
    OBVIOUS
  <2>1. RefreshPublishes
    BY DEF Next, MainStep, ThreadStep, ClockStep, GameMoves, Receive, RefreshTimesOut, TryBegin,
       PostExecute, ExecuteTimesOut, Cancel, Respond, ClientTimesOut, RefreshReads, RefreshObserves,
       Executes, NotBeforeElapses, DeadlineElapses, vars, cacheVars
  <2>2. json'.view = fingerprint /\ json'.revision = revision /\ fingerprint # NoView
    BY <2>1 DEF RefreshPublishes, CacheInv, RefreshInv
  <2>3. revision \in Nat /\ json.revision \in Nat
    BY DEF TypeInv, TypeOK, Snapshots
  <2>. QED  BY <2>2, <2>3 DEF CacheInv, RevisionInv
<1>. QED  BY <1>1, TypeInvariance, CacheInvariance, PTL DEF Spec, RevisionIdentifiesView

(* No interleaving of TryBegin, Cancel and Observe leaves the gate open    *)
(* while it holds an action.                                               *)
THEOREM GateIsClosedWhileInFlight == Spec => []ClosedWhileInFlight
<1>1. Init => ClosedWhileInFlight
  BY DEF Init, ClosedWhileInFlight, inFlight
<1>2. TypeInv /\ ClosedWhileInFlight /\ [Next]_vars => ClosedWhileInFlight'
  <2>. SUFFICES ASSUME TypeInv, ClosedWhileInFlight, [Next]_vars PROVE ClosedWhileInFlight'
    OBVIOUS
  <2>. USE DEF ClosedWhileInFlight, inFlight
  <2>1. CASE UNCHANGED gateVars
    BY <2>1 DEF gateVars
  <2>2. ASSUME NEW r \in Requests, TryBegin(r) PROVE ClosedWhileInFlight'
    BY <2>1, <2>2 DEF TryBegin
  <2>3. ASSUME NEW r \in Requests, ExecuteTimesOut(r) PROVE ClosedWhileInFlight'
    <3>1. flight.req = r => flight # NoFlight  BY NoFlightHasNoOwner
    <3>. QED  BY <2>3, <3>1 DEF ExecuteTimesOut
  <2>4. ASSUME NEW r \in Requests, Cancel(r) PROVE ClosedWhileInFlight'
    BY <2>4 DEF Cancel
  <2>5. CASE RefreshObserves
    BY <2>5 DEF RefreshObserves, CanAcceptDecision
  <2>6. CASE Executes
    <3>1. Head(queue).req \in Requests
      <4>1. Head(queue) \in Jobs  BY <2>6 DEF Executes, TypeInv, TypeOK
      <4>. QED  BY <4>1 DEF Jobs
    <3>2. flight.req = Head(queue).req => flight # NoFlight  BY <3>1, NoFlightHasNoOwner
    <3>3. flight' = flight \/ flight.req = Head(queue).req
      BY <2>6 DEF Executes
    <3>. QED  BY <2>6, <3>2, <3>3 DEF Executes
  <2>7. CASE ClockStep
    BY <2>7 DEF ClockStep, NotBeforeElapses, DeadlineElapses
  <2>. QED
    BY <2>1, <2>2, <2>3, <2>4, <2>5, <2>6, <2>7 DEF Next, MainStep, ThreadStep, GameMoves, Receive,
       RefreshTimesOut, PostExecute, Respond, ClientTimesOut, RefreshReads, RefreshPublishes, vars
<1>. QED  BY <1>1, <1>2, TypeInvariance, PTL DEF Spec

(* From Observe on, a Refresh carries the flags that belong to its reading.*)
FlagsInv ==
  /\ ServedReadiness
  /\ main.stage = "publish" =>
       (main.flags.ready <=> Acceptable(main.view) /\ ~main.flags.inFlight)

(* Neither a TryBegin nor a Cancel between Observe and the writing of the  *)
(* snapshot mixes the flags of two moments: what is served as ready is a   *)
(* game that can take a decision.                                          *)
THEOREM ServedAsReady == Spec => []ServedReadiness
<1>. USE DEF FlagsInv, ServedReadiness
<1>1. Init => FlagsInv
  BY DEF Init, Idle, BlankView, NoFlags, Acceptable, CanAcceptDecision, CombatReady,
     OnCombatScreen, ChoiceReady
<1>2. TypeInv /\ FlagsInv /\ [Next]_vars => FlagsInv'
  <2>. SUFFICES ASSUME TypeInv, FlagsInv, [Next]_vars PROVE FlagsInv'  OBVIOUS
  <2>1. CASE UNCHANGED <<main, json>>
    BY <2>1 DEF Acceptable, CanAcceptDecision, CombatReady, OnCombatScreen, ChoiceReady
  <2>2. CASE RefreshReads
    <3>1. main'.stage = "observe" /\ json' = json  BY <2>2 DEF RefreshReads
    <3>. QED  BY <3>1 DEF Acceptable, CanAcceptDecision, CombatReady, OnCombatScreen, ChoiceReady
  <2>3. CASE RefreshObserves
    <3>1. main \in [stage: {"observe", "publish"}, req: Requests, view: Views, flags: FlagValues]
      BY <2>3 DEF RefreshObserves, TypeInv, TypeOK, MainStates, Idle
    <3>2. PICK held \in BOOLEAN :
            /\ ready' = CanAcceptDecision(CombatReady(main.view), ChoiceReady(main.view),
                                          main.view.busy, held)
            /\ main'.flags.ready = ready' /\ main'.flags.inFlight = held
            /\ main'.view = main.view /\ json' = json
      <4>. DEFINE held == inFlight /\ ~IsSettled(main.view, flight.baseline, flight.type,
                                               flight.notBefore, flight.deadline)
      <4>1. held \in BOOLEAN  OBVIOUS
      <4>2. main' = [main EXCEPT !.stage = "publish",
                                 !.flags = [ready |-> ready', inFlight |-> held]]
        BY <2>3 DEF RefreshObserves, inFlight
      <4>3. ready' = CanAcceptDecision(CombatReady(main.view), ChoiceReady(main.view),
                                       main.view.busy, held)
        BY <2>3 DEF RefreshObserves, CanAcceptDecision, inFlight
      <4>4. json' = json  BY <2>3 DEF RefreshObserves, cacheVars
      <4>. HIDE DEF held
      <4>5. main'.flags.ready = ready' /\ main'.flags.inFlight = held /\ main'.view = main.view
        BY <3>1, <4>2
      <4>. QED  BY <4>1, <4>3, <4>4, <4>5
    <3>3. ready' <=> Acceptable(main.view) /\ ~held
      BY <3>2 DEF Acceptable, CanAcceptDecision
    <3>. QED
      BY <3>2, <3>3 DEF Acceptable, CanAcceptDecision, CombatReady, OnCombatScreen, ChoiceReady
  <2>4. CASE RefreshPublishes
    <3>1. /\ main.stage = "publish" /\ main' = Idle
          /\ json'.view = main.view /\ json'.flags = main.flags
      BY <2>4 DEF RefreshPublishes
    <3>. QED
      BY <3>1 DEF Idle, Acceptable, CanAcceptDecision, CombatReady, OnCombatScreen, ChoiceReady
  <2>. QED
    BY <2>1, <2>2, <2>3, <2>4 DEF Next, MainStep, ThreadStep, ClockStep, GameMoves, Receive,
       RefreshTimesOut, TryBegin, PostExecute, ExecuteTimesOut, Cancel, Respond, ClientTimesOut,
       Executes, NotBeforeElapses, DeadlineElapses, vars, cacheVars
<1>. QED  BY <1>1, <1>2, TypeInvariance, PTL DEF Spec

-----------------------------------------------------------------------------
(***************************************************************************)
(* From here on no 5 s timeout expires.  Then the client's calls are       *)
(* serial: at most one thread is active, at most one callback is queued,   *)
(* and the two belong together.                                            *)
(***************************************************************************)
SerialInv ==
  /\ \A r \in Requests : pc[r] # "idle" => r = client
  /\ queue # <<>> =>
       /\ main.stage = "idle"
       /\ \E j \in Jobs :
            /\ queue = <<j>> /\ j.req = client
            /\ j.kind = "refresh" => pc[client] = "refreshing"
            /\ j.kind = "execute" => pc[client] = "executing"
  /\ main.stage # "idle" => queue = <<>> /\ main.req = client /\ pc[client] = "refreshing"

(* The gate is held for a thread from TryBegin to the outcome of its       *)
(* action, and for a failed action until Cancel.                           *)
FlightInv ==
  /\ \A r \in Requests :
       /\ pc[r] \in {"post", "executing"} => flight.req = r /\ flight.fate = "claimed"
       /\ pc[r] = "cancel" => flight.req = r /\ flight.fate = "failed"
  /\ inFlight /\ flight.fate = "claimed" => pc[flight.req] \in {"post", "executing"}

(* The readiness TryBegin looks at comes from the Refresh before it, never *)
(* from a Cancel.                                                          *)
ReadyInv ==
  ready /\ (main.stage = "publish" \/ \E r \in Requests : pc[r] = "begin")
    => Acceptable(lastView)

ResponsiveInv == SerialInv /\ FlightInv /\ ReadyInv

(* ResponsiveInv is inductive when no timeout of the dispatcher expires.   *)
LEMMA InitResponsiveInv == Init => ResponsiveInv
BY DEF Init, ResponsiveInv, SerialInv, FlightInv, ReadyInv, Idle, inFlight

(* A request is received while no other is open.                           *)
LEMMA ReceiveResponsive ==
  ASSUME TypeInv, ResponsiveInv, NEW r \in Requests, NEW d \in Calls, Receive(r, d)
  PROVE  ResponsiveInv'
<1>. USE DEF TypeInv, TypeOK, ResponsiveInv
<1>1. \A s \in Requests : pc[s] = "idle"
  BY DEF Receive, SerialInv
<1>2. main.stage = "idle"
  BY DEF Receive, SerialInv, MainStates, Idle
<1>3. queue = <<>>
  BY DEF Receive, SerialInv, Jobs
<1>4. RefreshJob(r) \in Jobs /\ RefreshJob(r).req = r /\ RefreshJob(r).kind = "refresh"
  BY DEF RefreshJob, Jobs
<1>5. /\ queue' = <<RefreshJob(r)>> /\ client' = r /\ main' = main
      /\ pc' = [pc EXCEPT ![r] = "refreshing"]
  BY <1>3 DEF Receive
<1>6. SerialInv'  BY <1>1, <1>2, <1>4, <1>5 DEF SerialInv
<1>7. FlightInv'  BY <1>1, <1>5 DEF FlightInv, Receive, gateVars, inFlight
<1>8. ReadyInv'  BY <1>1, <1>2, <1>5 DEF ReadyInv
<1>. QED  BY <1>6, <1>7, <1>8

(* The steps of the one open request.                                      *)
LEMMA ThreadStepResponsive ==
  ASSUME ~Stall, TypeInv, ResponsiveInv, NEW r \in Requests, ThreadStep(r)
  PROVE  ResponsiveInv'
<1>. USE DEF TypeInv, TypeOK, ResponsiveInv
<1>1. r = client /\ \A s \in Requests : s # r => pc[s] = "idle"
  BY DEF ThreadStep, RefreshTimesOut, TryBegin, PostExecute, ExecuteTimesOut, Cancel, Respond,
     SerialInv
<1>2. pc[r] \notin {"refreshing", "executing"} => queue = <<>> /\ main.stage = "idle"
  BY <1>1 DEF SerialInv, Jobs
<1>3. CASE TryBegin(r)
  <2>1. SerialInv'  BY <1>1, <1>2, <1>3 DEF SerialInv, TryBegin, clientVars
  <2>2. CASE inFlight \/ ~ready
    <3>1. flight' = flight /\ pc' = [pc EXCEPT ![r] = "respond"]
      BY <1>3, <2>2 DEF TryBegin, gateVars
    <3>2. inFlight => flight.req \in Requests
      BY FlightCases DEF inFlight
    <3>3. FlightInv'  BY <1>1, <1>3, <3>1, <3>2 DEF FlightInv, TryBegin, inFlight
    <3>4. ReadyInv'  BY <1>1, <1>2, <1>3, <2>2 DEF ReadyInv, TryBegin, gateVars
    <3>. QED  BY <2>1, <3>3, <3>4
  <2>3. CASE ~(inFlight \/ ~ready)
    <3>1. flight'.req = r /\ flight'.fate = "claimed" /\ pc' = [pc EXCEPT ![r] = "post"]
      BY <1>3, <2>3 DEF TryBegin
    <3>2. FlightInv'  BY <1>1, <3>1 DEF FlightInv
    <3>3. ReadyInv'  BY <1>3, <2>3 DEF ReadyInv, TryBegin
    <3>. QED  BY <2>1, <3>2, <3>3
  <2>. QED  BY <2>2, <2>3
<1>4. CASE PostExecute(r)
  <2>1. decision[r] \in Decisions  BY <1>4 DEF PostExecute, DecisionsPending
  <2>2. ExecuteJob(r) \in Jobs /\ ExecuteJob(r).req = r /\ ExecuteJob(r).kind = "execute"
    BY <2>1 DEF ExecuteJob, Jobs
  <2>3. queue' = <<ExecuteJob(r)>> /\ client' = client /\ main' = main
        /\ pc' = [pc EXCEPT ![r] = "executing"]
    BY <1>2, <1>4 DEF PostExecute, clientVars
  <2>4. SerialInv'  BY <1>1, <1>2, <1>4, <2>2, <2>3 DEF SerialInv, PostExecute
  <2>5. FlightInv'  BY <1>1, <1>4, <2>3 DEF FlightInv, PostExecute, gateVars, inFlight
  <2>6. ReadyInv'  BY <1>1, <1>2, <1>4, <2>3 DEF ReadyInv, PostExecute, gateVars
  <2>. QED  BY <2>4, <2>5, <2>6
<1>5. CASE Cancel(r)
  <2>1. SerialInv'  BY <1>1, <1>2, <1>5 DEF SerialInv, Cancel, clientVars
  <2>2. FlightInv'  BY <1>1, <1>5 DEF FlightInv, Cancel, inFlight
  <2>3. ReadyInv'  BY <1>1, <1>2, <1>5 DEF ReadyInv, Cancel
  <2>. QED  BY <2>1, <2>2, <2>3
<1>6. CASE Respond(r)
  <2>1. client' = NoReq /\ pc' = [pc EXCEPT ![r] = "idle"] /\ queue = <<>> /\ queue' = queue
        /\ main.stage = "idle" /\ main' = main
    BY <1>1, <1>2, <1>6 DEF Respond
  <2>2. SerialInv'  BY <1>1, <2>1 DEF SerialInv
  <2>3. FlightInv'  BY <1>1, <1>6, <2>1 DEF FlightInv, Respond, gateVars, inFlight
  <2>4. ReadyInv'  BY <1>1, <1>6, <2>1 DEF ReadyInv, Respond, gateVars
  <2>. QED  BY <2>2, <2>3, <2>4
<1>. QED  BY <1>3, <1>4, <1>5, <1>6 DEF ThreadStep, RefreshTimesOut, ExecuteTimesOut

(* The refreshes and the action it posted.                                 *)
LEMMA MainStepResponsive ==
  ASSUME TypeInv, ResponsiveInv, MainStep
  PROVE  ResponsiveInv'
<1>. USE DEF TypeInv, TypeOK, ResponsiveInv
<1>1. inFlight => flight.req \in Requests
  BY FlightCases DEF inFlight
<1>2. CASE RefreshReads
  <2>1. PICK j \in Jobs : /\ queue = <<j>> /\ j.req = client /\ j.kind = "refresh"
                          /\ pc[client] = "refreshing" /\ main.stage = "idle"
    BY <1>2 DEF RefreshReads, SerialInv
  <2>2. queue' = <<>> /\ main'.req = client /\ main'.stage = "observe" /\ pc' = pc
        /\ client' = client
    BY <1>2, <2>1 DEF RefreshReads, threadVars, clientVars
  <2>3. client \in Requests  BY <2>1 DEF Jobs
  <2>4. SerialInv'  BY <2>1, <2>2 DEF SerialInv
  <2>5. FlightInv'  BY <1>2, <2>2 DEF FlightInv, RefreshReads, gateVars, inFlight
  <2>6. \A r \in Requests : pc[r] # "begin"
    BY <2>1 DEF SerialInv
  <2>7. ReadyInv'  BY <2>2, <2>6 DEF ReadyInv
  <2>. QED  BY <2>4, <2>5, <2>7
<1>3. CASE RefreshObserves
  <2>1. queue = <<>> /\ main.req = client /\ pc[client] = "refreshing"
    BY <1>3 DEF RefreshObserves, SerialInv
  <2>2. queue' = queue /\ pc' = pc /\ client' = client /\ lastView' = main.view
    BY <1>3 DEF RefreshObserves, threadVars, clientVars
  <2>3. main'.stage = "publish" /\ main'.req = main.req
    BY <1>3 DEF RefreshObserves, MainStates, Idle
  <2>4. SerialInv'  BY <2>1, <2>2, <2>3 DEF SerialInv
  <2>5. \A r \in Requests : pc[r] \in {"idle", "refreshing"}
    BY <2>1 DEF SerialInv
  <2>6. ~(inFlight /\ flight.fate = "claimed")
    BY <1>1, <2>5 DEF FlightInv
  <2>7. flight' = flight \/ flight' = NoFlight
    BY <1>3 DEF RefreshObserves
  <2>8. FlightInv'  BY <2>2, <2>5, <2>6, <2>7 DEF FlightInv, inFlight
  <2>9. ready' => Acceptable(main.view)
    BY <1>3 DEF RefreshObserves, Acceptable, CanAcceptDecision
  <2>10. ReadyInv'  BY <2>2, <2>9 DEF ReadyInv, Acceptable, CanAcceptDecision, CombatReady,
           OnCombatScreen, ChoiceReady
  <2>. QED  BY <2>4, <2>8, <2>10
<1>4. CASE RefreshPublishes
  <2>1. queue = <<>> /\ main.req = client /\ pc[client] = "refreshing" /\ client \in Requests
    BY <1>4 DEF RefreshPublishes, SerialInv, MainStates, Idle
  <2>2. /\ queue' = queue /\ client' = client /\ main' = Idle /\ ready' = ready
        /\ lastView' = lastView /\ flight' = flight
        /\ \E next \in {"respond", "begin"} : pc' = [pc EXCEPT ![client] = next]
    BY <1>4, <2>1 DEF RefreshPublishes, GoOn, clientVars, gateVars
  <2>3. SerialInv'  BY <2>1, <2>2 DEF SerialInv, Idle
  <2>4. FlightInv'  BY <1>1, <2>1, <2>2 DEF FlightInv, inFlight
  <2>5. ready => Acceptable(lastView)
    BY <1>4 DEF RefreshPublishes, ReadyInv
  <2>6. ReadyInv'  BY <2>2, <2>5 DEF ReadyInv, Acceptable, CanAcceptDecision, CombatReady,
           OnCombatScreen, ChoiceReady
  <2>. QED  BY <2>3, <2>4, <2>6
<1>5. CASE Executes
  <2>1. PICK j \in Jobs : /\ queue = <<j>> /\ j.req = client /\ j.kind = "execute"
                          /\ pc[client] = "executing" /\ main.stage = "idle"
    BY <1>5 DEF Executes, SerialInv
  <2>2. client \in Requests  BY <2>1 DEF Jobs
  <2>3. flight.req = client /\ flight.fate = "claimed"
    BY <2>1, <2>2 DEF FlightInv
  <2>4. PICK outcome \in {"played", "failed"} :
          /\ flight' = [flight EXCEPT !.fate = outcome]
          /\ pc' = [pc EXCEPT ![client] = IF outcome = "played" THEN "respond" ELSE "cancel"]
    BY <1>5, <2>1, <2>3 DEF Executes
  <2>5. queue' = <<>> /\ client' = client /\ main' = main /\ ready' = ready
    BY <1>5, <2>1 DEF Executes, clientVars
  <2>6. flight'.req = client /\ flight'.fate = outcome
    BY <2>2, <2>3, <2>4, FlightCases DEF Flights
  <2>7. SerialInv'  BY <2>1, <2>4, <2>5 DEF SerialInv
  <2>8. FlightInv'
    <3>1. \A r \in Requests : r # client => pc'[r] = "idle"
      BY <2>4, <2>1, <2>2 DEF SerialInv
    <3>2. pc'[client] = IF outcome = "played" THEN "respond" ELSE "cancel"
      BY <2>2, <2>4
    <3>. QED  BY <2>2, <2>6, <3>1, <3>2 DEF FlightInv
  <2>9. \A r \in Requests : pc'[r] # "begin"
    BY <2>1, <2>2, <2>4 DEF SerialInv
  <2>10. ReadyInv'  BY <2>1, <2>5, <2>9 DEF ReadyInv
  <2>. QED  BY <2>7, <2>8, <2>10
<1>. QED  BY <1>2, <1>3, <1>4, <1>5 DEF MainStep

(* All actions together.                                                   *)
LEMMA NextResponsiveInv ==
  ASSUME ~Stall
  PROVE  TypeInv /\ ResponsiveInv /\ [Next]_vars => ResponsiveInv'
<1>. SUFFICES ASSUME TypeInv, ResponsiveInv, [Next]_vars PROVE ResponsiveInv'  OBVIOUS
<1>1. CASE UNCHANGED <<queue, main, pc, client, flight, ready, lastView>>
  BY <1>1 DEF ResponsiveInv, SerialInv, FlightInv, ReadyInv, inFlight, Acceptable,
     CanAcceptDecision, CombatReady, OnCombatScreen, ChoiceReady
<1>2. CASE GameMoves
  BY <1>1, <1>2 DEF GameMoves, gateVars, threadVars, clientVars
<1>3. ASSUME NEW r \in Requests, NEW d \in Calls, Receive(r, d) PROVE ResponsiveInv'
  BY <1>3, ReceiveResponsive
<1>4. ASSUME NEW r \in Requests, ThreadStep(r) PROVE ResponsiveInv'
  BY <1>4, ThreadStepResponsive
<1>5. CASE MainStep
  BY <1>5, MainStepResponsive
<1>6. CASE ClockStep
  <2>1. flight \in Flights
    BY <1>6 DEF ClockStep, NotBeforeElapses, DeadlineElapses, inFlight, TypeInv, TypeOK
  <2>2. /\ flight'.req = flight.req /\ flight'.fate = flight.fate
        /\ UNCHANGED <<queue, main, pc, client, ready, lastView>>
    BY <1>6, <2>1 DEF ClockStep, NotBeforeElapses, DeadlineElapses, Flights, threadVars, clientVars
  <2>3. inFlight
    BY <1>6 DEF ClockStep, NotBeforeElapses, DeadlineElapses
  <2>. QED
    BY <2>2, <2>3 DEF ResponsiveInv, SerialInv, FlightInv, ReadyInv, Acceptable,
       CanAcceptDecision, CombatReady, OnCombatScreen, ChoiceReady
<1>7. CASE UNCHANGED vars
  BY <1>1, <1>7 DEF vars, gateVars, threadVars, clientVars
<1>. QED  BY <1>2, <1>3, <1>4, <1>5, <1>6, <1>7 DEF Next, ClientTimesOut

(* ResponsiveInv holds in every reachable state of a responsive game.      *)
LEMMA ResponsiveInvariance == ASSUME ~Stall PROVE Spec => []ResponsiveInv
<1>1. TypeInv /\ ResponsiveInv /\ [Next]_vars => ResponsiveInv'
  BY NextResponsiveInv
<1>. QED  BY <1>1, InitResponsiveInv, TypeInvariance, PTL DEF Spec

(* What is outstanding is held in the gate for its thread.                 *)
LEMMA OutstandingIsHeld ==
  ASSUME TypeInv, ResponsiveInv, NEW r \in Outstanding
  PROVE  r \in Requests /\ inFlight /\ flight.req = r /\ flight.fate = "claimed"
<1>. USE DEF TypeInv, TypeOK, ResponsiveInv
<1>1. r \in Requests  BY DEF Outstanding
<1>2. CASE pc[r] = "post"
  <2>1. flight.req = r /\ flight.fate = "claimed"  BY <1>1, <1>2 DEF FlightInv
  <2>. QED  BY <1>1, <2>1, NoFlightHasNoOwner DEF inFlight
<1>3. CASE \E i \in JobsOf(r) : queue[i].kind = "execute"
  <2>1. PICK i \in DOMAIN queue : queue[i].req = r /\ queue[i].kind = "execute"
    BY <1>3 DEF JobsOf
  <2>2. PICK j \in Jobs : /\ queue = <<j>> /\ j.req = client
                          /\ j.kind = "execute" => pc[client] = "executing"
    BY <2>1 DEF SerialInv
  <2>3. i = 1 /\ queue[i] = j  BY <2>1, <2>2
  <2>4. pc[r] = "executing"  BY <2>1, <2>2, <2>3
  <2>5. flight.req = r /\ flight.fate = "claimed"  BY <1>1, <2>4 DEF FlightInv
  <2>. QED  BY <1>1, <2>5, NoFlightHasNoOwner DEF inFlight
<1>. QED  BY <1>2, <1>3 DEF Outstanding

(* As long as the main thread answers within 5 s, DecisionGate keeps its   *)
(* word to a client that waits for its answers: at most one action at any  *)
(* time.                                                                   *)
THEOREM OneActionWhenResponsive == ASSUME ~Stall PROVE Spec => []AtMostOneAction
<1>1. TypeInv /\ ResponsiveInv => AtMostOneAction
  <2>. SUFFICES ASSUME TypeInv, ResponsiveInv PROVE Cardinality(Outstanding) <= 1
    BY DEF AtMostOneAction
  <2>1. Outstanding \subseteq {flight.req}  BY OutstandingIsHeld
  <2>2. IsFiniteSet({flight.req}) /\ Cardinality({flight.req}) = 1  BY FS_Singleton
  <2>. QED  BY <2>1, <2>2, FS_Subset
<1>. QED  BY <1>1, TypeInvariance, ResponsiveInvariance, PTL

(* ... and no action survives the call that asked for it.                  *)
THEOREM NoActionIsAbandoned == ASSUME ~Stall PROVE Spec => []NoAbandonedAction
<1>1. ResponsiveInv => NoAbandonedAction
  <2>. SUFFICES ASSUME ResponsiveInv, NEW i \in DOMAIN queue, queue[i].kind = "execute"
                PROVE  pc[queue[i].req] = "executing" /\ client = queue[i].req
    BY DEF NoAbandonedAction
  <2>1. PICK j \in Jobs : /\ queue = <<j>> /\ j.req = client
                          /\ j.kind = "execute" => pc[client] = "executing"
    BY DEF ResponsiveInv, SerialInv
  <2>2. queue[i] = j  BY <2>1
  <2>. QED  BY <2>1, <2>2
<1>. QED  BY <1>1, ResponsiveInvariance, PTL

(* ... and only a game that was just seen ready is given an action.        *)
THEOREM ActionsMeetReadyGame == ASSUME ~Stall PROVE Spec => AcceptedOnReadyGame
<1>1. TypeInv /\ ResponsiveInv /\ [Next]_vars =>
        [\A r \in Requests : pc[r] = "begin" /\ pc'[r] = "post" => Acceptable(lastView)]_pc
  <2>. SUFFICES ASSUME TypeInv, ResponsiveInv, [Next]_vars, pc' # pc,
                       NEW r \in Requests, pc[r] = "begin", pc'[r] = "post"
                PROVE  Acceptable(lastView)
    OBVIOUS
  <2>. USE DEF TypeInv, TypeOK
  <2>1. TryBegin(r)
    <3>1. \A s \in Requests : s # r => pc[s] = "idle"
      BY DEF ResponsiveInv, SerialInv
    <3>2. queue = <<>> /\ main.stage = "idle" /\ client = r
      BY DEF ResponsiveInv, SerialInv, Jobs
    <3>3. ~MainStep
      BY <3>2, NoReqAssumption DEF MainStep, RefreshReads, RefreshObserves, RefreshPublishes,
         Executes
    <3>4. ASSUME NEW s \in Requests, ThreadStep(s) PROVE TryBegin(r)
      <4>1. s = r
        BY <3>1, <3>4 DEF ThreadStep, RefreshTimesOut, TryBegin, PostExecute, ExecuteTimesOut,
           Cancel, Respond
      <4>. QED
        BY <3>4, <4>1 DEF ThreadStep, RefreshTimesOut, PostExecute, ExecuteTimesOut, Cancel, Respond
    <3>5. ~(\E s \in Requests, d \in Calls : Receive(s, d))
      BY <3>2, NoReqAssumption DEF Receive
    <3>6. ~(GameMoves \/ ClientTimesOut \/ ClockStep \/ UNCHANGED vars)
      BY DEF GameMoves, ClientTimesOut, ClockStep, NotBeforeElapses, DeadlineElapses, vars,
         threadVars
    <3>. QED  BY <3>3, <3>4, <3>5, <3>6 DEF Next
  <2>2. ready
    BY <2>1 DEF TryBegin
  <2>. QED  BY <2>2 DEF ResponsiveInv, ReadyInv
<1>. QED  BY <1>1, TypeInvariance, ResponsiveInvariance, PTL DEF Spec, AcceptedOnReadyGame

-----------------------------------------------------------------------------
(* The safety half of the refinement: every step of a responsive gate is a *)
(* step of SingleAction or leaves it alone.                                *)
THEOREM GateKeepsPromise ==
  ASSUME ~Stall PROVE Spec => Promise!Init /\ [][Promise!Next]_(Promise!vars)
<1>1. Init => Promise!Init
  <2>1. Init => flight = NoFlight  BY DEF Init
  <2>2. NoFlight.req = NoReq /\ NoFlight.fate = "none"  BY DEF NoFlight
  <2>. QED  BY <2>1, <2>2 DEF Promise!Init
<1>2. TypeInv /\ ResponsiveInv /\ [Next]_vars => [Promise!Next]_(Promise!vars)
  <2>. SUFFICES ASSUME TypeInv, ResponsiveInv, [Next]_vars
                PROVE  Promise!Next \/ UNCHANGED Promise!vars
    OBVIOUS
  <2>. USE DEF TypeInv, TypeOK, ResponsiveInv, Promise!Next, Promise!vars
  <2>1. CASE flight' = flight
    BY <2>1
  <2>2. ASSUME NEW r \in Requests, TryBegin(r), flight' # flight
        PROVE  Promise!Claim(r)
    <3>1. flight = NoFlight /\ flight'.req = r /\ flight'.fate = "claimed"
      BY <2>2 DEF TryBegin, gateVars, inFlight
    <3>. QED  BY <3>1 DEF NoFlight, Promise!Claim
  <2>3. ASSUME NEW r \in Requests, Cancel(r) PROVE Promise!Release
    BY <2>3 DEF Cancel, FlightInv, NoFlight, Promise!Release
  <2>4. CASE RefreshObserves /\ flight' # flight
    <3>1. inFlight /\ flight' = NoFlight  BY <2>4 DEF RefreshObserves
    <3>2. flight.req \in Requests /\ flight.fate \in {"claimed", "played", "failed"}
      BY <3>1, FlightCases DEF inFlight, Flights
    <3>3. pc[client] = "refreshing"  BY <2>4 DEF RefreshObserves, SerialInv
    <3>4. flight.fate # "claimed"
      BY <3>1, <3>2, <3>3 DEF FlightInv, SerialInv
    <3>. QED  BY <3>1, <3>2, <3>4 DEF NoFlight, Promise!Release
  <2>5. CASE Executes
    <3>1. PICK j \in Jobs : /\ queue = <<j>> /\ j.req = client /\ j.kind = "execute"
                            /\ pc[client] = "executing"
      BY <2>5 DEF Executes, SerialInv
    <3>2. client \in Requests  BY <3>1 DEF Jobs
    <3>3. flight.req = client /\ flight.fate = "claimed"  BY <3>1, <3>2 DEF FlightInv
    <3>4. PICK outcome \in {"played", "failed"} : flight' = [flight EXCEPT !.fate = outcome]
      BY <2>5, <3>1, <3>3 DEF Executes
    <3>5. flight'.req = flight.req /\ flight'.fate = outcome
      BY <3>2, <3>3, <3>4, FlightCases DEF Flights
    <3>. QED  BY <3>3, <3>5 DEF Promise!Attempt
  <2>6. CASE ClockStep
    <3>1. flight \in Flights
      BY <2>6 DEF ClockStep, NotBeforeElapses, DeadlineElapses, inFlight
    <3>. QED
      BY <2>6, <3>1 DEF ClockStep, NotBeforeElapses, DeadlineElapses, Flights
  <2>. QED
    BY <2>1, <2>2, <2>3, <2>4, <2>5, <2>6 DEF Next, MainStep, ThreadStep, GameMoves, Receive,
       RefreshTimesOut, PostExecute, ExecuteTimesOut, Respond, ClientTimesOut, RefreshReads,
       RefreshPublishes, vars, gateVars
<1>. QED  BY <1>1, <1>2, TypeInvariance, ResponsiveInvariance, PTL DEF Spec
=============================================================================
