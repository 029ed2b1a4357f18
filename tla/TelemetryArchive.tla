-------------------------- MODULE TelemetryArchive ---------------------------
(***************************************************************************)
(* How the agent's telemetry reaches the disk: DecisionEventBus hands each *)
(* event to two sinks, RunHistoryStore and TrainingDataWriter, each with a *)
(* bounded queue and a writer thread of its own.                           *)
(*                                                                         *)
(* The main loop is the only publisher.  It lives until it is stopped, when*)
(* start()'s finally clause closes the two sinks, or until the process is  *)
(* killed.  A run keeps its directory for as long as the agent lives, so   *)
(* there is one archive here, and events published before a run are not    *)
(* archived.                                                               *)
(***************************************************************************)
EXTENDS Naturals, Sequences, SequencesExt

CONSTANTS
  MaxEvents,  (* bound: how many events are published                      *)
  QueueSize,  (* 2048: capacity of each sink's queue                       *)
  Flaky       (* may writing a file fail?                                  *)

ASSUME MaxEventsAssumption == MaxEvents \in Nat
ASSUME QueueSizeAssumption == QueueSize \in Nat \ {0}
ASSUME FlakyAssumption     == Flaky \in BOOLEAN

VARIABLES
  seq, agent, pub,             \* DecisionEventBus and its publisher
  queue, worker,               \* the two sinks and their threads
  events, decisions, manifest, \* data/runs/<run>
  known, rows,                 \* _pending_decisions, transitions.jsonl
  closing, warned, taken       \* shutdown; history: what the store accepted

busVars      == <<seq, agent, pub>>
archiveVars  == <<events, decisions, manifest>>
trainingVars == <<known, rows>>
closeVars    == <<closing, warned>>
vars == <<busVars, queue, worker, archiveVars, trainingVars, closeVars, taken>>

-----------------------------------------------------------------------------
(* decision_parsed stands for fallback_selected and decision_error too; the*)
(* other critical events have no role of their own here.  dec is the       *)
(* decision an event is about, run says whether a run is on.               *)
Kinds == {"run_started", "state_received", "decision_parsed", "transition_observed",
          "run_completed"}
CRITICAL_EVENT_TYPES == Kinds \ {"state_received", "transition_observed"}

Writers == {"history", "training"}
NoEvent == [seq |-> 0, kind |-> "none", dec |-> 0, run |-> FALSE]
Poison  == [NoEvent EXCEPT !.kind = "poison"]
Stage(at, w) == [at |-> at, writer |-> w]

Init ==
  /\ seq = 0 /\ pub = [at |-> "idle", event |-> NoEvent]
  /\ agent = [started |-> FALSE, next |-> 0, pending |-> 0]
  /\ queue = [w \in Writers |-> << >>]
  /\ worker = [w \in Writers |-> [at |-> "get", event |-> NoEvent]]
  /\ events = << >> /\ decisions = << >> /\ manifest = [last |-> 0, completed |-> FALSE]
  /\ known = {} /\ rows = << >>
  /\ closing = Stage("no", "history") /\ warned = {} /\ taken = {}

Living == closing.at \notin {"exited", "killed"}

-----------------------------------------------------------------------------
(* The main loop publishes: a decision, which becomes the pending          *)
(* transition when it is accepted; what came of it; the rest at any time.  *)
Emit(kind, dec, a) ==
  /\ closing.at = "no" /\ pub.at = "idle" /\ seq < MaxEvents
  /\ seq' = seq + 1 /\ agent' = a
  /\ pub' = [at |-> "history",
             event |-> [seq |-> seq + 1, kind |-> kind, dec |-> dec, run |-> a.started]]
  /\ UNCHANGED <<queue, worker, archiveVars, trainingVars, closeVars, taken>>

Publish ==
  \/ ~agent.started /\ Emit("run_started", 0, [agent EXCEPT !.started = TRUE])
  \/ Emit("state_received", 0, agent)
  \/ \E accepted \in BOOLEAN :
       Emit("decision_parsed", agent.next + 1,
            [started |-> agent.started, next |-> agent.next + 1,
             pending |-> IF accepted THEN agent.next + 1 ELSE agent.pending])
  \/ agent.pending # 0 /\ Emit("transition_observed", agent.pending,
                               [agent EXCEPT !.pending = 0])
  \/ agent.started /\ Emit("run_completed", 0, agent)

Full(w)    == Len(queue[w]) >= QueueSize
Put(w, e)  == queue' = [queue EXCEPT ![w] = Append(@, e)]
Took       == taken' = IF pub.event.run THEN taken \union {pub.event.seq} ELSE taken
NextSink   == pub' = [pub EXCEPT !.at = "training"]
SinkFrame  == UNCHANGED <<seq, agent, worker, archiveVars, trainingVars, closeVars>>

(* RunHistoryStore.enqueue: a full queue drops what is not critical.       *)
EnqueueHistory ==
  /\ Living /\ pub.at = "history"
  /\ IF ~Full("history")
     THEN Put("history", pub.event) /\ Took /\ NextSink
     ELSE /\ pub' = [pub EXCEPT !.at = IF pub.event.kind \in CRITICAL_EVENT_TYPES
                                       THEN "waiting" ELSE "training"]
          /\ UNCHANGED <<queue, taken>>
  /\ SinkFrame

(* Mutant: waits for room as long as it takes.                             *)
WaitsForRoom ==
  /\ Living /\ pub.at = "waiting" /\ ~Full("history")
  /\ Put("history", pub.event) /\ Took /\ NextSink
  /\ SinkFrame

(* A critical event waits 50 ms for room, and is dropped too.              *)
WaitEnds ==
  /\ Living /\ pub.at = "waiting"
  /\ \/ ~Full("history") /\ Put("history", pub.event) /\ Took
     \/ UNCHANGED <<queue, taken>>
  /\ NextSink /\ SinkFrame

(* Mutant: a queue without a capacity.                                     *)
EnqueueTrainingUnbounded ==
  /\ Living /\ pub.at = "training"
  /\ Put("training", pub.event)
  /\ pub' = [at |-> "idle", event |-> NoEvent]
  /\ UNCHANGED taken /\ SinkFrame

(* TrainingDataWriter.enqueue.                                             *)
EnqueueTraining ==
  /\ Living /\ pub.at = "training"
  /\ IF Full("training") THEN UNCHANGED queue ELSE Put("training", pub.event)
  /\ pub' = [at |-> "idle", event |-> NoEvent]
  /\ UNCHANGED taken /\ SinkFrame

-----------------------------------------------------------------------------
(* A writer takes the next item.  The poison ends it, and so does an error *)
(* of a write: the exception leaves _worker.                               *)
Item(w)    == Head(queue[w])
Takes(w)   == /\ Living /\ worker[w].at = "get" /\ queue[w] # << >>
              /\ queue' = [queue EXCEPT ![w] = Tail(@)]
At(w, at, e) == worker' = [worker EXCEPT ![w] = [at |-> at, event |-> e]]
WorkerFrame  == UNCHANGED <<busVars, closeVars, taken>>

EndsOrSkips(w) ==
  /\ Takes(w) /\ ~Item(w).run
  /\ At(w, IF Item(w) = Poison THEN "done" ELSE "get", NoEvent)
  /\ UNCHANGED <<archiveVars, trainingVars>> /\ WorkerFrame

Recorded(e) ==
  [last |-> e.seq, completed |-> manifest.completed \/ e.kind = "run_completed"]

(* Mutant: the manifest is brought up to date before the archive.          *)
HistoryTakesManifestFirst ==
  /\ Takes("history") /\ Item("history").run
  /\ manifest' = Recorded(Item("history"))
  /\ At("history", "events", Item("history"))
  /\ UNCHANGED <<events, decisions, trainingVars>> /\ WorkerFrame

(* RunHistoryStore._write: events.jsonl, decisions.jsonl, manifest.json.   *)
HistoryTakes ==
  /\ Takes("history") /\ Item("history").run
  /\ events' = Append(events, Item("history"))
  /\ At("history", IF Item("history").kind = "decision_parsed" THEN "decisions" ELSE "manifest",
        Item("history"))
  /\ UNCHANGED <<decisions, manifest, trainingVars>> /\ WorkerFrame

HistoryWritesDecision ==
  /\ Living /\ worker["history"].at = "decisions"
  /\ decisions' = Append(decisions, worker["history"].event)
  /\ At("history", "manifest", worker["history"].event)
  /\ UNCHANGED <<queue, events, manifest, trainingVars>> /\ WorkerFrame

HistoryWritesManifest ==
  /\ Living /\ worker["history"].at = "manifest"
  /\ manifest' = Recorded(worker["history"].event)
  /\ At("history", "get", NoEvent)
  /\ UNCHANGED <<queue, events, decisions, trainingVars>> /\ WorkerFrame

(* Mutant: a transition goes with the decision that came last.             *)
TrainingPairsLast ==
  /\ Takes("training") /\ Item("training").run
  /\ LET e == Item("training") IN
       /\ known' = IF e.kind = "decision_parsed" THEN {e} ELSE known
       /\ rows' = IF e.kind = "transition_observed" /\ known # {}
                  THEN Append(rows, [made |-> CHOOSE d \in known : TRUE, seen |-> e]) ELSE rows
  /\ At("training", "get", NoEvent)
  /\ UNCHANGED archiveVars /\ WorkerFrame

(* TrainingDataWriter._write: a decision is kept, a transition is written  *)
(* together with its decision, if that is known.                           *)
TrainingTakes ==
  /\ Takes("training") /\ Item("training").run
  /\ LET e == Item("training")
         made == {d \in known : d.dec = e.dec} IN
       /\ known' = IF e.kind = "decision_parsed" THEN known \union {e} ELSE known
       /\ rows' = IF e.kind = "transition_observed" /\ made # {}
                  THEN Append(rows, [made |-> CHOOSE d \in made : TRUE, seen |-> e]) ELSE rows
  /\ At("training", "get", NoEvent)
  /\ UNCHANGED archiveVars /\ WorkerFrame

(* A write fails, before or between the files an event goes to.            *)
TakeFails(w) ==
  /\ Flaky /\ Takes(w) /\ Item(w).run
  /\ w = "training" => Item(w).kind \in {"transition_observed", "run_completed"}
  /\ At(w, "dead", NoEvent)
  /\ UNCHANGED <<archiveVars, trainingVars>> /\ WorkerFrame

WriteFails ==
  /\ Flaky /\ Living /\ worker["history"].at \in {"decisions", "manifest"}
  /\ At("history", "dead", NoEvent)
  /\ UNCHANGED <<queue, archiveVars, trainingVars>> /\ WorkerFrame

WorkerStep ==
  \/ \E w \in Writers : EndsOrSkips(w) \/ TakeFails(w)
  \/ HistoryTakes \/ HistoryWritesDecision \/ HistoryWritesManifest
  \/ TrainingTakes \/ WriteFails

-----------------------------------------------------------------------------
(* The finally clause of start(): RunHistoryStore.close, then the training *)
(* writer's; the closers around them (dashboard, experience store, screen) *)
(* do not touch the sinks.  A TimeoutError of flush is printed, and the    *)
(* next closer runs; the writers are daemon threads, which do not outlive  *)
(* the main thread.                                                        *)
CloseFrame == UNCHANGED <<busVars, worker, archiveVars, trainingVars, taken>>
NextCloser(w) ==
  closing' = IF w = "history" THEN Stage("close", "training") ELSE Stage("exited", w)

(* Ctrl-C strikes wherever the main thread is: what is left of a publish   *)
(* is abandoned.                                                           *)
Stop ==
  /\ closing.at = "no"
  /\ closing' = Stage("close", "history")
  /\ pub' = [at |-> "idle", event |-> NoEvent]
  /\ UNCHANGED <<seq, agent, queue, worker, archiveVars, trainingVars, warned, taken>>

Close(w) ==
  /\ closing = Stage("close", w)
  /\ IF worker[w].at \in {"done", "dead"} THEN NextCloser(w) ELSE closing' = Stage("flush", w)
  /\ UNCHANGED <<warned, queue>> /\ CloseFrame

(* Mutants: an empty queue is taken for finished work; a flush that timed  *)
(* out goes on to put the poison, which waits for room.                    *)
FlushedWhenEmpty(w) ==
  /\ closing = Stage("flush", w)
  /\ queue[w] = << >> /\ worker[w].at # "dead"
  /\ Put(w, Poison) /\ closing' = Stage("join", w)
  /\ UNCHANGED warned /\ CloseFrame
FlushTimesOutUnheard(w) ==
  /\ closing = Stage("flush", w) /\ ~Full(w)
  /\ Put(w, Poison) /\ closing' = Stage("join", w)
  /\ UNCHANGED warned /\ CloseFrame

(* flush waits 5 s until every item that was put is done.                  *)
Flushed(w) ==
  /\ closing = Stage("flush", w)
  /\ queue[w] = << >> /\ worker[w].at \in {"get", "dead"}
  /\ Put(w, Poison) /\ closing' = Stage("join", w)
  /\ UNCHANGED warned /\ CloseFrame

FlushTimesOut(w) ==
  /\ closing = Stage("flush", w)
  /\ warned' = warned \union {w} /\ NextCloser(w)
  /\ UNCHANGED queue /\ CloseFrame

(* join gives up after 5 s as well, silently.                              *)
Joined(w) ==
  /\ closing = Stage("join", w)
  /\ NextCloser(w)
  /\ UNCHANGED <<warned, queue>> /\ CloseFrame

Killed ==
  /\ Living
  /\ closing' = Stage("killed", "history")
  /\ UNCHANGED <<warned, queue>> /\ CloseFrame

CloserStep == \E w \in Writers : Close(w) \/ Flushed(w) \/ FlushTimesOut(w) \/ Joined(w)
SinkStep   == EnqueueHistory \/ WaitEnds \/ EnqueueTraining

Next == Publish \/ SinkStep \/ WorkerStep \/ Stop \/ CloserStep \/ Killed

Spec == Init /\ [][Next]_vars

(* The main thread goes on, timeouts expire; of the disk and the writers   *)
(* nothing is assumed.                                                     *)
FairSpec == Spec /\ WF_vars(SinkStep) /\ WF_vars(CloserStep)

-----------------------------------------------------------------------------
(* The values of the variables; a queue never exceeds its capacity.        *)
Events == [seq : 1 .. MaxEvents, kind : Kinds, dec : 0 .. MaxEvents, run : BOOLEAN]
TypeOK ==
  /\ seq \in 0 .. MaxEvents
  /\ agent \in [started : BOOLEAN, next : 0 .. MaxEvents, pending : 0 .. MaxEvents]
  /\ pub \in [at : {"idle"}, event : {NoEvent}] \union
             [at : {"history", "waiting", "training"}, event : Events]
  /\ queue \in [Writers -> Seq(Events \union {Poison})]
  /\ \A w \in Writers : Len(queue[w]) <= QueueSize
  /\ worker \in [Writers -> [at : {"get", "done", "dead"}, event : {NoEvent}] \union
                           [at : {"decisions", "manifest"}, event : Events]]
  /\ events \in Seq(Events) /\ decisions \in Seq(Events)
  /\ manifest \in [last : 0 .. MaxEvents, completed : BOOLEAN]
  /\ known \subseteq Events /\ rows \in Seq([made : Events, seen : Events])
  /\ taken \subseteq 1 .. MaxEvents /\ warned \subseteq Writers
  /\ closing \in [at : {"no", "close", "flush", "join", "exited", "killed"}, writer : Writers]

(* What a reader of data/runs finds at any moment, the moments after a kill*)
(* or a failed write included: events in order and once each; decisions and*)
(* a manifest that say nothing the events do not; a manifest that is behind*)
(* by one event at most.                                                   *)
ArchiveConsistent ==
  /\ \A i, j \in DOMAIN events : i < j => events[i].seq < events[j].seq
  /\ ToSet(decisions) \subseteq ToSet(events)
  /\ manifest.last # 0 => \E e \in ToSet(events) : e.seq = manifest.last
  /\ manifest.completed => \E e \in ToSet(events) : e.kind = "run_completed"
  /\ \A i \in DOMAIN events : events[i].seq > manifest.last => i = Len(events)

(* A training sample pairs a decision with the reward of that decision,    *)
(* observed after it, and no decision gets two samples, whatever events the*)
(* full queue dropped.                                                     *)
RewardsMatchDecisions ==
  /\ \A i \in DOMAIN rows :
       rows[i].made.dec = rows[i].seen.dec /\ rows[i].made.seq < rows[i].seen.seq
  /\ \A i, j \in DOMAIN rows : i # j => rows[i].made.dec # rows[j].made.dec

(* An agent that exits without a warning has archived every event its store*)
(* accepted, unless its writer died of an error.                           *)
CleanExitKeepsAll ==
  closing.at = "exited" /\ "history" \notin warned /\ worker["history"].at # "dead"
    => /\ taken = {e.seq : e \in ToSet(events)}
       /\ events # << >> => manifest.last = Last(events).seq

(* "Dashboard failure must never affect ... the Agent's ability to make    *)
(* decisions": publishing ends, with queues full and writers dead or slow. *)
PublishReturns == pub.at # "idle" ~> (pub.at = "idle" \/ ~Living)

(* Shutting down ends, whatever became of the writers.                     *)
ShutdownEnds == closing.at = "close" ~> ~Living
=============================================================================
