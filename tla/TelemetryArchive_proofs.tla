---------------------- MODULE TelemetryArchive_proofs ----------------------
(***************************************************************************)
(* Proofs about TelemetryArchive, for any number of events, any capacity of*)
(* the queues, and a disk that may fail or not: the types, the state of the*)
(* archive at any moment, the pairing of the training samples, and what a  *)
(* clean exit keeps.                                                       *)
(***************************************************************************)
EXTENDS TelemetryArchive, TLAPS

USE MaxEventsAssumption, QueueSizeAssumption, FlakyAssumption

-----------------------------------------------------------------------------
(* Decisions are numbered no faster than events.                           *)
CountsInv == agent.next <= seq /\ agent.pending <= agent.next

TypeInv == TypeOK /\ CountsInv

-----------------------------------------------------------------------------
(* The order in which a sink sees its events: what it has processed comes  *)
(* before what is queued, and that before what is being published.  Of two *)
(* transitions the later one is about a later decision.                    *)
InOrder(e, f) ==
  f.seq # 0 => /\ e.seq < f.seq
               /\ e.kind = "transition_observed" /\ f.kind = "transition_observed"
                    => e.dec < f.dec

Past(e) ==
  /\ e.seq <= seq
  /\ e.kind = "transition_observed"
       => e.dec <= agent.next /\ (agent.pending # 0 => e.dec < agent.pending)

Processed(w) == IF w = "history" THEN {events[i] : i \in 1 .. Len(events)}
                ELSE known \union {rows[i].seen : i \in 1 .. Len(rows)}

Coming(w) == pub.at \in (IF w = "history" THEN {"history", "waiting"}
                         ELSE {"history", "waiting", "training"})

StreamInv(w) ==
  /\ \A i, j \in 1 .. Len(queue[w]) : i < j => InOrder(queue[w][i], queue[w][j])
  /\ \A e \in Processed(w) : Past(e) /\ \A j \in 1 .. Len(queue[w]) : InOrder(e, queue[w][j])
  /\ \A i \in 1 .. Len(queue[w]) : Past(queue[w][i])
  /\ Coming(w) => /\ \A e \in Processed(w) : InOrder(e, pub.event)
                  /\ \A i \in 1 .. Len(queue[w]) : InOrder(queue[w][i], pub.event)

OrderInv == (pub.at # "idle" => Past(pub.event)) /\ \A w \in Writers : StreamInv(w)

-----------------------------------------------------------------------------
(* The archive: the manifest says the last event, or the one before it     *)
(* while the last one is being written.                                    *)
SeqAt(i) == IF i \in 1 .. Len(events) THEN events[i].seq ELSE 0

ArchiveInv ==
  /\ \A i, j \in 1 .. Len(events) : i < j => events[i].seq < events[j].seq
  /\ \A i \in 1 .. Len(decisions) : \E j \in 1 .. Len(events) : decisions[i] = events[j]
  /\ manifest.completed => \E i \in 1 .. Len(events) : events[i].kind = "run_completed"
  /\ worker["history"].at \in {"get", "done"} => manifest.last = SeqAt(Len(events))
  /\ worker["history"].at \in {"decisions", "manifest"}
       => /\ Len(events) > 0 /\ worker["history"].event = events[Len(events)]
          /\ manifest.last = SeqAt(Len(events) - 1)
  /\ worker["history"].at = "dead"
       => manifest.last \in {SeqAt(Len(events)), SeqAt(Len(events) - 1)}

(* The training samples come in the order of their decisions.              *)
SamplesInv ==
  /\ \A i \in 1 .. Len(rows) : /\ rows[i].made.dec = rows[i].seen.dec
                            /\ rows[i].made.seq < rows[i].seen.seq
                            /\ rows[i].seen.kind = "transition_observed"
  /\ \A i, j \in 1 .. Len(rows) : i < j => rows[i].seen.dec < rows[j].seen.dec

(* What was accepted is archived or queued; once the history store is      *)
(* flushed nothing of a run is left in its queue.                          *)
QuietInv == closing.at \in {"close", "flush", "join", "exited"} => pub.at = "idle"

Queued(n) == \E i \in 1 .. Len(queue["history"]) :
               queue["history"][i].run /\ queue["history"][i].seq = n

TakenInv ==
  worker["history"].at # "dead"
    => \A n \in 1 .. MaxEvents :
         n \in taken <=> Queued(n) \/ \E i \in 1 .. Len(events) : events[i].seq = n

Flushing == \/ closing.at = "no" \/ closing = Stage("close", "history")
            \/ closing = Stage("flush", "history")

FlushingInv ==
  Flushing => /\ worker["history"].at # "done"
              /\ \A i \in 1 .. Len(queue["history"]) : queue["history"][i] # Poison

Settled == \/ closing.at \in {"join", "exited"}
           \/ closing.at \in {"close", "flush"} /\ closing.writer = "training"

SettledInv ==
  Settled /\ "history" \notin warned /\ worker["history"].at # "dead"
    => /\ worker["history"].at \in {"get", "done"}
       /\ \A i \in 1 .. Len(queue["history"]) : ~queue["history"][i].run

CloseInv == QuietInv /\ TakenInv /\ FlushingInv /\ SettledInv

IInv == TypeInv /\ OrderInv /\ ArchiveInv /\ SamplesInv /\ CloseInv

-----------------------------------------------------------------------------
QueueOK == /\ queue \in [Writers -> Seq(Events \union {Poison})]
           /\ \A w \in Writers : Len(queue[w]) <= QueueSize

(* What taking an item from a queue and putting one into it do.            *)
LEMMA TakesQueue ==
  ASSUME QueueOK, NEW w \in Writers, Takes(w)
  PROVE  /\ Len(queue[w]) \in Nat \ {0} /\ Item(w) = queue[w][1]
         /\ Item(w) \in Events \union {Poison}
         /\ queue' \in [Writers -> Seq(Events \union {Poison})]
         /\ Len(queue'[w]) = Len(queue[w]) - 1
         /\ \A i \in 1 .. Len(queue'[w]) : queue'[w][i] = queue[w][i + 1]
         /\ \A v \in Writers \ {w} : queue'[v] = queue[v]
<1>1. queue \in [Writers -> Seq(Events \union {Poison})]  BY DEF QueueOK
<1>2. queue[w] # << >> /\ queue' = [queue EXCEPT ![w] = Tail(@)]  BY DEF Takes
<1>. QED  BY <1>1, <1>2 DEF Item

LEMMA PutQueue ==
  ASSUME QueueOK, NEW w \in Writers, NEW e \in Events \union {Poison}, Put(w, e)
  PROVE  /\ queue' \in [Writers -> Seq(Events \union {Poison})]
         /\ Len(queue'[w]) = Len(queue[w]) + 1 /\ queue'[w][Len(queue[w]) + 1] = e
         /\ \A i \in 1 .. Len(queue[w]) : queue'[w][i] = queue[w][i]
         /\ \A v \in Writers \ {w} : queue'[v] = queue[v]
<1>1. queue \in [Writers -> Seq(Events \union {Poison})]  BY DEF QueueOK
<1>2. queue' = [queue EXCEPT ![w] = Append(@, e)]  BY DEF Put
<1>. QED  BY <1>1, <1>2

(* Neither makes a queue longer than it may be, if there is room to put.   *)
LEMMA TakesKeepsQueueOK ==
  ASSUME QueueOK, NEW w \in Writers, Takes(w)
  PROVE  QueueOK'
<1>1. ASSUME NEW v \in Writers PROVE Len(queue'[v]) <= QueueSize
  <2>1. CASE v = w
    <3>1. Len(queue'[w]) = Len(queue[w]) - 1 /\ Len(queue[w]) \in Nat  BY TakesQueue
    <3>2. Len(queue[w]) <= QueueSize  BY DEF QueueOK
    <3>. QED  BY <2>1, <3>1, <3>2
  <2>2. CASE v # w
    <3>1. queue'[v] = queue[v]  BY <2>2, TakesQueue
    <3>. QED  BY <3>1 DEF QueueOK
  <2>. QED  BY <2>1, <2>2
<1>2. queue' \in [Writers -> Seq(Events \union {Poison})]  BY TakesQueue
<1>. QED  BY <1>1, <1>2 DEF QueueOK

LEMMA PutKeepsQueueOK ==
  ASSUME QueueOK, NEW w \in Writers, NEW e \in Events \union {Poison}, Put(w, e),
         Len(queue[w]) < QueueSize
  PROVE  QueueOK'
<1>1. ASSUME NEW v \in Writers PROVE Len(queue'[v]) <= QueueSize
  <2>1. CASE v = w
    <3>1. Len(queue'[w]) = Len(queue[w]) + 1  BY PutQueue
    <3>2. Len(queue[w]) \in Nat  BY DEF QueueOK
    <3>. QED  BY <2>1, <3>1, <3>2
  <2>2. CASE v # w
    <3>1. queue'[v] = queue[v]  BY <2>2, PutQueue
    <3>. QED  BY <3>1 DEF QueueOK
  <2>. QED  BY <2>1, <2>2
<1>2. queue' \in [Writers -> Seq(Events \union {Poison})]  BY PutQueue
<1>. QED  BY <1>1, <1>2 DEF QueueOK

(* An event has a number, the poison has none.                             *)
LEMMA PoisonIsNoEvent ==
  /\ Poison.seq = 0 /\ ~Poison.run
  /\ \A e \in Events : e.seq \in 1 .. MaxEvents /\ e # Poison
<1>1. Poison.seq = 0 /\ ~Poison.run  BY DEF Poison, NoEvent
<1>2. \A e \in Events : e.seq \in 1 .. MaxEvents  BY DEF Events
<1>. QED  BY <1>1, <1>2

(* An item that belongs to a run is an event.                              *)
LEMMA RunItemIsEvent ==
  ASSUME NEW e \in Events \union {Poison}, e.run
  PROVE  e \in Events
BY PoisonIsNoEvent

-----------------------------------------------------------------------------
LEMMA InitTypeInv == Init => TypeInv
<1>. SUFFICES ASSUME Init PROVE TypeInv  OBVIOUS
<1>1. pub \in [at : {"idle"}, event : {NoEvent}]  BY DEF Init
<1>2. queue \in [Writers -> Seq(Events \union {Poison})] /\ \A w \in Writers : Len(queue[w]) = 0
  BY DEF Init
<1>3. [at |-> "get", event |-> NoEvent] \in [at : {"get", "done", "dead"}, event : {NoEvent}]
  OBVIOUS
<1>4. worker \in [Writers -> [at : {"get", "done", "dead"}, event : {NoEvent}] \union
                           [at : {"decisions", "manifest"}, event : Events]]
  BY <1>3 DEF Init
<1>5. closing \in [at : {"no", "close", "flush", "join", "exited", "killed"}, writer : Writers]
  BY DEF Init, Stage, Writers
<1>. QED  BY <1>1, <1>2, <1>4, <1>5 DEF Init, TypeInv, TypeOK, CountsInv

(* Publishing and queueing keep the types.                                 *)
LEMMA PublishType ==
  ASSUME TypeInv, Publish
  PROVE  TypeInv'
<1>. USE DEF TypeInv, TypeOK, CountsInv
<1>1. ASSUME NEW kind \in Kinds, NEW dec \in Nat, NEW a, Emit(kind, dec, a),
             a \in [started : BOOLEAN, next : Nat, pending : Nat],
             a.next <= agent.next + 1, a.pending <= a.next, dec <= a.next
      PROVE  TypeInv'
  <2>1. seq' = seq + 1 /\ seq' \in 1 .. MaxEvents /\ agent' = a
    BY <1>1 DEF Emit
  <2>2. a.next <= seq' /\ a.next <= MaxEvents /\ a.pending <= MaxEvents /\ dec <= MaxEvents
    BY <1>1, <2>1
  <2>3. agent' \in [started : BOOLEAN, next : 0 .. MaxEvents, pending : 0 .. MaxEvents]
    BY <1>1, <2>1, <2>2
  <2>4. pub'.event \in Events /\ pub' = [at |-> "history", event |-> pub'.event]
    BY <1>1, <2>1, <2>2 DEF Emit, Events
  <2>. QED
    BY <1>1, <2>1, <2>2, <2>3, <2>4 DEF Emit, archiveVars, trainingVars, closeVars
<1>2. /\ agent \in [started : BOOLEAN, next : Nat, pending : Nat]
      /\ agent.next \in Nat /\ agent.pending \in Nat /\ agent.pending <= agent.next
  OBVIOUS
<1>. HIDE DEF TypeInv, TypeOK, CountsInv
<1>3. ASSUME NEW accepted \in BOOLEAN,
             Emit("decision_parsed", agent.next + 1,
                  [started |-> agent.started, next |-> agent.next + 1,
                   pending |-> IF accepted THEN agent.next + 1 ELSE agent.pending])
      PROVE  TypeInv'
  <2>. DEFINE p == IF accepted THEN agent.next + 1 ELSE agent.pending
              a == [started |-> agent.started, next |-> agent.next + 1, pending |-> p]
  <2>0. p \in Nat /\ p <= agent.next + 1  BY <1>2
  <2>. HIDE DEF p
  <2>1. a \in [started : BOOLEAN, next : Nat, pending : Nat]  BY <1>2, <2>0
  <2>2. a.next = agent.next + 1 /\ a.pending <= a.next  BY <2>0
  <2>3. Emit("decision_parsed", agent.next + 1, a)  BY <1>3 DEF p
  <2>. HIDE DEF a
  <2>. QED  BY <1>1, <1>2, <2>1, <2>2, <2>3 DEF Kinds
<1>4. CASE Emit("run_started", 0, [agent EXCEPT !.started = TRUE])
  <2>. DEFINE a == [agent EXCEPT !.started = TRUE]
  <2>1. /\ a \in [started : BOOLEAN, next : Nat, pending : Nat]
        /\ a.next = agent.next /\ a.pending = agent.pending
    BY <1>2
  <2>2. Emit("run_started", 0, a)  BY <1>4
  <2>. HIDE DEF a
  <2>. QED  BY <1>1, <1>2, <2>1, <2>2 DEF Kinds
<1>5. CASE Emit("state_received", 0, agent)
  BY <1>1, <1>2, <1>5 DEF Kinds
<1>6. CASE Emit("transition_observed", agent.pending, [agent EXCEPT !.pending = 0])
  BY <1>1, <1>2, <1>6 DEF Kinds
<1>7. CASE Emit("run_completed", 0, agent)
  BY <1>1, <1>2, <1>7 DEF Kinds
<1>. QED  BY <1>3, <1>4, <1>5, <1>6, <1>7 DEF Publish

LEMMA SinkStepType ==
  ASSUME TypeInv, SinkStep
  PROVE  TypeInv'
<1>. USE DEF TypeInv, TypeOK, CountsInv, SinkFrame, archiveVars, trainingVars, closeVars
<1>1. ASSUME NEW w \in Writers, pub.event \in Events, ~Full(w), Put(w, pub.event)
      PROVE  /\ queue' \in [Writers -> Seq(Events \union {Poison})]
             /\ \A v \in Writers : Len(queue'[v]) <= QueueSize
  <2>1. Len(queue[w]) < QueueSize  BY <1>1 DEF Full
  <2>2. QueueOK  BY DEF QueueOK
  <2>. HIDE DEF TypeInv, TypeOK
  <2>3. QueueOK'  BY <1>1, <2>1, <2>2, PutKeepsQueueOK
  <2>. QED  BY <2>3 DEF QueueOK
<1>2. ASSUME pub.event \in Events, Took
      PROVE  taken' \subseteq 1 .. MaxEvents
  BY <1>2, PoisonIsNoEvent DEF Took
<1>3. pub.at # "idle" => pub.event \in Events  OBVIOUS
<1>4. CASE EnqueueHistory
  <2>1. pub.event \in Events /\ pub' \in [at : {"history", "waiting", "training"}, event : Events]
    BY <1>3, <1>4 DEF EnqueueHistory, NextSink
  <2>2. CASE ~Full("history")
    BY <1>1, <1>2, <1>4, <2>1, <2>2 DEF EnqueueHistory, Writers
  <2>3. CASE Full("history")
    BY <1>4, <2>1, <2>3 DEF EnqueueHistory
  <2>. QED  BY <2>2, <2>3
<1>5. CASE WaitEnds
  <2>1. pub.event \in Events /\ pub' \in [at : {"history", "waiting", "training"}, event : Events]
    BY <1>3, <1>5 DEF WaitEnds, NextSink
  <2>2. CASE ~Full("history") /\ Put("history", pub.event) /\ Took
    BY <1>1, <1>2, <1>5, <2>1, <2>2 DEF WaitEnds, Writers
  <2>3. CASE UNCHANGED <<queue, taken>>
    BY <1>5, <2>1, <2>3 DEF WaitEnds
  <2>. QED  BY <1>5, <2>2, <2>3 DEF WaitEnds
<1>6. CASE EnqueueTraining
  <2>1. pub.event \in Events  BY <1>3, <1>6 DEF EnqueueTraining
  <2>2. CASE ~Full("training")
    BY <1>1, <1>6, <2>1, <2>2 DEF EnqueueTraining, Writers
  <2>3. CASE Full("training")
    BY <1>6, <2>3 DEF EnqueueTraining
  <2>. QED  BY <2>2, <2>3
<1>. QED  BY <1>4, <1>5, <1>6 DEF SinkStep

(* So do the steps of the two writers.                                     *)
LEMMA WorkerStepType ==
  ASSUME TypeInv, WorkerStep
  PROVE  TypeInv'
<1>. USE DEF TypeInv, TypeOK, CountsInv, WorkerFrame, busVars, archiveVars, trainingVars,
             closeVars
<1>. DEFINE Stages == [at : {"get", "done", "dead"}, event : {NoEvent}] \union
                      [at : {"decisions", "manifest"}, event : Events]
<1>1. ASSUME NEW w \in Writers, Takes(w)
      PROVE  /\ queue' \in [Writers -> Seq(Events \union {Poison})]
             /\ \A v \in Writers : Len(queue'[v]) <= QueueSize
             /\ Item(w) \in Events \union {Poison}
  <2>1. QueueOK  BY DEF QueueOK
  <2>. HIDE DEF TypeInv, TypeOK
  <2>2. QueueOK' /\ Item(w) \in Events \union {Poison}
    BY <1>1, <2>1, TakesQueue, TakesKeepsQueueOK
  <2>. QED  BY <2>2 DEF QueueOK
<1>2. ASSUME NEW w \in Writers, NEW at \in {"get", "done", "dead"}, At(w, at, NoEvent)
      PROVE  worker' \in [Writers -> Stages]
  <2>1. [at |-> at, event |-> NoEvent] \in Stages  OBVIOUS
  <2>. QED  BY <1>2, <2>1 DEF At
<1>3. ASSUME NEW at \in {"decisions", "manifest"}, NEW e \in Events, At("history", at, e)
      PROVE  worker' \in [Writers -> Stages]
  <2>1. [at |-> at, event |-> e] \in Stages  OBVIOUS
  <2>. QED  BY <1>3, <2>1 DEF At
<1>4. ASSUME NEW w \in Writers, EndsOrSkips(w) PROVE TypeInv'
  BY <1>1, <1>2, <1>4 DEF EndsOrSkips
<1>5. ASSUME NEW w \in Writers, TakeFails(w) PROVE TypeInv'
  BY <1>1, <1>2, <1>5 DEF TakeFails
<1>6. CASE HistoryTakes
  <2>1. "history" \in Writers /\ Takes("history")  BY <1>6 DEF HistoryTakes, Writers
  <2>2. Item("history") \in Events  BY <1>1, <1>6, <2>1, RunItemIsEvent DEF HistoryTakes
  <2>3. events' \in Seq(Events)  BY <1>6, <2>2 DEF HistoryTakes
  <2>4. worker' \in [Writers -> Stages]  BY <1>3, <1>6, <2>2 DEF HistoryTakes
  <2>. QED  BY <1>1, <1>6, <2>1, <2>3, <2>4 DEF HistoryTakes
<1>7. worker["history"].at \in {"decisions", "manifest"} => worker["history"].event \in Events
  BY DEF Writers
<1>8. CASE HistoryWritesDecision
  <2>1. worker["history"].event \in Events  BY <1>7, <1>8 DEF HistoryWritesDecision
  <2>2. decisions' \in Seq(Events)  BY <1>8, <2>1 DEF HistoryWritesDecision
  <2>3. worker' \in [Writers -> Stages]  BY <1>3, <1>8, <2>1 DEF HistoryWritesDecision
  <2>. QED  BY <1>8, <2>2, <2>3 DEF HistoryWritesDecision
<1>9. CASE HistoryWritesManifest
  <2>1. worker["history"].event \in Events  BY <1>7, <1>9 DEF HistoryWritesManifest
  <2>2. manifest' \in [last : 0 .. MaxEvents, completed : BOOLEAN]
    <3>. DEFINE e == worker["history"].event
                done == manifest.completed \/ e.kind = "run_completed"
    <3>1. done \in BOOLEAN  OBVIOUS
    <3>2. e.seq \in 0 .. MaxEvents  BY <2>1 DEF Events
    <3>3. manifest' = [last |-> e.seq, completed |-> done]
      BY <1>9 DEF HistoryWritesManifest, Recorded
    <3>. HIDE DEF done
    <3>. QED  BY <3>1, <3>2, <3>3
  <2>3. worker' \in [Writers -> Stages]  BY <1>2, <1>9 DEF HistoryWritesManifest, Writers
  <2>. QED  BY <1>9, <2>2, <2>3 DEF HistoryWritesManifest
<1>10. CASE TrainingTakes
  <2>. DEFINE e == Item("training")
              made == {d \in known : d.dec = e.dec}
  <2>1. "training" \in Writers /\ Takes("training")  BY <1>10 DEF TrainingTakes, Writers
  <2>2. e \in Events  BY <1>1, <1>10, <2>1, RunItemIsEvent DEF TrainingTakes
  <2>3. known' \subseteq Events  BY <1>10, <2>2 DEF TrainingTakes
  <2>4. rows' \in Seq([made : Events, seen : Events])
    <3>1. CASE e.kind = "transition_observed" /\ made # {}
      <4>. DEFINE d == CHOOSE x \in made : TRUE
      <4>1. d \in Events  BY <3>1
      <4>2. rows' = Append(rows, [made |-> d, seen |-> e])  BY <1>10, <3>1 DEF TrainingTakes
      <4>3. [made |-> d, seen |-> e] \in [made : Events, seen : Events]  BY <2>2, <4>1
      <4>. QED  BY <4>2, <4>3
    <3>2. CASE ~(e.kind = "transition_observed" /\ made # {})
      BY <1>10, <3>2 DEF TrainingTakes
    <3>. QED  BY <3>1, <3>2
  <2>5. worker' \in [Writers -> Stages]  BY <1>2, <1>10, <2>1 DEF TrainingTakes
  <2>. QED  BY <1>1, <1>10, <2>1, <2>3, <2>4, <2>5 DEF TrainingTakes
<1>11. CASE WriteFails
  BY <1>2, <1>11 DEF WriteFails, Writers
<1>. QED  BY <1>4, <1>5, <1>6, <1>8, <1>9, <1>10, <1>11 DEF WorkerStep

(* So does everything that belongs to shutting down.                       *)
LEMMA CloseType ==
  ASSUME TypeInv, Stop \/ CloserStep \/ Killed
  PROVE  TypeInv'
<1>. USE DEF TypeInv, TypeOK, CountsInv, CloseFrame, busVars, archiveVars, trainingVars, Stage
<1>1. CASE Stop  BY <1>1 DEF Stop, Writers
<1>2. CASE Killed  BY <1>2 DEF Killed, Writers
<1>3. ASSUME NEW w \in Writers, NextCloser(w)
      PROVE  closing' \in [at : {"close", "exited"}, writer : Writers]
  BY <1>3 DEF NextCloser, Writers
<1>4. ASSUME NEW w \in Writers, Close(w) PROVE TypeInv'
  BY <1>3, <1>4 DEF Close
<1>5. ASSUME NEW w \in Writers, Flushed(w) PROVE TypeInv'
  <2>1. Len(queue[w]) = 0  BY <1>5 DEF Flushed
  <2>2. /\ queue' \in [Writers -> Seq(Events \union {Poison})]
        /\ \A v \in Writers : Len(queue'[v]) <= QueueSize
    <3>1. QueueOK  BY DEF QueueOK
    <3>2. Put(w, Poison) /\ Len(queue[w]) < QueueSize  BY <1>5, <2>1 DEF Flushed
    <3>3. Poison \in Events \union {Poison}  OBVIOUS
    <3>. HIDE DEF TypeInv, TypeOK
    <3>4. QueueOK'  BY <3>1, <3>2, <3>3, PutKeepsQueueOK
    <3>. QED  BY <3>4 DEF QueueOK
  <2>. QED  BY <1>5, <2>2 DEF Flushed
<1>6. ASSUME NEW w \in Writers, FlushTimesOut(w) PROVE TypeInv'
  BY <1>3, <1>6 DEF FlushTimesOut
<1>7. ASSUME NEW w \in Writers, Joined(w) PROVE TypeInv'
  BY <1>3, <1>7 DEF Joined
<1>. QED  BY <1>1, <1>2, <1>4, <1>5, <1>6, <1>7 DEF CloserStep

LEMMA NextTypeInv == TypeInv /\ [Next]_vars => TypeInv'
<1>. SUFFICES ASSUME TypeInv, [Next]_vars PROVE TypeInv'  OBVIOUS
<1>1. CASE UNCHANGED vars
  BY <1>1 DEF TypeInv, TypeOK, CountsInv, vars, busVars, archiveVars, trainingVars, closeVars
<1>. QED
  BY <1>1, PublishType, SinkStepType, WorkerStepType, CloseType DEF Next

(* The values of the variables are as TypeOK says: in particular no queue  *)
(* ever holds more than its capacity, and no decision is numbered beyond   *)
(* the events that were published.                                         *)
THEOREM TypeCorrect == Spec => []TypeOK
<1>1. TypeInv => TypeOK  BY DEF TypeInv
<1>. QED  BY <1>1, InitTypeInv, NextTypeInv, PTL DEF Spec

-----------------------------------------------------------------------------
(* The order of the events, in one lemma per way the queues change.  First *)
(* what the events of the pipeline are.                                    *)
LEMMA StreamTypes ==
  ASSUME TypeOK, NEW w \in Writers
  PROVE  /\ Len(queue[w]) \in Nat
         /\ \A i \in 1 .. Len(queue[w]) : queue[w][i] \in Events \union {Poison}
         /\ Processed(w) \subseteq Events
<1>1. queue[w] \in Seq(Events \union {Poison})  BY DEF TypeOK
<1>2. {events[i] : i \in 1 .. Len(events)} \subseteq Events  BY DEF TypeOK
<1>3. known \subseteq Events  BY DEF TypeOK
<1>4. \A i \in 1 .. Len(rows) : rows[i].seen \in Events
  <2>. DEFINE Samples == [made : Events, seen : Events]
  <2>1. rows \in Seq(Samples)  BY DEF TypeOK
  <2>2. \A x \in Samples : x.seen \in Events  OBVIOUS
  <2>. HIDE DEF Samples
  <2>3. \A i \in 1 .. Len(rows) : rows[i] \in Samples  BY <2>1
  <2>. QED  BY <2>2, <2>3
<1>. QED  BY <1>1, <1>2, <1>3, <1>4 DEF Processed

LEMMA EventFields ==
  ASSUME NEW e \in Events \union {Poison}
  PROVE  e.seq \in 0 .. MaxEvents /\ e.dec \in 0 .. MaxEvents
BY DEF Events, Poison, NoEvent

LEMMA InitOrderInv == Init => OrderInv
<1>. SUFFICES ASSUME Init PROVE OrderInv  OBVIOUS
<1>1. ASSUME NEW w \in Writers PROVE Len(queue[w]) = 0 /\ Processed(w) = {} /\ ~Coming(w)
  BY <1>1 DEF Init, Processed, Coming
<1>2. pub.at = "idle"  BY DEF Init
<1>. QED  BY <1>1, <1>2 DEF OrderInv, StreamInv

(* What was published so far precedes a new event.                         *)
LEMMA EmitOrder ==
  ASSUME TypeInv, OrderInv, Publish
  PROVE  OrderInv'
<1>. DEFINE Emitted ==
       /\ UNCHANGED <<queue, events, known, rows>>
       /\ seq' = seq + 1 /\ pub'.at = "history" /\ pub'.event.seq = seq'
       /\ agent.next <= agent'.next
       /\ \/ agent'.pending = 0 \/ agent'.pending = agent.pending
          \/ agent'.pending = agent'.next /\ agent'.next = agent.next + 1
       /\ pub'.event.kind = "transition_observed"
            => /\ agent.pending # 0 /\ agent'.pending = 0
               /\ agent'.next = agent.next /\ pub'.event.dec = agent.pending
<1>1. Emitted
  <2>. USE DEF Emit, archiveVars, trainingVars
  <2>0. agent \in [started : BOOLEAN, next : 0 .. MaxEvents, pending : 0 .. MaxEvents]
    BY DEF TypeInv, TypeOK
  <2>1. CASE Emit("run_started", 0, [agent EXCEPT !.started = TRUE])  BY <2>0, <2>1
  <2>2. CASE Emit("state_received", 0, agent)  BY <2>0, <2>2
  <2>3. CASE agent.pending # 0 /\ Emit("transition_observed", agent.pending,
                                       [agent EXCEPT !.pending = 0])
    BY <2>0, <2>3
  <2>4. CASE Emit("run_completed", 0, agent)  BY <2>0, <2>4
  <2>5. ASSUME NEW accepted \in BOOLEAN,
               Emit("decision_parsed", agent.next + 1,
                    [started |-> agent.started, next |-> agent.next + 1,
                     pending |-> IF accepted THEN agent.next + 1 ELSE agent.pending])
        PROVE  Emitted
    BY <2>0, <2>5
  <2>. HIDE DEF Emitted
  <2>. QED  BY <2>1, <2>2, <2>3, <2>4, <2>5 DEF Publish
<1>2. ASSUME NEW e \in Events \union {Poison}, Past(e)
      PROVE  Past(e)' /\ InOrder(e, pub'.event)
  <2>1. /\ seq \in Nat /\ agent.next \in Nat /\ agent.pending \in Nat
        /\ agent'.next \in Nat /\ agent.pending <= agent.next
    BY PublishType DEF TypeInv, TypeOK, CountsInv
  <2>2. e.seq \in Nat /\ e.dec \in Nat  BY EventFields
  <2>3. e.seq < seq' /\ e.seq <= seq'  BY <1>1, <1>2, <2>1, <2>2 DEF Past
  <2>4. e.kind = "transition_observed"
          => e.dec <= agent'.next /\ (agent'.pending # 0 => e.dec < agent'.pending)
    BY <1>1, <1>2, <2>1, <2>2 DEF Past
  <2>5. e.kind = "transition_observed" /\ pub'.event.kind = "transition_observed"
          => e.dec < pub'.event.dec
    BY <1>1, <1>2 DEF Past
  <2>. QED  BY <1>1, <2>3, <2>4, <2>5 DEF Past, InOrder
<1>3. Past(pub.event)'
  BY <1>1 DEF Past, TypeInv, TypeOK, CountsInv
<1>4. ASSUME NEW w \in Writers PROVE StreamInv(w)'
  <2>1. Processed(w)' = Processed(w)  BY <1>1 DEF Processed
  <2>2. TypeOK /\ StreamInv(w)  BY DEF OrderInv, TypeInv
  <2>3. \A e \in Processed(w) : Past(e)' /\ InOrder(e, pub'.event)
    <3>1. Processed(w) \subseteq Events /\ \A e \in Processed(w) : Past(e)
      BY <2>2, StreamTypes DEF StreamInv
    <3>. QED  BY <1>2, <3>1
  <2>4. \A i \in 1 .. Len(queue[w]) : Past(queue[w][i])' /\ InOrder(queue[w][i], pub'.event)
    <3>1. \A i \in 1 .. Len(queue[w]) : queue[w][i] \in Events \union {Poison} /\ Past(queue[w][i])
      BY <2>2, StreamTypes DEF StreamInv
    <3>. QED  BY <1>1, <1>2, <3>1 DEF Past
  <2>5. queue' = queue  BY <1>1
  <2>. QED  BY <2>1, <2>2, <2>3, <2>4, <2>5 DEF StreamInv, InOrder, Past
<1>. QED  BY <1>3, <1>4 DEF OrderInv

(* A sink that is handed an event, and keeps it or not.                    *)
LEMMA PutOrder ==
  ASSUME TypeInv, OrderInv, UNCHANGED <<seq, agent, events, known, rows>>,
         pub'.at # "idle" => pub.at # "idle" /\ pub'.event = pub.event,
         \A w \in Writers : Coming(w)' => Coming(w),
         \/ UNCHANGED queue
         \/ \E w \in Writers : Coming(w) /\ ~Coming(w)' /\ pub.event \in Events
                                /\ Put(w, pub.event)
         \/ \E w \in Writers : Put(w, Poison)
  PROVE  OrderInv'
<1>1. \A e : Past(e)' <=> Past(e)  BY DEF Past
<1>2. (pub.at # "idle" => Past(pub.event))'  BY <1>1 DEF OrderInv, Past
<1>3. ASSUME NEW v \in Writers PROVE StreamInv(v)'
  <2>1. Processed(v)' = Processed(v)  BY DEF Processed
  <2>2. TypeOK /\ QueueOK /\ StreamInv(v)  BY DEF OrderInv, TypeInv, TypeOK, QueueOK
  <2>3. Coming(v)' => pub'.event = pub.event
    BY DEF Coming, Writers
  <2>4. CASE queue'[v] = queue[v]
    BY <1>1, <2>1, <2>2, <2>3, <2>4 DEF StreamInv, Past, InOrder
  <2>5. ASSUME NEW e \in Events \union {Poison}, Put(v, e), Past(e), Coming(v)' => e = Poison,
               \A d \in Processed(v) : InOrder(d, e),
               \A i \in 1 .. Len(queue[v]) : InOrder(queue[v][i], e)
        PROVE  StreamInv(v)'
    <3>1. /\ Len(queue'[v]) = Len(queue[v]) + 1 /\ queue'[v][Len(queue[v]) + 1] = e
          /\ \A i \in 1 .. Len(queue[v]) : queue'[v][i] = queue[v][i]
      BY <2>2, <2>5, PutQueue
    <3>2. Len(queue[v]) \in Nat  BY <2>2, StreamTypes
    <3>3. \A i \in 1 .. Len(queue'[v]) : i \in 1 .. Len(queue[v]) \/ i = Len(queue[v]) + 1
      BY <3>1, <3>2
    <3>4. \A i, j \in 1 .. Len(queue'[v]) : i < j => InOrder(queue'[v][i], queue'[v][j])
      <4>1. ASSUME NEW i \in 1 .. Len(queue'[v]), NEW j \in 1 .. Len(queue'[v]), i < j
            PROVE  InOrder(queue'[v][i], queue'[v][j])
        <5>1. i \in 1 .. Len(queue[v])  BY <3>1, <3>2, <4>1
        <5>2. CASE j \in 1 .. Len(queue[v])  BY <2>2, <3>1, <4>1, <5>1, <5>2 DEF StreamInv
        <5>3. CASE j = Len(queue[v]) + 1  BY <2>5, <3>1, <5>1, <5>3
        <5>. QED  BY <3>3, <5>2, <5>3
      <4>. QED  BY <4>1
    <3>5. \A d \in Processed(v) : Past(d) /\ \A j \in 1 .. Len(queue'[v]) : InOrder(d, queue'[v][j])
      BY <2>2, <2>5, <3>1, <3>3 DEF StreamInv
    <3>6. \A i \in 1 .. Len(queue'[v]) : Past(queue'[v][i])
      BY <2>2, <2>5, <3>1, <3>3 DEF StreamInv
    <3>7. Coming(v)' => /\ \A d \in Processed(v) : InOrder(d, pub'.event)
                        /\ \A i \in 1 .. Len(queue'[v]) : InOrder(queue'[v][i], pub'.event)
      <4>1. Coming(v)' => Coming(v) /\ e = Poison /\ pub'.event = pub.event  BY <2>3, <2>5
      <4>2. Coming(v)' => pub.event \in Events
        BY <4>1 DEF TypeInv, TypeOK, Coming
      <4>3. Coming(v)' => InOrder(Poison, pub.event)
        BY <4>2, EventFields DEF InOrder, Poison, NoEvent
      <4>. QED  BY <2>2, <3>1, <3>3, <4>1, <4>3 DEF StreamInv
    <3>. QED  BY <1>1, <2>1, <3>4, <3>5, <3>6, <3>7 DEF StreamInv, InOrder, Past
  <2>6. ASSUME Put(v, Poison) PROVE StreamInv(v)'
    <3>1. Past(Poison)
      BY DEF Past, Poison, NoEvent, TypeInv, TypeOK
    <3>2. \A d : InOrder(d, Poison)  BY DEF InOrder, Poison, NoEvent
    <3>. QED  BY <2>5, <2>6, <3>1, <3>2
  <2>7. ASSUME Coming(v), ~Coming(v)', pub.event \in Events, Put(v, pub.event)
        PROVE  StreamInv(v)'
    <3>1. Past(pub.event)  BY <2>7 DEF OrderInv, Coming
    <3>. QED  BY <2>2, <2>5, <2>7, <3>1 DEF StreamInv
  <2>8. ASSUME NEW w \in Writers, NEW e, Put(w, e), w # v PROVE queue'[v] = queue[v]
    BY <2>2, <2>8 DEF Put, QueueOK
  <2>. QED  BY <2>4, <2>6, <2>7, <2>8
<1>. QED  BY <1>2, <1>3 DEF OrderInv

(* A writer that takes an item.                                            *)
LEMMA TakeOrder ==
  ASSUME TypeInv, OrderInv, NEW w \in Writers, Takes(w), UNCHANGED busVars,
         Processed(w)' \subseteq Processed(w) \union {Item(w)},
         \A v \in Writers \ {w} : Processed(v)' = Processed(v)
  PROVE  OrderInv'
<1>1. \A e : Past(e)' <=> Past(e)  BY DEF Past, busVars
<1>2. pub' = pub /\ \A v \in Writers : Coming(v)' <=> Coming(v)  BY DEF busVars, Coming
<1>3. TypeOK /\ QueueOK  BY DEF TypeInv, TypeOK, QueueOK
<1>4. ASSUME NEW v \in Writers, v # w PROVE StreamInv(v)'
  <2>1. queue'[v] = queue[v]  BY <1>3, <1>4, TakesQueue
  <2>2. StreamInv(v) /\ Processed(v)' = Processed(v)  BY <1>4 DEF OrderInv
  <2>. QED  BY <1>1, <1>2, <2>1, <2>2 DEF StreamInv, Past, InOrder
<1>5. StreamInv(w)'
  <2>1. /\ Len(queue[w]) \in Nat \ {0} /\ Item(w) = queue[w][1]
        /\ Len(queue'[w]) = Len(queue[w]) - 1
        /\ \A i \in 1 .. Len(queue'[w]) : queue'[w][i] = queue[w][i + 1]
    BY <1>3, TakesQueue
  <2>2. StreamInv(w)  BY DEF OrderInv
  <2>3. \A i \in 1 .. Len(queue'[w]) : i + 1 \in 1 .. Len(queue[w]) /\ 1 < i + 1
    BY <2>1
  <2>4. 1 \in 1 .. Len(queue[w])  BY <2>1
  <2>5. \A i, j \in 1 .. Len(queue'[w]) : i < j => InOrder(queue'[w][i], queue'[w][j])
    BY <2>1, <2>2, <2>3 DEF StreamInv
  <2>6. \A i \in 1 .. Len(queue'[w]) : Past(queue'[w][i]) /\ InOrder(Item(w), queue'[w][i])
    BY <2>1, <2>2, <2>3, <2>4 DEF StreamInv
  <2>7. Past(Item(w)) /\ (Coming(w) => InOrder(Item(w), pub.event))
    BY <2>1, <2>2, <2>4 DEF StreamInv
  <2>8. \A e \in Processed(w) : \A i \in 1 .. Len(queue'[w]) : InOrder(e, queue'[w][i])
    BY <2>1, <2>2, <2>3 DEF StreamInv
  <2>9. Coming(w) => \A i \in 1 .. Len(queue'[w]) : InOrder(queue'[w][i], pub.event)
    BY <2>1, <2>2, <2>3 DEF StreamInv
  <2>10. \A e \in Processed(w)' :
           /\ Past(e) /\ \A i \in 1 .. Len(queue'[w]) : InOrder(e, queue'[w][i])
           /\ Coming(w) => InOrder(e, pub.event)
    BY <2>2, <2>6, <2>7, <2>8 DEF StreamInv
  <2>. QED  BY <1>1, <1>2, <2>5, <2>6, <2>9, <2>10 DEF StreamInv, Past, InOrder
<1>6. (pub.at # "idle" => Past(pub.event))'  BY <1>1, <1>2 DEF OrderInv, Past
<1>. QED  BY <1>4, <1>5, <1>6 DEF OrderInv

LEMMA NextOrderInv == TypeInv /\ OrderInv /\ [Next]_vars => OrderInv'
<1>. SUFFICES ASSUME TypeInv, OrderInv, [Next]_vars PROVE OrderInv'  OBVIOUS
<1>. USE DEF archiveVars, trainingVars, closeVars
<1>1. CASE Publish  BY <1>1, EmitOrder
<1>2. ASSUME UNCHANGED <<busVars, queue, events, known, rows>> PROVE OrderInv'
  BY <1>2, PutOrder DEF busVars, Coming
<1>3. pub.at # "idle" => pub.event \in Events  BY DEF TypeInv, TypeOK
<1>4. CASE EnqueueHistory
  <2>1. "history" \in Writers /\ Coming("history") /\ pub.event \in Events
    BY <1>3, <1>4 DEF EnqueueHistory, Writers, Coming
  <2>2. /\ UNCHANGED <<seq, agent, events, known, rows>>
        /\ pub'.at \in {"waiting", "training"} /\ pub'.event = pub.event
    BY <1>4 DEF EnqueueHistory, SinkFrame, NextSink, TypeInv, TypeOK
  <2>3. \A w \in Writers : Coming(w)' => Coming(w)
    BY <1>4, <2>2 DEF Coming, Writers, EnqueueHistory
  <2>4. UNCHANGED queue \/ (Put("history", pub.event) /\ ~Coming("history")')
    BY <1>4 DEF EnqueueHistory, NextSink, Coming, TypeInv, TypeOK
  <2>. QED  BY <1>4, <2>1, <2>2, <2>3, <2>4, PutOrder DEF EnqueueHistory
<1>5. CASE WaitEnds
  <2>1. "history" \in Writers /\ Coming("history") /\ pub.event \in Events
    BY <1>3, <1>5 DEF WaitEnds, Writers, Coming
  <2>2. /\ UNCHANGED <<seq, agent, events, known, rows>>
        /\ pub'.at = "training" /\ pub'.event = pub.event
    BY <1>5 DEF WaitEnds, SinkFrame, NextSink, TypeInv, TypeOK
  <2>3. \A w \in Writers : Coming(w)' => Coming(w)
    BY <1>5, <2>2 DEF Coming, Writers, WaitEnds
  <2>4. UNCHANGED queue \/ Put("history", pub.event)  BY <1>5 DEF WaitEnds
  <2>5. ~Coming("history")'  BY <2>2 DEF Coming
  <2>. QED  BY <1>5, <2>1, <2>2, <2>3, <2>4, <2>5, PutOrder DEF WaitEnds
<1>6. CASE EnqueueTraining
  <2>1. "training" \in Writers /\ Coming("training") /\ pub.event \in Events
    BY <1>3, <1>6 DEF EnqueueTraining, Writers, Coming
  <2>2. UNCHANGED <<seq, agent, events, known, rows>> /\ pub'.at = "idle"
    BY <1>6 DEF EnqueueTraining, SinkFrame
  <2>3. \A w \in Writers : ~Coming(w)'  BY <2>2 DEF Coming
  <2>4. UNCHANGED queue \/ Put("training", pub.event)  BY <1>6 DEF EnqueueTraining
  <2>. QED  BY <2>1, <2>2, <2>3, <2>4, PutOrder
<1>7. ASSUME NEW w \in Writers, EndsOrSkips(w) \/ TakeFails(w) PROVE OrderInv'
  <2>1. Takes(w) /\ UNCHANGED <<busVars, events, known, rows>>
    BY <1>7 DEF EndsOrSkips, TakeFails, WorkerFrame
  <2>2. \A v \in Writers : Processed(v)' = Processed(v)  BY <2>1 DEF Processed
  <2>. QED  BY <2>1, <2>2, TakeOrder
<1>8. CASE HistoryTakes
  <2>1. "history" \in Writers /\ Takes("history") /\ UNCHANGED <<busVars, known, rows>>
    BY <1>8 DEF HistoryTakes, WorkerFrame, Writers
  <2>2. Processed("training")' = Processed("training")  BY <2>1 DEF Processed
  <2>3. Processed("history")' \subseteq Processed("history") \union {Item("history")}
    <3>1. TypeOK /\ QueueOK /\ events \in Seq(Events)  BY DEF TypeInv, TypeOK, QueueOK
    <3>2. Item("history") \in Events
      BY <1>8, <2>1, <3>1, TakesQueue, RunItemIsEvent DEF HistoryTakes
    <3>3. events' = Append(events, Item("history"))  BY <1>8 DEF HistoryTakes
    <3>4. \A i \in 1 .. Len(events') : \/ i \in 1 .. Len(events) /\ events'[i] = events[i]
                                       \/ events'[i] = Item("history")
      BY <3>1, <3>2, <3>3
    <3>. QED  BY <3>4 DEF Processed
  <2>. QED  BY <2>1, <2>2, <2>3, TakeOrder DEF Writers
<1>9. CASE TrainingTakes
  <2>. DEFINE e == Item("training")
              made == {d \in known : d.dec = e.dec}
  <2>1. "training" \in Writers /\ Takes("training") /\ UNCHANGED <<busVars, events>>
    BY <1>9 DEF TrainingTakes, WorkerFrame, Writers
  <2>2. Processed("history")' = Processed("history")  BY <2>1 DEF Processed
  <2>3. known' \subseteq known \union {e}  BY <1>9 DEF TrainingTakes
  <2>4. \A i \in 1 .. Len(rows') : rows'[i].seen \in Processed("training") \union {e}
    <3>1. TypeOK /\ rows \in Seq([made : Events, seen : Events])  BY DEF TypeInv, TypeOK
    <3>2. \A i \in 1 .. Len(rows) : rows[i].seen \in Processed("training")  BY DEF Processed
    <3>3. CASE e.kind = "transition_observed" /\ made # {}
      <4>. DEFINE r == [made |-> CHOOSE d \in made : TRUE, seen |-> e]
      <4>1. rows' = Append(rows, r) /\ r.seen = e  BY <1>9, <3>3 DEF TrainingTakes
      <4>. HIDE DEF r
      <4>2. \A i \in 1 .. Len(rows') : \/ i \in 1 .. Len(rows) /\ rows'[i] = rows[i]
                                       \/ rows'[i] = r
        BY <3>1, <4>1
      <4>. QED  BY <3>2, <4>1, <4>2
    <3>4. CASE ~(e.kind = "transition_observed" /\ made # {})
      BY <1>9, <3>2, <3>4 DEF TrainingTakes
    <3>. QED  BY <3>3, <3>4
  <2>5. Processed("training")' \subseteq Processed("training") \union {e}
    BY <2>3, <2>4 DEF Processed
  <2>. QED  BY <2>1, <2>2, <2>5, TakeOrder DEF Writers
<1>10. CASE HistoryWritesDecision \/ HistoryWritesManifest \/ WriteFails
  BY <1>2, <1>10 DEF HistoryWritesDecision, HistoryWritesManifest, WriteFails, WorkerFrame
<1>11. CASE Stop
  <2>1. UNCHANGED <<seq, agent, queue, events, known, rows>> /\ pub'.at = "idle"
    BY <1>11 DEF Stop
  <2>2. \A w \in Writers : ~Coming(w)'  BY <2>1 DEF Coming
  <2>. QED  BY <2>1, <2>2, PutOrder
<1>15. CASE Killed
  BY <1>2, <1>15 DEF Killed, CloseFrame
<1>12. ASSUME NEW w \in Writers, Close(w) \/ FlushTimesOut(w) \/ Joined(w) PROVE OrderInv'
  BY <1>2, <1>12 DEF Close, FlushTimesOut, Joined, CloseFrame
<1>13. ASSUME NEW w \in Writers, Flushed(w) PROVE OrderInv'
  BY <1>13, PutOrder DEF Flushed, CloseFrame, busVars, Coming
<1>14. CASE UNCHANGED vars  BY <1>2, <1>14 DEF vars
<1>. QED
  BY <1>1, <1>4, <1>5, <1>6, <1>7, <1>8, <1>9, <1>10, <1>11, <1>12, <1>13, <1>14, <1>15
     DEF Next, SinkStep, WorkerStep, CloserStep

-----------------------------------------------------------------------------
(* The pairing of the training samples.                                    *)
LEMMA NextSamplesInv == TypeInv /\ OrderInv /\ SamplesInv /\ [Next]_vars => SamplesInv'
<1>. SUFFICES ASSUME TypeInv, OrderInv, SamplesInv, [Next]_vars PROVE SamplesInv'  OBVIOUS
<1>1. ASSUME UNCHANGED rows PROVE SamplesInv'  BY <1>1 DEF SamplesInv
<1>2. CASE TrainingTakes
  <2>. DEFINE e == Item("training")
              made == {d \in known : d.dec = e.dec}
  <2>1. "training" \in Writers /\ Takes("training") /\ e.run
    BY <1>2 DEF TrainingTakes, Writers
  <2>2. TypeOK /\ QueueOK /\ rows \in Seq([made : Events, seen : Events])
    BY DEF TypeInv, TypeOK, QueueOK
  <2>3. e = queue["training"][1] /\ 1 \in 1 .. Len(queue["training"]) /\ e \in Events
    BY <2>1, <2>2, TakesQueue, RunItemIsEvent
  <2>4. \A d \in Processed("training") : InOrder(d, e)
    BY <2>1, <2>3 DEF OrderInv, StreamInv
  <2>5. e.seq # 0  BY <2>3, PoisonIsNoEvent
  <2>6. CASE e.kind = "transition_observed" /\ made # {}
    <3>. DEFINE d == CHOOSE x \in made : TRUE
                r == [made |-> d, seen |-> e]
    <3>1. d \in known /\ d.dec = e.dec  BY <2>6
    <3>2. d.seq < e.seq  BY <2>4, <2>5, <3>1 DEF Processed, InOrder
    <3>3. \A i \in 1 .. Len(rows) : rows[i].seen.dec < e.dec
      BY <2>4, <2>5, <2>6 DEF Processed, InOrder, SamplesInv
    <3>4. rows' = Append(rows, r)  BY <1>2, <2>6 DEF TrainingTakes
    <3>5. /\ r.made.dec = r.seen.dec /\ r.made.seq < r.seen.seq /\ r.seen.dec = e.dec
          /\ r.seen.kind = "transition_observed"
      BY <2>6, <3>1, <3>2
    <3>. HIDE DEF r
    <3>6. /\ Len(rows') = Len(rows) + 1 /\ rows'[Len(rows) + 1] = r /\ Len(rows) \in Nat
          /\ \A i \in 1 .. Len(rows) : rows'[i] = rows[i]
      BY <2>2, <3>4
    <3>7. \A i \in 1 .. Len(rows') : i \in 1 .. Len(rows) \/ i = Len(rows) + 1  BY <3>6
    <3>8. \A i \in 1 .. Len(rows') : /\ rows'[i].made.dec = rows'[i].seen.dec
                                     /\ rows'[i].made.seq < rows'[i].seen.seq
                                     /\ rows'[i].seen.kind = "transition_observed"
      BY <3>5, <3>6, <3>7 DEF SamplesInv
    <3>9. ASSUME NEW i \in 1 .. Len(rows'), NEW j \in 1 .. Len(rows'), i < j
          PROVE  rows'[i].seen.dec < rows'[j].seen.dec
      <4>1. i \in 1 .. Len(rows)  BY <3>6, <3>9
      <4>2. CASE j \in 1 .. Len(rows)  BY <3>6, <3>9, <4>1, <4>2 DEF SamplesInv
      <4>3. CASE j = Len(rows) + 1  BY <3>3, <3>5, <3>6, <4>1, <4>3
      <4>. QED  BY <3>7, <4>2, <4>3
    <3>. QED  BY <3>8, <3>9 DEF SamplesInv
  <2>7. CASE ~(e.kind = "transition_observed" /\ made # {})
    BY <1>1, <1>2, <2>7 DEF TrainingTakes
  <2>. QED  BY <2>6, <2>7
<1>3. CASE Publish  BY <1>1, <1>3 DEF Publish, Emit, trainingVars
<1>4. CASE SinkStep
  BY <1>1, <1>4 DEF SinkStep, EnqueueHistory, WaitEnds, EnqueueTraining, SinkFrame, trainingVars
<1>5. CASE WorkerStep
  BY <1>1, <1>2, <1>5 DEF WorkerStep, EndsOrSkips, TakeFails, HistoryTakes, HistoryWritesDecision,
                          HistoryWritesManifest, WriteFails, trainingVars
<1>6. CASE Stop \/ CloserStep \/ Killed
  BY <1>1, <1>6 DEF Stop, CloserStep, Close, Flushed, FlushTimesOut, Joined, Killed,
                    CloseFrame, trainingVars
<1>7. CASE UNCHANGED vars  BY <1>1, <1>7 DEF vars, trainingVars
<1>. QED  BY <1>3, <1>4, <1>5, <1>6, <1>7 DEF Next

(* The archive of a run.                                                   *)
LEMMA NextArchiveInv == TypeInv /\ OrderInv /\ ArchiveInv /\ [Next]_vars => ArchiveInv'
<1>. SUFFICES ASSUME TypeInv, OrderInv, ArchiveInv, [Next]_vars PROVE ArchiveInv'  OBVIOUS
<1>. USE DEF archiveVars
<1>1. ASSUME UNCHANGED archiveVars,
             \/ UNCHANGED worker["history"]
             \/ worker["history"].at = "get" /\ worker'["history"].at \in {"get", "done", "dead"}
             \/ worker["history"].at = "decisions" /\ worker'["history"].at = "dead"
             \/ worker["history"].at = "manifest" /\ worker'["history"].at = "dead"
      PROVE  ArchiveInv'
  BY <1>1 DEF ArchiveInv, SeqAt
<1>2. /\ worker \in [Writers -> [at : {"get", "done", "dead"}, event : {NoEvent}] \union
                                [at : {"decisions", "manifest"}, event : Events]]
      /\ events \in Seq(Events) /\ decisions \in Seq(Events) /\ "history" \in Writers
  BY DEF TypeInv, TypeOK, Writers
<1>3. \A w \in Writers : \A at, e : At(w, at, e) =>
        /\ worker'[w].at = at /\ worker'[w].event = e
        /\ \A v \in Writers \ {w} : worker'[v] = worker[v]
  BY <1>2 DEF At
<1>4. CASE Publish \/ SinkStep \/ Stop \/ CloserStep \/ Killed
  BY <1>1, <1>4 DEF Publish, Emit, SinkStep, EnqueueHistory, WaitEnds, EnqueueTraining,
                    SinkFrame, Stop, CloserStep, Close, Flushed, FlushTimesOut, Joined, Killed,
                    CloseFrame
<1>5. ASSUME NEW w \in Writers, EndsOrSkips(w) \/ TakeFails(w) PROVE ArchiveInv'
  <2>1. /\ UNCHANGED archiveVars /\ worker[w].at = "get"
        /\ \E at \in {"get", "done", "dead"} : At(w, at, NoEvent)
    BY <1>5 DEF EndsOrSkips, TakeFails, Takes
  <2>. QED  BY <1>1, <1>2, <1>3, <2>1
<1>6. CASE TrainingTakes
  <2>1. "training" \in Writers /\ UNCHANGED archiveVars /\ At("training", "get", NoEvent)
    BY <1>6 DEF TrainingTakes, Writers
  <2>. QED  BY <1>1, <1>2, <1>3, <2>1
<1>7. CASE WriteFails
  BY <1>1, <1>2, <1>3, <1>7 DEF WriteFails
<1>8. CASE HistoryTakes
  <2>. DEFINE e == Item("history")
  <2>1. /\ Takes("history") /\ e.run /\ events' = Append(events, e)
        /\ UNCHANGED <<decisions, manifest>> /\ worker["history"].at = "get"
        /\ \E at \in {"decisions", "manifest"} : At("history", at, e)
    BY <1>8 DEF HistoryTakes, Takes
  <2>2. TypeOK /\ QueueOK  BY DEF TypeInv, TypeOK, QueueOK
  <2>3. e = queue["history"][1] /\ 1 \in 1 .. Len(queue["history"]) /\ e \in Events
    BY <1>2, <2>1, <2>2, TakesQueue, RunItemIsEvent
  <2>4. \A d \in Processed("history") : InOrder(d, e)
    BY <1>2, <2>3 DEF OrderInv, StreamInv
  <2>5. e.seq # 0  BY <2>3, PoisonIsNoEvent
  <2>6. \A i \in 1 .. Len(events) : events[i].seq < e.seq
    BY <2>4, <2>5 DEF Processed, InOrder
  <2>. HIDE DEF e
  <2>7. /\ Len(events') = Len(events) + 1 /\ events'[Len(events) + 1] = e /\ Len(events) \in Nat
        /\ \A i \in 1 .. Len(events) : events'[i] = events[i]
    BY <1>2, <2>1, <2>3
  <2>8. \A i \in 1 .. Len(events') : i \in 1 .. Len(events) \/ i = Len(events) + 1  BY <2>7
  <2>9. \A i, j \in 1 .. Len(events') : i < j => events'[i].seq < events'[j].seq
    <3>1. ASSUME NEW i \in 1 .. Len(events'), NEW j \in 1 .. Len(events'), i < j
          PROVE  events'[i].seq < events'[j].seq
      <4>1. i \in 1 .. Len(events)  BY <2>7, <3>1
      <4>2. CASE j \in 1 .. Len(events)  BY <2>7, <3>1, <4>1, <4>2 DEF ArchiveInv
      <4>3. CASE j = Len(events) + 1  BY <2>6, <2>7, <4>1, <4>3
      <4>. QED  BY <2>8, <4>2, <4>3
    <3>. QED  BY <3>1
  <2>10. \A i \in 1 .. Len(events) : i \in 1 .. Len(events') /\ events'[i] = events[i]
    BY <2>7
  <2>11. \A i \in 1 .. Len(decisions) : \E j \in 1 .. Len(events') : decisions[i] = events'[j]
    BY <2>10 DEF ArchiveInv
  <2>12. manifest.completed => \E i \in 1 .. Len(events') : events'[i].kind = "run_completed"
    BY <2>10 DEF ArchiveInv
  <2>13. manifest.last = SeqAt(Len(events) - 1)'
    <3>1. manifest.last = SeqAt(Len(events))  BY <2>1 DEF ArchiveInv
    <3>2. Len(events') - 1 = Len(events)  BY <2>7
    <3>3. DOMAIN events = 1 .. Len(events) /\ DOMAIN events' = 1 .. Len(events')
      BY <1>2, <2>1, <2>3
    <3>. QED  BY <2>7, <2>10, <3>1, <3>2, <3>3 DEF SeqAt
  <2>14. /\ worker'["history"].at \in {"decisions", "manifest"}
         /\ worker'["history"].event = e
    BY <1>2, <1>3, <2>1
  <2>. QED  BY <2>1, <2>7, <2>9, <2>11, <2>12, <2>13, <2>14 DEF ArchiveInv
<1>9. CASE HistoryWritesDecision
  <2>. DEFINE e == worker["history"].event
  <2>1. /\ decisions' = Append(decisions, e) /\ UNCHANGED <<events, manifest>>
        /\ worker["history"].at = "decisions" /\ At("history", "manifest", e)
    BY <1>9 DEF HistoryWritesDecision
  <2>2. Len(events) \in 1 .. Len(events) /\ e = events[Len(events)]
    BY <1>2, <2>1 DEF ArchiveInv
  <2>3. e \in Events  BY <1>2, <2>2
  <2>. HIDE DEF e
  <2>4. \A i \in 1 .. Len(decisions') : \/ i \in 1 .. Len(decisions) /\ decisions'[i] = decisions[i]
                                        \/ decisions'[i] = e
    BY <1>2, <2>1, <2>3
  <2>5. \A i \in 1 .. Len(decisions') : \E j \in 1 .. Len(events) : decisions'[i] = events[j]
    BY <2>2, <2>4 DEF ArchiveInv
  <2>6. worker'["history"].at = "manifest" /\ worker'["history"].event = e
    BY <1>2, <1>3, <2>1
  <2>. QED  BY <2>1, <2>2, <2>5, <2>6 DEF ArchiveInv, SeqAt
<1>10. CASE HistoryWritesManifest
  <2>. DEFINE e == worker["history"].event
  <2>1. /\ manifest' = Recorded(e) /\ UNCHANGED <<events, decisions>>
        /\ worker["history"].at = "manifest" /\ At("history", "get", NoEvent)
    BY <1>10 DEF HistoryWritesManifest
  <2>2. Len(events) \in 1 .. Len(events) /\ e = events[Len(events)]
    BY <1>2, <2>1 DEF ArchiveInv
  <2>3. /\ manifest'.last = e.seq
        /\ manifest'.completed => manifest.completed \/ e.kind = "run_completed"
    BY <2>1 DEF Recorded
  <2>4. manifest'.last = SeqAt(Len(events))  BY <1>2, <2>2, <2>3 DEF SeqAt
  <2>5. manifest'.completed => \E i \in 1 .. Len(events) : events[i].kind = "run_completed"
    BY <2>2, <2>3 DEF ArchiveInv
  <2>6. worker'["history"].at = "get"  BY <1>2, <1>3, <2>1
  <2>. QED  BY <2>1, <2>4, <2>5, <2>6 DEF ArchiveInv, SeqAt
<1>11. CASE UNCHANGED vars  BY <1>1, <1>11 DEF vars
<1>. QED
  BY <1>4, <1>5, <1>6, <1>7, <1>8, <1>9, <1>10, <1>11 DEF Next, WorkerStep

-----------------------------------------------------------------------------
(* Shutting down.  The main loop publishes no more once it is closing.     *)
LEMMA NextQuietInv == TypeInv /\ QuietInv /\ [Next]_vars => QuietInv'
<1>. SUFFICES ASSUME TypeInv, QuietInv, [Next]_vars PROVE QuietInv'  OBVIOUS
<1>. USE DEF busVars, closeVars
<1>1. ASSUME UNCHANGED <<pub, closing>> PROVE QuietInv'  BY <1>1 DEF QuietInv
<1>2. ASSUME UNCHANGED pub, pub.at = "idle" \/ closing'.at = "killed" PROVE QuietInv'
  BY <1>2 DEF QuietInv
<1>3. CASE Publish  BY <1>3 DEF Publish, Emit, QuietInv
<1>4. CASE SinkStep
  <2>1. closing.at = "no" /\ UNCHANGED closing
    BY <1>4 DEF SinkStep, EnqueueHistory, WaitEnds, EnqueueTraining, SinkFrame, Living,
                QuietInv, TypeInv, TypeOK
  <2>. QED  BY <2>1 DEF QuietInv
<1>5. CASE WorkerStep
  BY <1>1, <1>5 DEF WorkerStep, EndsOrSkips, TakeFails, HistoryTakes, HistoryWritesDecision,
                    HistoryWritesManifest, TrainingTakes, WriteFails, WorkerFrame
<1>6. CASE CloserStep
  BY <1>2, <1>6 DEF CloserStep, Close, Flushed, FlushTimesOut, Joined, Stage, CloseFrame, QuietInv
<1>7. CASE Stop  BY <1>7 DEF Stop, QuietInv
<1>8. CASE Killed
  BY <1>2, <1>8 DEF Killed, Stage, CloseFrame
<1>9. CASE UNCHANGED vars  BY <1>1, <1>9 DEF vars
<1>. QED  BY <1>3, <1>4, <1>5, <1>6, <1>7, <1>8, <1>9 DEF Next

(* What a step does to the history store: it is handed an event, its writer*)
(* goes on, it is given the poison, or nothing happens to it.              *)
HandedOver == /\ pub.at \in {"history", "waiting"} /\ Living /\ pub.event \in Events
              /\ Put("history", pub.event) /\ Took /\ UNCHANGED <<worker, events, closing, warned>>

Poisoned == /\ closing = Stage("flush", "history") /\ queue["history"] = << >>
            /\ worker["history"].at \in {"get", "dead"} /\ Put("history", Poison)
            /\ closing' = Stage("join", "history") /\ UNCHANGED <<worker, events, taken, warned>>

Writes == /\ worker["history"].at \in {"decisions", "manifest"}
          /\ worker'["history"].at \in {"manifest", "get", "dead"}
          /\ UNCHANGED <<queue, events, taken, closing, warned>>

Untouched == UNCHANGED <<queue["history"], worker["history"], events, taken>>

HistoryStep ==
  \/ HandedOver \/ Poisoned \/ Writes
  \/ /\ EndsOrSkips("history") \/ TakeFails("history") \/ HistoryTakes
     /\ UNCHANGED <<taken, closing, warned>>
  \/ Untouched

LEMMA HistoryCases == TypeInv /\ [Next]_vars => HistoryStep
<1>. SUFFICES ASSUME TypeInv, [Next]_vars PROVE HistoryStep  OBVIOUS
<1>. USE DEF HistoryStep, archiveVars, closeVars
<1>1. /\ "history" \in Writers /\ "training" \in Writers /\ Writers = {"history", "training"}
      /\ queue \in [Writers -> Seq(Events \union {Poison})]
      /\ worker \in [Writers -> [at : {"get", "done", "dead"}, event : {NoEvent}] \union
                                [at : {"decisions", "manifest"}, event : Events]]
  BY DEF TypeInv, TypeOK, Writers
<1>2. \A w \in Writers : \A at, e : At(w, at, e) =>
        /\ worker'[w].at = at
        /\ \A v \in Writers \ {w} : worker'[v] = worker[v]
  BY <1>1 DEF At
<1>3. ASSUME NEW w \in Writers, Takes(w) \/ \E e : Put(w, e), w # "history"
      PROVE  queue'["history"] = queue["history"]
  BY <1>1, <1>3 DEF Takes, Put
<1>4. CASE Publish  BY <1>4 DEF Publish, Emit, Untouched
<1>5. CASE EnqueueHistory \/ WaitEnds
  <2>1. pub.event \in Events  BY <1>5 DEF EnqueueHistory, WaitEnds, TypeInv, TypeOK
  <2>. QED  BY <1>5, <2>1 DEF EnqueueHistory, WaitEnds, SinkFrame, HandedOver, Untouched
<1>6. CASE EnqueueTraining
  <2>1. queue'["history"] = queue["history"]  BY <1>1, <1>3, <1>6 DEF EnqueueTraining
  <2>. QED  BY <1>6, <2>1 DEF EnqueueTraining, SinkFrame, Untouched
<1>7. ASSUME NEW w \in Writers, EndsOrSkips(w) \/ TakeFails(w), w # "history"
      PROVE  HistoryStep
  <2>1. Takes(w) /\ (\E at : At(w, at, NoEvent)) /\ UNCHANGED <<events, taken>>
    BY <1>7 DEF EndsOrSkips, TakeFails, WorkerFrame
  <2>2. queue'["history"] = queue["history"]  BY <1>3, <1>7, <2>1
  <2>3. worker'["history"] = worker["history"]  BY <1>1, <1>2, <1>7, <2>1
  <2>. QED  BY <2>1, <2>2, <2>3 DEF Untouched
<1>8. CASE EndsOrSkips("history") \/ TakeFails("history") \/ HistoryTakes
  BY <1>8 DEF EndsOrSkips, TakeFails, HistoryTakes, WorkerFrame
<1>9. CASE TrainingTakes
  <2>1. Takes("training") /\ At("training", "get", NoEvent) /\ UNCHANGED <<events, taken>>
    BY <1>9 DEF TrainingTakes, WorkerFrame
  <2>2. queue'["history"] = queue["history"]  BY <1>1, <1>3, <2>1
  <2>3. worker'["history"] = worker["history"]  BY <1>1, <1>2, <2>1
  <2>. QED  BY <2>1, <2>2, <2>3 DEF Untouched
<1>10. CASE HistoryWritesDecision \/ HistoryWritesManifest \/ WriteFails
  BY <1>1, <1>2, <1>10 DEF HistoryWritesDecision, HistoryWritesManifest, WriteFails,
                           WorkerFrame, Writes
<1>11. CASE Stop \/ Killed  BY <1>11 DEF Stop, Killed, CloseFrame, Untouched
<1>12. ASSUME NEW w \in Writers, Close(w) \/ FlushTimesOut(w) \/ Joined(w) PROVE HistoryStep
  BY <1>12 DEF Close, FlushTimesOut, Joined, CloseFrame, Untouched
<1>13. ASSUME NEW w \in Writers, Flushed(w) PROVE HistoryStep
  <2>1. CASE w = "history"  BY <1>13, <2>1 DEF Flushed, CloseFrame, Poisoned
  <2>2. CASE w # "history"
    <3>1. queue'["history"] = queue["history"]  BY <1>3, <1>13, <2>2 DEF Flushed
    <3>. QED  BY <1>13, <3>1 DEF Flushed, CloseFrame, Untouched
  <2>. QED  BY <2>1, <2>2
<1>14. CASE UNCHANGED vars  BY <1>14 DEF vars, Untouched
<1>. QED
  BY <1>4, <1>5, <1>6, <1>7, <1>8, <1>9, <1>10, <1>11, <1>12, <1>13, <1>14
     DEF Next, SinkStep, WorkerStep, CloserStep

(* What a step does to the progress of shutting down.                      *)
LEMMA ClosingCases ==
  ASSUME TypeInv, [Next]_vars
  PROVE  /\ Flushing' => Flushing
         /\ "history" \notin warned' => "history" \notin warned
         /\ Settled' /\ "history" \notin warned'
              => \/ Settled \/ Poisoned
                 \/ Flushing /\ worker["history"].at \in {"done", "dead"} /\ UNCHANGED worker
<1>. DEFINE Goal == /\ Flushing' => Flushing
                    /\ "history" \notin warned' => "history" \notin warned
                    /\ Settled' /\ "history" \notin warned'
                         => \/ Settled \/ Poisoned
                            \/ /\ Flushing /\ worker["history"].at \in {"done", "dead"}
                               /\ UNCHANGED worker
<1>. SUFFICES Goal  OBVIOUS
<1>. USE DEF closeVars
<1>1. ASSUME UNCHANGED <<closing, warned>> PROVE Goal  BY <1>1 DEF Flushing, Settled
<1>2. CASE Publish  BY <1>1, <1>2 DEF Publish, Emit
<1>3. CASE SinkStep
  BY <1>1, <1>3 DEF SinkStep, EnqueueHistory, WaitEnds, EnqueueTraining, SinkFrame
<1>4. CASE WorkerStep
  BY <1>1, <1>4 DEF WorkerStep, EndsOrSkips, TakeFails, HistoryTakes, HistoryWritesDecision,
                    HistoryWritesManifest, TrainingTakes, WriteFails, WorkerFrame
<1>5. CASE Stop \/ Killed
  BY <1>5 DEF Stop, Killed, Stage, CloseFrame, Flushing, Settled
<1>6. ASSUME NEW w \in Writers, Joined(w) PROVE Goal
  BY <1>6 DEF Joined, NextCloser, Stage, Flushing, Settled
<1>7. ASSUME NEW w \in Writers, FlushTimesOut(w) PROVE Goal
  BY <1>7 DEF FlushTimesOut, NextCloser, Stage, Flushing, Settled, Writers
<1>8. ASSUME NEW w \in Writers, Flushed(w) PROVE Goal
  <2>1. CASE w = "history"
    BY <1>8, <2>1 DEF Flushed, CloseFrame, archiveVars, Stage, Flushing, Settled, Poisoned
  <2>2. CASE w = "training"  BY <1>8, <2>2 DEF Flushed, Stage, Flushing, Settled
  <2>. QED  BY <2>1, <2>2 DEF Writers
<1>9. ASSUME NEW w \in Writers, Close(w) PROVE Goal
  <2>1. CASE w = "history"
    <3>1. CASE worker["history"].at \in {"done", "dead"}
      BY <1>9, <2>1, <3>1 DEF Close, NextCloser, CloseFrame, Stage, Flushing, Settled
    <3>2. CASE worker["history"].at \notin {"done", "dead"}
      BY <1>9, <2>1, <3>2 DEF Close, Stage, Flushing, Settled
    <3>. QED  BY <3>1, <3>2
  <2>2. CASE w = "training"
    BY <1>9, <2>2 DEF Close, NextCloser, Stage, Flushing, Settled
  <2>. QED  BY <2>1, <2>2 DEF Writers
<1>10. CASE UNCHANGED vars  BY <1>1, <1>10 DEF vars
<1>. HIDE DEF Goal
<1>. QED
  BY <1>2, <1>3, <1>4, <1>5, <1>6, <1>7, <1>8, <1>9, <1>10 DEF Next, CloserStep

(* The queue of the history store after an item was taken from it, and     *)
(* after one was put.                                                      *)
LEMMA HistoryQueue ==
  ASSUME TypeInv
  PROVE  /\ Len(queue["history"]) \in Nat
         /\ \A i \in 1 .. Len(queue["history"]) : queue["history"][i] \in Events \union {Poison}
         /\ Takes("history")
              => /\ Len(queue["history"]) \in Nat \ {0}
                 /\ Item("history") = queue["history"][1]
                 /\ Len(queue'["history"]) = Len(queue["history"]) - 1
                 /\ \A i \in 1 .. Len(queue'["history"]) :
                      queue'["history"][i] = queue["history"][i + 1]
         /\ \A e \in Events \union {Poison} : Put("history", e)
              => /\ Len(queue'["history"]) = Len(queue["history"]) + 1
                 /\ queue'["history"][Len(queue["history"]) + 1] = e
                 /\ \A i \in 1 .. Len(queue["history"]) :
                      queue'["history"][i] = queue["history"][i]
<1>1. TypeOK /\ QueueOK /\ "history" \in Writers  BY DEF TypeInv, TypeOK, QueueOK, Writers
<1>2. /\ Len(queue["history"]) \in Nat
      /\ \A i \in 1 .. Len(queue["history"]) : queue["history"][i] \in Events \union {Poison}
  BY <1>1, StreamTypes
<1>. QED  BY <1>1, <1>2, TakesQueue, PutQueue

(* What was accepted is archived or queued.                                *)
LEMMA NextTakenInv == TypeInv /\ TakenInv /\ [Next]_vars => TakenInv'
<1>. SUFFICES ASSUME TypeInv, TakenInv, [Next]_vars, worker'["history"].at # "dead"
              PROVE  TakenInv'
  BY DEF TakenInv
<1>. DEFINE archived(n) == \E i \in 1 .. Len(events) : events[i].seq = n
<1>0. HistoryStep  BY HistoryCases
<1>1. CASE Untouched  BY <1>1 DEF Untouched, TakenInv, Queued
<1>2. CASE Writes  BY <1>2 DEF Writes, TakenInv, Queued
<1>3. CASE Poisoned
  <2>1. Len(queue["history"]) = 0 /\ worker' = worker  BY <1>3 DEF Poisoned
  <2>2. Put("history", Poison)  BY <1>3 DEF Poisoned
  <2>3. Len(queue'["history"]) = 1 /\ queue'["history"][1] = Poison
    BY <2>1, <2>2, HistoryQueue
  <2>4. \A n : ~Queued(n) /\ ~Queued(n)'
    BY <2>1, <2>3, PoisonIsNoEvent DEF Queued
  <2>. QED  BY <1>3, <2>1, <2>4 DEF Poisoned, TakenInv
<1>4. CASE HandedOver
  <2>. DEFINE e == pub.event
  <2>1. e \in Events /\ Put("history", e) /\ Took /\ worker' = worker /\ events' = events
    BY <1>4 DEF HandedOver
  <2>2. \A n : Queued(n)' <=> Queued(n) \/ (e.run /\ e.seq = n)
    <3>1. /\ Len(queue["history"]) \in Nat /\ Len(queue'["history"]) = Len(queue["history"]) + 1
          /\ queue'["history"][Len(queue["history"]) + 1] = e
          /\ \A i \in 1 .. Len(queue["history"]) : queue'["history"][i] = queue["history"][i]
      BY <2>1, HistoryQueue
    <3>. HIDE DEF e
    <3>2. /\ \A i \in 1 .. Len(queue'["history"]) :
               i \in 1 .. Len(queue["history"]) \/ i = Len(queue["history"]) + 1
          /\ \A i \in 1 .. Len(queue["history"]) : i \in 1 .. Len(queue'["history"])
          /\ Len(queue["history"]) + 1 \in 1 .. Len(queue'["history"])
      BY <3>1
    <3>. QED  BY <3>1, <3>2 DEF Queued
  <2>3. \A n : n \in taken' <=> n \in taken \/ (e.run /\ e.seq = n)
    BY <2>1 DEF Took
  <2>. HIDE DEF e
  <2>. QED  BY <2>1, <2>2, <2>3 DEF TakenInv
<1>5. ASSUME Takes("history"), worker["history"].at = "get", UNCHANGED taken,
             \/ ~Item("history").run /\ UNCHANGED events
             \/ Item("history").run /\ events' = Append(events, Item("history"))
      PROVE  TakenInv'
  <2>. DEFINE e == Item("history")
  <2>1. /\ Len(queue["history"]) \in Nat \ {0} /\ e = queue["history"][1]
        /\ Len(queue'["history"]) = Len(queue["history"]) - 1
        /\ \A i \in 1 .. Len(queue'["history"]) : queue'["history"][i] = queue["history"][i + 1]
        /\ e \in Events \union {Poison}
    BY <1>5, HistoryQueue
  <2>2. events \in Seq(Events)  BY DEF TypeInv, TypeOK
  <2>3. e.run => e \in Events  BY <2>1, RunItemIsEvent
  <2>4. \/ ~e.run /\ UNCHANGED events
        \/ e.run /\ events' = Append(events, e)
    BY <1>5
  <2>. HIDE DEF e
  <2>5. /\ 1 \in 1 .. Len(queue["history"])
        /\ \A i \in 1 .. Len(queue'["history"]) : i + 1 \in 1 .. Len(queue["history"])
        /\ \A i \in 1 .. Len(queue["history"]) :
             i = 1 \/ (i - 1 \in 1 .. Len(queue'["history"]) /\ (i - 1) + 1 = i)
    BY <2>1
  <2>6. \A n : Queued(n) <=> Queued(n)' \/ (e.run /\ e.seq = n)
    <3>1. \A i \in 1 .. Len(queue["history"]) :
            \/ i = 1
            \/ \E j \in 1 .. Len(queue'["history"]) : queue["history"][i] = queue'["history"][j]
      BY <2>1, <2>5
    <3>2. \A j \in 1 .. Len(queue'["history"]) :
            \E i \in 1 .. Len(queue["history"]) : queue["history"][i] = queue'["history"][j]
      BY <2>1, <2>5
    <3>3. ASSUME NEW n, Queued(n) PROVE Queued(n)' \/ (e.run /\ e.seq = n)
      BY <2>1, <3>1, <3>3 DEF Queued
    <3>4. ASSUME NEW n, Queued(n)' PROVE Queued(n)
      BY <3>2, <3>4 DEF Queued
    <3>5. ASSUME NEW n, e.run, e.seq = n PROVE Queued(n)
      BY <2>1, <2>5, <3>5 DEF Queued
    <3>. QED  BY <3>3, <3>4, <3>5
  <2>7. \A n : archived(n)' <=> archived(n) \/ (e.run /\ e.seq = n)
    <3>1. CASE ~e.run  BY <2>4, <3>1
    <3>2. CASE e.run
      <4>1. /\ Len(events') = Len(events) + 1 /\ events'[Len(events) + 1] = e
            /\ Len(events) \in Nat /\ \A i \in 1 .. Len(events) : events'[i] = events[i]
        BY <2>2, <2>3, <2>4, <3>2
      <4>2. /\ \A i \in 1 .. Len(events') : i \in 1 .. Len(events) \/ i = Len(events) + 1
            /\ \A i \in 1 .. Len(events) : i \in 1 .. Len(events')
            /\ Len(events) + 1 \in 1 .. Len(events')
        BY <4>1
      <4>. QED  BY <3>2, <4>1, <4>2
    <3>. QED  BY <3>1, <3>2
  <2>8. \A n \in 1 .. MaxEvents : n \in taken <=> Queued(n) \/ archived(n)
    BY <1>5 DEF TakenInv
  <2>. HIDE DEF archived
  <2>9. \A n \in 1 .. MaxEvents : n \in taken' <=> Queued(n)' \/ archived(n)'
    BY <1>5, <2>6, <2>7, <2>8
  <2>. QED  BY <2>9 DEF TakenInv, archived
<1>6. CASE EndsOrSkips("history") /\ UNCHANGED taken
  BY <1>5, <1>6 DEF EndsOrSkips, Takes, archiveVars
<1>7. CASE HistoryTakes /\ UNCHANGED taken
  BY <1>5, <1>7 DEF HistoryTakes, Takes
<1>8. ~TakeFails("history")
  BY DEF TakeFails, At, TypeInv, TypeOK, Writers
<1>. QED  BY <1>0, <1>1, <1>2, <1>3, <1>4, <1>6, <1>7, <1>8 DEF HistoryStep

(* Until it is flushed, the queue holds no poison and the writer is not    *)
(* done; once it is flushed without a warning, nothing of a run is left.   *)
LEMMA NextFlushingInv == TypeInv /\ FlushingInv /\ [Next]_vars => FlushingInv'
<1>. SUFFICES ASSUME TypeInv, FlushingInv, [Next]_vars, Flushing' PROVE FlushingInv'
  BY DEF FlushingInv
<1>. DEFINE q == queue["history"]
<1>0. HistoryStep /\ Flushing  BY HistoryCases, ClosingCases
<1>1. worker["history"].at # "done" /\ \A i \in 1 .. Len(q) : q[i] # Poison
  BY <1>0 DEF FlushingInv
<1>2. CASE Untouched  BY <1>1, <1>2 DEF Untouched, FlushingInv
<1>3. CASE Writes  BY <1>1, <1>3 DEF Writes, FlushingInv
<1>4. CASE Poisoned  BY <1>4 DEF Poisoned, Flushing, Stage
<1>5. CASE HandedOver
  <2>1. /\ pub.event \in Events /\ Put("history", pub.event) /\ worker' = worker
    BY <1>5 DEF HandedOver
  <2>2. /\ Len(q) \in Nat /\ Len(q') = Len(q) + 1 /\ q'[Len(q) + 1] = pub.event
        /\ \A i \in 1 .. Len(q) : q'[i] = q[i]
    BY <2>1, HistoryQueue
  <2>3. pub.event # Poison  BY <2>1, PoisonIsNoEvent
  <2>4. \A i \in 1 .. Len(q') : i \in 1 .. Len(q) \/ i = Len(q) + 1  BY <2>2
  <2>5. \A i \in 1 .. Len(q') : q'[i] # Poison  BY <1>1, <2>2, <2>3, <2>4
  <2>. QED  BY <1>1, <2>1, <2>5 DEF FlushingInv
<1>6. CASE EndsOrSkips("history") \/ TakeFails("history") \/ HistoryTakes
  <2>1. Takes("history")  BY <1>6 DEF EndsOrSkips, TakeFails, HistoryTakes
  <2>2. /\ Len(q) \in Nat \ {0} /\ Item("history") = q[1] /\ Len(q') = Len(q) - 1
        /\ \A i \in 1 .. Len(q') : q'[i] = q[i + 1]
    BY <2>1, HistoryQueue
  <2>3. 1 \in 1 .. Len(q) /\ \A i \in 1 .. Len(q') : i + 1 \in 1 .. Len(q)  BY <2>2
  <2>4. Item("history") # Poison /\ \A i \in 1 .. Len(q') : q'[i] # Poison
    BY <1>1, <2>2, <2>3
  <2>5. worker'["history"].at # "done"
    BY <1>6, <2>4 DEF EndsOrSkips, TakeFails, HistoryTakes, At, TypeInv, TypeOK, Writers
  <2>. QED  BY <2>4, <2>5 DEF FlushingInv
<1>. QED  BY <1>0, <1>2, <1>3, <1>4, <1>5, <1>6 DEF HistoryStep

LEMMA NextSettledInv ==
  TypeInv /\ QuietInv /\ FlushingInv /\ SettledInv /\ [Next]_vars => SettledInv'
<1>. SUFFICES ASSUME TypeInv, QuietInv, FlushingInv, SettledInv, [Next]_vars,
                     Settled', "history" \notin warned', worker'["history"].at # "dead"
              PROVE  SettledInv'
  BY DEF SettledInv
<1>. DEFINE q == queue["history"]
<1>1. HistoryStep /\ "history" \notin warned  BY HistoryCases, ClosingCases
<1>2. \/ Settled \/ Poisoned
      \/ Flushing /\ worker["history"].at \in {"done", "dead"} /\ UNCHANGED worker
  BY ClosingCases
<1>3. CASE Poisoned
  <2>1. Len(q) = 0 /\ Put("history", Poison) /\ worker' = worker
        /\ worker["history"].at \in {"get", "dead"}
    BY <1>3 DEF Poisoned
  <2>2. Len(q') = 1 /\ q'[1] = Poison  BY <2>1, HistoryQueue
  <2>3. \A i \in 1 .. Len(q') : ~q'[i].run  BY <2>2, PoisonIsNoEvent
  <2>. QED  BY <2>1, <2>3 DEF SettledInv
<1>4. CASE Flushing /\ worker["history"].at \in {"done", "dead"} /\ UNCHANGED worker
  BY <1>4 DEF FlushingInv
<1>5. CASE Settled
  <2>1. worker["history"].at # "dead"
          => /\ worker["history"].at \in {"get", "done"}
             /\ \A i \in 1 .. Len(q) : ~q[i].run
    BY <1>1, <1>5 DEF SettledInv
  <2>2. CASE Untouched  BY <2>1, <2>2 DEF Untouched, SettledInv
  <2>3. CASE Writes  BY <2>1, <2>3 DEF Writes
  <2>4. CASE HandedOver
    <3>1. closing.at \in {"close", "flush", "join"}
      BY <1>5, <2>4 DEF HandedOver, Living, Settled
    <3>. QED  BY <2>4, <3>1 DEF HandedOver, QuietInv
  <2>5. CASE EndsOrSkips("history") \/ TakeFails("history") \/ HistoryTakes
    <3>1. Takes("history") /\ worker["history"].at = "get"
      BY <2>5 DEF EndsOrSkips, TakeFails, HistoryTakes, Takes
    <3>2. /\ Len(q) \in Nat \ {0} /\ Item("history") = q[1] /\ Len(q') = Len(q) - 1
          /\ \A i \in 1 .. Len(q') : q'[i] = q[i + 1]
      BY <3>1, HistoryQueue
    <3>3. 1 \in 1 .. Len(q) /\ \A i \in 1 .. Len(q') : i + 1 \in 1 .. Len(q)  BY <3>2
    <3>4. ~Item("history").run /\ \A i \in 1 .. Len(q') : ~q'[i].run
      BY <2>1, <3>1, <3>2, <3>3
    <3>5. EndsOrSkips("history")  BY <2>5, <3>4 DEF TakeFails, HistoryTakes
    <3>6. worker'["history"].at \in {"get", "done"}
      BY <3>5 DEF EndsOrSkips, At, TypeInv, TypeOK, Writers
    <3>. QED  BY <3>4, <3>6 DEF SettledInv
  <2>. QED  BY <1>1, <1>3, <2>2, <2>3, <2>4, <2>5 DEF HistoryStep
<1>. QED  BY <1>2, <1>3, <1>4, <1>5

-----------------------------------------------------------------------------
(* IInv is inductive, and says what the properties say.                    *)
LEMMA InitIInv == Init => IInv
<1>. SUFFICES ASSUME Init PROVE IInv  OBVIOUS
<1>1. TypeInv /\ OrderInv  BY InitTypeInv, InitOrderInv
<1>2. /\ Len(queue["history"]) = 0 /\ worker["history"].at = "get"
      /\ Len(events) = 0 /\ Len(decisions) = 0 /\ Len(rows) = 0
      /\ DOMAIN events = {} /\ manifest.last = 0 /\ ~manifest.completed
      /\ taken = {} /\ closing.at = "no"
  BY DEF Init, Writers, Stage
<1>3. ArchiveInv /\ SamplesInv  BY <1>2 DEF ArchiveInv, SamplesInv, SeqAt
<1>4. CloseInv
  BY <1>2 DEF CloseInv, QuietInv, TakenInv, Queued, FlushingInv, SettledInv, Settled
<1>. QED  BY <1>1, <1>3, <1>4 DEF IInv

LEMMA NextIInv == IInv /\ [Next]_vars => IInv'
BY NextTypeInv, NextOrderInv, NextArchiveInv, NextSamplesInv, NextQuietInv, NextTakenInv,
   NextFlushingInv, NextSettledInv
   DEF IInv, CloseInv

LEMMA IInvAlways == Spec => []IInv
BY InitIInv, NextIInv, PTL DEF Spec

(* Whenever the agent dies, and whichever write fails, a reader of the run *)
(* directory finds its events in order, decisions and a manifest that say  *)
(* nothing the events do not, and a manifest that is at most one event     *)
(* behind.                                                                 *)
THEOREM ArchiveIsConsistent == Spec => []ArchiveConsistent
<1>1. IInv => ArchiveConsistent
  <2>. SUFFICES ASSUME IInv PROVE ArchiveConsistent  OBVIOUS
  <2>1. /\ events \in Seq(Events) /\ decisions \in Seq(Events)
        /\ worker["history"].at \in {"get", "done", "decisions", "manifest", "dead"}
    BY DEF IInv, TypeInv, TypeOK, Writers
  <2>2. /\ DOMAIN events = 1 .. Len(events) /\ DOMAIN decisions = 1 .. Len(decisions)
    BY <2>1
  <2>3. Len(events) \in Nat /\ \A i \in 1 .. Len(events) : events[i].seq \in Nat \ {0}
    <3>1. \A i \in 1 .. Len(events) : events[i] \in Events  BY <2>1
    <3>. QED  BY <2>1, <3>1, PoisonIsNoEvent
  <2>4. \A i, j \in 1 .. Len(events) : i < j => events[i].seq < events[j].seq
    BY DEF IInv, ArchiveInv
  <2>5. manifest.last \in {SeqAt(Len(events)), SeqAt(Len(events) - 1)}
    BY <2>1 DEF IInv, ArchiveInv
  <2>6. ToSet(decisions) \subseteq ToSet(events)
    BY <2>2 DEF ToSet, IInv, ArchiveInv
  <2>7. manifest.last # 0 => \E e \in ToSet(events) : e.seq = manifest.last
    BY <2>5 DEF ToSet, SeqAt
  <2>8. manifest.completed => \E e \in ToSet(events) : e.kind = "run_completed"
    BY <2>2 DEF ToSet, IInv, ArchiveInv
  <2>9. ASSUME NEW i \in 1 .. Len(events), i # Len(events)
        PROVE  ~(events[i].seq > manifest.last)
    <3>1. Len(events) - 1 \in 1 .. Len(events) /\ Len(events) \in 1 .. Len(events)
      BY <2>3, <2>9
    <3>2. events[i].seq < events[Len(events)].seq  BY <2>3, <2>4, <2>9, <3>1
    <3>3. events[i].seq <= events[Len(events) - 1].seq
      <4>1. CASE i = Len(events) - 1  BY <2>3, <4>1
      <4>2. CASE i # Len(events) - 1
        <5>1. i < Len(events) - 1  BY <2>3, <2>9, <4>2
        <5>. QED  BY <2>3, <2>4, <3>1, <5>1
      <4>. QED  BY <4>1, <4>2
    <3>. QED  BY <2>3, <2>2, <2>5, <3>1, <3>2, <3>3 DEF SeqAt
  <2>. QED  BY <2>2, <2>4, <2>6, <2>7, <2>8, <2>9 DEF ArchiveConsistent
<1>. QED  BY <1>1, IInvAlways, PTL

(* Whatever the full queue drops, a training sample pairs a decision with  *)
(* the reward of that decision, and no decision gets two samples.          *)
THEOREM RewardsAreTheDecisions == Spec => []RewardsMatchDecisions
<1>1. IInv => RewardsMatchDecisions
  <2>. SUFFICES ASSUME IInv PROVE RewardsMatchDecisions  OBVIOUS
  <2>. DEFINE Samples == [made : Events, seen : Events]
  <2>1. rows \in Seq(Samples) /\ \A x \in Samples : x.seen.dec \in Nat
    BY DEF IInv, TypeInv, TypeOK, Events
  <2>. HIDE DEF Samples
  <2>2. DOMAIN rows = 1 .. Len(rows) /\ \A i \in 1 .. Len(rows) : rows[i].seen.dec \in Nat
    BY <2>1
  <2>3. /\ \A i \in 1 .. Len(rows) : /\ rows[i].made.dec = rows[i].seen.dec
                                     /\ rows[i].made.seq < rows[i].seen.seq
        /\ \A i, j \in 1 .. Len(rows) : i < j => rows[i].seen.dec < rows[j].seen.dec
    BY DEF IInv, SamplesInv
  <2>4. ASSUME NEW i \in 1 .. Len(rows), NEW j \in 1 .. Len(rows), i # j
        PROVE  rows[i].seen.dec # rows[j].seen.dec
    <3>1. CASE i < j  BY <2>2, <2>3, <3>1
    <3>2. CASE j < i  BY <2>2, <2>3, <3>2
    <3>. QED  BY <2>4, <3>1, <3>2
  <2>. QED  BY <2>2, <2>3, <2>4 DEF RewardsMatchDecisions
<1>. QED  BY <1>1, IInvAlways, PTL

(* An agent that exits without the warning of a flush that timed out has   *)
(* archived every event its history store accepted, with a manifest that   *)
(* knows the last one, unless a failed write ended the store's writer.     *)
THEOREM CleanExitLosesNothing == Spec => []CleanExitKeepsAll
<1>1. IInv => CleanExitKeepsAll
  <2>. SUFFICES ASSUME IInv, closing.at = "exited", "history" \notin warned,
                       worker["history"].at # "dead"
                PROVE  /\ taken = {e.seq : e \in ToSet(events)}
                       /\ events # << >> => manifest.last = Last(events).seq
    BY DEF CleanExitKeepsAll
  <2>1. Settled  BY DEF Settled
  <2>2. /\ worker["history"].at \in {"get", "done"}
        /\ \A i \in 1 .. Len(queue["history"]) : ~queue["history"][i].run
    BY <2>1 DEF IInv, CloseInv, SettledInv
  <2>3. events \in Seq(Events) /\ taken \subseteq 1 .. MaxEvents
    BY DEF IInv, TypeInv, TypeOK
  <2>4. /\ DOMAIN events = 1 .. Len(events)
        /\ \A i \in 1 .. Len(events) : events[i].seq \in 1 .. MaxEvents
    BY <2>3, PoisonIsNoEvent
  <2>5. \A n \in 1 .. MaxEvents : n \in taken <=> \E i \in 1 .. Len(events) : events[i].seq = n
    BY <2>2 DEF IInv, CloseInv, TakenInv, Queued
  <2>6. taken = {e.seq : e \in ToSet(events)}
    <3>1. ToSet(events) = {events[i] : i \in 1 .. Len(events)}  BY <2>4 DEF ToSet
    <3>2. \A n : (\E i \in 1 .. Len(events) : events[i].seq = n)
                  <=> n \in {e.seq : e \in ToSet(events)}
      BY <3>1
    <3>3. \A n \in taken : n \in {e.seq : e \in ToSet(events)}
      BY <2>3, <2>5, <3>2
    <3>4. \A n \in {e.seq : e \in ToSet(events)} : n \in taken
      BY <2>4, <2>5, <3>2
    <3>. QED  BY <3>3, <3>4
  <2>7. manifest.last = SeqAt(Len(events))  BY <2>2 DEF IInv, ArchiveInv
  <2>8. events # << >> => Len(events) \in DOMAIN events  BY <2>3
  <2>. QED  BY <2>6, <2>7, <2>8 DEF SeqAt, Last
<1>. QED  BY <1>1, IInvAlways, PTL
=============================================================================
