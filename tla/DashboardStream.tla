--------------------------- MODULE DashboardStream ---------------------------
(***************************************************************************)
(* The live view of the dashboard: DecisionEventBus with its bounded ring  *)
(* and its snapshot, one SSE thread of DashboardServer, and the page in the*)
(* browser (app.js), which loads the snapshot and then follows the stream. *)
(* The connection may break; the browser's EventSource then reconnects with*)
(* the id of the last event it got.  A page whose snapshot could not be    *)
(* fetched stays as it is until somebody reloads it.                       *)
(***************************************************************************)
EXTENDS Naturals, Sequences, SequencesExt

CONSTANTS
  Keys,       (* the keys of the snapshot that events patch                *)
  NoKey,      (* of an event without a snapshot_patch                      *)
  RingSize,   (* 500: how many events the ring keeps                       *)
  Window,     (* 200: how many events the page keeps                       *)
  MaxEvents,  (* bound: how many events are published                      *)
  MaxBreaks   (* bound: how often the connection breaks or the page reloads*)

ASSUME KeysAssumption   == NoKey \notin Keys
ASSUME RingAssumption   == RingSize \in Nat \ {0} /\ Window \in Nat \ {0}
ASSUME BoundsAssumption == MaxEvents \in Nat /\ MaxBreaks \in Nat

VARIABLES
  ring, snapshot,             \* DecisionEventBus
  sse,                        \* the SSE thread, while it is connected
  page, view, timeline, lastId, \* the page; EventSource's last event id
  breaks,
  missed                      \* history: was an event skipped, that the page never got?

busVars  == <<ring, snapshot>>
pageVars == <<page, view, timeline, lastId>>
vars == <<busVars, sse, pageVars, breaks, missed>>

-----------------------------------------------------------------------------
(* A snapshot is known by the last event and, per key, the event that last *)
(* patched it; that is also what the page keeps.                           *)
Blank == [last |-> 0, patch |-> [k \in Keys |-> 0]]
Patched(s, e) ==
  [last |-> e.seq, patch |-> [k \in Keys |-> IF k = e.key THEN e.seq ELSE s.patch[k]]]
Seqs(s)  == {e.seq : e \in ToSet(s)}

NoThread == [at |-> "off", last |-> 0, batch |-> << >>]

Init ==
  /\ ring = << >> /\ snapshot = Blank /\ sse = NoThread
  /\ page = "loading" /\ view = Blank /\ timeline = << >> /\ lastId = 0
  /\ breaks = 0 /\ missed = FALSE

(* Mutant: a ring that forgets nothing.                                    *)
PublishUnbounded(key) ==
  LET e == [seq |-> snapshot.last + 1, key |-> key] IN
  /\ snapshot.last < MaxEvents
  /\ ring' = Append(ring, e)
  /\ snapshot' = Patched(snapshot, e)
  /\ sse' = IF sse.at = "asleep" THEN [sse EXCEPT !.at = "read"] ELSE sse
  /\ UNCHANGED <<pageVars, breaks, missed>>

(* publish, all of it under the bus's lock: number, ring, snapshot, and a  *)
(* notification of the thread that waits.                                  *)
Publish(key) ==
  LET e == [seq |-> snapshot.last + 1, key |-> key] IN
  /\ snapshot.last < MaxEvents
  /\ ring' = IF Len(ring) < RingSize THEN Append(ring, e) ELSE Append(Tail(ring), e)
  /\ snapshot' = Patched(snapshot, e)
  /\ sse' = IF sse.at = "asleep" THEN [sse EXCEPT !.at = "read"] ELSE sse
  /\ UNCHANGED <<pageVars, breaks, missed>>

-----------------------------------------------------------------------------
(* The page lists an event that its list does not have, and forgets what   *)
(* is longer ago than the window.                                          *)
Shows(e) ==
  timeline' = LET longer == Append(timeline, e.seq) IN
              IF e.seq \in ToSet(timeline) THEN timeline
              ELSE IF Len(longer) > Window THEN Tail(longer) ELSE longer

(* loadSnapshot; the fetch may fail, and then the page does not connect.   *)
LoadSnapshot ==
  /\ page = "loading"
  /\ view' = snapshot
  /\ timeline' = IF ring = << >> THEN timeline ELSE Append(timeline, Last(ring).seq)
  /\ page' = "following"
  /\ UNCHANGED <<busVars, sse, lastId, breaks, missed>>
LoadFails ==
  /\ page = "loading"
  /\ page' = "failed"
  /\ UNCHANGED <<busVars, sse, view, timeline, lastId, breaks, missed>>

(* Mutants: the thread starts at the newest event, at the oldest one.      *)
ConnectsAtNewest ==
  /\ page = "following" /\ sse.at = "off"
  /\ sse' = [at |-> "read", last |-> snapshot.last, batch |-> << >>]
  /\ UNCHANGED <<busVars, pageVars, breaks, missed>>

ConnectsAtOldest ==
  /\ page = "following" /\ sse.at = "off"
  /\ sse' = [at |-> "read", last |-> 0, batch |-> << >>]
  /\ UNCHANGED <<busVars, pageVars, breaks, missed>>

(* _events: the thread starts behind Last-Event-ID.                        *)
Connect ==
  /\ page = "following" /\ sse.at = "off"
  /\ sse' = [at |-> "read", last |-> lastId, batch |-> << >>]
  /\ UNCHANGED <<busVars, pageVars, breaks, missed>>

(* events_after: what the ring still has, which is in order, behind the    *)
(* last event sent; the gap it reports is ignored.                         *)
(* A gap is a loss when the page does not have the skipped events from its *)
(* snapshot: view.last is the snapshot's until the first event arrives.    *)
ReadRing ==
  /\ sse.at = "read"
  /\ \E k \in 0 .. Len(ring) :
       LET later == SubSeq(ring, k + 1, Len(ring)) IN
       /\ \A i \in 1 .. Len(ring) : ring[i].seq > sse.last <=> i > k
       /\ sse' = [sse EXCEPT !.at = IF later = << >> THEN "wait" ELSE "send", !.batch = later]
       /\ missed' = (missed \/ (later # << >> /\ Head(later).seq > view.last + 1))
  /\ UNCHANGED <<busVars, pageVars, breaks>>

(* wait_for_events: under the lock, nothing new; then notified, or 15 s.   *)
Wait ==
  /\ sse.at = "wait"
  /\ sse' = [sse EXCEPT !.at = IF snapshot.last <= sse.last THEN "asleep" ELSE "read"]
  /\ UNCHANGED <<busVars, pageVars, breaks, missed>>
Heartbeat ==
  /\ sse.at = "asleep"
  /\ sse' = [sse EXCEPT !.at = "read"]
  /\ UNCHANGED <<busVars, pageVars, breaks, missed>>

(* Mutant: the page skips an event that it lists already, and its patch.   *)
DeliverSkipsShown ==
  /\ sse.at = "send"
  /\ LET e == Head(sse.batch) IN
       /\ view' = IF e.seq \in ToSet(timeline) THEN [view EXCEPT !.last = e.seq] ELSE Patched(view, e)
       /\ Shows(e) /\ lastId' = e.seq
       /\ sse' = [at |-> IF Len(sse.batch) = 1 THEN "read" ELSE "send",
                  last |-> e.seq, batch |-> Tail(sse.batch)]
  /\ UNCHANGED <<busVars, page, breaks, missed>>

(* One event is written, received and applied.                             *)
Deliver ==
  /\ sse.at = "send"
  /\ LET e == Head(sse.batch) IN
       /\ view' = Patched(view, e) /\ Shows(e) /\ lastId' = e.seq
       /\ sse' = [at |-> IF Len(sse.batch) = 1 THEN "read" ELSE "send",
                  last |-> e.seq, batch |-> Tail(sse.batch)]
  /\ UNCHANGED <<busVars, page, breaks, missed>>

(* The connection breaks: what was not delivered is lost with the thread.  *)
Break ==
  /\ sse.at # "off" /\ breaks < MaxBreaks
  /\ sse' = NoThread /\ breaks' = breaks + 1
  /\ UNCHANGED <<busVars, pageVars, missed>>

Reload ==
  /\ page # "loading" /\ breaks < MaxBreaks
  /\ sse' = NoThread /\ breaks' = breaks + 1
  /\ page' = "loading" /\ view' = Blank /\ timeline' = << >> /\ lastId' = 0
  /\ missed' = FALSE
  /\ UNCHANGED busVars

Next ==
  \/ \E k \in Keys \union {NoKey} : Publish(k)
  \/ LoadSnapshot \/ LoadFails \/ Connect \/ ReadRing \/ Wait \/ Heartbeat \/ Deliver \/ Break \/ Reload

(* The server's thread and the browser keep running, and a fetch ends, well*)
(* or badly; the agent need not run.                                       *)
Spec == Init /\ [][Next]_vars
          /\ WF_vars(LoadSnapshot \/ LoadFails \/ Connect)
          /\ WF_vars(ReadRing \/ Wait \/ Heartbeat \/ Deliver)

-----------------------------------------------------------------------------
TypeOK ==
  /\ ring \in Seq([seq : 1 .. MaxEvents, key : Keys \union {NoKey}]) /\ Len(ring) <= RingSize
  /\ {snapshot, view} \subseteq [last : 0 .. MaxEvents, patch : [Keys -> 0 .. MaxEvents]]
  /\ sse.at \in {"off", "read", "wait", "asleep", "send"} /\ sse.last \in 0 .. snapshot.last
  /\ sse.at = "send" <=> sse.batch # << >>
  /\ page \in {"loading", "failed", "following"} /\ lastId \in 0 .. snapshot.last
  /\ timeline \in Seq(1 .. MaxEvents) /\ Len(timeline) <= Window
  /\ breaks \in 0 .. MaxBreaks /\ missed \in BOOLEAN

(* The list is in the order of publication, but for its first entry, which *)
(* may be the snapshot's last event with the events before it replayed     *)
(* behind it: neither a reconnection nor what the list has forgotten brings*)
(* an old event in again behind newer ones.                                *)
ListedInOrder ==
  \A i, j \in 2 .. Len(timeline) : i < j => timeline[i] < timeline[j]

(* A page that stands at the bus's last event shows the bus's snapshot,    *)
(* although it goes back to older events after it loaded the snapshot, and *)
(* again after each reconnection; unless the ring had dropped an event     *)
(* before the page got it.                                                 *)
CaughtUp == view.last = snapshot.last /\ ~missed => view.patch = snapshot.patch

(* When the agent falls silent, a page that got its snapshot ends up at the*)
(* last event, however often the connection broke; and with the bus's      *)
(* snapshot, unless the ring had dropped an event before the page got it   *)
(* (the gap that the server does not tell the page about).  A page whose   *)
(* snapshot failed to load never connects: it catches up only if somebody  *)
(* reloads it.                                                             *)
PageCatchesUp ==
  <>[](page # "failed" =>
         view.last = snapshot.last /\ (missed \/ view.patch = snapshot.patch))
=============================================================================
