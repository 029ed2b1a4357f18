---------------------- MODULE DashboardStream_proofs ------------------------
(***************************************************************************)
(* Proofs about DashboardStream, for any keys, any size of the ring and any*)
(* number of events and breaks: types, that the page lists the events in   *)
(* order, and that a page which stands at the last event shows the bus's   *)
(* snapshot.                                                               *)
(***************************************************************************)
EXTENDS DashboardStream, SequenceTheorems, TLAPS

USE KeysAssumption, RingAssumption, BoundsAssumption

-----------------------------------------------------------------------------
Events    == [seq : 1 .. MaxEvents, key : Keys \union {NoKey}]
Snapshots == [last : 0 .. MaxEvents, patch : [Keys -> 0 .. MaxEvents]]

TypeInv ==
  /\ ring \in Seq(Events) /\ snapshot \in Snapshots /\ view \in Snapshots
  /\ sse \in [at : {"off", "read", "wait", "asleep", "send"}, last : 0 .. MaxEvents,
              batch : Seq(Events)]
  /\ page \in {"loading", "failed", "following"} /\ lastId \in 0 .. MaxEvents
  /\ timeline \in Seq(1 .. MaxEvents)
  /\ breaks \in 0 .. MaxBreaks /\ missed \in BOOLEAN

(* Nothing that was sent or shown is newer than the bus's last event; the  *)
(* thread stands where the page does; and none serves a page that does not *)
(* follow.                                                                 *)
OrderInv ==
  /\ sse.last <= snapshot.last /\ lastId <= snapshot.last /\ view.last <= snapshot.last
  /\ sse.at = "send" <=> sse.batch # << >>
  /\ page # "following" => sse.at = "off"
  /\ sse.at # "off" => sse.last = lastId

(* A run of events without a gap, whose patches are in the snapshot: what  *)
(* it says of a key is not newer than the snapshot, and the event by which *)
(* the snapshot knows a key is about that key, if it is in the run.        *)
Fits(s, snap) ==
  /\ \A i \in 1 .. Len(s) : s[i].seq = s[1].seq + i - 1
  /\ \A i \in 1 .. Len(s) : s[i].seq <= snap.last
  /\ \A i \in 1 .. Len(s), k \in Keys :
       /\ s[i].key = k => s[i].seq <= snap.patch[k]
       /\ s[i].seq = snap.patch[k] => s[i].key = k

RingInv ==
  /\ Len(ring) <= RingSize /\ Fits(ring, snapshot)
  /\ snapshot.last > 0 => ring # << >>
  /\ ring # << >> => ring[Len(ring)].seq = snapshot.last
  /\ \A k \in Keys : snapshot.patch[k] <= snapshot.last

(* The batch that is being sent is news to the thread, and joins what the  *)
(* page has, unless an event is missing for good.                          *)
BatchInv ==
  /\ Fits(sse.batch, snapshot)
  /\ sse.batch # << >> => sse.batch[1].seq > sse.last
  /\ sse.batch # << >> /\ ~missed => sse.batch[1].seq <= view.last + 1

(* The page knows each key by the bus's event, as far as it has come.      *)
ViewInv ==
  /\ \A k \in Keys : view.patch[k] <= snapshot.patch[k]
  /\ ~missed => \A k \in Keys :
       snapshot.patch[k] <= view.last => view.patch[k] = snapshot.patch[k]

(* Behind its first entry the list has only what the stream brought.       *)
ListInv ==
  /\ page = "loading" => timeline = << >>
  /\ Len(timeline) <= Window
  /\ \A i \in 2 .. Len(timeline) : timeline[i] <= lastId
  /\ ListedInOrder

IInv == TypeInv /\ OrderInv /\ RingInv /\ BatchInv /\ ViewInv /\ ListInv

LEMMA IInvIsTyped == IInv => TypeOK
<1>. SUFFICES ASSUME IInv PROVE TypeOK  OBVIOUS
<1>1. /\ ring \in Seq(Events) /\ Len(ring) <= RingSize
      /\ timeline \in Seq(1 .. MaxEvents) /\ Len(timeline) <= Window
  BY DEF IInv, TypeInv, RingInv, ListInv
<1>2. snapshot \in Snapshots /\ view \in Snapshots /\ sse.last \in 0 .. snapshot.last
      /\ lastId \in 0 .. snapshot.last
  BY DEF IInv, TypeInv, OrderInv, Snapshots
<1>3. sse.at \in {"off", "read", "wait", "asleep", "send"}  BY DEF IInv, TypeInv
<1>. QED  BY <1>1, <1>2, <1>3 DEF TypeOK, IInv, TypeInv, OrderInv, Events, Snapshots

-----------------------------------------------------------------------------
(* Runs of events: a published event leaves a run in the snapshot, and can *)
(* be appended to it; the tail and the end of a run are runs.              *)
LEMMA PatchedProperties ==
  ASSUME NEW snap \in Snapshots, NEW e \in Events
  PROVE  /\ Patched(snap, e) \in Snapshots /\ Patched(snap, e).last = e.seq
         /\ \A k \in Keys : Patched(snap, e).patch[k] = IF k = e.key THEN e.seq ELSE snap.patch[k]
<1>1. e.seq \in 0 .. MaxEvents  BY DEF Events
<1>2. [k \in Keys |-> IF k = e.key THEN e.seq ELSE snap.patch[k]] \in [Keys -> 0 .. MaxEvents]
  BY <1>1 DEF Snapshots
<1>. QED  BY <1>1, <1>2 DEF Patched, Snapshots

LEMMA EventNumbers ==
  ASSUME NEW s \in Seq(Events)
  PROVE  \A i \in 1 .. Len(s) : s[i] \in Events /\ s[i].seq \in Nat
<1>1. \A i \in 1 .. Len(s) : s[i] \in Events  OBVIOUS
<1>2. \A e \in Events : e.seq \in Nat  BY DEF Events
<1>. QED  BY <1>1, <1>2

LEMMA FitsPatched ==
  ASSUME NEW snap \in Snapshots, NEW e \in Events, e.seq = snap.last + 1,
         NEW s \in Seq(Events), Fits(s, snap)
  PROVE  Fits(s, Patched(snap, e))
<1>. DEFINE new == Patched(snap, e)
<1>1. /\ new.last = snap.last + 1
      /\ \A k \in Keys : new.patch[k] = IF k = e.key THEN snap.last + 1 ELSE snap.patch[k]
  BY PatchedProperties
<1>2. snap.last \in Nat /\ \A k \in Keys : snap.patch[k] \in Nat  BY DEF Snapshots
<1>3. \A i \in 1 .. Len(s) : s[i].seq \in Nat  BY EventNumbers
<1>. HIDE DEF new
<1>4. ASSUME NEW i \in 1 .. Len(s), NEW k \in Keys
      PROVE  /\ s[i].key = k => s[i].seq <= new.patch[k]
             /\ s[i].seq = new.patch[k] => s[i].key = k
  <2>1. s[i].seq <= snap.last /\ (s[i].key = k => s[i].seq <= snap.patch[k])
        /\ (s[i].seq = snap.patch[k] => s[i].key = k)
    BY DEF Fits
  <2>. QED  BY <1>1, <1>2, <1>3, <2>1
<1>5. \A i \in 1 .. Len(s) : s[i].seq <= new.last  BY <1>1, <1>2, <1>3 DEF Fits
<1>6. \A i \in 1 .. Len(s) : s[i].seq = s[1].seq + i - 1  BY DEF Fits
<1>. QED  BY <1>4, <1>5, <1>6 DEF Fits, new

LEMMA FitsAppended ==
  ASSUME NEW snap \in Snapshots, NEW e \in Events, e.seq = snap.last + 1,
         NEW s \in Seq(Events), Fits(s, snap), s # << >> => s[Len(s)].seq = snap.last,
         \A k \in Keys : snap.patch[k] <= snap.last
  PROVE  Fits(Append(s, e), Patched(snap, e))
<1>. DEFINE new == Patched(snap, e)  t == Append(s, e)
<1>1. /\ new.last = snap.last + 1
      /\ \A k \in Keys : new.patch[k] = IF k = e.key THEN snap.last + 1 ELSE snap.patch[k]
  BY PatchedProperties
<1>2. snap.last \in Nat /\ \A k \in Keys : snap.patch[k] \in Nat  BY DEF Snapshots
<1>3. \A i \in 1 .. Len(s) : s[i].seq \in Nat  BY EventNumbers
<1>4. /\ Len(t) = Len(s) + 1 /\ Len(s) \in Nat /\ t[Len(s) + 1] = e
      /\ \A i \in 1 .. Len(s) : t[i] = s[i]
  OBVIOUS
<1>5. Fits(s, new)  BY FitsPatched
<1>. HIDE DEF new, t
<1>6. \A i \in 1 .. Len(t) : t[i].seq = t[1].seq + i - 1
  <2>1. CASE Len(s) = 0  BY <1>2, <1>4, <2>1
  <2>2. CASE Len(s) > 0
    <3>1. s # << >> /\ s[Len(s)].seq = snap.last /\ s[Len(s)].seq = s[1].seq + Len(s) - 1
      BY <2>2, <1>4 DEF Fits
    <3>2. t[1] = s[1] /\ s[1].seq \in Nat /\ e.seq = s[1].seq + (Len(s) + 1) - 1
      BY <1>2, <1>3, <1>4, <2>2, <3>1
    <3>3. \A i \in 1 .. Len(s) : t[i].seq = t[1].seq + i - 1  BY <1>4, <3>2 DEF Fits
    <3>. QED  BY <1>4, <3>2, <3>3
  <2>. QED  BY <1>4, <2>1, <2>2
<1>7. ASSUME NEW i \in 1 .. Len(t)
      PROVE  /\ t[i].seq <= new.last
             /\ \A k \in Keys : /\ t[i].key = k => t[i].seq <= new.patch[k]
                                /\ t[i].seq = new.patch[k] => t[i].key = k
  <2>1. CASE i = Len(s) + 1  BY <1>1, <1>2, <1>4, <2>1
  <2>2. CASE i # Len(s) + 1
    <3>1. i \in 1 .. Len(s)  BY <1>4, <2>2
    <3>. QED  BY <1>4, <1>5, <3>1 DEF Fits
  <2>. QED  BY <2>1, <2>2
<1>. QED  BY <1>6, <1>7 DEF Fits, new, t

LEMMA FitsSuffix ==
  ASSUME NEW snap \in Snapshots, NEW s \in Seq(Events), Fits(s, snap), NEW k \in 0 .. Len(s)
  PROVE  LET t == SubSeq(s, k + 1, Len(s)) IN
         /\ t \in Seq(Events) /\ Fits(t, snap)
         /\ Len(t) = Len(s) - k /\ \A i \in 1 .. Len(t) : t[i] = s[i + k]
<1>. DEFINE t == SubSeq(s, k + 1, Len(s))
<1>1. t \in Seq(Events) /\ Len(t) = Len(s) - k /\ \A i \in 1 .. Len(t) : t[i] = s[i + k]
  BY SubSeqProperties
<1>2. \A i \in 1 .. Len(s) : s[i].seq \in Nat  BY EventNumbers
<1>. HIDE DEF t
<1>3. \A i \in 1 .. Len(t) : i + k \in 1 .. Len(s)  BY <1>1
<1>4. \A i \in 1 .. Len(t) : t[i].seq = t[1].seq + i - 1
  <2>. SUFFICES ASSUME NEW i \in 1 .. Len(t) PROVE t[i].seq = t[1].seq + i - 1  OBVIOUS
  <2>1. 1 \in 1 .. Len(t)  BY <1>1
  <2>2. t[i].seq = s[1].seq + (i + k) - 1 /\ t[1].seq = s[1].seq + (1 + k) - 1
    BY <1>1, <1>3, <2>1 DEF Fits
  <2>3. s[1].seq \in Nat  BY <1>2, <1>3, <2>1
  <2>. QED  BY <2>2, <2>3
<1>5. ASSUME NEW i \in 1 .. Len(t)
      PROVE  /\ t[i].seq <= snap.last
             /\ \A key \in Keys : /\ t[i].key = key => t[i].seq <= snap.patch[key]
                                  /\ t[i].seq = snap.patch[key] => t[i].key = key
  <2>1. t[i] = s[i + k] /\ i + k \in 1 .. Len(s)  BY <1>1, <1>3
  <2>. QED  BY <2>1 DEF Fits
<1>6. Fits(t, snap)  BY <1>4, <1>5 DEF Fits
<1>. QED  BY <1>1, <1>6 DEF t

LEMMA FitsTail ==
  ASSUME NEW snap \in Snapshots, NEW s \in Seq(Events), Fits(s, snap), s # << >>
  PROVE  /\ Tail(s) \in Seq(Events) /\ Fits(Tail(s), snap) /\ Len(Tail(s)) = Len(s) - 1
         /\ \A i \in 1 .. Len(s) - 1 : Tail(s)[i] = s[i + 1]
<1>1. Len(s) \in Nat /\ 1 \in 0 .. Len(s)  BY EmptySeq
<1>2. Tail(s) = SubSeq(s, 1 + 1, Len(s))  BY TailIsSubSeq
<1>3. Tail(s) \in Seq(Events) /\ Len(Tail(s)) = Len(s) - 1
      /\ \A i \in 1 .. Len(s) - 1 : Tail(s)[i] = s[i + 1]
  BY HeadTailProperties
<1>4. Fits(SubSeq(s, 1 + 1, Len(s)), snap)  BY <1>1, FitsSuffix
<1>. QED  BY <1>2, <1>3, <1>4

-----------------------------------------------------------------------------
(* An event that is news to the page goes to the end of its list.          *)
LEMMA ShowsKeeps ==
  ASSUME TypeInv, ListInv, NEW e \in Events, e.seq > lastId, Shows(e), lastId' = e.seq
  PROVE  /\ timeline' \in Seq(1 .. MaxEvents) /\ Len(timeline') <= Window
         /\ \A i \in 2 .. Len(timeline') : timeline'[i] <= lastId'
         /\ ListedInOrder'
<1>. DEFINE n == Len(timeline)  longer == Append(timeline, e.seq)
<1>1. /\ timeline \in Seq(1 .. MaxEvents) /\ n \in Nat /\ n <= Window
      /\ lastId \in Nat /\ e.seq \in 1 .. MaxEvents
  BY DEF TypeInv, ListInv, Events
<1>2. \A i \in 1 .. n : timeline[i] \in Nat  BY <1>1
<1>3. /\ \A i \in 2 .. n : timeline[i] <= lastId
      /\ \A i, j \in 2 .. n : i < j => timeline[i] < timeline[j]
  BY DEF ListInv, ListedInOrder
<1>4. /\ longer \in Seq(1 .. MaxEvents) /\ Len(longer) = n + 1 /\ longer[n + 1] = e.seq
      /\ \A i \in 1 .. n : longer[i] = timeline[i]
  BY <1>1
<1>. HIDE DEF n, longer
<1>5. /\ \A i \in 2 .. n + 1 : longer[i] <= e.seq
      /\ \A i, j \in 2 .. n + 1 : i < j => longer[i] < longer[j]
  <2>0. \A i \in 2 .. n + 1 : i = n + 1 \/ (i \in 2 .. n /\ i \in 1 .. n)  BY <1>1
  <2>1. \A i \in 2 .. n : longer[i] \in Nat /\ longer[i] < e.seq
    <3>. TAKE i \in 2 .. n
    <3>1. i \in 1 .. n /\ timeline[i] \in Nat /\ timeline[i] <= lastId  BY <1>1, <1>2, <1>3
    <3>. QED  BY <1>1, <1>4, <3>1
  <2>2. \A i \in 2 .. n + 1 : longer[i] <= e.seq  BY <1>1, <1>4, <2>0, <2>1
  <2>3. ASSUME NEW i \in 2 .. n + 1, NEW j \in 2 .. n + 1, i < j
        PROVE  longer[i] < longer[j]
    <3>1. i \in 2 .. n /\ i \in 1 .. n  BY <1>1, <2>3
    <3>2. CASE j = n + 1  BY <1>4, <2>1, <3>1, <3>2
    <3>3. CASE j # n + 1  BY <1>3, <1>4, <2>0, <2>3, <3>1, <3>3
    <3>. QED  BY <3>2, <3>3
  <2>. QED  BY <2>2, <2>3
<1>6. timeline' = IF e.seq \in ToSet(timeline) THEN timeline
                  ELSE IF Len(longer) > Window THEN Tail(longer) ELSE longer
  BY DEF Shows, longer
<1>7. CASE timeline' = timeline
  <2>1. \A i \in 2 .. n : timeline[i] <= e.seq
    <3>. TAKE i \in 2 .. n
    <3>1. i \in 1 .. n /\ timeline[i] \in Nat /\ timeline[i] <= lastId  BY <1>1, <1>2, <1>3
    <3>. QED  BY <1>1, <3>1
  <2>. QED  BY <1>1, <1>3, <1>7, <2>1 DEF n, ListedInOrder
<1>8. CASE timeline' = longer /\ Len(longer) <= Window
  BY <1>4, <1>5, <1>8 DEF ListedInOrder
<1>9. CASE timeline' = Tail(longer)
  <2>1. longer # << >>  BY <1>1, <1>4, EmptySeq
  <2>2. /\ timeline' \in Seq(1 .. MaxEvents) /\ Len(timeline') = n
        /\ \A i \in 1 .. n : timeline'[i] = longer[i + 1]
    BY <1>1, <1>4, <1>9, <2>1, HeadTailProperties
  <2>3. \A i \in 2 .. n : i \in 1 .. n /\ i + 1 \in 2 .. n + 1  BY <1>1
  <2>4. \A i \in 2 .. n : timeline'[i] <= e.seq  BY <1>5, <2>2, <2>3
  <2>5. \A i, j \in 2 .. n : i < j => timeline'[i] < timeline'[j]
    <3>. SUFFICES ASSUME NEW i \in 2 .. n, NEW j \in 2 .. n, i < j
                  PROVE  timeline'[i] < timeline'[j]
      OBVIOUS
    <3>1. i + 1 < j + 1  BY <1>1
    <3>2. longer[i + 1] < longer[j + 1]  BY <1>5, <2>3, <3>1
    <3>. QED  BY <2>2, <2>3, <3>2
  <2>. QED  BY <1>1, <2>2, <2>4, <2>5 DEF ListedInOrder
<1>10. Len(longer) > Window \/ Len(longer) <= Window  BY <1>1, <1>4
<1>. QED  BY <1>6, <1>7, <1>8, <1>9, <1>10

LEMMA FitsEmpty == \A snap : Fits(<< >>, snap)
BY DEF Fits

LEMMA NoThreadTyped ==
  NoThread \in [at : {"off", "read", "wait", "asleep", "send"}, last : 0 .. MaxEvents,
                batch : Seq(Events)]
<1>1. << >> \in Seq(Events)  OBVIOUS
<1>. QED  BY <1>1 DEF NoThread

LEMMA InitIInv == Init => IInv
<1>. SUFFICES ASSUME Init PROVE IInv  OBVIOUS
<1>1. Blank \in Snapshots /\ Blank.last = 0 /\ \A k \in Keys : Blank.patch[k] = 0
  BY DEF Blank, Snapshots
<1>2. TypeInv
  <2>1. << >> \in Seq(Events) /\ << >> \in Seq(1 .. MaxEvents)  OBVIOUS
  <2>2. 0 \in 0 .. MaxEvents /\ 0 \in 0 .. MaxBreaks  OBVIOUS
  <2>3. /\ ring = << >> /\ snapshot = Blank /\ view = Blank /\ sse = NoThread
        /\ page = "loading" /\ lastId = 0 /\ timeline = << >> /\ breaks = 0 /\ missed = FALSE
    BY DEF Init
  <2>. QED  BY <1>1, <2>1, <2>2, <2>3, NoThreadTyped, Zenon DEF TypeInv
<1>3. OrderInv  BY <1>1 DEF Init, OrderInv, NoThread
<1>4. RingInv  BY <1>1, FitsEmpty DEF Init, RingInv
<1>5. BatchInv  BY FitsEmpty DEF Init, BatchInv, NoThread
<1>6. ViewInv  BY <1>1 DEF Init, ViewInv
<1>7. ListInv  BY DEF Init, ListInv, ListedInOrder
<1>. QED  BY <1>2, <1>3, <1>4, <1>5, <1>6, <1>7 DEF IInv

LEMMA PublishIInv ==
  ASSUME IInv, NEW key \in Keys \union {NoKey}, Publish(key)
  PROVE  IInv'
<1>. USE DEF IInv
<1>. DEFINE e == [seq |-> snapshot.last + 1, key |-> key]
            kept == IF Len(ring) < RingSize THEN ring ELSE Tail(ring)
<1>1. /\ snapshot.last \in Nat /\ e \in Events
      /\ ring' = Append(kept, e) /\ snapshot' = Patched(snapshot, e)
      /\ UNCHANGED <<page, view, timeline, lastId, breaks, missed>>
      /\ sse' = sse \/ (sse.at = "asleep" /\ sse' = [sse EXCEPT !.at = "read"])
  <2>1. snapshot.last \in Nat /\ snapshot.last < MaxEvents
    BY DEF Publish, TypeInv, Snapshots
  <2>2. e \in Events  BY <2>1 DEF Events
  <2>. QED  BY <2>1, <2>2 DEF Publish, pageVars
<1>2. /\ snapshot' \in Snapshots /\ snapshot'.last = snapshot.last + 1
      /\ \A k \in Keys : snapshot'.patch[k] = IF k = key THEN snapshot.last + 1 ELSE snapshot.patch[k]
  <2>1. snapshot \in Snapshots /\ e \in Events /\ snapshot' = Patched(snapshot, e)
    BY <1>1 DEF TypeInv
  <2>2. e.seq = snapshot.last + 1 /\ e.key = key  OBVIOUS
  <2>. HIDE DEF e
  <2>. QED  BY <2>1, <2>2, PatchedProperties
<1>3. /\ kept \in Seq(Events) /\ Fits(kept, snapshot) /\ Len(kept) < RingSize
      /\ kept # << >> => kept[Len(kept)].seq = snapshot.last
  <2>1. CASE Len(ring) < RingSize  BY <2>1 DEF TypeInv, RingInv
  <2>2. CASE ~(Len(ring) < RingSize)
    <3>1. ring \in Seq(Events) /\ Len(ring) \in Nat /\ Len(ring) = RingSize /\ ring # << >>
      BY <2>2 DEF TypeInv, RingInv
    <3>2. /\ kept \in Seq(Events) /\ Fits(kept, snapshot) /\ Len(kept) = Len(ring) - 1
          /\ \A i \in 1 .. Len(ring) - 1 : kept[i] = ring[i + 1]
      BY <2>2, <3>1, FitsTail DEF TypeInv, RingInv
    <3>3. kept # << >> => kept[Len(kept)] = ring[Len(ring)]
      BY <3>1, <3>2
    <3>. QED  BY <3>1, <3>2, <3>3 DEF RingInv
  <2>. QED  BY <2>1, <2>2
<1>. HIDE DEF e, kept
<1>4. e.seq = snapshot.last + 1  BY DEF e
<1>5. /\ ring' \in Seq(Events) /\ Len(ring') = Len(kept) + 1 /\ ring'[Len(ring')] = e
  BY <1>1, <1>3
<1>6. Fits(ring', snapshot')
  BY <1>1, <1>3, <1>4, FitsAppended DEF TypeInv, RingInv
<1>7. /\ sse' \in [at : {"off", "read", "wait", "asleep", "send"}, last : 0 .. MaxEvents,
                   batch : Seq(Events)]
      /\ sse'.last = sse.last /\ sse'.batch = sse.batch
      /\ sse'.at = "send" <=> sse.at = "send"
      /\ sse'.at = "off" <=> sse.at = "off"
  BY <1>1 DEF TypeInv
<1>8. TypeInv'  BY <1>1, <1>2, <1>5, <1>7 DEF TypeInv
<1>9. OrderInv'
  BY <1>1, <1>2, <1>7 DEF OrderInv, TypeInv, Snapshots
<1>10. RingInv'
  <2>1. Len(ring') <= RingSize /\ ring' # << >>  BY <1>3, <1>5
  <2>2. ring'[Len(ring')].seq = snapshot'.last  BY <1>2, <1>4, <1>5
  <2>3. \A k \in Keys : snapshot.patch[k] \in Nat /\ snapshot.patch[k] <= snapshot.last
    BY DEF RingInv, TypeInv, Snapshots
  <2>4. \A k \in Keys : snapshot'.patch[k] <= snapshot'.last
    BY <1>1, <1>2, <2>3
  <2>. QED  BY <1>6, <2>1, <2>2, <2>4 DEF RingInv
<1>11. BatchInv'
  <2>1. Fits(sse.batch, snapshot')  BY <1>1, <1>4, FitsPatched DEF TypeInv, BatchInv
  <2>. QED  BY <1>1, <1>7, <2>1 DEF BatchInv
<1>12. ViewInv'
  <2>1. \A k \in Keys : snapshot.patch[k] \in Nat /\ snapshot.patch[k] <= snapshot.last
    BY DEF TypeInv, Snapshots, RingInv
  <2>2. view.last \in Nat /\ view.last <= snapshot.last /\ \A k \in Keys : view.patch[k] \in Nat
    BY DEF TypeInv, Snapshots, OrderInv
  <2>3. \A k \in Keys : view.patch[k] <= snapshot'.patch[k]
    BY <1>1, <1>2, <2>1, <2>2 DEF ViewInv
  <2>4. ASSUME ~missed, NEW k \in Keys, snapshot'.patch[k] <= view.last
        PROVE  view.patch[k] = snapshot'.patch[k]
    BY <1>1, <1>2, <2>1, <2>2, <2>4 DEF ViewInv
  <2>. QED  BY <1>1, <2>3, <2>4 DEF ViewInv
<1>13. ListInv'  BY <1>1 DEF ListInv, ListedInOrder
<1>. QED  BY <1>8, <1>9, <1>10, <1>11, <1>12, <1>13

LEMMA LoadSnapshotIInv ==
  ASSUME IInv, LoadSnapshot
  PROVE  IInv'
<1>. USE DEF IInv
<1>1. /\ page = "loading" /\ page' = "following" /\ view' = snapshot
      /\ UNCHANGED <<ring, snapshot, sse, lastId, breaks, missed>>
  BY DEF LoadSnapshot, busVars
<1>2. sse.batch = << >> /\ snapshot.last \in Nat /\ \A k \in Keys : snapshot.patch[k] \in Nat
  BY <1>1 DEF OrderInv, TypeInv, Snapshots
<1>3. timeline' \in Seq(1 .. MaxEvents) /\ ListInv'
  <2>1. CASE ring = << >>
    <3>1. timeline' = << >>  BY <1>1, <2>1 DEF LoadSnapshot, ListInv
    <3>. QED  BY <1>1, <3>1 DEF ListInv, ListedInOrder
  <2>2. CASE ring # << >>
    <3>1. Last(ring) = ring[Len(ring)] /\ Last(ring) \in Events
      BY <2>2 DEF TypeInv, Last
    <3>2. timeline' = Append(<< >>, Last(ring).seq) /\ Last(ring).seq \in 1 .. MaxEvents
      BY <1>1, <2>2, <3>1 DEF LoadSnapshot, ListInv, Events
    <3>3. timeline' \in Seq(1 .. MaxEvents) /\ Len(timeline') = 1  BY <3>2
    <3>. QED  BY <1>1, <3>3 DEF ListInv, ListedInOrder
  <2>. QED  BY <2>1, <2>2
<1>4. TypeInv'  BY <1>1, <1>3 DEF TypeInv
<1>5. OrderInv'  BY <1>1, <1>2 DEF OrderInv
<1>6. RingInv' /\ BatchInv'  BY <1>1, <1>2, FitsEmpty DEF RingInv, BatchInv
<1>7. ViewInv'  BY <1>1, <1>2 DEF ViewInv
<1>. QED  BY <1>3, <1>4, <1>5, <1>6, <1>7

LEMMA LoadFailsIInv ==
  ASSUME IInv, LoadFails
  PROVE  IInv'
<1>. USE DEF IInv
<1>1. /\ page = "loading" /\ page' = "failed"
      /\ UNCHANGED <<ring, snapshot, sse, view, timeline, lastId, breaks, missed>>
  BY DEF LoadFails, busVars
<1>2. TypeInv' /\ OrderInv'  BY <1>1 DEF TypeInv, OrderInv
<1>3. RingInv' /\ BatchInv' /\ ViewInv'  BY <1>1 DEF RingInv, BatchInv, ViewInv
<1>4. ListInv'  BY <1>1 DEF ListInv, ListedInOrder
<1>. QED  BY <1>2, <1>3, <1>4

LEMMA ReadRingIInv ==
  ASSUME IInv, ReadRing
  PROVE  IInv'
<1>. USE DEF IInv
<1>1. PICK k \in 0 .. Len(ring) :
        LET later == SubSeq(ring, k + 1, Len(ring)) IN
        /\ \A i \in 1 .. Len(ring) : ring[i].seq > sse.last <=> i > k
        /\ sse' = [sse EXCEPT !.at = IF later = << >> THEN "wait" ELSE "send", !.batch = later]
        /\ missed' = (missed \/ (later # << >> /\ Head(later).seq > view.last + 1))
  BY DEF ReadRing
<1>. DEFINE later == SubSeq(ring, k + 1, Len(ring))
<1>2. UNCHANGED <<ring, snapshot, page, view, timeline, lastId, breaks>> /\ sse.at = "read"
  BY DEF ReadRing, busVars, pageVars
<1>3. /\ later \in Seq(Events) /\ Fits(later, snapshot)
      /\ Len(later) = Len(ring) - k /\ \A i \in 1 .. Len(later) : later[i] = ring[i + k]
  BY FitsSuffix DEF TypeInv, RingInv
<1>. HIDE DEF later
<1>4. /\ sse' = [sse EXCEPT !.at = IF later = << >> THEN "wait" ELSE "send", !.batch = later]
      /\ missed' = (missed \/ (later # << >> /\ Head(later).seq > view.last + 1))
  BY <1>1 DEF later
<1>5. /\ sse' \in [at : {"off", "read", "wait", "asleep", "send"}, last : 0 .. MaxEvents,
                   batch : Seq(Events)]
      /\ sse'.at = (IF later = << >> THEN "wait" ELSE "send")
      /\ sse'.batch = later /\ sse'.last = sse.last
  BY <1>3, <1>4 DEF TypeInv
<1>6. TypeInv'  BY <1>2, <1>4, <1>5 DEF TypeInv
<1>7. OrderInv'  BY <1>2, <1>5 DEF OrderInv
<1>8. RingInv' /\ ListInv'  BY <1>2 DEF RingInv, ListInv, ListedInOrder
<1>9. BatchInv'
  <2>1. later # << >> => Head(later) = later[1] /\ later[1].seq \in Nat
    BY <1>3, EventNumbers
  <2>2. view.last \in Nat  BY DEF TypeInv, Snapshots
  <2>3. later # << >> /\ ~missed' => ~(Head(later).seq > view.last + 1)  BY <1>4, Zenon
  <2>4. later # << >> /\ ~missed' => later[1].seq <= view.last + 1  BY <2>1, <2>2, <2>3
  <2>5. later # << >> => later[1].seq > sse.last
    <3>1. later # << >> => 1 \in 1 .. Len(later) /\ 1 + k \in 1 .. Len(ring) /\ 1 + k > k
      BY <1>3, EmptySeq DEF TypeInv
    <3>. QED  BY <1>1, <1>3, <3>1
  <2>. QED  BY <1>2, <1>3, <1>5, <2>4, <2>5 DEF BatchInv
<1>10. ViewInv'  BY <1>2, <1>4 DEF ViewInv
<1>. QED  BY <1>6, <1>7, <1>8, <1>9, <1>10

LEMMA DeliverIInv ==
  ASSUME IInv, Deliver
  PROVE  IInv'
<1>. USE DEF IInv
<1>. DEFINE e == sse.batch[1]  rest == Tail(sse.batch)
<1>1. sse.batch \in Seq(Events) /\ sse.batch # << >> /\ Len(sse.batch) \in Nat \ {0}
  BY DEF Deliver, OrderInv, TypeInv
<1>2. Head(sse.batch) = e /\ e \in Events /\ e.seq \in Nat /\ e.seq \in 1 .. MaxEvents
  <2>1. Head(sse.batch) = e /\ e \in Events  BY <1>1
  <2>. QED  BY <2>1 DEF Events
<1>3. /\ e.seq <= snapshot.last
      /\ \A k \in Keys : /\ e.key = k => e.seq <= snapshot.patch[k]
                         /\ e.seq = snapshot.patch[k] => e.key = k
      /\ ~missed => e.seq <= view.last + 1
  BY <1>1 DEF BatchInv, Fits
<1>4. /\ rest \in Seq(Events) /\ Fits(rest, snapshot) /\ Len(rest) = Len(sse.batch) - 1
      /\ rest # << >> => rest[1].seq = e.seq + 1
  <2>1. /\ rest \in Seq(Events) /\ Fits(rest, snapshot) /\ Len(rest) = Len(sse.batch) - 1
        /\ \A i \in 1 .. Len(sse.batch) - 1 : rest[i] = sse.batch[i + 1]
    BY <1>1, FitsTail DEF TypeInv, BatchInv
  <2>2. rest # << >> => rest[1] = sse.batch[2] /\ 2 \in 1 .. Len(sse.batch)
    BY <1>1, <2>1
  <2>3. rest # << >> => sse.batch[2].seq = e.seq + 2 - 1
    BY <2>2 DEF BatchInv, Fits
  <2>. QED  BY <1>2, <2>1, <2>2, <2>3
<1>5. /\ view' = Patched(view, e) /\ Shows(e) /\ lastId' = e.seq
      /\ sse' = [at |-> IF Len(sse.batch) = 1 THEN "read" ELSE "send", last |-> e.seq, batch |-> rest]
      /\ UNCHANGED <<ring, snapshot, page, breaks, missed>> /\ sse.at = "send"
  BY <1>2 DEF Deliver, busVars
<1>6. /\ view' \in Snapshots /\ view'.last = e.seq
      /\ \A k \in Keys : view'.patch[k] = IF k = e.key THEN e.seq ELSE view.patch[k]
  BY <1>2, <1>5, PatchedProperties DEF TypeInv
<1>7. timeline' \in Seq(1 .. MaxEvents) /\ ListInv'
  <2>1. sse.last = lastId /\ e.seq > lastId /\ page' = "following"
    BY <1>1, <1>5 DEF OrderInv, BatchInv, TypeInv
  <2>2. /\ timeline' \in Seq(1 .. MaxEvents) /\ Len(timeline') <= Window
        /\ \A i \in 2 .. Len(timeline') : timeline'[i] <= lastId'
        /\ ListedInOrder'
    BY <1>2, <1>5, <2>1, ShowsKeeps
  <2>. QED  BY <2>1, <2>2 DEF ListInv
<1>. HIDE DEF e, rest
<1>8. rest = << >> <=> Len(sse.batch) = 1
  <2>1. rest = << >> <=> Len(rest) = 0  BY <1>4, EmptySeq
  <2>. QED  BY <1>1, <1>4, <2>1
<1>9. TypeInv'  BY <1>2, <1>4, <1>5, <1>6, <1>7 DEF TypeInv
<1>10. OrderInv'  BY <1>3, <1>5, <1>6, <1>8 DEF OrderInv
<1>11. RingInv'  BY <1>5 DEF RingInv
<1>12. BatchInv'
  <2>1. rest # << >> => rest[1].seq <= view'.last + 1  BY <1>2, <1>4, <1>6
  <2>2. rest # << >> => rest[1].seq > e.seq  BY <1>2, <1>4
  <2>. QED  BY <1>4, <1>5, <2>1, <2>2 DEF BatchInv
<1>13. ViewInv'
  <2>1. \A k \in Keys : snapshot.patch[k] \in Nat /\ view.patch[k] \in Nat
    BY DEF TypeInv, Snapshots
  <2>2. view.last \in Nat  BY DEF TypeInv, Snapshots
  <2>3. \A k \in Keys : view'.patch[k] <= snapshot.patch[k]
    BY <1>3, <1>6, <2>1 DEF ViewInv
  <2>4. ASSUME ~missed, NEW k \in Keys, snapshot.patch[k] <= e.seq
        PROVE  view'.patch[k] = snapshot.patch[k]
    <3>1. CASE k = e.key  BY <1>2, <1>3, <1>6, <2>1, <2>4, <3>1
    <3>2. CASE k # e.key
      <4>1. snapshot.patch[k] # e.seq /\ e.seq <= view.last + 1  BY <1>3, <2>4, <3>2
      <4>2. snapshot.patch[k] <= view.last  BY <1>2, <2>1, <2>2, <2>4, <4>1
      <4>. QED  BY <1>6, <2>4, <3>2, <4>2 DEF ViewInv
    <3>. QED  BY <3>1, <3>2
  <2>. QED  BY <1>5, <1>6, <2>3, <2>4 DEF ViewInv
<1>. QED  BY <1>7, <1>9, <1>10, <1>11, <1>12, <1>13

LEMMA NextIInv == IInv /\ [Next]_vars => IInv'
<1>. SUFFICES ASSUME IInv, [Next]_vars PROVE IInv'  OBVIOUS
<1>. USE DEF IInv
<1>1. CASE UNCHANGED vars
  BY <1>1 DEF vars, busVars, pageVars, TypeInv, OrderInv, RingInv, BatchInv, ViewInv, ListInv, ListedInOrder
<1>2. ASSUME UNCHANGED <<ring, snapshot, page, view, timeline, lastId, breaks, missed>>,
             sse' \in [at : {"off", "read", "wait", "asleep", "send"}, last : 0 .. MaxEvents,
                       batch : Seq(Events)],
             sse'.batch = << >>, sse'.at # "send", sse'.last <= snapshot.last,
             page = "following", sse'.last = lastId
      PROVE  IInv'
  <2>1. TypeInv' /\ OrderInv'  BY <1>2 DEF TypeInv, OrderInv
  <2>2. RingInv' /\ ViewInv' /\ ListInv'  BY <1>2 DEF RingInv, ViewInv, ListInv, ListedInOrder
  <2>3. BatchInv'  BY <1>2, FitsEmpty DEF BatchInv
  <2>. QED  BY <2>1, <2>2, <2>3
<1>3. CASE Connect
  <2>1. sse' = [at |-> "read", last |-> lastId, batch |-> << >>] /\ page = "following"
        /\ UNCHANGED <<ring, snapshot, page, view, timeline, lastId, breaks, missed>>
    BY <1>3 DEF Connect, busVars, pageVars
  <2>. QED  BY <1>2, <2>1 DEF TypeInv, OrderInv
<1>4. CASE Wait \/ Heartbeat
  <2>1. /\ UNCHANGED <<ring, snapshot, page, view, timeline, lastId, breaks, missed>>
        /\ sse.at \in {"wait", "asleep"}
        /\ sse' = [sse EXCEPT !.at = "asleep"] \/ sse' = [sse EXCEPT !.at = "read"]
    BY <1>4 DEF Wait, Heartbeat, busVars, pageVars
  <2>2. sse.batch = << >> /\ page = "following" /\ sse.last <= snapshot.last /\ sse.last = lastId
    BY <2>1 DEF OrderInv
  <2>. QED  BY <1>2, <2>1, <2>2 DEF TypeInv
<1>5. CASE Break
  <2>1. /\ sse' = NoThread /\ breaks' = breaks + 1 /\ breaks < MaxBreaks
        /\ UNCHANGED <<ring, snapshot, page, view, timeline, lastId, missed>>
    BY <1>5 DEF Break, busVars, pageVars
  <2>2. TypeInv'  BY <2>1 DEF TypeInv, NoThread
  <2>3. OrderInv'  BY <2>1 DEF OrderInv, NoThread, TypeInv, Snapshots
  <2>4. RingInv' /\ ViewInv' /\ ListInv'  BY <2>1 DEF RingInv, ViewInv, ListInv, ListedInOrder
  <2>5. BatchInv'  BY <2>1, FitsEmpty DEF BatchInv, NoThread
  <2>. QED  BY <2>2, <2>3, <2>4, <2>5
<1>6. CASE Reload
  <2>1. /\ sse' = NoThread /\ breaks' = breaks + 1 /\ breaks < MaxBreaks
        /\ page' = "loading" /\ view' = Blank /\ timeline' = << >> /\ lastId' = 0
        /\ missed' = FALSE /\ UNCHANGED <<ring, snapshot>>
    BY <1>6 DEF Reload, busVars
  <2>2. Blank \in Snapshots /\ Blank.last = 0 /\ \A k \in Keys : Blank.patch[k] = 0
    BY DEF Blank, Snapshots
  <2>3. snapshot.last \in Nat /\ \A k \in Keys : snapshot.patch[k] \in Nat
    BY DEF TypeInv, Snapshots
  <2>4. TypeInv'
    <3>1. << >> \in Seq(1 .. MaxEvents)  OBVIOUS
    <3>2. breaks' \in 0 .. MaxBreaks  BY <2>1 DEF TypeInv
    <3>3. 0 \in 0 .. MaxEvents /\ ring' \in Seq(Events) /\ snapshot' \in Snapshots
      BY <2>1 DEF TypeInv
    <3>. QED  BY <2>1, <2>2, <3>1, <3>2, <3>3, NoThreadTyped, Zenon DEF TypeInv
  <2>5. OrderInv'  BY <2>1, <2>2, <2>3 DEF OrderInv, NoThread
  <2>6. RingInv' /\ ListInv'  BY <2>1 DEF RingInv, ListInv, ListedInOrder
  <2>7. ViewInv'  BY <2>1, <2>2, <2>3 DEF ViewInv
  <2>8. BatchInv'  BY <2>1, FitsEmpty DEF BatchInv, NoThread
  <2>. QED  BY <2>4, <2>5, <2>6, <2>7, <2>8
<1>. QED
  BY <1>1, <1>3, <1>4, <1>5, <1>6, PublishIInv, LoadSnapshotIInv, LoadFailsIInv,
     ReadRingIInv, DeliverIInv DEF Next

LEMMA IInvAlways == Spec => []IInv
BY InitIInv, NextIInv, PTL DEF Spec

-----------------------------------------------------------------------------
(* For any keys, ring and number of events, the bus, the thread and the    *)
(* page keep their types; among them, the ring stays within its size.      *)
THEOREM Typed == Spec => []TypeOK
BY IInvAlways, IInvIsTyped, PTL

(* However often the connection breaks and the ring is replayed, and       *)
(* whatever the list has forgotten by then: behind its first entry, it is  *)
(* in the order of publication.                                            *)
THEOREM EventsListedInOrder == Spec => []ListedInOrder
BY IInvAlways, PTL DEF IInv, ListInv

(* The safety half of PageCatchesUp: whatever older events the stream      *)
(* replayed over the snapshot that the page had loaded, once the page is at*)
(* the last event it shows the bus's snapshot, unless one was missed.      *)
THEOREM PageIsTrue == Spec => []CaughtUp
<1>1. IInv => CaughtUp
  <2>. SUFFICES ASSUME IInv, view.last = snapshot.last, ~missed
                PROVE  view.patch = snapshot.patch
    BY DEF CaughtUp
  <2>1. view.patch \in [Keys -> 0 .. MaxEvents] /\ snapshot.patch \in [Keys -> 0 .. MaxEvents]
    BY DEF IInv, TypeInv, Snapshots
  <2>2. \A k \in Keys : view.patch[k] = snapshot.patch[k]
    BY DEF IInv, RingInv, ViewInv
  <2>. QED  BY <2>1, <2>2
<1>. QED  BY <1>1, IInvAlways, PTL
=============================================================================
