-------------------------- MODULE RawMirror_proofs --------------------------
(***************************************************************************)
(* Proofs about PcQueue and RawMirror, for any tickets, list and batch     *)
(* sizes, attempts and failures: types, no newest snapshot of a PC is lost *)
(* where no row is refused, snapshots keep their order,                    *)
(* and the newest is the last to arrive as long as no request fails, and a *)
(* row that counts as up to date is one the mirror has held.               *)
(***************************************************************************)
EXTENDS RawMirror, FiniteSetTheorems, TLAPS

-----------------------------------------------------------------------------
(* The queue.  Ids are used once, the loop holds what the queue held when   *)
(* it was read, and an entry it still has to post has attempts left.        *)
Held == IF pusher.at = "idle" THEN {} ELSE pusher.list \union {pusher.now}

Revised == \A t \in Tickets : pc[t].rev <= changes
IdsOnce ==
    /\ \A e \in queue : e.id < nextId
    /\ \A e, x \in queue : e.id = x.id => e = x
    /\ \A e \in Held : e.id < nextId
    /\ \A e, x \in Held : e.id = x.id => e = x
HeldAsQueued ==
    \A x \in Held, e \in queue :
        e.id = x.id => e.ticket = x.ticket /\ e.snap = x.snap /\ e.attempts < MaxAttempts
NowApart == pusher.at # "idle" => pusher.now \notin pusher.list

QueueSafe == PcTypeOK /\ Revised /\ IdsOnce /\ HeldAsQueued /\ NowApart

LEMMA Bounds ==
    /\ Take \in Nat \ {0} /\ MaxConsecutiveFailures \in Nat \ {0}
    /\ MaxAttempts \in Nat \ {0} /\ MaxChanges \in Nat \ {0} /\ MaxFailures \in Nat
BY QueueAssumption

(* What the queue and the loop keep when only the rest changes.             *)
LEMMA RestTyped ==
    ASSUME QueueSafe, UNCHANGED <<preferFactory, queueVars, pusher>>,
           factory' \in [Tickets -> FactoryRow],
           late' \subseteq [ticket : Tickets, snap : Snapshot],
           delivered' \in [Tickets -> SUBSET (1..MaxChanges)],
           failures' \in 0..MaxFailures
    PROVE  QueueSafe'
<1>1. PcTypeOK'
  BY DEF QueueSafe, PcTypeOK, queueVars
<1>2. Held' = Held
  BY DEF Held
<1> QED BY <1>1, <1>2 DEF QueueSafe, Revised, IdsOnce, HeldAsQueued, NowApart, queueVars

(* An entry joins the queue behind the entries of another one.              *)
LEMMA EnqueueSafe ==
    ASSUME QueueSafe, NEW t \in Tickets, NEW row \in Snapshot, NEW q \in SUBSET queue, Change,
           row.rev <= changes + 1, Enqueue(t, row, q),
           UNCHANGED <<preferFactory, pusher, factory, late, delivered, failures>>
    PROVE  QueueSafe'
<1> DEFINE new == [id |-> nextId, ticket |-> t, snap |-> row, attempts |-> 0]
<1>1. /\ new \in Entry /\ new.id = nextId
      /\ nextId \in Nat /\ nextId' = nextId + 1 /\ changes' = changes + 1
      /\ queue' = q \union {new} /\ queue \subseteq Entry
  BY Bounds DEF QueueSafe, PcTypeOK, Entry, Enqueue, Change
<1> HIDE DEF new
<1>2. /\ changes' \in 0..MaxChanges
      /\ row.rev \in 0..MaxChanges
  BY <1>1, Bounds DEF QueueSafe, PcTypeOK, Change, Snapshot
<1>3. PcTypeOK'
  <2>1. pc' \in [Tickets -> Snapshot \union {NoRow, Deleted}]
    BY DEF QueueSafe, PcTypeOK, Enqueue
  <2>2. newest' \in [Tickets -> 0..MaxChanges]
    BY <1>2 DEF QueueSafe, PcTypeOK, Enqueue
  <2> QED BY <1>1, <1>2, <2>1, <2>2 DEF QueueSafe, PcTypeOK
<1>4. Revised'
  <2>1. \A u \in Tickets : pc[u].rev \in Int
    BY Bounds DEF QueueSafe, PcTypeOK, Snapshot, NoRow, Deleted
  <2>2. changes \in Int
    BY DEF QueueSafe, PcTypeOK
  <2> QED BY <1>1, <2>1, <2>2 DEF QueueSafe, PcTypeOK, Revised, Enqueue
<1>5. Held' = Held /\ \A x \in Held : x.id < nextId /\ x \in Entry
  <2>1. Held' = Held
    BY DEF Held
  <2>2. Held \subseteq Entry
    BY DEF Held, QueueSafe, PcTypeOK
  <2> QED BY <2>1, <2>2 DEF QueueSafe, IdsOnce
<1>6. IdsOnce'
  <2>1. \A e \in queue : e.id < nextId /\ e.id \in Nat
    BY <1>1 DEF QueueSafe, IdsOnce, Entry
  <2>2. \A e \in queue' : e.id < nextId'
    BY <1>1, <2>1
  <2>3. \A e, x \in queue' : e.id = x.id => e = x
    BY <1>1, <2>1 DEF QueueSafe, IdsOnce
  <2>4. \A e \in Held' : e.id < nextId'
    BY <1>1, <1>5 DEF Entry
  <2> QED BY <1>5, <2>2, <2>3, <2>4 DEF QueueSafe, IdsOnce
<1>7. HeldAsQueued'
  <2>1. \A x \in Held : x.id # new.id
    BY <1>1, <1>5 DEF Entry
  <2> QED BY <1>1, <1>5, <2>1 DEF QueueSafe, HeldAsQueued
<1> QED BY <1>3, <1>4, <1>6, <1>7 DEF QueueSafe, NowApart

(* Entries leave the queue, or get other attempts below the limit.          *)
LEMMA QueueShrinks ==
    ASSUME QueueSafe, NEW q \in SUBSET queue, queue' = q, Held' \subseteq Held,
           pusher'.at # "idle" => pusher'.now \notin pusher'.list,
           pc' \in [Tickets -> Snapshot \union {NoRow, Deleted}],
           \A t \in Tickets : pc'[t].rev <= changes',
           changes' \in 0..MaxChanges, UNCHANGED nextId, PcTypeOK'
    PROVE  QueueSafe'
BY DEF QueueSafe, Revised, IdsOnce, HeldAsQueued, NowApart

(* A row after a change is a snapshot. *)
LEMMA ChangedTyped ==
    ASSUME QueueSafe, Change, NEW t \in Tickets,
           NEW st \in {"GATE_ENTRY", "FIRST_DONE", "COMPLETE"}, NEW l \in BOOLEAN
    PROVE  Changed(t, st, l) \in Snapshot /\ Changed(t, st, l).rev <= changes + 1
<1>1. pc[t].rev \in Nat
  BY Bounds DEF QueueSafe, PcTypeOK, Snapshot, NoRow, Deleted
<1>2. pc[t].rev <= changes /\ changes \in Nat /\ changes < MaxChanges
  BY DEF QueueSafe, PcTypeOK, Revised, Change
<1>3. pc[t].rev + 1 \in 1..MaxChanges
  BY <1>1, <1>2, Bounds
<1> QED BY <1>1, <1>2, <1>3 DEF Changed, Snapshot

LEMMA ExistsTyped ==
    ASSUME QueueSafe, NEW t \in Tickets, Exists(t)
    PROVE  pc[t] \in Snapshot
BY DEF QueueSafe, PcTypeOK, Exists

LEMMA PagesSafe ==
    ASSUME QueueSafe, Pages
    PROVE  QueueSafe'
<1>1. ASSUME NEW t \in Tickets, GateEntry(t)
      PROVE  QueueSafe'
  <2>1. Changed(t, "GATE_ENTRY", FALSE) \in Snapshot
        /\ Changed(t, "GATE_ENTRY", FALSE).rev <= changes + 1
    BY <1>1, ChangedTyped DEF GateEntry
  <2> DEFINE row == Changed(t, "GATE_ENTRY", FALSE)
  <2> HIDE DEF row
  <2>2. queue \in SUBSET queue
    OBVIOUS
  <2>3. Enqueue(t, row, queue) /\ Change
        /\ UNCHANGED <<preferFactory, pusher, factory, late, delivered, failures>>
    BY <1>1 DEF GateEntry, row
  <2> QED BY <2>1, <2>2, <2>3, EnqueueSafe DEF row
<1>2. ASSUME NEW t \in Tickets, FirstWeight(t)
      PROVE  QueueSafe'
  <2> DEFINE row == Changed(t, "FIRST_DONE", pc[t].lab)
  <2>1. row \in Snapshot /\ row.rev <= changes + 1
    <3>1. pc[t].lab \in BOOLEAN
      BY <1>2, ExistsTyped DEF FirstWeight, Snapshot
    <3> QED BY <1>2, <3>1, ChangedTyped DEF FirstWeight
  <2>2. pc' = [pc EXCEPT ![t] = row]
    BY <1>2 DEF FirstWeight
  <2> HIDE DEF row
  <2>3. /\ pc' \in [Tickets -> Snapshot \union {NoRow, Deleted}]
        /\ changes' = changes + 1 /\ changes' \in 0..MaxChanges
    BY <1>2, <2>1, <2>2, Bounds DEF FirstWeight, Change, QueueSafe, PcTypeOK
  <2>4. PcTypeOK'
    BY <1>2, <2>3 DEF FirstWeight, QueueSafe, PcTypeOK
  <2>5. \A u \in Tickets : pc'[u].rev <= changes'
    <3>1. \A u \in Tickets : pc[u].rev \in Int
      BY Bounds DEF QueueSafe, PcTypeOK, Snapshot, NoRow, Deleted
    <3>2. changes \in Int
      BY DEF QueueSafe, PcTypeOK
    <3> QED BY <2>1, <2>2, <2>3, <3>1, <3>2 DEF QueueSafe, PcTypeOK, Revised
  <2>6. Held' = Held /\ UNCHANGED <<queue, nextId, pusher>>
    BY <1>2 DEF FirstWeight, Held
  <2> QED BY <2>4, <2>5, <2>6 DEF QueueSafe, Revised, IdsOnce, HeldAsQueued, NowApart
<1>3. ASSUME NEW t \in Tickets, SecondWeight(t)
      PROVE  QueueSafe'
  <2> DEFINE row == Changed(t, "COMPLETE", pc[t].lab)
  <2>1. row \in Snapshot /\ row.rev <= changes + 1
    <3>1. pc[t].lab \in BOOLEAN
      BY <1>3, ExistsTyped DEF SecondWeight, Snapshot
    <3> QED BY <1>3, <3>1, ChangedTyped DEF SecondWeight
  <2>2. queue \in SUBSET queue
    OBVIOUS
  <2>3. Enqueue(t, row, queue) /\ Change
        /\ UNCHANGED <<preferFactory, pusher, factory, late, delivered, failures>>
    BY <1>3 DEF SecondWeight
  <2> HIDE DEF row
  <2> QED BY <2>1, <2>2, <2>3, EnqueueSafe
<1>4. ASSUME NEW t \in Tickets, LabResult(t)
      PROVE  QueueSafe'
  <2> DEFINE row == Changed(t, pc[t].status, TRUE)
  <2>1. row \in Snapshot /\ row.rev <= changes + 1
    <3>1. pc[t].status \in {"GATE_ENTRY", "FIRST_DONE", "COMPLETE"}
      BY <1>4, ExistsTyped DEF LabResult, Snapshot
    <3> QED BY <1>4, <3>1, ChangedTyped DEF LabResult
  <2>2. Without(t) \in SUBSET queue
    BY DEF Without
  <2>3. Enqueue(t, row, Without(t)) /\ Change
        /\ UNCHANGED <<preferFactory, pusher, factory, late, delivered, failures>>
    BY <1>4 DEF LabResult, Requeue
  <2> HIDE DEF row
  <2> QED BY <2>1, <2>2, <2>3, EnqueueSafe
<1>5. ASSUME NEW t \in Tickets, DeleteWeighment(t)
      PROVE  QueueSafe'
  <2>1. Without(t) \in SUBSET queue /\ queue' = Without(t)
    BY <1>5 DEF Without, DeleteWeighment
  <2>2. Held' = Held /\ UNCHANGED <<pusher, nextId, changes>>
    BY <1>5 DEF DeleteWeighment, Held
  <2>3. pc' = [pc EXCEPT ![t] = Deleted] /\ newest' = [newest EXCEPT ![t] = 0]
    BY <1>5 DEF DeleteWeighment
  <2>4. /\ pc' \in [Tickets -> Snapshot \union {NoRow, Deleted}]
        /\ newest' \in [Tickets -> 0..MaxChanges]
    BY <2>3, Bounds DEF QueueSafe, PcTypeOK
  <2>5. \A u \in Tickets : pc'[u].rev <= changes'
    BY <2>2, <2>3 DEF QueueSafe, PcTypeOK, Revised, Deleted
  <2>6. PcTypeOK'
    BY <1>5, <2>1, <2>2, <2>4 DEF DeleteWeighment, QueueSafe, PcTypeOK
  <2>7. pusher'.at # "idle" => pusher'.now \notin pusher'.list
    BY <2>2 DEF QueueSafe, NowApart
  <2> QED BY <2>1, <2>2, <2>4, <2>5, <2>6, <2>7, QueueShrinks DEF QueueSafe, PcTypeOK
<1> QED BY <1>1, <1>2, <1>3, <1>4, <1>5 DEF Pages

-----------------------------------------------------------------------------
(* The loop.                                                                *)
LEMMA SendTyped ==
    ASSUME QueueSafe, NEW list \in SUBSET Entry, NEW f \in Nat, Send(list, f)
    PROVE  /\ pusher' \in [at : {"idle", "factory", "cloud", "mark"},
                            now : Entry \union {NoEntry},
                            list : SUBSET Entry, failed : 0..MaxConsecutiveFailures]
           /\ pusher'.at # "idle" => /\ pusher'.now \in list /\ pusher'.now \in Entry
                                     /\ pusher'.list = list \ {pusher'.now}
           /\ pusher'.at # "mark"
           /\ Held' \subseteq list
<1>1. CASE list = {} \/ f >= MaxConsecutiveFailures
  <2>1. pusher' = IdlePusher
    BY <1>1 DEF Send
  <2> QED BY <2>1, Bounds DEF IdlePusher, Held
<1>2. CASE ~(list = {} \/ f >= MaxConsecutiveFailures)
  <2>1. PICK e \in list :
          pusher' = [at |-> IF preferFactory THEN "factory" ELSE "cloud",
                     now |-> e, list |-> list \ {e}, failed |-> f]
    BY <1>2 DEF Send
  <2>2. f \in 0..MaxConsecutiveFailures
    BY <1>2, Bounds
  <2>3. e \in Entry /\ list \ {e} \subseteq Entry
    OBVIOUS
  <2>4. /\ pusher'.at \in {"factory", "cloud"} /\ pusher'.now = e
        /\ pusher'.list = list \ {e}
    BY <2>1
  <2>5. Held' = (list \ {e}) \union {e}
    BY <2>4 DEF Held
  <2> QED BY <2>1, <2>2, <2>3, <2>4, <2>5
<1> QED BY <1>1, <1>2

(* The loop reads its list: what it holds is in the queue. *)
LEMMA PushWeighmentsSafe ==
    ASSUME QueueSafe, PushWeighments
    PROVE  QueueSafe'
<1>1. /\ FirstTaken(Due) \subseteq queue
      /\ \A e \in FirstTaken(Due) : e.attempts < MaxAttempts
      /\ queue \subseteq Entry
  BY DEF FirstTaken, Due, QueueSafe, PcTypeOK
<1>2. Send(FirstTaken(Due), 0)
  BY DEF PushWeighments
<1> DEFINE list == FirstTaken(Due)
<1> HIDE DEF list
<1>3. list \in SUBSET Entry
  BY <1>1 DEF list
<1>4. /\ pusher' \in [at : {"idle", "factory", "cloud", "mark"},
                      now : Entry \union {NoEntry},
                      list : SUBSET Entry, failed : 0..MaxConsecutiveFailures]
      /\ pusher'.at # "idle" => /\ pusher'.now \in list /\ pusher'.now \in Entry
                                /\ pusher'.list = list \ {pusher'.now}
      /\ Held' \subseteq list
  BY <1>2, <1>3, SendTyped DEF list
<1>5. UNCHANGED <<preferFactory, queueVars, factory, late, delivered, failures>>
  BY DEF PushWeighments
<1>6. PcTypeOK'
  BY <1>4, <1>5 DEF QueueSafe, PcTypeOK, queueVars
<1>7. Held' \subseteq queue /\ \A x \in Held' : x.attempts < MaxAttempts
  BY <1>1, <1>4 DEF list
<1> QED BY <1>4, <1>5, <1>6, <1>7 DEF QueueSafe, Revised, IdsOnce, HeldAsQueued, NowApart, queueVars

(* The loop is done with an entry, and goes on to the rest of its list.     *)
LEMMA GoesOn ==
    ASSUME QueueSafe, pusher.at # "idle", NEW f \in Nat, Send(pusher.list, f)
    PROVE  /\ pusher' \in [at : {"idle", "factory", "cloud", "mark"},
                            now : Entry \union {NoEntry},
                            list : SUBSET Entry, failed : 0..MaxConsecutiveFailures]
           /\ pusher'.at # "idle" => pusher'.now \in Entry /\ pusher'.now \notin pusher'.list
           /\ pusher'.at # "mark"
           /\ Held' \subseteq Held
           /\ \A x \in Held' : x.id # pusher.now.id
<1>1. pusher.list \in SUBSET Entry
  BY DEF QueueSafe, PcTypeOK
<1>2. /\ pusher'.at # "idle" => pusher'.now \in Entry /\ pusher'.list = pusher.list \ {pusher'.now}
      /\ pusher'.at # "mark" /\ Held' \subseteq pusher.list
  BY <1>1, SendTyped
<1>3. Held' \subseteq Held
  BY <1>2 DEF Held
<1>4. pusher.now \in Held /\ pusher.now \notin pusher.list
  BY DEF Held, QueueSafe, NowApart
<1>5. \A x \in Held' : x.id # pusher.now.id
  BY <1>2, <1>3, <1>4 DEF QueueSafe, IdsOnce
<1> QED BY <1>1, <1>2, <1>3, <1>5, SendTyped

LEMMA MarkSyncedSafe ==
    ASSUME QueueSafe, MarkSynced
    PROVE  QueueSafe'
<1>1. pusher.at # "idle" /\ Send(pusher.list, 0) /\ queue' = OtherThan(pusher.now)
      /\ UNCHANGED <<preferFactory, pc, nextId, changes, newest, factory, late, delivered, failures>>
  BY DEF MarkSynced
<1>2. 0 \in Nat
  OBVIOUS
<1>3. /\ pusher' \in [at : {"idle", "factory", "cloud", "mark"},
                      now : Entry \union {NoEntry},
                      list : SUBSET Entry, failed : 0..MaxConsecutiveFailures]
      /\ pusher'.at # "idle" => pusher'.now \in Entry /\ pusher'.now \notin pusher'.list
      /\ Held' \subseteq Held
  BY <1>1, <1>2, GoesOn
<1>4. OtherThan(pusher.now) \in SUBSET queue
  BY DEF OtherThan
<1>5. PcTypeOK'
  BY <1>1, <1>3, <1>4 DEF QueueSafe, PcTypeOK
<1> QED BY <1>1, <1>3, <1>4, <1>5, QueueShrinks DEF QueueSafe, PcTypeOK, Revised

LEMMA NowTyped ==
    ASSUME QueueSafe, pusher.at # "idle"
    PROVE  /\ pusher.now \in Entry /\ pusher.now.ticket \in Tickets
           /\ pusher.now.snap \in Snapshot /\ pusher.now.snap.rev \in 1..MaxChanges
           /\ pusher.now \in Held
BY DEF QueueSafe, PcTypeOK, Entry, Snapshot, Held

LEMMA CloudRejectsSafe ==
    ASSUME QueueSafe, CloudRejects
    PROVE  QueueSafe'
<1>1. pusher.at # "idle" /\ Send(pusher.list, pusher.failed + 1) /\ CountAttempt(pusher.now.id)
      /\ UNCHANGED <<preferFactory, pc, nextId, changes, newest, factory, late, delivered, failures>>
  BY DEF CloudRejects, NextAfterFailure
<1>2. pusher.failed + 1 \in Nat
  BY Bounds DEF QueueSafe, PcTypeOK
<1>3. /\ pusher' \in [at : {"idle", "factory", "cloud", "mark"},
                      now : Entry \union {NoEntry},
                      list : SUBSET Entry, failed : 0..MaxConsecutiveFailures]
      /\ pusher'.at # "idle" => pusher'.now \in Entry /\ pusher'.now \notin pusher'.list
      /\ Held' \subseteq Held
      /\ \A x \in Held' : x.id # pusher.now.id
  BY <1>1, <1>2, GoesOn
<1> DEFINE n == pusher.now.id
<1>4. ASSUME NEW e \in queue, e.id = n
      PROVE  /\ Attempted(e) \in Entry /\ Attempted(e).id = e.id
             /\ Attempted(e).ticket = e.ticket /\ Attempted(e).snap = e.snap
  <2>1. e \in Entry /\ e.attempts < MaxAttempts
    BY <1>1, <1>4, NowTyped DEF QueueSafe, PcTypeOK, HeldAsQueued
  <2>2. e.attempts + 1 \in 0..MaxAttempts
    BY <2>1, Bounds DEF Entry
  <2> QED BY <2>1, <2>2 DEF Attempted, Entry
<1>5. queue' = {IF e.id = n THEN Attempted(e) ELSE e : e \in queue}
  BY <1>1 DEF CountAttempt
<1> HIDE DEF n
<1>6. ASSUME NEW x \in queue'
      PROVE  \E e \in queue : /\ x \in Entry /\ x.id = e.id /\ x.ticket = e.ticket /\ x.snap = e.snap
                              /\ x.id # n => x = e
                              /\ x.id = n => x = Attempted(e)
  <2>1. PICK e \in queue : x = IF e.id = n THEN Attempted(e) ELSE e
    BY <1>5
  <2>2. CASE e.id = n
    <3>1. x = Attempted(e)
      BY <2>1, <2>2
    <3>2. /\ Attempted(e) \in Entry /\ Attempted(e).id = e.id
          /\ Attempted(e).ticket = e.ticket /\ Attempted(e).snap = e.snap
      BY <1>4, <2>2
    <3> QED BY <2>2, <3>1, <3>2
  <2>3. CASE e.id # n
    <3>1. x = e
      BY <2>1, <2>3
    <3>2. x \in Entry
      BY <3>1 DEF QueueSafe, PcTypeOK
    <3> QED BY <2>3, <3>1, <3>2
  <2> QED BY <2>2, <2>3
<1>7. PcTypeOK'
  <2>1. queue' \subseteq Entry
    BY <1>6
  <2> QED BY <1>1, <1>3, <2>1 DEF QueueSafe, PcTypeOK
<1>8. IdsOnce'
  <2>1. \A e \in queue' : e.id < nextId'
    BY <1>1, <1>6 DEF QueueSafe, IdsOnce
  <2>2. ASSUME NEW e \in queue', NEW x \in queue', e.id = x.id
        PROVE  e = x
    <3>1. PICK e0 \in queue : /\ e.id = e0.id
                              /\ e.id # n => e = e0
                              /\ e.id = n => e = Attempted(e0)
      BY <1>6
    <3>2. PICK x0 \in queue : /\ x.id = x0.id
                              /\ x.id # n => x = x0
                              /\ x.id = n => x = Attempted(x0)
      BY <1>6
    <3>3. e0 = x0
      BY <2>2, <3>1, <3>2 DEF QueueSafe, IdsOnce
    <3> QED BY <2>2, <3>1, <3>2, <3>3
  <2> QED BY <1>1, <1>3, <2>1, <2>2 DEF QueueSafe, IdsOnce
<1>9. HeldAsQueued'
  <2> SUFFICES ASSUME NEW x \in Held', NEW e \in queue', e.id = x.id
               PROVE  e.ticket = x.ticket /\ e.snap = x.snap /\ e.attempts < MaxAttempts
    BY DEF HeldAsQueued
  <2>1. x \in Held /\ e.id # n
    BY <1>3 DEF n
  <2>2. e \in queue
    BY <1>6, <2>1
  <2> QED BY <2>1, <2>2 DEF QueueSafe, HeldAsQueued
<1> QED BY <1>1, <1>3, <1>7, <1>8, <1>9 DEF QueueSafe, Revised, NowApart

(* The service starts again. *)
LEMMA RestartPcSafe ==
    ASSUME QueueSafe, RestartPc
    PROVE  QueueSafe'
<1> DEFINE fresh(e) == IF e.attempts >= MaxAttempts THEN [e EXCEPT !.attempts = 0] ELSE e
<1>1. /\ queue' = {fresh(e) : e \in queue} /\ pusher' = IdlePusher
      /\ UNCHANGED <<preferFactory, pc, nextId, changes, newest, factory, late, delivered>>
      /\ failures' \in 0..MaxFailures
  BY Bounds DEF RestartPc, Fails, QueueSafe, PcTypeOK
<1>2. \A e \in queue : fresh(e) \in Entry /\ fresh(e).id = e.id
  BY Bounds DEF QueueSafe, PcTypeOK, Entry
<1>3. Held' = {}
  BY <1>1 DEF Held, IdlePusher
<1> HIDE DEF fresh
<1>4. IdlePusher \in [at : {"idle", "factory", "cloud", "mark"}, now : Entry \union {NoEntry},
                      list : SUBSET Entry, failed : 0..MaxConsecutiveFailures]
      /\ IdlePusher.at = "idle"
  BY Bounds DEF IdlePusher
<1>5. PcTypeOK'
  BY <1>1, <1>2, <1>4 DEF QueueSafe, PcTypeOK
<1>6. IdsOnce'
  <2>1. \A e \in queue' : e.id < nextId'
    BY <1>1, <1>2 DEF QueueSafe, IdsOnce
  <2>2. \A e, x \in queue' : e.id = x.id => e = x
    BY <1>1, <1>2 DEF QueueSafe, IdsOnce
  <2> QED BY <1>3, <2>1, <2>2 DEF IdsOnce
<1> QED BY <1>1, <1>3, <1>4, <1>5, <1>6 DEF QueueSafe, Revised, HeldAsQueued, NowApart

(* A post changes the loop's place, and what factory and cloud have.        *)
LEMMA PlaceSafe ==
    ASSUME QueueSafe, pusher.at # "idle", NEW place \in {"cloud", "mark"},
           pusher' = [pusher EXCEPT !.at = place],
           UNCHANGED <<preferFactory, queueVars>>,
           factory' \in [Tickets -> FactoryRow],
           late' \subseteq [ticket : Tickets, snap : Snapshot],
           delivered' \in [Tickets -> SUBSET (1..MaxChanges)],
           failures' \in 0..MaxFailures
    PROVE  QueueSafe'
<1>1. /\ pusher'.at = place /\ pusher'.now = pusher.now /\ pusher'.list = pusher.list
      /\ pusher' \in [at : {"idle", "factory", "cloud", "mark"},
                       now : Entry \union {NoEntry},
                       list : SUBSET Entry, failed : 0..MaxConsecutiveFailures]
  BY DEF QueueSafe, PcTypeOK
<1>2. Held' = Held
  BY <1>1 DEF Held
<1>3. PcTypeOK'
  BY <1>1 DEF QueueSafe, PcTypeOK, queueVars
<1> QED BY <1>1, <1>2, <1>3 DEF QueueSafe, Revised, IdsOnce, HeldAsQueued, NowApart, queueVars

LEMMA StoresTyped ==
    ASSUME QueueSafe, NEW t \in Tickets, NEW snap \in Snapshot, Stores(t, snap)
    PROVE  /\ factory' \in [Tickets -> FactoryRow]
           /\ delivered' \in [Tickets -> SUBSET (1..MaxChanges)]
<1>1. CASE t \in Conflicting
  BY <1>1 DEF Stores, QueueSafe, PcTypeOK
<1>2. CASE t \notin Conflicting
  <2>1. factory[t].updatedAt + 1 \in Nat
    BY DEF QueueSafe, PcTypeOK, FactoryRow
  <2>2. [row |-> snap, updatedAt |-> factory[t].updatedAt + 1] \in FactoryRow
    BY <2>1 DEF FactoryRow
  <2>3. factory' = [factory EXCEPT ![t] = [row |-> snap, updatedAt |-> factory[t].updatedAt + 1]]
    BY <1>2 DEF Stores
  <2>4. delivered' = [delivered EXCEPT ![t] = delivered[t] \union {snap.rev}]
    BY <1>2 DEF Stores
  <2>5. snap.rev \in 1..MaxChanges
    BY DEF Snapshot
  <2> QED BY <2>2, <2>3, <2>4, <2>5 DEF QueueSafe, PcTypeOK
<1> QED BY <1>1, <1>2

LEMMA PostFactorySafe ==
    ASSUME QueueSafe, PostFactory
    PROVE  QueueSafe'
<1>1. pusher.at # "idle" /\ Stores(pusher.now.ticket, pusher.now.snap)
      /\ UNCHANGED <<preferFactory, queueVars, late>>
  BY DEF PostFactory
<1>2. /\ factory' \in [Tickets -> FactoryRow]
      /\ delivered' \in [Tickets -> SUBSET (1..MaxChanges)]
  BY <1>1, NowTyped, StoresTyped
<1>3. late' \subseteq [ticket : Tickets, snap : Snapshot]
  BY <1>1 DEF QueueSafe, PcTypeOK
<1>4. failures' \in 0..MaxFailures
  BY Bounds DEF PostFactory, Fails, QueueSafe, PcTypeOK
<1>5. \E place \in {"cloud", "mark"} : pusher' = [pusher EXCEPT !.at = place]
  BY DEF PostFactory
<1> QED BY <1>1, <1>2, <1>3, <1>4, <1>5, PlaceSafe

LEMMA FactoryTimeoutSafe ==
    ASSUME QueueSafe, FactoryTimeout
    PROVE  QueueSafe'
<1>1. pusher.at # "idle" /\ UNCHANGED <<preferFactory, queueVars, factory, delivered>>
      /\ pusher' = [pusher EXCEPT !.at = "cloud"]
  BY DEF FactoryTimeout
<1>2. late' \subseteq [ticket : Tickets, snap : Snapshot]
  BY <1>1, NowTyped DEF FactoryTimeout, QueueSafe, PcTypeOK
<1>3. failures' \in 0..MaxFailures
  BY Bounds DEF FactoryTimeout, Fails, QueueSafe, PcTypeOK
<1>4. factory' \in [Tickets -> FactoryRow] /\ delivered' \in [Tickets -> SUBSET (1..MaxChanges)]
  BY <1>1 DEF QueueSafe, PcTypeOK
<1> QED BY <1>1, <1>2, <1>3, <1>4, PlaceSafe

LEMMA LateStoresSafe ==
    ASSUME QueueSafe, NEW p \in late, LateStores(p)
    PROVE  QueueSafe'
<1>1. p.ticket \in Tickets /\ p.snap \in Snapshot
  BY DEF QueueSafe, PcTypeOK
<1>2. Stores(p.ticket, p.snap) /\ late' = late \ {p}
      /\ UNCHANGED <<preferFactory, queueVars, pusher, failures>>
  BY DEF LateStores
<1>3. /\ factory' \in [Tickets -> FactoryRow]
      /\ delivered' \in [Tickets -> SUBSET (1..MaxChanges)]
  BY <1>1, <1>2, StoresTyped
<1>4. late' \subseteq [ticket : Tickets, snap : Snapshot] /\ failures' \in 0..MaxFailures
  BY <1>2 DEF QueueSafe, PcTypeOK
<1> QED BY <1>2, <1>3, <1>4, RestTyped

LEMMA PostCloudSafe ==
    ASSUME QueueSafe, PostCloud
    PROVE  QueueSafe'
<1>1. pusher.at # "idle" /\ UNCHANGED <<preferFactory, queueVars, factory, late>>
  BY DEF PostCloud
<1>2. /\ factory' \in [Tickets -> FactoryRow]
      /\ late' \subseteq [ticket : Tickets, snap : Snapshot]
  BY <1>1 DEF QueueSafe, PcTypeOK
<1>3. delivered' \in [Tickets -> SUBSET (1..MaxChanges)]
  <2>1. CASE UNCHANGED delivered
    BY <2>1 DEF QueueSafe, PcTypeOK
  <2>2. CASE delivered' = [delivered EXCEPT ![pusher.now.ticket] = @ \union {pusher.now.snap.rev}]
    <3>1. delivered' = [delivered EXCEPT ![pusher.now.ticket] =
                          delivered[pusher.now.ticket] \union {pusher.now.snap.rev}]
      BY <2>2
    <3>2. delivered[pusher.now.ticket] \union {pusher.now.snap.rev} \in SUBSET (1..MaxChanges)
      BY <1>1, NowTyped DEF QueueSafe, PcTypeOK
    <3> QED BY <3>1, <3>2 DEF QueueSafe, PcTypeOK
  <2> QED BY <2>1, <2>2 DEF PostCloud, Handled
<1>4. failures' \in 0..MaxFailures
  BY Bounds DEF PostCloud, Fails, QueueSafe, PcTypeOK
<1>5. CASE pusher' = [pusher EXCEPT !.at = "mark"]
  BY <1>1, <1>2, <1>3, <1>4, <1>5, PlaceSafe
<1>6. CASE Send(pusher.list, pusher.failed + 1)
  <2>1. pusher.failed + 1 \in Nat
    BY Bounds DEF QueueSafe, PcTypeOK
  <2>2. /\ pusher' \in [at : {"idle", "factory", "cloud", "mark"},
                        now : Entry \union {NoEntry},
                        list : SUBSET Entry, failed : 0..MaxConsecutiveFailures]
        /\ pusher'.at # "idle" => pusher'.now \in Entry /\ pusher'.now \notin pusher'.list
        /\ Held' \subseteq Held
    BY <1>1, <1>6, <2>1, GoesOn
  <2>3. PcTypeOK'
    BY <1>1, <1>2, <1>3, <1>4, <2>2 DEF QueueSafe, PcTypeOK, queueVars
  <2>4. queue \in SUBSET queue
    OBVIOUS
  <2> QED BY <1>1, <2>2, <2>3, <2>4, QueueShrinks DEF QueueSafe, PcTypeOK, Revised, queueVars
<1> QED BY <1>5, <1>6 DEF PostCloud, NextAfterFailure

LEMMA PcNextSafe ==
    ASSUME QueueSafe, PcNext
    PROVE  QueueSafe'
BY PagesSafe, PushWeighmentsSafe, PostFactorySafe, PostCloudSafe, CloudRejectsSafe,
   MarkSyncedSafe, FactoryTimeoutSafe, LateStoresSafe, RestartPcSafe
   DEF PcNext, PushLoop

(* The mirror leaves the PC alone; its failures count with the others.      *)
LEMMA MirrorLeavesPc ==
    ASSUME QueueSafe,
           MirrorLoop \/ (\E r \in abandoned : AbandonedUpsert(r)) \/ GiveUp
    PROVE  /\ UNCHANGED <<preferFactory, queueVars, pusher, factory, late, delivered>>
           /\ failures' \in 0..MaxFailures
           /\ failures' >= failures
<1>1. failures \in 0..MaxFailures
  BY DEF QueueSafe, PcTypeOK
<1>2. CASE PushRaw
  BY <1>1, <1>2 DEF PushRaw, pcVars
<1>3. CASE Answered
  BY <1>1, <1>3 DEF Answered, pcVars
<1>4. ASSUME NEW r, MirrorUpsert(r)
      PROVE  /\ UNCHANGED <<preferFactory, queueVars, pusher, factory, late, delivered>>
             /\ failures' = failures \/ Fails
  BY <1>4 DEF MirrorUpsert
<1>5. ASSUME NEW r, AbandonedUpsert(r)
      PROVE  UNCHANGED <<preferFactory, queueVars, pusher, factory, late, delivered, failures>>
  BY <1>5 DEF AbandonedUpsert, pcVars
<1>6. CASE GiveUp
  BY <1>1, <1>6, Bounds DEF GiveUp, Fails
<1>7. Fails => failures' \in 0..MaxFailures /\ failures' >= failures
  BY <1>1, Bounds DEF Fails
<1> QED BY <1>1, <1>2, <1>3, <1>4, <1>5, <1>6, <1>7 DEF MirrorLoop

LEMMA QueueSafeStep ==
    ASSUME QueueSafe, [RelayNext]_relayVars
    PROVE  QueueSafe'
<1>1. CASE UNCHANGED relayVars
  <2>1. /\ UNCHANGED <<preferFactory, queueVars, pusher, factory, late, delivered, failures>>
    BY <1>1 DEF relayVars, pcVars
  <2> QED BY <2>1, RestTyped DEF QueueSafe, PcTypeOK
<1>2. CASE MirrorLoop \/ (\E r \in abandoned : AbandonedUpsert(r)) \/ GiveUp
  BY <1>2, MirrorLeavesPc, RestTyped DEF QueueSafe, PcTypeOK
<1> QED BY <1>1, <1>2, PcNextSafe DEF RelayNext

LEMMA InitQueueSafe == RelayInit => QueueSafe
<1> SUFFICES ASSUME RelayInit PROVE QueueSafe
  OBVIOUS
<1>1. Held = {}
  BY DEF RelayInit, PcInit, IdlePusher, Held
<1>2. PcTypeOK
  BY Bounds DEF RelayInit, PcInit, PcTypeOK, IdlePusher, FactoryRow
<1> QED BY <1>1, <1>2 DEF RelayInit, PcInit, QueueSafe, Revised, IdsOnce, HeldAsQueued, NowApart,
        IdlePusher, NoRow

(* The queue and the loop keep their ids and entries straight.              *)
THEOREM QueueKeeping == RelaySpec => []QueueSafe
<1> QED BY InitQueueSafe, QueueSafeStep, PTL DEF RelaySpec

-----------------------------------------------------------------------------
(* Nothing is lost: an entry leaves the queue when a newer one of its       *)
(* ticket takes its place, when its row is deleted, or when it is marked,   *)
(* and what is marked has arrived, unless it was refused or failed on.      *)
MarkedArrived ==
    pusher.at = "mark" /\ pusher.now.ticket \notin Conflicting =>
        pusher.now.snap.rev \in delivered[pusher.now.ticket]
NoneLost ==
    \A t \in Tickets \ Conflicting :
        newest[t] > 0 => newest[t] \in delivered[t] \/ Pending(t, newest[t])
Kept == MarkedArrived /\ NoneLost

LEMMA DeliveredGrows ==
    ASSUME QueueSafe, [RelayNext]_relayVars, NEW t \in Tickets
    PROVE  delivered[t] \subseteq delivered'[t]
<1>1. ASSUME NEW u, NEW snap, Stores(u, snap)
      PROVE  delivered[t] \subseteq delivered'[t]
  <2>1. CASE UNCHANGED delivered
    BY <2>1
  <2>2. CASE delivered' = [delivered EXCEPT ![u] = @ \union {snap.rev}]
    BY <2>2 DEF QueueSafe, PcTypeOK
  <2> QED BY <1>1, <2>1, <2>2 DEF Stores
<1>2. ASSUME NEW e, Handled(e)
      PROVE  delivered[t] \subseteq delivered'[t]
  BY <1>2 DEF Handled, QueueSafe, PcTypeOK
<1>3. CASE PcNext
  <2>1. CASE Pages
    BY <2>1 DEF Pages, GateEntry, FirstWeight, SecondWeight, LabResult, DeleteWeighment
  <2>2. CASE PushWeighments \/ CloudRejects \/ MarkSynced \/ FactoryTimeout \/ RestartPc
    BY <2>2 DEF PushWeighments, CloudRejects, MarkSynced, FactoryTimeout, RestartPc
  <2>3. CASE PostFactory
    BY <1>1, <2>3 DEF PostFactory
  <2>4. CASE PostCloud
    BY <1>2, <2>4 DEF PostCloud
  <2>5. ASSUME NEW p \in late, LateStores(p)
        PROVE  delivered[t] \subseteq delivered'[t]
    BY <1>1, <2>5 DEF LateStores
  <2> QED BY <1>3, <2>1, <2>2, <2>3, <2>4, <2>5 DEF PcNext, PushLoop
<1>4. CASE MirrorLoop \/ (\E r \in abandoned : AbandonedUpsert(r)) \/ GiveUp
  BY <1>4, MirrorLeavesPc
<1>5. CASE UNCHANGED relayVars
  BY <1>5 DEF relayVars, pcVars
<1> QED BY <1>3, <1>4, <1>5 DEF RelayNext

(* What waits or has arrived still waits or has arrived. *)
LEMMA StillKept ==
    ASSUME QueueSafe, NoneLost, [RelayNext]_relayVars, newest' = newest,
           \A e \in queue : \/ \E x \in queue' : x.ticket = e.ticket /\ x.snap = e.snap
                            \/ e.snap.rev \in delivered'[e.ticket]
                            \/ e.ticket \in Conflicting
    PROVE  NoneLost'
<1> SUFFICES ASSUME NEW t \in Tickets \ Conflicting, newest[t] > 0
             PROVE  newest[t] \in delivered'[t] \/ Pending(t, newest[t])'
  BY DEF NoneLost, Pending
<1>1. CASE newest[t] \in delivered[t]
  BY <1>1, DeliveredGrows
<1>2. CASE Pending(t, newest[t])
  BY <1>2 DEF Pending
<1> QED BY <1>1, <1>2 DEF NoneLost

LEMMA EnqueueKeeps ==
    ASSUME QueueSafe, NoneLost, [RelayNext]_relayVars,
           NEW t \in Tickets, NEW row \in Snapshot, NEW q \in SUBSET queue,
           Without(t) \subseteq q, Enqueue(t, row, q)
    PROVE  NoneLost'
<1> DEFINE new == [id |-> nextId, ticket |-> t, snap |-> row, attempts |-> 0]
<1>1. new.ticket = t /\ new.snap = row /\ queue' = q \union {new}
      /\ newest' = [newest EXCEPT ![t] = row.rev]
  BY DEF Enqueue
<1> HIDE DEF new
<1> SUFFICES ASSUME NEW u \in Tickets \ Conflicting, newest'[u] > 0
             PROVE  newest'[u] \in delivered'[u] \/ Pending(u, newest[u])'
  BY DEF NoneLost, Pending
<1>2. CASE u = t
  <2>1. newest'[u] = row.rev
    BY <1>1, <1>2 DEF QueueSafe, PcTypeOK
  <2> QED BY <1>1, <1>2, <2>1 DEF Pending
<1>3. CASE u # t
  <2>1. newest'[u] = newest[u]
    BY <1>1, <1>3 DEF QueueSafe, PcTypeOK
  <2>2. CASE newest[u] \in delivered[u]
    BY <2>1, <2>2, DeliveredGrows
  <2>3. CASE Pending(u, newest[u])
    <3>1. PICK e \in queue : e.ticket = u /\ e.snap.rev = newest[u]
      BY <2>3 DEF Pending
    <3>2. e \in queue'
      BY <1>1, <1>3, <3>1 DEF Without
    <3> QED BY <2>1, <3>1, <3>2 DEF Pending
  <2> QED BY <2>1, <2>2, <2>3 DEF NoneLost
<1> QED BY <1>2, <1>3

LEMMA PagesKeep ==
    ASSUME QueueSafe, Kept, [RelayNext]_relayVars, Pages
    PROVE  Kept'
<1>1. UNCHANGED <<pusher, delivered>>
  BY DEF Pages, GateEntry, FirstWeight, SecondWeight, LabResult, DeleteWeighment
<1>2. MarkedArrived'
  BY <1>1 DEF Kept, MarkedArrived
<1>3. ASSUME NEW t \in Tickets, GateEntry(t)
      PROVE  NoneLost'
  <2> DEFINE row == Changed(t, "GATE_ENTRY", FALSE)
  <2>1. row \in Snapshot
    BY <1>3, ChangedTyped DEF GateEntry
  <2>2. Without(t) \subseteq queue /\ queue \in SUBSET queue
    BY DEF Without
  <2>3. Enqueue(t, row, queue)
    BY <1>3 DEF GateEntry
  <2> HIDE DEF row
  <2> QED BY <2>1, <2>2, <2>3, EnqueueKeeps DEF Kept
<1>4. ASSUME NEW t \in Tickets, FirstWeight(t)
      PROVE  NoneLost'
  BY <1>4, StillKept DEF Kept, FirstWeight
<1>5. ASSUME NEW t \in Tickets, SecondWeight(t)
      PROVE  NoneLost'
  <2> DEFINE row == Changed(t, "COMPLETE", pc[t].lab)
  <2>1. row \in Snapshot
    <3>1. pc[t].lab \in BOOLEAN
      BY <1>5, ExistsTyped DEF SecondWeight, Snapshot
    <3> QED BY <1>5, <3>1, ChangedTyped DEF SecondWeight
  <2>2. Without(t) \subseteq queue /\ queue \in SUBSET queue
    BY DEF Without
  <2>3. Enqueue(t, row, queue)
    BY <1>5 DEF SecondWeight
  <2> HIDE DEF row
  <2> QED BY <2>1, <2>2, <2>3, EnqueueKeeps DEF Kept
<1>6. ASSUME NEW t \in Tickets, LabResult(t)
      PROVE  NoneLost'
  <2> DEFINE row == Changed(t, pc[t].status, TRUE)
  <2>1. row \in Snapshot
    <3>1. pc[t].status \in {"GATE_ENTRY", "FIRST_DONE", "COMPLETE"}
      BY <1>6, ExistsTyped DEF LabResult, Snapshot
    <3> QED BY <1>6, <3>1, ChangedTyped DEF LabResult
  <2>2. Without(t) \in SUBSET queue
    BY DEF Without
  <2>3. Enqueue(t, row, Without(t))
    BY <1>6 DEF LabResult, Requeue
  <2> HIDE DEF row
  <2> QED BY <2>1, <2>2, <2>3, EnqueueKeeps DEF Kept
<1>7. ASSUME NEW t \in Tickets, DeleteWeighment(t)
      PROVE  NoneLost'
  <2>1. queue' = Without(t) /\ newest' = [newest EXCEPT ![t] = 0] /\ UNCHANGED delivered
    BY <1>7 DEF DeleteWeighment
  <2> SUFFICES ASSUME NEW u \in Tickets \ Conflicting, newest'[u] > 0
               PROVE  newest'[u] \in delivered'[u] \/ Pending(u, newest[u])'
    BY DEF NoneLost, Pending
  <2>2. u # t /\ newest'[u] = newest[u]
    BY <2>1 DEF QueueSafe, PcTypeOK
  <2>3. CASE newest[u] \in delivered[u]
    BY <2>1, <2>2, <2>3
  <2>4. CASE Pending(u, newest[u])
    BY <2>1, <2>2, <2>4 DEF Pending, Without
  <2> QED BY <2>2, <2>3, <2>4 DEF Kept, NoneLost
<1> QED BY <1>2, <1>3, <1>4, <1>5, <1>6, <1>7 DEF Kept, Pages

(* A post that is not marked leaves the queue as it is. *)
LEMMA PostsKeep ==
    ASSUME QueueSafe, Kept, [RelayNext]_relayVars,
           PostFactory \/ PostCloud \/ FactoryTimeout \/ PushWeighments
    PROVE  Kept'
<1>1. UNCHANGED <<queue, newest>>
  BY DEF PostFactory, PostCloud, FactoryTimeout, PushWeighments, queueVars
<1>2. NoneLost'
  BY <1>1, StillKept DEF Kept
<1>3. CASE PostFactory
  <2>1. /\ pusher.now.ticket \in Tickets
        /\ Stores(pusher.now.ticket, pusher.now.snap) /\ pusher'.now = pusher.now
    BY <1>3, NowTyped DEF PostFactory, QueueSafe, PcTypeOK
  <2>2. pusher.now.ticket \notin Conflicting =>
          delivered' = [delivered EXCEPT ![pusher.now.ticket] = @ \union {pusher.now.snap.rev}]
    BY <2>1 DEF Stores
  <2>3. pusher.now.ticket \notin Conflicting =>
          pusher.now.snap.rev \in delivered'[pusher.now.ticket]
    BY <2>1, <2>2 DEF QueueSafe, PcTypeOK
  <2> QED BY <1>2, <2>1, <2>3 DEF Kept, MarkedArrived
<1>4. CASE PostCloud
  <2>0. pusher.now.ticket \in Tickets /\ pusher.at # "idle"
    BY <1>4, NowTyped DEF PostCloud
  <2>1. CASE Handled(pusher.now) /\ pusher' = [pusher EXCEPT !.at = "mark"]
    <3>1. pusher.now.ticket \notin Conflicting =>
            delivered' = [delivered EXCEPT ![pusher.now.ticket] = @ \union {pusher.now.snap.rev}]
      BY <2>1 DEF Handled
    <3>2. pusher'.now = pusher.now
      BY <2>1 DEF QueueSafe, PcTypeOK
    <3>3. pusher.now.ticket \notin Conflicting =>
            pusher.now.snap.rev \in delivered'[pusher.now.ticket]
      BY <2>0, <3>1 DEF QueueSafe, PcTypeOK
    <3> QED BY <1>2, <3>2, <3>3 DEF Kept, MarkedArrived
  <2>2. CASE Send(pusher.list, pusher.failed + 1)
    <3>1. pusher.failed + 1 \in Nat
      BY Bounds DEF QueueSafe, PcTypeOK
    <3>2. pusher'.at # "mark"
      BY <2>0, <2>2, <3>1, GoesOn
    <3> QED BY <1>2, <3>2 DEF Kept, MarkedArrived
  <2> QED BY <1>4, <2>1, <2>2 DEF PostCloud, NextAfterFailure
<1>5. CASE FactoryTimeout
  <2>1. pusher'.at # "mark"
    BY <1>5 DEF FactoryTimeout, QueueSafe, PcTypeOK
  <2> QED BY <1>2, <2>1 DEF Kept, MarkedArrived
<1>6. CASE PushWeighments
  <2>1. FirstTaken(Due) \in SUBSET Entry /\ 0 \in Nat /\ Send(FirstTaken(Due), 0)
    BY <1>6 DEF PushWeighments, FirstTaken, Due, QueueSafe, PcTypeOK
  <2>2. pusher'.at # "mark"
    BY <2>1, SendTyped
  <2> QED BY <1>2, <2>2 DEF Kept, MarkedArrived
<1> QED BY <1>3, <1>4, <1>5, <1>6

LEMMA RejectsKeep ==
    ASSUME QueueSafe, Kept, [RelayNext]_relayVars, CloudRejects
    PROVE  Kept'
<1>1. pusher.at # "idle" /\ Send(pusher.list, pusher.failed + 1)
      /\ UNCHANGED <<newest, delivered>>
      /\ queue' = {IF e.id = pusher.now.id THEN Attempted(e) ELSE e : e \in queue}
  BY DEF CloudRejects, NextAfterFailure, CountAttempt
<1>2. pusher.failed + 1 \in Nat
  BY Bounds DEF QueueSafe, PcTypeOK
<1>3. pusher'.at # "mark"
  BY <1>1, <1>2, GoesOn
<1>4. ASSUME NEW e \in queue
      PROVE  \E x \in queue' : x.ticket = e.ticket /\ x.snap = e.snap
  <2>1. Attempted(e).ticket = e.ticket /\ Attempted(e).snap = e.snap
    BY DEF Attempted, QueueSafe, PcTypeOK, Entry
  <2> QED BY <1>1, <2>1
<1>5. NoneLost'
  BY <1>1, <1>4, StillKept DEF Kept
<1> QED BY <1>3, <1>5 DEF Kept, MarkedArrived

LEMMA MarkKeeps ==
    ASSUME QueueSafe, Kept, [RelayNext]_relayVars, MarkSynced
    PROVE  Kept'
<1>1. /\ pusher.at = "mark" /\ queue' = OtherThan(pusher.now) /\ Send(pusher.list, 0)
      /\ UNCHANGED <<newest, delivered>>
  BY DEF MarkSynced
<1>2. pusher'.at # "mark"
  BY <1>1, GoesOn
<1>3. ASSUME NEW e \in queue
      PROVE  \/ \E x \in queue' : x.ticket = e.ticket /\ x.snap = e.snap
             \/ e.snap.rev \in delivered'[e.ticket]
             \/ e.ticket \in Conflicting
  <2>1. CASE e.id # pusher.now.id
    BY <1>1, <2>1 DEF OtherThan
  <2>2. CASE e.id = pusher.now.id
    <3>1. e.ticket = pusher.now.ticket /\ e.snap = pusher.now.snap
      BY <1>1, <2>2, NowTyped DEF QueueSafe, HeldAsQueued
    <3> QED BY <1>1, <3>1 DEF Kept, MarkedArrived
  <2> QED BY <2>1, <2>2
<1>4. NoneLost'
  BY <1>1, <1>3, StillKept DEF Kept
<1> QED BY <1>2, <1>4 DEF Kept, MarkedArrived

LEMMA RestartKeeps ==
    ASSUME QueueSafe, Kept, [RelayNext]_relayVars, RestartPc
    PROVE  Kept'
<1> DEFINE fresh(e) == IF e.attempts >= MaxAttempts THEN [e EXCEPT !.attempts = 0] ELSE e
<1>1. /\ queue' = {fresh(e) : e \in queue} /\ pusher'.at = "idle"
      /\ UNCHANGED <<newest, delivered>>
  BY DEF RestartPc, IdlePusher
<1>2. \A e \in queue : fresh(e).ticket = e.ticket /\ fresh(e).snap = e.snap
  BY DEF QueueSafe, PcTypeOK, Entry
<1> HIDE DEF fresh
<1>3. \A e \in queue : \E x \in queue' : x.ticket = e.ticket /\ x.snap = e.snap
  BY <1>1, <1>2
<1>4. NoneLost'
  BY <1>1, <1>3, StillKept DEF Kept
<1> QED BY <1>1, <1>4 DEF Kept, MarkedArrived

(* The rest leaves queue and loop alone. *)
LEMMA RestKeeps ==
    ASSUME QueueSafe, Kept, [RelayNext]_relayVars, UNCHANGED <<queueVars, pusher>>
    PROVE  Kept'
<1>1. NoneLost'
  BY StillKept DEF Kept, queueVars
<1>2. MarkedArrived'
  <2>1. pusher.at = "mark" => pusher.now.ticket \in Tickets
    BY NowTyped
  <2> QED BY <2>1, DeliveredGrows DEF Kept, MarkedArrived
<1> QED BY <1>1, <1>2 DEF Kept

(* The newest snapshot of every ticket the factory's database does not      *)
(* refuse waits in the queue or has arrived, whatever becomes of the others.*)
THEOREM NothingLostElsewhere == RelaySpec => []NoneLost
<1>1. RelayInit => Kept
  BY DEF RelayInit, PcInit, Kept, MarkedArrived, NoneLost, IdlePusher
<1>2. ASSUME QueueSafe, Kept, [RelayNext]_relayVars
      PROVE  Kept'
  <2>1. CASE PcNext
    <3>1. ASSUME NEW p \in late, LateStores(p)
          PROVE  UNCHANGED <<queueVars, pusher>>
      BY <3>1 DEF LateStores
    <3> QED BY <1>2, <2>1, <3>1, PagesKeep, PostsKeep, RejectsKeep, MarkKeeps, RestartKeeps, RestKeeps
            DEF PcNext, PushLoop
  <2>2. CASE MirrorLoop \/ (\E r \in abandoned : AbandonedUpsert(r)) \/ GiveUp
    BY <1>2, <2>2, MirrorLeavesPc, RestKeeps
  <2>3. CASE UNCHANGED relayVars
    BY <1>2, <2>3, RestKeeps DEF relayVars, pcVars
  <2> QED BY <1>2, <2>1, <2>2, <2>3 DEF RelayNext
<1>3. Kept => NoneLost
  BY DEF Kept
<1> QED BY <1>1, <1>2, <1>3, QueueKeeping, PTL DEF RelaySpec

(* So where none is refused, none is lost: a row that is refused, or fails  *)
(* at the cloud, is answered like one stored, and its snapshot is gone.     *)
THEOREM NothingLost ==
    ASSUME Conflicting = {}
    PROVE  RelaySpec => []NeverLosesData
<1>1. NoneLost => NeverLosesData
  BY DEF NoneLost, NeverLosesData
<1> QED BY <1>1, NothingLostElsewhere, PTL

-----------------------------------------------------------------------------
(* The mirror.  What a request carries, and what the mirror has, was the    *)
(* factory's row once: it is older than the row of now, or equal to it.     *)
MirrorTyped ==
    /\ stamp \in [Tickets -> Nat]
    /\ mirror \in [Tickets -> RelayRow]
    /\ mirrored \in [Tickets -> SUBSET Nat]
    /\ request \in [sent : BOOLEAN, todo : SUBSET RelayRow, stored : SUBSET RelayRow]
    /\ abandoned \subseteq RelayRow

OldOrCurrent(r) ==
    /\ r.updatedAt <= factory[r.ticket].updatedAt
    /\ r.updatedAt = factory[r.ticket].updatedAt => r = MirrorRow(r.ticket)

Carried == request.todo \union request.stored
FromFactory ==
    /\ \A r \in Carried \union abandoned : OldOrCurrent(r)
    /\ \A t \in Tickets : mirror[t].ticket = t /\ OldOrCurrent(mirror[t])
OncePerRow == \A r, s \in Carried : r.ticket = s.ticket => r = s
AheadOfStamp == \A r \in request.todo : r.updatedAt > stamp[r.ticket]
StampHeld ==
    /\ \A r \in request.stored : r.updatedAt \in mirrored[r.ticket]
    /\ \A t \in Tickets : stamp[t] > 0 => stamp[t] \in mirrored[t]
Undisturbed ==
    failures = 0 =>
        /\ abandoned = {}
        /\ \A r \in request.stored : mirror[r.ticket] = r
        /\ \A t \in Tickets : mirror[t].updatedAt >= stamp[t]

MirrorSafe ==
    /\ MirrorTyped /\ FromFactory /\ OncePerRow
    /\ AheadOfStamp /\ StampHeld /\ Undisturbed

LEMMA InitMirrorSafe == RelayInit => MirrorSafe
<1> SUFFICES ASSUME RelayInit PROVE MirrorSafe
  OBVIOUS
<1>1. MirrorTyped
  BY DEF RelayInit, MirrorTyped, RelayRow, NoRequest
<1>2. Carried = {} /\ abandoned = {} /\ request.todo = {} /\ request.stored = {}
  BY DEF RelayInit, Carried, NoRequest
<1>3. ASSUME NEW t \in Tickets
      PROVE  mirror[t].ticket = t /\ mirror[t].updatedAt = 0 /\ OldOrCurrent(mirror[t])
  BY DEF RelayInit, PcInit, OldOrCurrent, MirrorRow
<1>4. \A t \in Tickets : stamp[t] = 0
  BY DEF RelayInit
<1> QED BY <1>1, <1>2, <1>3, <1>4 DEF MirrorSafe, FromFactory, OncePerRow, AheadOfStamp, StampHeld, Undisturbed

(* The PC's side moves a factory row only to a later updatedAt.             *)
LEMMA FactoryMovesOn ==
    ASSUME QueueSafe, PcNext, NEW t \in Tickets
    PROVE  /\ factory'[t] = factory[t] \/ factory'[t].updatedAt > factory[t].updatedAt
           /\ failures' >= failures
<1>0. failures \in Nat
  BY Bounds DEF QueueSafe, PcTypeOK
<1>1. ASSUME NEW u, NEW snap, Stores(u, snap)
      PROVE  factory'[t] = factory[t] \/ factory'[t].updatedAt > factory[t].updatedAt
  <2>1. CASE UNCHANGED factory
    BY <2>1
  <2>2. CASE factory' = [factory EXCEPT ![u] = [row |-> snap, updatedAt |-> @.updatedAt + 1]]
    <3>1. factory[t].updatedAt \in Nat
      BY DEF QueueSafe, PcTypeOK, FactoryRow
    <3>2. t # u => factory'[t] = factory[t]
      BY <2>2 DEF QueueSafe, PcTypeOK
    <3>3. t = u => factory'[t].updatedAt = factory[t].updatedAt + 1
      BY <2>2 DEF QueueSafe, PcTypeOK
    <3> QED BY <3>1, <3>2, <3>3
  <2> QED BY <1>1, <2>1, <2>2 DEF Stores
<1>2. Fails => failures' >= failures
  BY <1>0 DEF Fails
<1>3. CASE Pages
  <2>1. UNCHANGED <<factory, failures>>
    BY <1>3 DEF Pages, GateEntry, FirstWeight, SecondWeight, LabResult, DeleteWeighment
  <2> QED BY <1>0, <2>1
<1>4. CASE PushWeighments \/ CloudRejects \/ MarkSynced \/ FactoryTimeout \/ RestartPc
  BY <1>0, <1>2, <1>4 DEF PushWeighments, CloudRejects, MarkSynced, FactoryTimeout, RestartPc
<1>5. CASE PostFactory
  BY <1>0, <1>1, <1>2, <1>5 DEF PostFactory
<1>6. CASE PostCloud
  BY <1>0, <1>2, <1>6 DEF PostCloud
<1>7. ASSUME NEW p \in late, LateStores(p)
      PROVE  /\ factory'[t] = factory[t] \/ factory'[t].updatedAt > factory[t].updatedAt
             /\ failures' >= failures
  BY <1>0, <1>1, <1>7 DEF LateStores
<1> QED BY <1>3, <1>4, <1>5, <1>6, <1>7 DEF PcNext, PushLoop

LEMMA RowTypes ==
    ASSUME MirrorTyped
    PROVE  /\ \A r \in Carried \union abandoned :
                 r.ticket \in Tickets /\ r.updatedAt \in Nat /\ r \in RelayRow
           /\ \A t \in Tickets : stamp[t] \in Nat /\ mirror[t].updatedAt \in Nat
BY DEF MirrorTyped, Carried, RelayRow

LEMMA PcKeepsMirror ==
    ASSUME QueueSafe, QueueSafe', MirrorSafe, PcNext, UNCHANGED mirrorVars
    PROVE  MirrorSafe'
<1>0. /\ UNCHANGED <<stamp, mirror, mirrored, request, abandoned>>
      /\ Carried' = Carried
  BY DEF mirrorVars, Carried
<1>1. ASSUME NEW r, r.ticket \in Tickets, r.updatedAt \in Nat, OldOrCurrent(r)
      PROVE  OldOrCurrent(r)'
  <2>1. /\ factory[r.ticket].updatedAt \in Nat
        /\ factory'[r.ticket].updatedAt \in Nat
    BY <1>1 DEF QueueSafe, PcTypeOK, FactoryRow
  <2>2. CASE factory'[r.ticket] = factory[r.ticket]
    BY <1>1, <2>2 DEF OldOrCurrent, MirrorRow
  <2>3. CASE factory'[r.ticket].updatedAt > factory[r.ticket].updatedAt
    BY <1>1, <2>1, <2>3 DEF OldOrCurrent
  <2> QED BY <1>1, <2>2, <2>3, FactoryMovesOn
<1>2. FromFactory'
  <2>1. ASSUME NEW r \in Carried' \union abandoned'
        PROVE  OldOrCurrent(r)'
    BY <1>0, <1>1, <2>1, RowTypes DEF MirrorSafe, FromFactory
  <2>2. ASSUME NEW t \in Tickets
        PROVE  mirror'[t].ticket = t /\ OldOrCurrent(mirror[t])'
    <3>1. mirror[t].ticket = t /\ mirror[t].updatedAt \in Nat /\ OldOrCurrent(mirror[t])
      BY RowTypes DEF MirrorSafe, FromFactory
    <3>2. OldOrCurrent(mirror[t]) => OldOrCurrent(mirror[t])'
      <4> DEFINE r == mirror[t]
      <4>1. r.ticket = t /\ r.updatedAt \in Nat /\ r' = r
        BY <1>0, <3>1
      <4>2. /\ factory[t].updatedAt \in Nat /\ factory'[t].updatedAt \in Nat
        BY DEF QueueSafe, PcTypeOK, FactoryRow
      <4>3. factory'[t] = factory[t] \/ factory'[t].updatedAt > factory[t].updatedAt
        BY FactoryMovesOn
      <4> HIDE DEF r
      <4>4. OldOrCurrent(r) => OldOrCurrent(r)'
        BY <4>1, <4>2, <4>3 DEF OldOrCurrent, MirrorRow
      <4> QED BY <4>4 DEF r
    <3> QED BY <1>0, <3>1, <3>2
  <2> QED BY <2>1, <2>2 DEF FromFactory
<1>3. Undisturbed'
  <2>1. \A t \in Tickets : failures' = 0 => failures = 0
    BY FactoryMovesOn DEF QueueSafe, PcTypeOK
  <2>2. Tickets = {} => abandoned = {} /\ request.stored = {}
    BY RowTypes DEF MirrorSafe, Carried
  <2>3. CASE Tickets = {}
    BY <1>0, <2>2, <2>3 DEF Undisturbed
  <2>4. CASE Tickets # {}
    BY <1>0, <2>1, <2>4 DEF MirrorSafe, Undisturbed
  <2> QED BY <2>3, <2>4
<1> QED BY <1>0, <1>2, <1>3 DEF MirrorSafe, MirrorTyped, OncePerRow, AheadOfStamp, StampHeld

-----------------------------------------------------------------------------
LEMMA PushRawKeeps ==
    ASSUME QueueSafe, MirrorSafe, PushRaw
    PROVE  MirrorSafe'
<1>1. PICK S \in SUBSET DueRows :
        request' = [sent |-> TRUE, todo |-> {MirrorRow(t) : t \in S}, stored |-> {}]
  BY DEF PushRaw
<1>2. UNCHANGED <<pcVars, stamp, mirror, mirrored, abandoned>>
  BY DEF PushRaw
<1>3. UNCHANGED <<factory, failures>>
  BY <1>2 DEF pcVars
<1>4. ASSUME NEW t \in S
      PROVE  /\ t \in Tickets /\ MirrorRow(t) \in RelayRow /\ MirrorRow(t).ticket = t
             /\ MirrorRow(t).updatedAt > stamp[t] /\ OldOrCurrent(MirrorRow(t))
  <2>1. t \in Tickets /\ stamp[t] < factory[t].updatedAt /\ factory[t] \in FactoryRow
    BY DEF DueRows, QueueSafe, PcTypeOK
  <2> QED BY <2>1, RowTypes DEF MirrorRow, RelayRow, FactoryRow, OldOrCurrent, MirrorSafe
<1>5. request'.todo = {MirrorRow(t) : t \in S} /\ request'.stored = {}
      /\ Carried' = {MirrorRow(t) : t \in S}
  BY <1>1 DEF Carried
<1>6. MirrorTyped'
  BY <1>1, <1>2, <1>4 DEF MirrorSafe, MirrorTyped
<1>7. FromFactory'
  BY <1>2, <1>3, <1>4, <1>5 DEF MirrorSafe, FromFactory, OldOrCurrent, MirrorRow
<1>8. OncePerRow' /\ AheadOfStamp'
  BY <1>2, <1>4, <1>5 DEF OncePerRow, AheadOfStamp
<1>9. StampHeld' /\ Undisturbed'
  BY <1>2, <1>3, <1>5 DEF MirrorSafe, StampHeld, Undisturbed
<1> QED BY <1>6, <1>7, <1>8, <1>9 DEF MirrorSafe

(* A row is stored, of the request or of an abandoned one.                  *)
LEMMA UpsertKeeps ==
    ASSUME QueueSafe, MirrorSafe, NEW r \in Carried \union abandoned, Upsert(r)
    PROVE  /\ mirror' \in [Tickets -> RelayRow]
           /\ mirrored' \in [Tickets -> SUBSET Nat]
           /\ r.ticket \in Tickets /\ r.updatedAt \in mirrored'[r.ticket]
           /\ mirror'[r.ticket] = r
           /\ \A t \in Tickets : mirrored[t] \subseteq mirrored'[t]
           /\ \A t \in Tickets : mirror'[t].ticket = t /\ OldOrCurrent(mirror'[t])
           /\ \A t \in Tickets : t # r.ticket => mirror'[t] = mirror[t]
<1>1. r.ticket \in Tickets /\ r.updatedAt \in Nat /\ r \in RelayRow /\ OldOrCurrent(r)
  BY RowTypes DEF MirrorSafe, FromFactory
<1>2. mirror' = [mirror EXCEPT ![r.ticket] = r] /\ mirror \in [Tickets -> RelayRow]
  BY DEF Upsert, MirrorSafe, MirrorTyped
<1>3. mirrored' = [mirrored EXCEPT ![r.ticket] = mirrored[r.ticket] \union {r.updatedAt}]
      /\ mirrored \in [Tickets -> SUBSET Nat]
  BY DEF Upsert, MirrorSafe, MirrorTyped
<1>4. mirror' \in [Tickets -> RelayRow] /\ mirror'[r.ticket] = r
      /\ \A t \in Tickets : t # r.ticket => mirror'[t] = mirror[t]
  BY <1>1, <1>2
<1>5. mirrored' \in [Tickets -> SUBSET Nat] /\ r.updatedAt \in mirrored'[r.ticket]
      /\ \A t \in Tickets : mirrored[t] \subseteq mirrored'[t]
  BY <1>1, <1>3
<1>6. \A t \in Tickets : mirror'[t].ticket = t /\ OldOrCurrent(mirror'[t])
  <2> SUFFICES ASSUME NEW t \in Tickets
               PROVE  mirror'[t].ticket = t /\ OldOrCurrent(mirror'[t])
    OBVIOUS
  <2>1. CASE t = r.ticket
    BY <1>1, <1>4, <2>1
  <2>2. CASE t # r.ticket
    BY <1>4, <2>2 DEF MirrorSafe, FromFactory
  <2> QED BY <2>1, <2>2
<1> QED BY <1>1, <1>4, <1>5, <1>6

LEMMA MirrorUpsertKeeps ==
    ASSUME QueueSafe, MirrorSafe, NEW r \in request.todo, MirrorUpsert(r)
    PROVE  MirrorSafe'
<1>1. /\ UNCHANGED <<factory, stamp, abandoned>> /\ r \in Carried
  BY DEF MirrorUpsert, Carried
<1>2. CASE Upsert(r) /\ request' = [request EXCEPT !.todo = @ \ {r}, !.stored = @ \union {r}]
           /\ UNCHANGED failures
  <2>1. /\ request'.todo = request.todo \ {r} /\ request'.stored = request.stored \union {r}
        /\ request' \in [sent : BOOLEAN, todo : SUBSET RelayRow, stored : SUBSET RelayRow]
        /\ Carried' \subseteq Carried
    BY <1>2 DEF MirrorSafe, MirrorTyped, Carried
  <2>2. /\ mirror' \in [Tickets -> RelayRow]
        /\ mirrored' \in [Tickets -> SUBSET Nat]
        /\ r.ticket \in Tickets /\ r.updatedAt \in mirrored'[r.ticket]
        /\ mirror'[r.ticket] = r
        /\ \A t \in Tickets : mirrored[t] \subseteq mirrored'[t]
        /\ \A t \in Tickets : mirror'[t].ticket = t /\ OldOrCurrent(mirror'[t])
        /\ \A t \in Tickets : t # r.ticket => mirror'[t] = mirror[t]
    BY <1>1, <1>2, UpsertKeeps
  <2>3. MirrorTyped'
    BY <1>1, <2>1, <2>2 DEF MirrorSafe, MirrorTyped
  <2>4. FromFactory'
    BY <1>1, <2>1, <2>2 DEF MirrorSafe, FromFactory, OldOrCurrent, MirrorRow
  <2>5. OncePerRow' /\ AheadOfStamp'
    BY <1>1, <2>1 DEF MirrorSafe, OncePerRow, AheadOfStamp
  <2>6. StampHeld'
    <3>1. \A s \in request.stored : s.ticket \in Tickets
      BY RowTypes DEF MirrorSafe, Carried
    <3> QED BY <1>1, <2>1, <2>2, <3>1 DEF MirrorSafe, StampHeld
  <2>7. Undisturbed'
    <3> SUFFICES ASSUME failures = 0
                 PROVE  /\ abandoned' = {}
                        /\ \A s \in request'.stored : mirror'[s.ticket] = s
                        /\ \A t \in Tickets : mirror'[t].updatedAt >= stamp'[t]
      BY <1>2 DEF Undisturbed
    <3>1. abandoned' = {}
      BY <1>1 DEF MirrorSafe, Undisturbed
    <3>2. ASSUME NEW s \in request'.stored
          PROVE  mirror'[s.ticket] = s
      <4>1. s \in Carried /\ s.ticket \in Tickets
        BY <1>1, <2>1, RowTypes DEF MirrorSafe, Carried
      <4>2. CASE s.ticket = r.ticket
        BY <1>1, <2>2, <4>1, <4>2 DEF MirrorSafe, OncePerRow
      <4>3. CASE s.ticket # r.ticket
        BY <2>1, <2>2, <4>1, <4>3 DEF MirrorSafe, Undisturbed
      <4> QED BY <4>2, <4>3
    <3>3. ASSUME NEW t \in Tickets
          PROVE  mirror'[t].updatedAt >= stamp'[t]
      <4>1. CASE t = r.ticket
        <5>1. r.updatedAt > stamp[t]
          BY <4>1 DEF MirrorSafe, AheadOfStamp
        <5>2. r.updatedAt \in Nat /\ stamp[t] \in Nat
          BY <1>1, RowTypes DEF MirrorSafe
        <5> QED BY <1>1, <2>2, <4>1, <5>1, <5>2
      <4>2. CASE t # r.ticket
        BY <1>1, <2>2, <4>2 DEF MirrorSafe, Undisturbed
      <4> QED BY <4>1, <4>2
    <3> QED BY <3>1, <3>2, <3>3
  <2> QED BY <2>3, <2>4, <2>5, <2>6, <2>7 DEF MirrorSafe
<1>3. CASE Fails /\ request' = [request EXCEPT !.todo = @ \ {r}] /\ UNCHANGED <<mirror, mirrored>>
  <2>1. /\ request'.todo = request.todo \ {r} /\ request'.stored = request.stored
        /\ request' \in [sent : BOOLEAN, todo : SUBSET RelayRow, stored : SUBSET RelayRow]
        /\ Carried' \subseteq Carried
    BY <1>3 DEF MirrorSafe, MirrorTyped, Carried
  <2>2. failures' # 0
    BY <1>3, Bounds DEF Fails, QueueSafe, PcTypeOK
  <2>3. MirrorTyped'
    BY <1>1, <1>3, <2>1 DEF MirrorSafe, MirrorTyped
  <2>4. FromFactory'
    BY <1>1, <1>3, <2>1 DEF MirrorSafe, FromFactory, OldOrCurrent, MirrorRow
  <2> QED BY <1>1, <1>3, <2>1, <2>2, <2>3, <2>4
          DEF MirrorSafe, OncePerRow, AheadOfStamp, StampHeld, Undisturbed
<1> QED BY <1>2, <1>3 DEF MirrorUpsert

LEMMA AbandonedUpsertKeeps ==
    ASSUME QueueSafe, MirrorSafe, NEW r \in abandoned, AbandonedUpsert(r)
    PROVE  MirrorSafe'
<1>1. /\ Upsert(r) /\ UNCHANGED <<factory, failures, stamp, request>> /\ Carried' = Carried
      /\ abandoned' = abandoned \ {r}
  BY DEF AbandonedUpsert, Carried, pcVars
<1>2. /\ mirror' \in [Tickets -> RelayRow]
      /\ mirrored' \in [Tickets -> SUBSET Nat]
      /\ \A t \in Tickets : mirrored[t] \subseteq mirrored'[t]
      /\ \A t \in Tickets : mirror'[t].ticket = t /\ OldOrCurrent(mirror'[t])
  BY <1>1, UpsertKeeps
<1>3. MirrorTyped'
  BY <1>1, <1>2 DEF MirrorSafe, MirrorTyped
<1>4. FromFactory'
  BY <1>1, <1>2 DEF MirrorSafe, FromFactory, OldOrCurrent, MirrorRow
<1>5. StampHeld'
  <2>1. \A s \in request.stored : s.ticket \in Tickets
    BY RowTypes DEF MirrorSafe, Carried
  <2> QED BY <1>1, <1>2, <2>1 DEF MirrorSafe, StampHeld
<1>6. failures' # 0
  BY <1>1 DEF MirrorSafe, Undisturbed
<1> QED BY <1>1, <1>3, <1>4, <1>5, <1>6 DEF MirrorSafe, OncePerRow, AheadOfStamp, Undisturbed

LEMMA AnsweredKeeps ==
    ASSUME QueueSafe, MirrorSafe, Answered
    PROVE  MirrorSafe'
<1>1. /\ UNCHANGED <<factory, failures, mirror, mirrored, abandoned>> /\ request' = NoRequest
  BY DEF Answered, pcVars
<1>2. request'.todo = {} /\ request'.stored = {} /\ Carried' = {}
  BY <1>1 DEF NoRequest, Carried
<1>3. ASSUME NEW t \in Tickets
      PROVE  \/ stamp'[t] = stamp[t]
             \/ \E r \in request.stored : r.ticket = t /\ stamp'[t] = r.updatedAt
  <2>1. stamp'[t] = IF \E r \in request.stored : r.ticket = t
                    THEN ReadStamp(CHOOSE r \in request.stored : r.ticket = t)
                    ELSE stamp[t]
    BY DEF Answered
  <2>2. CASE \E r \in request.stored : r.ticket = t
    <3> DEFINE c == CHOOSE r \in request.stored : r.ticket = t
    <3>1. c \in request.stored /\ c.ticket = t
      BY <2>2
    <3>2. stamp'[t] = c.updatedAt
      BY <2>1, <2>2 DEF ReadStamp
    <3> QED BY <3>1, <3>2
  <2>3. CASE ~\E r \in request.stored : r.ticket = t
    BY <2>1, <2>3
  <2> QED BY <2>2, <2>3
<1>4. \A t \in Tickets : stamp'[t] \in Nat
  BY <1>3, RowTypes DEF MirrorSafe, Carried
<1>5. MirrorTyped'
  <2>1. stamp' \in [Tickets -> Nat]
    <3> DEFINE d(t) == IF \E r \in request.stored : r.ticket = t
                       THEN ReadStamp(CHOOSE r \in request.stored : r.ticket = t)
                       ELSE stamp[t]
    <3>1. stamp' = [t \in Tickets |-> d(t)]
      BY DEF Answered
    <3> HIDE DEF d
    <3> QED BY <1>4, <3>1
  <2>2. NoRequest \in [sent : BOOLEAN, todo : SUBSET RelayRow, stored : SUBSET RelayRow]
    BY DEF NoRequest
  <2> QED BY <1>1, <2>1, <2>2 DEF MirrorSafe, MirrorTyped
<1>6. FromFactory'
  BY <1>1, <1>2 DEF MirrorSafe, FromFactory, OldOrCurrent, MirrorRow
<1>7. StampHeld'
  BY <1>1, <1>2, <1>3 DEF MirrorSafe, StampHeld
<1>8. Undisturbed'
  <2>1. \A r \in request.stored : r.updatedAt \in Nat
    BY RowTypes DEF MirrorSafe, Carried
  <2> QED BY <1>1, <1>2, <1>3, <2>1 DEF MirrorSafe, Undisturbed
<1> QED BY <1>2, <1>5, <1>6, <1>7, <1>8 DEF MirrorSafe, OncePerRow, AheadOfStamp

LEMMA GiveUpKeeps ==
    ASSUME QueueSafe, MirrorSafe, GiveUp
    PROVE  MirrorSafe'
<1>1. /\ UNCHANGED <<factory, stamp, mirror, mirrored>> /\ request' = NoRequest
      /\ abandoned' \subseteq abandoned \union request.todo /\ failures' = failures + 1
  BY DEF GiveUp, Fails
<1>2. request'.todo = {} /\ request'.stored = {} /\ Carried' = {}
  BY <1>1 DEF NoRequest, Carried
<1>3. failures' # 0
  BY <1>1, Bounds DEF QueueSafe, PcTypeOK
<1>4. MirrorTyped'
  BY <1>1 DEF MirrorSafe, MirrorTyped, NoRequest
<1>5. FromFactory'
  BY <1>1, <1>2 DEF MirrorSafe, FromFactory, OldOrCurrent, MirrorRow, Carried
<1> QED BY <1>1, <1>2, <1>3, <1>4, <1>5
        DEF MirrorSafe, OncePerRow, AheadOfStamp, StampHeld, Undisturbed

LEMMA MirrorSafeStep ==
    ASSUME QueueSafe, QueueSafe', MirrorSafe, [RelayNext]_relayVars
    PROVE  MirrorSafe'
<1>1. CASE UNCHANGED relayVars
  <2>1. /\ UNCHANGED <<factory, failures, stamp, mirror, mirrored, request, abandoned>>
        /\ Carried' = Carried
    BY <1>1 DEF relayVars, pcVars, mirrorVars, Carried
  <2>2. FromFactory'
    BY <2>1 DEF MirrorSafe, FromFactory, OldOrCurrent, MirrorRow
  <2> QED BY <2>1, <2>2 DEF MirrorSafe, MirrorTyped, OncePerRow, AheadOfStamp, StampHeld, Undisturbed
<1>2. CASE PcNext /\ UNCHANGED mirrorVars
  BY <1>2, PcKeepsMirror
<1>3. CASE MirrorLoop
  BY <1>3, PushRawKeeps, MirrorUpsertKeeps, AnsweredKeeps DEF MirrorLoop
<1> QED BY <1>1, <1>2, <1>3, AbandonedUpsertKeeps, GiveUpKeeps DEF RelayNext

(* What the queue holds is as the PC recorded it, and what the mirror has    *)
(* are versions of the factory's rows, whatever is lost or restarted.       *)
THEOREM MirrorKeeping == RelaySpec => [](QueueSafe /\ MirrorSafe)
<1>1. ASSUME QueueSafe, MirrorSafe, [RelayNext]_relayVars
      PROVE  QueueSafe' /\ MirrorSafe'
  <2>1. QueueSafe'
    BY <1>1, QueueSafeStep
  <2> QED BY <1>1, <2>1, MirrorSafeStep
<1> QED BY <1>1, InitQueueSafe, InitMirrorSafe, PTL DEF RelaySpec

(* Every variable of the PC, its loop and the mirror keeps its type.        *)
THEOREM RelayTypes == RelaySpec => []RelayTypeOK
<1>1. QueueSafe /\ MirrorSafe => RelayTypeOK
  BY DEF QueueSafe, MirrorSafe, MirrorTyped, RelayTypeOK
<1> QED BY <1>1, MirrorKeeping, PTL

(* A row stamped with the updatedAt it has now is one the mirror has held   *)
(* in that version, and holds, unless a request failed: the stamp is the    *)
(* updatedAt that was read, and an edit during a push moves the row's own.  *)
THEOREM UpToDateMirrored == RelaySpec => []UpToDateIsMirrored
<1>1. ASSUME QueueSafe, MirrorSafe
      PROVE  UpToDateIsMirrored
  <2> SUFFICES ASSUME NEW t \in Tickets, stamp[t] > 0, stamp[t] = factory[t].updatedAt
               PROVE  stamp[t] \in mirrored[t] /\ (mirror[t] = MirrorRow(t) \/ failures > 0)
    BY DEF UpToDateIsMirrored
  <2>1. stamp[t] \in mirrored[t]
    BY <1>1 DEF MirrorSafe, StampHeld
  <2>2. CASE failures = 0
    <3>1. mirror[t].updatedAt >= stamp[t] /\ mirror[t].ticket = t /\ OldOrCurrent(mirror[t])
      BY <1>1, <2>2 DEF MirrorSafe, Undisturbed, FromFactory
    <3>2. mirror[t].updatedAt \in Nat /\ stamp[t] \in Nat
      BY <1>1, RowTypes DEF MirrorSafe
    <3>3. mirror[t].updatedAt = factory[t].updatedAt
      BY <3>1, <3>2 DEF OldOrCurrent
    <3> QED BY <2>1, <3>1, <3>3 DEF OldOrCurrent
  <2>3. CASE failures # 0
    BY <1>1, <2>1, <2>3 DEF QueueSafe, PcTypeOK
  <2> QED BY <2>2, <2>3
<1> QED BY <1>1, MirrorKeeping, PTL

-----------------------------------------------------------------------------
(* The order of snapshots.  What queue and loop have of a ticket is ordered  *)
(* by id as its revisions are, and the loop takes the entries by id.         *)
Numbered == \A t \in Tickets : newest[t] <= pc[t].rev /\ (newest[t] > 0 <=> Exists(t))
NoneAhead ==
    \A e \in queue \union Held :
        /\ pc[e.ticket] # NoRow
        /\ newest[e.ticket] > 0 => e.snap.rev <= newest[e.ticket]
RevsInOrder ==
    \A e, x \in queue \union Held :
        e.ticket = x.ticket /\ e.id < x.id => e.snap.rev < x.snap.rev
NowFirst == pusher.at # "idle" => \A x \in pusher.list : pusher.now.id < x.id

Ordered == Numbered /\ NoneAhead /\ RevsInOrder /\ NowFirst

LEMMA EntryTypes ==
    ASSUME QueueSafe
    PROVE  /\ \A e \in queue \union Held :
                e \in Entry /\ e.id \in Nat /\ e.ticket \in Tickets /\ e.snap.rev \in Nat
           /\ \A t \in Tickets : newest[t] \in Nat /\ pc[t].rev \in Nat
           /\ nextId \in Nat
           /\ \A e \in queue \union Held : e.id < nextId
<1>1. queue \union Held \subseteq Entry
  BY DEF QueueSafe, PcTypeOK, Held
<1>2. \A e \in Entry : e.id \in Nat /\ e.ticket \in Tickets /\ e.snap.rev \in Nat
  BY Bounds DEF Entry, Snapshot
<1>3. \A t \in Tickets : newest[t] \in Nat /\ pc[t].rev \in Nat
  BY Bounds DEF QueueSafe, PcTypeOK, Snapshot, NoRow, Deleted
<1> QED BY <1>1, <1>2, <1>3 DEF QueueSafe, PcTypeOK, IdsOnce

(* Entries come from what was there, and rows stay. *)
LEMMA LoopOrders ==
    ASSUME QueueSafe, Ordered, UNCHANGED <<pc, newest>>, NowFirst',
           \A e \in queue' \union Held' :
               \E x \in queue \union Held : x.id = e.id /\ x.ticket = e.ticket /\ x.snap = e.snap
    PROVE  Ordered'
<1>1. Numbered'
  BY DEF Ordered, Numbered, Exists
<1>2. NoneAhead'
  BY DEF Ordered, NoneAhead
<1>3. RevsInOrder'
  <2> SUFFICES ASSUME NEW e \in queue' \union Held', NEW x \in queue' \union Held',
                      e.ticket = x.ticket, e.id < x.id
               PROVE  e.snap.rev < x.snap.rev
    BY DEF RevsInOrder
  <2>1. PICK e0 \in queue \union Held : e0.id = e.id /\ e0.ticket = e.ticket /\ e0.snap = e.snap
    OBVIOUS
  <2>2. PICK x0 \in queue \union Held : x0.id = x.id /\ x0.ticket = x.ticket /\ x0.snap = x.snap
    OBVIOUS
  <2> QED BY <2>1, <2>2 DEF Ordered, RevsInOrder
<1> QED BY <1>1, <1>2, <1>3 DEF Ordered

LEMMA SendFirst ==
    ASSUME QueueSafe, QueueSafe', NEW list \in SUBSET Entry, NEW f \in Nat, Send(list, f)
    PROVE  NowFirst'
<1>1. CASE list = {} \/ f >= MaxConsecutiveFailures
  BY <1>1 DEF Send, IdlePusher, NowFirst
<1>2. CASE ~(list = {} \/ f >= MaxConsecutiveFailures)
  <2>1. PICK e \in list :
          /\ \A x \in list : e.id <= x.id
          /\ pusher' = [at |-> IF preferFactory THEN "factory" ELSE "cloud",
                        now |-> e, list |-> list \ {e}, failed |-> f]
    BY <1>2 DEF Send
  <2>2. pusher'.at # "idle" /\ pusher'.now = e /\ pusher'.list = list \ {e}
    BY <2>1
  <2>3. Held' = (list \ {e}) \union {e}
    BY <2>2 DEF Held
  <2>4. \A x \in list \ {e} : x.id # e.id
    BY <2>3 DEF QueueSafe, IdsOnce
  <2>5. \A x \in list : x.id \in Nat
    BY DEF Entry
  <2> QED BY <2>1, <2>2, <2>4, <2>5 DEF NowFirst
<1> QED BY <1>1, <1>2

(* A new snapshot is the newest, behind all that the queue and the loop have.*)
LEMMA EnqueueOrders ==
    ASSUME QueueSafe, Ordered, NEW t \in Tickets, NEW row, NEW q \in SUBSET queue,
           row \notin {NoRow, Deleted}, row.rev = pc[t].rev + 1,
           Exists(t) \/ pc[t] = NoRow, Enqueue(t, row, q), UNCHANGED pusher
    PROVE  Ordered'
<1> DEFINE new == [id |-> nextId, ticket |-> t, snap |-> row, attempts |-> 0]
<1>1. /\ new.id = nextId /\ new.ticket = t /\ new.snap = row
      /\ queue' = q \union {new} /\ Held' = Held
      /\ pc' = [pc EXCEPT ![t] = row] /\ newest' = [newest EXCEPT ![t] = row.rev]
  BY DEF Enqueue, Held
<1> HIDE DEF new
<1>2. /\ pc'[t] = row /\ newest'[t] = row.rev
      /\ \A u \in Tickets \ {t} : pc'[u] = pc[u] /\ newest'[u] = newest[u]
  BY <1>1 DEF QueueSafe, PcTypeOK
<1>3. \A e \in queue \union Held : e.ticket = t => e.snap.rev < row.rev
  <2>1. \A e \in queue \union Held :
          e.ticket = t => Exists(t) /\ e.snap.rev <= newest[t] /\ newest[t] <= pc[t].rev
    BY DEF Ordered, Numbered, NoneAhead
  <2> QED BY <2>1, EntryTypes
<1>4. Numbered'
  BY <1>2, EntryTypes DEF Ordered, Numbered, Exists
<1>5. NoneAhead'
  <2>1. \A e \in queue' \union Held' : e = new \/ e \in queue \union Held
    BY <1>1
  <2>2. \A e \in queue \union Held : e.ticket \in Tickets /\ e.snap.rev \in Nat
    BY EntryTypes
  <2>3. row.rev \in Nat
    BY EntryTypes
  <2> QED BY <1>1, <1>2, <1>3, <2>1, <2>2, <2>3 DEF Ordered, NoneAhead
<1>6. RevsInOrder'
  <2>1. \A e \in queue' \union Held' : e = new \/ e \in queue \union Held
    BY <1>1
  <2>2. \A e \in queue \union Held : e.id \in Nat /\ e.id < new.id /\ ~(new.id < e.id)
    BY <1>1, EntryTypes
  <2>3. ~(new.id < new.id)
    BY <1>1, EntryTypes
  <2> QED BY <1>1, <1>3, <2>1, <2>2, <2>3 DEF Ordered, RevsInOrder
<1>7. NowFirst'
  BY DEF Ordered, NowFirst
<1> QED BY <1>4, <1>5, <1>6, <1>7 DEF Ordered

LEMMA PagesOrder ==
    ASSUME QueueSafe, Ordered, Pages PROVE Ordered'
<1>1. ASSUME NEW t \in Tickets, GateEntry(t) PROVE Ordered'
  <2> DEFINE row == Changed(t, "GATE_ENTRY", FALSE)
  <2>1. row \notin {NoRow, Deleted} /\ row.rev = pc[t].rev + 1
    BY DEF Changed, NoRow, Deleted
  <2>2. Enqueue(t, row, queue) /\ pc[t] = NoRow /\ UNCHANGED pusher
    BY <1>1 DEF GateEntry
  <2> HIDE DEF row
  <2> QED BY <2>1, <2>2, EnqueueOrders
<1>2. ASSUME NEW t \in Tickets, SecondWeight(t) PROVE Ordered'
  <2> DEFINE row == Changed(t, "COMPLETE", pc[t].lab)
  <2>1. row \notin {NoRow, Deleted} /\ row.rev = pc[t].rev + 1
    BY DEF Changed, NoRow, Deleted
  <2>2. Enqueue(t, row, queue) /\ Exists(t) /\ UNCHANGED pusher
    BY <1>2 DEF SecondWeight
  <2> HIDE DEF row
  <2> QED BY <2>1, <2>2, EnqueueOrders
<1>3. ASSUME NEW t \in Tickets, LabResult(t) PROVE Ordered'
  <2> DEFINE row == Changed(t, pc[t].status, TRUE)
  <2>1. row \notin {NoRow, Deleted} /\ row.rev = pc[t].rev + 1
    BY DEF Changed, NoRow, Deleted
  <2>2. Enqueue(t, row, Without(t)) /\ Exists(t) /\ UNCHANGED pusher
    BY <1>3 DEF LabResult, Requeue
  <2>3. Without(t) \in SUBSET queue
    BY DEF Without
  <2> HIDE DEF row
  <2> QED BY <2>1, <2>2, <2>3, EnqueueOrders
<1>4. ASSUME NEW t \in Tickets, FirstWeight(t) PROVE Ordered'
  <2>1. /\ Exists(t) /\ UNCHANGED <<queue, newest, pusher>>
        /\ pc'[t].rev = pc[t].rev + 1 /\ pc'[t] \notin {NoRow, Deleted}
        /\ \A u \in Tickets \ {t} : pc'[u] = pc[u]
    BY <1>4 DEF FirstWeight, Changed, NoRow, Deleted, QueueSafe, PcTypeOK
  <2>2. Held' = Held
    BY <2>1 DEF Held
  <2>3. Numbered'
    BY <2>1, EntryTypes DEF Ordered, Numbered, Exists
  <2>4. NoneAhead'
    BY <2>1, <2>2, EntryTypes DEF Ordered, NoneAhead
  <2> QED BY <2>1, <2>2, <2>3, <2>4 DEF Ordered, RevsInOrder, NowFirst
<1>5. ASSUME NEW t \in Tickets, DeleteWeighment(t) PROVE Ordered'
  <2>1. /\ queue' \subseteq queue /\ UNCHANGED pusher /\ newest'[t] = 0 /\ pc'[t] = Deleted
        /\ \A u \in Tickets \ {t} : pc'[u] = pc[u] /\ newest'[u] = newest[u]
    BY <1>5 DEF DeleteWeighment, Without, QueueSafe, PcTypeOK
  <2>2. Held' = Held
    BY <2>1 DEF Held
  <2>3. Numbered'
    BY <2>1, EntryTypes DEF Ordered, Numbered, Exists, Deleted
  <2>4. NoneAhead'
    BY <2>1, <2>2, EntryTypes DEF Ordered, NoneAhead, Deleted, NoRow
  <2> QED BY <2>1, <2>2, <2>3, <2>4 DEF Ordered, RevsInOrder, NowFirst
<1> QED BY <1>1, <1>2, <1>3, <1>4, <1>5 DEF Pages

LEMMA LoopOrder ==
    ASSUME QueueSafe, QueueSafe', Ordered,
           PushWeighments \/ PostFactory \/ FactoryTimeout \/ PostCloud \/ CloudRejects \/ MarkSynced
             \/ RestartPc \/ UNCHANGED <<queueVars, pusher>>
    PROVE  Ordered'
<1>1. CASE PushWeighments
  <2>1. /\ FirstTaken(Due) \subseteq queue /\ FirstTaken(Due) \in SUBSET Entry
        /\ Send(FirstTaken(Due), 0) /\ UNCHANGED queueVars /\ 0 \in Nat
    BY <1>1 DEF PushWeighments, FirstTaken, Due, QueueSafe, PcTypeOK
  <2>2. Held' \subseteq queue
    BY <2>1, SendTyped
  <2>3. NowFirst'
    BY <2>1, SendFirst
  <2> QED BY <2>1, <2>2, <2>3, LoopOrders DEF queueVars
<1>2. ASSUME NEW p, pusher' = [pusher EXCEPT !.at = p], p # "idle", pusher.at # "idle"
      PROVE  Held' = Held /\ NowFirst'
  BY <1>2 DEF Held, NowFirst, Ordered, QueueSafe, PcTypeOK
<1>3. CASE PostFactory \/ FactoryTimeout
  <2>1. UNCHANGED queueVars /\ pusher.at # "idle"
    BY <1>3 DEF PostFactory, FactoryTimeout
  <2>2. Held' = Held /\ NowFirst'
    BY <1>2, <1>3, <2>1 DEF PostFactory, FactoryTimeout
  <2> QED BY <2>1, <2>2, LoopOrders DEF queueVars
<1>4. ASSUME pusher.at # "idle", NEW f \in Nat, Send(pusher.list, f)
      PROVE  Held' \subseteq Held /\ NowFirst'
  <2>1. pusher.list \in SUBSET Entry
    BY DEF QueueSafe, PcTypeOK
  <2> QED BY <1>4, <2>1, GoesOn, SendFirst
<1>5. pusher.failed + 1 \in Nat /\ 0 \in Nat
  BY Bounds DEF QueueSafe, PcTypeOK
<1>6. CASE PostCloud
  <2>1. UNCHANGED queueVars /\ pusher.at # "idle"
    BY <1>6 DEF PostCloud
  <2>2. Held' \subseteq Held /\ NowFirst'
    BY <1>2, <1>4, <1>5, <1>6, <2>1 DEF PostCloud, NextAfterFailure
  <2> QED BY <2>1, <2>2, LoopOrders DEF queueVars
<1>7. CASE CloudRejects
  <2>1. /\ pusher.at # "idle" /\ UNCHANGED <<pc, newest>> /\ Send(pusher.list, pusher.failed + 1)
        /\ queue' = {IF e.id = pusher.now.id THEN Attempted(e) ELSE e : e \in queue}
    BY <1>7 DEF CloudRejects, CountAttempt, NextAfterFailure
  <2>2. Held' \subseteq Held /\ NowFirst'
    BY <1>4, <1>5, <2>1
  <2>3. \A e \in queue : /\ Attempted(e).id = e.id /\ Attempted(e).ticket = e.ticket
                         /\ Attempted(e).snap = e.snap
    BY DEF Attempted, QueueSafe, PcTypeOK, Entry
  <2>4. \A e \in queue' : \E x \in queue : x.id = e.id /\ x.ticket = e.ticket /\ x.snap = e.snap
    BY <2>1, <2>3
  <2> QED BY <2>1, <2>2, <2>4, LoopOrders
<1>8. CASE MarkSynced
  <2>1. /\ pusher.at # "idle" /\ UNCHANGED <<pc, newest>> /\ Send(pusher.list, 0)
        /\ queue' \subseteq queue
    BY <1>8 DEF MarkSynced, OtherThan
  <2>2. Held' \subseteq Held /\ NowFirst'
    BY <1>4, <1>5, <2>1
  <2> QED BY <2>1, <2>2, LoopOrders
<1>9. CASE RestartPc
  <2> DEFINE fresh(e) == IF e.attempts >= MaxAttempts THEN [e EXCEPT !.attempts = 0] ELSE e
  <2>1. queue' = {fresh(e) : e \in queue} /\ pusher'.at = "idle" /\ UNCHANGED <<pc, newest>>
    BY <1>9 DEF RestartPc, IdlePusher
  <2>2. Held' = {} /\ NowFirst'
    BY <2>1 DEF Held, NowFirst
  <2>3. \A e \in queue : fresh(e).id = e.id /\ fresh(e).ticket = e.ticket /\ fresh(e).snap = e.snap
    BY DEF QueueSafe, PcTypeOK, Entry
  <2> HIDE DEF fresh
  <2>4. \A e \in queue' : \E x \in queue : x.id = e.id /\ x.ticket = e.ticket /\ x.snap = e.snap
    BY <2>1, <2>3
  <2> QED BY <2>1, <2>2, <2>4, LoopOrders
<1>10. CASE UNCHANGED <<queueVars, pusher>>
  <2>1. Held' = Held /\ NowFirst'
    BY <1>10 DEF Held, NowFirst, Ordered
  <2> QED BY <1>10, <2>1, LoopOrders DEF queueVars
<1> QED BY <1>1, <1>3, <1>6, <1>7, <1>8, <1>9, <1>10

LEMMA RelayOrders ==
    ASSUME QueueSafe, Ordered, [RelayNext]_relayVars
    PROVE  Ordered'
<1>1. QueueSafe'
  BY QueueSafeStep
<1>2. ASSUME NEW p, LateStores(p) PROVE UNCHANGED <<queueVars, pusher>>
  BY <1>2 DEF LateStores
<1>3. CASE MirrorLoop \/ (\E r \in abandoned : AbandonedUpsert(r)) \/ GiveUp
  BY <1>1, <1>3, MirrorLeavesPc, LoopOrder
<1>4. CASE UNCHANGED relayVars
  BY <1>1, <1>4, LoopOrder DEF relayVars, pcVars
<1>5. CASE PcNext
  BY <1>1, <1>2, <1>5, PagesOrder, LoopOrder DEF PcNext, PushLoop
<1> QED BY <1>3, <1>4, <1>5 DEF RelayNext

(* Whatever fails, queue and loop never have an older snapshot of a ticket   *)
(* behind a newer one.                                                       *)
THEOREM SnapshotsInOrder == RelaySpec => []Ordered
<1>1. RelayInit => Ordered
  BY DEF RelayInit, PcInit, IdlePusher, Ordered, Numbered, NoneAhead, RevsInOrder, NowFirst, Held,
         Exists, NoRow
<1> QED BY <1>1, RelayOrders, QueueKeeping, PTL DEF RelaySpec
-----------------------------------------------------------------------------
(* As long as no request has failed, the loop posts to the factory only and *)
(* skips nothing: what is queued before an entry it holds, it holds too.    *)
(* So the entry it posts is the oldest there is, and when the newest        *)
(* snapshot of a ticket is marked, no older one is left to be posted.       *)
ToPost == IF pusher.at = "factory" THEN Held ELSE pusher.list
Undelayed == preferFactory /\ failures = 0

NoneSkipped ==
    late = {} /\ pusher.at # "cloud" /\ IsFiniteSet(queue) /\ \A e \in queue : e.attempts = 0
InTurn == \A e \in queue, x \in Held : e.id <= x.id => \E y \in Held : y.id = e.id
MarkIsThere ==
    pusher.at = "mark" /\ pusher.now.ticket \notin Conflicting =>
        factory[pusher.now.ticket].row.rev = pusher.now.snap.rev
NothingOlder ==
    \A t \in Tickets \ Conflicting :
        newest[t] > 0 /\ ~Pending(t, newest[t]) =>
            /\ factory[t].row.rev = newest[t]
            /\ \A e \in queue \union ToPost : e.ticket # t

Flow == NoneSkipped /\ InTurn /\ MarkIsThere /\ NothingOlder
Flowing == Undelayed => Flow

LEMMA RestFlows ==
    ASSUME Flow, UNCHANGED <<queue, newest, pusher, factory, late>>
    PROVE  Flow'
BY DEF Flow, NoneSkipped, InTurn, MarkIsThere, NothingOlder, Pending, ToPost, Held

(* The entries of the other tickets stay, those of t may go.                *)
LEMMA OthersFlow ==
    ASSUME QueueSafe, Flow, NEW t \in Tickets, NEW q \in SUBSET queue, Without(t) \subseteq q,
           NEW new, new.ticket = t, new.id = nextId, new.attempts = 0,
           \/ queue' = q \union {new} /\ newest'[t] = new.snap.rev
           \/ queue' = q /\ newest'[t] = 0,
           \A u \in Tickets \ {t} : newest'[u] = newest[u],
           UNCHANGED <<pusher, factory, late>>
    PROVE  Flow'
<1>1. Held' = Held /\ ToPost' = ToPost
  BY DEF Held, ToPost
<1>2. \A e \in queue' : e \in queue \/ e = new
  OBVIOUS
<1>3. NoneSkipped'
  <2>1. IsFiniteSet(queue')
    <3>1. IsFiniteSet(q)
      BY FS_Subset DEF Flow, NoneSkipped
    <3> QED BY <3>1, FS_AddElement
  <2> QED BY <1>2, <2>1 DEF Flow, NoneSkipped
<1>4. InTurn'
  <2>1. \A x \in Held : x.id \in Nat /\ ~(nextId <= x.id)
    BY EntryTypes
  <2> QED BY <1>1, <1>2, <2>1 DEF Flow, InTurn
<1>5. MarkIsThere'
  BY DEF Flow, MarkIsThere
<1>6. ASSUME NEW u \in Tickets \ Conflicting, newest'[u] > 0, ~Pending(u, newest[u])'
      PROVE  factory'[u].row.rev = newest'[u] /\ \A e \in queue' \union ToPost' : e.ticket # u
  <2>1. u # t
    <3> SUFFICES ASSUME u = t PROVE FALSE
      OBVIOUS
    <3>1. queue' = q \union {new} /\ newest'[t] = new.snap.rev
      BY <1>6
    <3> QED BY <1>6, <3>1 DEF Pending
  <2>2. ~Pending(u, newest[u]) /\ newest'[u] = newest[u]
    BY <1>6, <2>1 DEF Pending, Without
  <2> QED BY <1>1, <1>2, <1>6, <2>1, <2>2 DEF Flow, NothingOlder
<1>7. NothingOlder'
  BY <1>6 DEF NothingOlder
<1> QED BY <1>3, <1>4, <1>5, <1>7 DEF Flow

LEMMA PagesFlow ==
    ASSUME QueueSafe, Flow, Pages PROVE Flow'
<1>1. ASSUME NEW t \in Tickets, NEW row, NEW q \in SUBSET queue, Without(t) \subseteq q,
             Enqueue(t, row, q), UNCHANGED <<pusher, factory, late>>
      PROVE  Flow'
  <2> DEFINE new == [id |-> nextId, ticket |-> t, snap |-> row, attempts |-> 0]
  <2>1. /\ new.ticket = t /\ new.id = nextId /\ new.attempts = 0 /\ new.snap = row
        /\ queue' = q \union {new} /\ newest' = [newest EXCEPT ![t] = row.rev]
    BY <1>1 DEF Enqueue
  <2> HIDE DEF new
  <2>2. newest'[t] = new.snap.rev /\ \A u \in Tickets \ {t} : newest'[u] = newest[u]
    BY <2>1 DEF QueueSafe, PcTypeOK
  <2> QED BY <1>1, <2>1, <2>2, OthersFlow
<1>2. \A t \in Tickets : Without(t) \in SUBSET queue
  BY DEF Without
<1>3. ASSUME NEW t \in Tickets, GateEntry(t) \/ SecondWeight(t) \/ LabResult(t) PROVE Flow'
  <2>1. \E row : Enqueue(t, row, queue) \/ Enqueue(t, row, Without(t))
    BY <1>3 DEF GateEntry, SecondWeight, LabResult, Requeue
  <2>2. UNCHANGED <<pusher, factory, late>>
    BY <1>3 DEF GateEntry, SecondWeight, LabResult
  <2>3. queue \in SUBSET queue
    OBVIOUS
  <2> QED BY <1>1, <1>2, <2>1, <2>2, <2>3
<1>4. ASSUME NEW t \in Tickets, FirstWeight(t) PROVE Flow'
  BY <1>4, RestFlows DEF FirstWeight
<1>5. ASSUME NEW t \in Tickets, DeleteWeighment(t) PROVE Flow'
  <2> DEFINE new == [id |-> nextId, ticket |-> t, attempts |-> 0]
  <2>1. new.ticket = t /\ new.id = nextId /\ new.attempts = 0
    OBVIOUS
  <2> HIDE DEF new
  <2>2. /\ queue' = Without(t) /\ UNCHANGED <<pusher, factory, late>>
        /\ newest'[t] = 0 /\ \A u \in Tickets \ {t} : newest'[u] = newest[u]
    BY <1>5 DEF DeleteWeighment, QueueSafe, PcTypeOK
  <2> QED BY <1>2, <2>1, <2>2, OthersFlow
<1> QED BY <1>3, <1>4, <1>5 DEF Pages

(* With attempts left everywhere, the list read is the head of the queue.   *)
LEMMA PushFlows ==
    ASSUME QueueSafe, Undelayed, Flow, PushWeighments PROVE Flow'
<1> DEFINE list == FirstTaken(Due)
<1>1. Due = queue
  BY Bounds DEF Due, Flow, NoneSkipped
<1>2. /\ Send(list, 0) /\ UNCHANGED <<preferFactory, queue, newest, factory, late>>
      /\ list \subseteq queue
  BY <1>1 DEF PushWeighments, queueVars, FirstTaken
<1>3. \A e \in queue, x \in list : e.id <= x.id => e \in list
  <2> SUFFICES ASSUME NEW e \in queue, NEW x \in list, e.id <= x.id
               PROVE  e \in list
    OBVIOUS
  <2> DEFINE before(i) == {y \in queue : y.id < i}
  <2>1. x \in queue /\ Cardinality(before(x.id)) < Take
    BY <1>1 DEF FirstTaken
  <2>2. before(e.id) \subseteq before(x.id)
    BY <2>1, EntryTypes
  <2>3. IsFiniteSet(before(x.id))
    BY FS_Subset DEF Flow, NoneSkipped
  <2>4. /\ Cardinality(before(e.id)) \in Nat /\ Cardinality(before(x.id)) \in Nat
        /\ Cardinality(before(e.id)) <= Cardinality(before(x.id))
    BY <2>2, <2>3, FS_Subset, FS_CardinalityType
  <2>5. Cardinality(before(e.id)) < Take
    BY <2>1, <2>4, Bounds
  <2> QED BY <1>1, <2>5 DEF FirstTaken
<1>4. \/ pusher'.at = "idle" /\ Held' = {} /\ ToPost' = {}
      \/ pusher'.at = "factory" /\ Held' = list /\ ToPost' = list
  <2>1. CASE list = {} \/ 0 >= MaxConsecutiveFailures
    BY <1>2, <2>1 DEF Send, IdlePusher, Held, ToPost
  <2>2. CASE ~(list = {} \/ 0 >= MaxConsecutiveFailures)
    <3>1. PICK e \in list :
            pusher' = [at |-> IF preferFactory THEN "factory" ELSE "cloud",
                       now |-> e, list |-> list \ {e}, failed |-> 0]
      BY <1>2, <2>2 DEF Send
    <3>2. pusher'.at = "factory" /\ pusher'.now = e /\ pusher'.list = list \ {e}
      BY <3>1 DEF Undelayed
    <3> QED BY <3>2 DEF Held, ToPost
  <2> QED BY <2>1, <2>2
<1> HIDE DEF list
<1>5. NoneSkipped'
  BY <1>2, <1>4 DEF Flow, NoneSkipped
<1>6. InTurn'
  BY <1>2, <1>3, <1>4 DEF InTurn
<1>7. MarkIsThere'
  BY <1>4 DEF MarkIsThere
<1>8. NothingOlder'
  <2>1. queue' \union ToPost' \subseteq queue
    BY <1>2, <1>4
  <2> QED BY <1>2, <2>1 DEF Flow, NothingOlder, Pending
<1> QED BY <1>5, <1>6, <1>7, <1>8 DEF Flow

LEMMA PostFlows ==
    ASSUME QueueSafe, Undelayed, Undelayed', Flow, PostFactory PROVE Flow'
<1>1. /\ pusher.at = "factory" /\ Stores(pusher.now.ticket, pusher.now.snap)
      /\ UNCHANGED <<preferFactory, queue, newest, late>>
  BY DEF PostFactory, queueVars
<1>2. pusher' = [pusher EXCEPT !.at = "mark"]
  BY Bounds DEF PostFactory, Fails, Undelayed, QueueSafe, PcTypeOK
<1>3. /\ pusher'.at = "mark" /\ pusher'.now = pusher.now /\ pusher'.list = pusher.list
      /\ pusher.now.ticket \in Tickets /\ pusher.now \in Held
  BY <1>1, <1>2, NowTyped DEF QueueSafe, PcTypeOK
<1>4. Held' = Held /\ ToPost' = pusher.list /\ ToPost = Held /\ pusher.list \subseteq Held
  BY <1>1, <1>3 DEF Held, ToPost
<1>5. \A t \in Tickets \ {pusher.now.ticket} : factory'[t] = factory[t]
  BY <1>1, <1>3 DEF Stores, QueueSafe, PcTypeOK
<1>6. NoneSkipped'
  BY <1>1, <1>3 DEF Flow, NoneSkipped
<1>7. InTurn'
  BY <1>1, <1>4 DEF Flow, InTurn
<1>8. MarkIsThere'
  BY <1>1, <1>3 DEF MarkIsThere, Stores, QueueSafe, PcTypeOK
<1>9. NothingOlder'
  BY <1>1, <1>3, <1>4, <1>5 DEF Flow, NothingOlder, Pending
<1> QED BY <1>6, <1>7, <1>8, <1>9 DEF Flow

(* Marked is the oldest entry: behind the newest of its ticket there is none, *)
(* before it neither.                                                         *)
LEMMA MarkFlows ==
    ASSUME QueueSafe, Ordered, Undelayed, Flow, MarkSynced PROVE Flow'
<1> DEFINE now == pusher.now
<1>1. /\ pusher.at = "mark" /\ queue' = {x \in queue : x.id # now.id} /\ Send(pusher.list, 0)
      /\ UNCHANGED <<preferFactory, newest, factory, late>>
  BY DEF MarkSynced, OtherThan
<1>2. ToPost = pusher.list /\ Held = pusher.list \union {now}
  BY <1>1 DEF Held, ToPost
<1>3. /\ pusher'.at \in {"idle", "factory"}
      /\ Held' = pusher.list /\ ToPost' = pusher.list
  <2>1. CASE pusher.list = {}
    BY <1>1, <2>1 DEF Send, IdlePusher, Held, ToPost
  <2>2. CASE pusher.list # {}
    <3>1. PICK e \in pusher.list :
            pusher' = [at |-> IF preferFactory THEN "factory" ELSE "cloud",
                       now |-> e, list |-> pusher.list \ {e}, failed |-> 0]
      BY <1>1, <2>2, Bounds DEF Send
    <3>2. /\ pusher'.at = "factory" /\ pusher'.now = e
          /\ pusher'.list = pusher.list \ {e}
      BY <3>1 DEF Undelayed
    <3> QED BY <3>2 DEF Held, ToPost
  <2> QED BY <2>1, <2>2
<1>4. NoneSkipped'
  <2>1. IsFiniteSet(queue')
    BY <1>1, FS_Subset DEF Flow, NoneSkipped
  <2> QED BY <1>1, <1>3, <2>1 DEF Flow, NoneSkipped
<1>5. InTurn'
  BY <1>1, <1>2, <1>3 DEF Flow, InTurn
<1>6. MarkIsThere'
  BY <1>3 DEF MarkIsThere
<1>7. ASSUME NEW t \in Tickets \ Conflicting, newest[t] > 0, ~Pending(t, newest[t])'
      PROVE  /\ factory[t].row.rev = newest[t]
             /\ \A e \in queue' \union pusher.list : e.ticket # t
  <2>1. CASE ~Pending(t, newest[t])
    BY <1>1, <1>2, <1>7, <2>1 DEF Flow, NothingOlder
  <2>2. CASE Pending(t, newest[t])
    <3>1. PICK e \in queue : e.ticket = t /\ e.snap.rev = newest[t]
      BY <2>2 DEF Pending
    <3>2. e.id = now.id
      BY <1>1, <1>7, <3>1 DEF Pending
    <3>3. now \in Held /\ now.ticket = t /\ now.snap.rev = newest[t]
      BY <1>2, <3>1, <3>2 DEF QueueSafe, HeldAsQueued
    <3>4. factory[t].row.rev = newest[t]
      BY <1>1, <3>3 DEF Flow, MarkIsThere
    <3>5. \A x \in queue \union Held : x.ticket = t => ~(now.id < x.id)
      <4> SUFFICES ASSUME NEW x \in queue \union Held, x.ticket = t, now.id < x.id
                   PROVE  FALSE
        OBVIOUS
      <4>1. now.snap.rev < x.snap.rev /\ x.snap.rev <= newest[t]
        BY <1>7, <3>3 DEF Ordered, RevsInOrder, NoneAhead
      <4>2. x.snap.rev \in Nat /\ newest[t] \in Nat
        BY EntryTypes
      <4> QED BY <3>3, <4>1, <4>2
    <3>6. \A x \in pusher.list : x.ticket # t
      BY <1>1, <1>2, <3>5 DEF Ordered, NowFirst
    <3>7. ASSUME NEW x \in queue', x.ticket = t PROVE FALSE
      <4>1. x \in queue /\ x.id # now.id /\ x.id \in Nat /\ now.id \in Nat
        BY <1>1, <3>3, EntryTypes
      <4>2. x.id < now.id
        BY <3>5, <3>7, <4>1
      <4>3. PICK y \in Held : y.id = x.id
        BY <3>3, <4>1, <4>2 DEF Flow, InTurn
      <4>4. y \in pusher.list
        BY <1>2, <4>1, <4>3
      <4> QED BY <1>1, <4>1, <4>2, <4>3, <4>4 DEF Ordered, NowFirst
    <3> QED BY <3>4, <3>6, <3>7
  <2> QED BY <2>1, <2>2
<1>8. NothingOlder'
  BY <1>1, <1>3, <1>7 DEF NothingOlder
<1> QED BY <1>4, <1>5, <1>6, <1>8 DEF Flow

LEMMA RelayFlows ==
    ASSUME QueueSafe, Ordered, Flowing, [RelayNext]_relayVars
    PROVE  Flowing'
<1> SUFFICES ASSUME Undelayed' PROVE Flow'
  BY DEF Flowing
<1>1. failures \in Nat
  BY Bounds DEF QueueSafe, PcTypeOK
<1>2. CASE UNCHANGED relayVars
  BY <1>2, RestFlows DEF Flowing, Undelayed, relayVars, pcVars, queueVars
<1>3. CASE MirrorLoop \/ (\E r \in abandoned : AbandonedUpsert(r)) \/ GiveUp
  <2>1. UNCHANGED <<preferFactory, queueVars, pusher, factory, late>> /\ failures' >= failures
    BY <1>3, MirrorLeavesPc
  <2>2. Undelayed
    BY <1>1, <2>1 DEF Undelayed
  <2> QED BY <2>1, <2>2, RestFlows DEF Flowing, queueVars
<1>4. CASE PcNext
  <2>1. preferFactory' = preferFactory
    BY <1>4 DEF PcNext, Pages, GateEntry, FirstWeight, SecondWeight, LabResult, DeleteWeighment,
                PushLoop, PushWeighments, PostFactory, PostCloud, CloudRejects, MarkSynced,
                FactoryTimeout, LateStores, RestartPc
  <2>2. Undelayed /\ ~Fails
    <3>1. failures' = failures \/ Fails
      BY <1>4 DEF PcNext, Pages, GateEntry, FirstWeight, SecondWeight, LabResult, DeleteWeighment,
                  PushLoop, PushWeighments, PostFactory, PostCloud, CloudRejects, MarkSynced,
                  FactoryTimeout, LateStores, RestartPc
    <3> QED BY <1>1, <2>1, <3>1 DEF Undelayed, Fails
  <2>3. Flow
    BY <2>2 DEF Flowing
  <2>4. ~FactoryTimeout /\ ~RestartPc /\ ~PostCloud /\ ~CloudRejects
        /\ ~\E p \in late : LateStores(p)
    BY <2>2, <2>3 DEF Flow, NoneSkipped, FactoryTimeout, RestartPc, PostCloud, CloudRejects
  <2> QED BY <1>4, <2>2, <2>3, <2>4, PagesFlow, PushFlows, PostFlows, MarkFlows DEF PcNext, PushLoop
<1> QED BY <1>2, <1>3, <1>4 DEF RelayNext

(* As long as no request has failed, a ticket with nothing left to send has *)
(* its newest snapshot at the factory, and no older one is on its way.      *)
THEOREM NothingOlderFollows == RelaySpec => [](Undelayed => NothingOlder)
<1>1. RelayInit => Flowing
  <2> SUFFICES ASSUME RelayInit PROVE Flow
    BY DEF Flowing
  <2>1. Held = {}
    BY DEF RelayInit, PcInit, IdlePusher, Held
  <2> QED BY <2>1, FS_EmptySet DEF RelayInit, PcInit, IdlePusher, Flow, NoneSkipped, InTurn, MarkIsThere,
                          NothingOlder
<1>2. QueueSafe /\ Ordered /\ Flowing => (Undelayed => NothingOlder)
  BY DEF Flowing, Flow
<1> QED BY <1>1, <1>2, RelayFlows, SnapshotsInOrder, QueueKeeping, PTL DEF RelaySpec

(* So the factory's row is the newest snapshot, provided its database       *)
(* refuses none: one it refuses is answered like one it stored.             *)
THEOREM NewestIsLast ==
    ASSUME Conflicting = {}
    PROVE  RelaySpec => []NewestLast
<1>1. (Undelayed => NothingOlder) => NewestLast
  BY DEF Undelayed, NothingOlder, NewestLast
<1> QED BY <1>1, NothingOlderFollows, PTL
=============================================================================
