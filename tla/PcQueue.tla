------------------------------- MODULE PcQueue -------------------------------
(***************************************************************************)
(* A weighbridge PC and the queue it sends from (weighbridge/local_db.py,  *)
(* weighbridge/cloud_sync.py).                                             *)
(*                                                                         *)
(* Every change worth sending puts a snapshot of the whole row into        *)
(* sync_queue, in the transaction of the change.  A loop posts the         *)
(* snapshots one by one: to the factory server on the LAN, or, when that   *)
(* fails, to the cloud.  Pages and loop run in threads of one process.     *)
(*                                                                         *)
(* Of a row the model keeps its status, whether it has a lab result, and a *)
(* revision that counts its changes: which weights and which result        *)
(* matters to no property, which state of the row arrives does.            *)
(***************************************************************************)
EXTENDS Integers, FiniteSets

CONSTANTS
    Tickets,
    Rejected,       \* tickets the cloud answers with a permanent 4xx
    Conflicting,    \* tickets the factory refuses and the cloud may fail on, answering ok
    Take,           \* LIMIT of get_pending_sync, 50 in the code
    MaxConsecutiveFailures,     \* 3 in the code
    MaxAttempts,    \* SYNC_MAX_ATTEMPTS, 10 in the code
    MaxChanges,     \* bound on the changes of the rows, deletions not counted
    MaxFailures     \* bound on failed requests and restarts

ASSUME QueueAssumption ==
    /\ {Take, MaxConsecutiveFailures, MaxAttempts, MaxChanges} \subseteq Nat \ {0}
    /\ MaxFailures \in Nat
    /\ Rejected \subseteq Tickets /\ Conflicting \subseteq Tickets

VARIABLES
    preferFactory,  \* PREFER_FACTORY: configuration of the PC
    pc,             \* weighments of the PC
    queue,          \* pending rows of sync_queue, ordered by created_at, here by id
    nextId,         \* AUTOINCREMENT of sync_queue
    changes,
    pusher,         \* the loop of push_weighments
    factory,        \* the factory server's rows of these tickets
    late,           \* posts the PC gave up on and the factory will still handle
    newest,         \* newest revision of each ticket that was enqueued
    delivered,      \* revisions of each ticket stored at the factory or handled by the cloud
    failures

queueVars == <<pc, queue, nextId, changes, newest>>
pcVars == <<preferFactory, queueVars, pusher, factory, late, delivered, failures>>

-----------------------------------------------------------------------------
Snapshot == [status : {"GATE_ENTRY", "FIRST_DONE", "COMPLETE"}, lab : BOOLEAN, rev : 1..MaxChanges]
NoRow == [status |-> "NONE", lab |-> FALSE, rev |-> 0]
Deleted == [status |-> "DELETED", lab |-> FALSE, rev |-> 0]
Entry == [id : Nat, ticket : Tickets, snap : Snapshot, attempts : 0..MaxAttempts]

(* updatedAt of a factory row moves with every upsert. *)
FactoryRow == [row : Snapshot \union {NoRow}, updatedAt : Nat]

Exists(t) == pc[t] \notin {NoRow, Deleted}
Without(t) == {e \in queue : e.ticket # t}

(* INSERT INTO sync_queue, in the transaction that wrote the row. *)
Enqueue(t, row, q) ==
    /\ pc' = [pc EXCEPT ![t] = row]
    /\ queue' = q \union {[id |-> nextId, ticket |-> t, snap |-> row, attempts |-> 0]}
    /\ nextId' = nextId + 1
    /\ newest' = [newest EXCEPT ![t] = row.rev]

(* The row after a change; MaxChanges bounds the changes there are.         *)
Changed(t, status, lab) == [status |-> status, lab |-> lab, rev |-> pc[t].rev + 1]
Change == changes < MaxChanges /\ changes' = changes + 1

-----------------------------------------------------------------------------
(* The pages of the PC, and the lab results it pulls from the cloud.        *)
GateEntry(t) ==
    /\ pc[t] = NoRow /\ Change
    /\ Enqueue(t, Changed(t, "GATE_ENTRY", FALSE), queue)
    /\ UNCHANGED <<preferFactory, pusher, factory, late, delivered, failures>>

(* Whatever the status; the weight waits for the second one to be sent.     *)
FirstWeight(t) ==
    /\ Exists(t) /\ Change
    /\ pc' = [pc EXCEPT ![t] = Changed(t, "FIRST_DONE", @.lab)]
    /\ UNCHANGED <<preferFactory, queue, nextId, newest, pusher, factory, late, delivered, failures>>

SecondWeight(t) ==
    /\ Exists(t) /\ Change /\ pc[t].status # "GATE_ENTRY"
    /\ Enqueue(t, Changed(t, "COMPLETE", pc[t].lab), queue)
    /\ UNCHANGED <<preferFactory, pusher, factory, late, delivered, failures>>

(* "Remove old queue entry and add fresh one".                              *)
FreshThenRemoved(t) ==                          \* fault: the statements swapped
    /\ pc' = [pc EXCEPT ![t] = Changed(t, @.status, TRUE)]
    /\ queue' = Without(t)
    /\ newest' = [newest EXCEPT ![t] = pc[t].rev + 1]
    /\ UNCHANGED nextId
Requeue(t) == Enqueue(t, Changed(t, pc[t].status, TRUE), Without(t))

LabResult(t) ==
    /\ Exists(t) /\ Change
    /\ Requeue(t)
    /\ UNCHANGED <<preferFactory, pusher, factory, late, delivered, failures>>

DeleteWeighment(t) ==
    /\ Exists(t)
    /\ pc' = [pc EXCEPT ![t] = Deleted]
    /\ queue' = Without(t)
    /\ newest' = [newest EXCEPT ![t] = 0]
    /\ UNCHANGED <<preferFactory, nextId, changes, pusher, factory, late, delivered, failures>>

-----------------------------------------------------------------------------
(* The loop.  It works through a list it read once, in memory.              *)
NoEntry == [id |-> 0]
IdlePusher == [at |-> "idle", now |-> NoEntry, list |-> {}, failed |-> 0]

Send(list, failed) ==           \* the next entry of the list, if there is one
    IF list = {} \/ failed >= MaxConsecutiveFailures THEN pusher' = IdlePusher
    ELSE \E e \in list :
            /\ \A x \in list : e.id <= x.id
            /\ pusher' = [at |-> IF preferFactory THEN "factory" ELSE "cloud",
                          now |-> e, list |-> list \ {e}, failed |-> failed]

AnyAttempts == queue                            \* fault: no dead letters
Due == {e \in queue : e.attempts < MaxAttempts}
FirstTaken(S) == {e \in S : Cardinality({x \in S : x.id < e.id}) < Take}

PushWeighments ==
    /\ pusher.at = "idle" /\ Due # {}
    /\ Send(FirstTaken(Due), 0)
    /\ UNCHANGED <<preferFactory, queueVars, factory, late, delivered, failures>>

Fails == failures < MaxFailures /\ failures' = failures + 1

(* POST /wb-push: an upsert by localId that overwrites the status, whatever *)
(* the row has become; one the database refuses is logged and answered ok.  *)
Stores(t, snap) ==
    IF t \in Conflicting THEN UNCHANGED <<factory, delivered>>
    ELSE /\ factory' = [factory EXCEPT ![t] = [row |-> snap, updatedAt |-> @.updatedAt + 1]]
         /\ delivered' = [delivered EXCEPT ![t] = @ \union {snap.rev}]

PostFactory ==
    /\ pusher.at = "factory"
    /\ Stores(pusher.now.ticket, pusher.now.snap)
    /\ \/ pusher' = [pusher EXCEPT !.at = "mark"] /\ UNCHANGED failures
       \/ pusher' = [pusher EXCEPT !.at = "cloud"] /\ Fails    \* the answer is lost
    /\ UNCHANGED <<preferFactory, queueVars, late>>

(* The factory cannot be reached, or answers after FACTORY_TIMEOUT.         *)
FactoryTimeout ==
    /\ pusher.at = "factory" /\ Fails
    /\ late' = late \union {[ticket |-> pusher.now.ticket, snap |-> pusher.now.snap]} \/ UNCHANGED late
    /\ pusher' = [pusher EXCEPT !.at = "cloud"]
    /\ UNCHANGED <<preferFactory, queueVars, factory, delivered>>

LateStores(p) ==
    /\ late' = late \ {p}
    /\ Stores(p.ticket, p.snap)
    /\ UNCHANGED <<preferFactory, queueVars, pusher, failures>>

(* POST /push of the cloud, the fallback.  Only a permanent rejection       *)
(* consumes an attempt of the entry.  One item that is malformed or fails   *)
(* is acked like the others of its push.                                    *)
Handled(e) ==
    \/ delivered' = [delivered EXCEPT ![e.ticket] = @ \union {e.snap.rev}]
    \/ e.ticket \in Conflicting /\ UNCHANGED delivered
NoAttempt(id) == queue' = queue                 \* fault: taken for a passing failure
Attempted(e) == [e EXCEPT !.attempts = @ + 1]
CountAttempt(id) == queue' = {IF e.id = id THEN Attempted(e) ELSE e : e \in queue}
NextAfterFailure == Send(pusher.list, pusher.failed + 1)

PostCloud ==
    /\ pusher.at = "cloud" /\ pusher.now.ticket \notin Rejected
    /\ \/ /\ Handled(pusher.now)
          /\ pusher' = [pusher EXCEPT !.at = "mark"]
          /\ UNCHANGED failures
       \/ /\ Fails                              \* it arrived, the answer did not, or neither did
          /\ Handled(pusher.now) \/ UNCHANGED delivered
          /\ NextAfterFailure
    /\ UNCHANGED <<preferFactory, queueVars, factory, late>>

CloudRejects ==
    /\ pusher.at = "cloud" /\ pusher.now.ticket \in Rejected
    /\ CountAttempt(pusher.now.id)
    /\ NextAfterFailure
    /\ UNCHANGED <<preferFactory, pc, nextId, changes, newest, factory, late, delivered, failures>>

(* mark_synced: the entry is sent; one deleted meanwhile is not there.      *)
OfTicket(e) == {x \in queue : x.ticket # e.ticket}                  \* fault
OtherThan(e) == {x \in queue : x.id # e.id}

MarkSynced ==
    /\ pusher.at = "mark"
    /\ queue' = OtherThan(pusher.now)
    /\ Send(pusher.list, 0)
    /\ UNCHANGED <<preferFactory, pc, nextId, changes, newest, factory, late, delivered, failures>>

(* The service starts again: requeue_stuck gives dead letters new attempts. *)
RestartPc ==
    /\ Fails
    /\ pusher' = IdlePusher
    /\ queue' = {IF e.attempts >= MaxAttempts THEN [e EXCEPT !.attempts = 0] ELSE e : e \in queue}
    /\ UNCHANGED <<preferFactory, pc, nextId, changes, newest, factory, late, delivered>>

-----------------------------------------------------------------------------
PcInit ==
    /\ preferFactory \in BOOLEAN
    /\ pc = [t \in Tickets |-> NoRow]
    /\ queue = {}
    /\ nextId = 1
    /\ changes = 0
    /\ pusher = IdlePusher
    /\ factory = [t \in Tickets |-> [row |-> NoRow, updatedAt |-> 0]]
    /\ late = {}
    /\ newest = [t \in Tickets |-> 0]
    /\ delivered = [t \in Tickets |-> {}]
    /\ failures = 0

Pages ==
    \E t \in Tickets :
        \/ GateEntry(t) \/ FirstWeight(t) \/ SecondWeight(t)
        \/ LabResult(t) \/ DeleteWeighment(t)

PushLoop == PushWeighments \/ PostFactory \/ PostCloud \/ CloudRejects \/ MarkSynced

PcNext ==
    \/ Pages
    \/ PushLoop
    \/ FactoryTimeout
    \/ \E p \in late : LateStores(p)
    \/ RestartPc

-----------------------------------------------------------------------------
PcTypeOK ==
    /\ preferFactory \in BOOLEAN
    /\ pc \in [Tickets -> Snapshot \union {NoRow, Deleted}]
    /\ queue \subseteq Entry
    /\ nextId \in Nat /\ changes \in 0..MaxChanges
    /\ pusher \in [at : {"idle", "factory", "cloud", "mark"}, now : Entry \union {NoEntry},
                   list : SUBSET Entry, failed : 0..MaxConsecutiveFailures]
    /\ pusher.at # "idle" => pusher.now \in Entry
    /\ factory \in [Tickets -> FactoryRow]
    /\ late \subseteq [ticket : Tickets, snap : Snapshot]
    /\ newest \in [Tickets -> 0..MaxChanges]
    /\ delivered \in [Tickets -> SUBSET (1..MaxChanges)]
    /\ failures \in 0..MaxFailures

(* "Never loses data": the newest snapshot of a ticket waits in the queue   *)
(* or is at the factory or the cloud, through replaced entries, deleted     *)
(* ones the loop still holds, lost answers, dead letters and restarts.      *)
Pending(t, rev) == \E e \in queue : e.ticket = t /\ e.snap.rev = rev
NeverLosesData ==
    \A t \in Tickets : newest[t] > 0 => newest[t] \in delivered[t] \/ Pending(t, newest[t])

(* As long as no request has failed, the factory's row of a ticket with     *)
(* nothing left to send is its newest snapshot: the queue keeps the order.  *)
(* (One failure is enough to break it: the loop goes on to the next entry.) *)
NewestLast ==
    \A t \in Tickets :
        newest[t] > 0 /\ ~Pending(t, newest[t]) /\ preferFactory /\ failures = 0
            => factory[t].row.rev = newest[t]

(* Entries the cloud rejects for ever do not starve the tickets behind      *)
(* them: they use up their attempts and leave the list, and once the pages  *)
(* rest, the newest snapshot of every other ticket has arrived.             *)
HealthyTicketsArrive ==
    \A t \in Tickets \ Rejected : []<>(newest[t] = 0 \/ newest[t] \in delivered[t])
=============================================================================
