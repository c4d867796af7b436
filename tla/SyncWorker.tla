----------------------------- MODULE SyncWorker -----------------------------
(***************************************************************************)
(* The factory's sync worker (factory-server/src/services/syncWorker.ts)   *)
(* pushing unsynced rows to the cloud while the handlers of                *)
(* FactoryWeighment keep writing them, over a connection that breaks, to a *)
(* cloud that answers late, in part or not at all, with crashes of the     *)
(* factory server.                                                         *)
(***************************************************************************)
EXTENDS FactoryWeighment

CONSTANTS
    Take,           \* `take: 20` of the query
    MaxFailures     \* bound on broken requests, failed writes and crashes

ASSUME TakeAssumption == Take \in Nat \ {0}
ASSUME FailuresAssumption == MaxFailures \in Nat

VARIABLES
    worker,     \* the push in flight, its request included
    zombies,    \* items of requests the factory has given up on
    seen,       \* what the cloud has processed of each row
    failures

syncVars == <<worker, zombies, seen, failures>>
vars == <<factoryVars, syncVars>>

(* sent: the rows as they were read; inbox: items the cloud has yet to      *)
(* process; acks: processedWbIds so far; left: rows yet to be marked.       *)
IdleWorker == [phase |-> "idle", sent |-> <<>>, inbox |-> {}, acks |-> {}, left |-> {}]

-----------------------------------------------------------------------------
(* What is sent of a row, cut to the fields the handlers change. *)
Payload(r) ==
    [status |-> r.status, dir |-> r.dir, held |-> r.held, gross |-> r.gross,
     tare |-> r.tare, net |-> r.net, lab |-> r.lab, ticket |-> r.ticket]

Payloads ==
    [status : Statuses \union {"ABSENT"}, dir : Directions, held : BOOLEAN,
     gross : Nat, tare : Nat, net : Nat,
     lab : LabResults \union {"PENDING", "NONE"}, ticket : Nat]

(* The OR and the NOT of the query.  labStatus NULL is not "not PENDING". *)
WorthSending(r) ==
    \/ r.status \in {"GATE_ENTRY", "COMPLETE"}
    \/ r.status = "FIRST_DONE" /\ r.dir = "INBOUND" /\ r.lab \in LabResults
    \/ r.status = "FIRST_DONE" /\ r.dir = "OUTBOUND"

HeldBack(r) == r.status = "COMPLETE" /\ r.dir = "INBOUND" /\ r.held

Pushable(r) == WorthSending(r) /\ ~HeldBack(r)

(* orderBy createdAt, take n *)
Oldest(S, n) ==
    {t \in S : Cardinality({u \in S : rows[u].born < rows[t].born}) < n}

(* Fault: held rows are filtered out after the take. *)
FilteredBatch ==
    {t \in Oldest({u \in Tickets : ~rows[u].synced /\ WorthSending(rows[u])}, Take) :
        ~HeldBack(rows[t])}

Batch == Oldest({t \in Tickets : ~rows[t].synced /\ Pushable(rows[t])}, Take)

-----------------------------------------------------------------------------
(* pushToCloud: the query and the POST.  _pushInFlight turns the timer and *)
(* the manual button away while another push is in flight.                 *)
PostBatch ==
    /\ worker.phase = "idle"
    /\ Batch # {}
    /\ worker' = [phase |-> "posted", inbox |-> Batch, acks |-> {}, left |-> {},
                  sent |-> [t \in Batch |-> [pay |-> Payload(rows[t]),
                                             stamp |-> rows[t].stamp]]]
    /\ UNCHANGED <<factoryVars, zombies, seen, failures>>

Hears(t, pay) == seen' = [seen EXCEPT ![t] = @ \union {pay}]

(* The cloud's serial loop reaches an item and acks it: processed, skipped *)
(* as incomplete, a duplicate, or failed and logged as a PlantIssue.       *)
CloudTake(t) ==
    /\ worker.phase = "posted"
    /\ t \in worker.inbox
    /\ worker' = [worker EXCEPT !.inbox = @ \ {t}, !.acks = @ \union {t}]
    /\ Hears(t, worker.sent[t].pay)
    /\ UNCHANGED <<factoryVars, zombies, failures>>

(* The response will not name the item. *)
CloudLeavesOut(t) ==
    /\ worker.phase = "posted"
    /\ failures < MaxFailures
    /\ t \in worker.inbox
    /\ worker' = [worker EXCEPT !.inbox = @ \ {t}]
    /\ failures' = failures + 1
    /\ UNCHANGED <<factoryVars, zombies, seen>>

(* Fault: the loop runs over the rows that are unsynced by now. *)
SettlingBacklog(phase, acks) ==
    worker' = [worker EXCEPT !.phase = phase, !.inbox = {}, !.acks = acks,
                             !.left = {t \in Tickets : Present(t) /\ ~rows[t].synced}]

(* The marking loop starts over the rows that were read. *)
Settling(phase, acks) ==
    worker' = [worker EXCEPT !.phase = phase, !.inbox = {}, !.acks = acks,
                             !.left = DOMAIN worker.sent]

(* Fault: an empty processedWbIds is read as the reply of an old cloud. *)
EmptyReplyAcksAll ==
    /\ worker.phase = "posted"
    /\ worker.inbox = {}
    /\ Settling("acking", IF worker.acks = {} THEN DOMAIN worker.sent ELSE worker.acks)
    /\ UNCHANGED <<factoryVars, zombies, seen, failures>>

(* response.ok.  "count" is 0 when nothing was processed.  A reply without *)
(* the key processedWbIds acks the batch, as one that names every item.    *)
CloudReply ==
    /\ worker.phase = "posted"
    /\ worker.inbox = {}
    /\ Settling(IF worker.acks = {} THEN "failing" ELSE "acking", worker.acks)
    /\ UNCHANGED <<factoryVars, zombies, seen, failures>>

(* What the cloud has of a request nobody waits for any more. *)
Orphan == zombies' = zombies \union {<<t, worker.sent[t].pay>> : t \in worker.inbox}

(* fetch throws, or an error status: no reply arrives, while the cloud may *)
(* go on with what it had received.                                        *)
ConnLost ==
    /\ worker.phase = "posted"
    /\ failures < MaxFailures
    /\ failures' = failures + 1
    /\ Orphan
    /\ Settling("failing", {})
    /\ UNCHANGED <<factoryVars, seen>>

ZombieTake(z) ==
    /\ z \in zombies
    /\ zombies' = zombies \ {z}
    /\ Hears(z[1], z[2])
    /\ UNCHANGED <<factoryVars, worker, failures>>

ZombieDies(z) ==
    /\ z \in zombies
    /\ zombies' = zombies \ {z}
    /\ UNCHANGED <<factoryVars, worker, seen, failures>>

-----------------------------------------------------------------------------
(* The loop over the rows that were read; a failed write leaves it. *)
NextRow(t) ==
    /\ t \in worker.left
    /\ \A u \in worker.left : rows[t].born <= rows[u].born
    /\ worker' = IF worker.left = {t} THEN IdleWorker
                 ELSE [worker EXCEPT !.left = @ \ {t}]
    /\ UNCHANGED <<counter, reqs, shots, fixLog, zombies, seen, failures>>

(* The worker's own write takes the stamp 0, so that MaxClock bounds edits *)
(* only.  A stamp is compared with the one read in the same cycle, before  *)
(* which the row had an edit's stamp or the worker's, and in which the     *)
(* worker comes to the row again only to fail it, without comparing.       *)
Mark(t, synced) ==
    /\ rows' = [rows EXCEPT ![t] = [@ EXCEPT !.synced = synced, !.stamp = 0]]
    /\ UNCHANGED clock

(* updateMany where {id, updatedAt: as read}, so that an edit made during  *)
(* the round trip leaves the row unsynced.                                 *)
AnyVersion(t) == TRUE                   \* fault: marked by id alone
SameWeights(t) ==                       \* fault: the guard before 2026-07-06
    LET pay == worker.sent[t].pay IN
    /\ rows[t].status = pay.status
    /\ rows[t].gross = pay.gross
    /\ rows[t].tare = pay.tare
Unedited(t) == rows[t].stamp = worker.sent[t].stamp

AckRow(t) ==
    /\ worker.phase = "acking"
    /\ NextRow(t)
    /\ \/ /\ t \in worker.acks /\ Unedited(t)
          /\ Mark(t, TRUE)
       \/ /\ t \in worker.acks /\ ~Unedited(t)
          /\ NoWrite
       \/ /\ t \notin worker.acks
          /\ Mark(t, rows[t].synced)

FailRow(t) ==
    /\ worker.phase = "failing"
    /\ NextRow(t)
    /\ Mark(t, rows[t].synced)

(* A write of the loop throws: the catch marks the whole batch failed, and *)
(* a throw in there ends the cycle.                                        *)
WriteThrows ==
    /\ worker.phase \in {"acking", "failing"}
    /\ failures < MaxFailures
    /\ failures' = failures + 1
    /\ \/ worker.phase = "acking" /\ Settling("failing", {})
       \/ worker.phase = "failing" /\ worker' = IdleWorker
    /\ UNCHANGED <<factoryVars, zombies, seen>>

(* The factory server restarts: requests, snapshots and the push in flight *)
(* are gone, the tables stay.                                              *)
Crash ==
    /\ failures < MaxFailures
    /\ failures' = failures + 1
    /\ Orphan
    /\ worker' = IdleWorker
    /\ reqs' = [q \in Requests |-> Idle]
    /\ shots' = {}
    /\ UNCHANGED <<rows, counter, clock, fixLog, seen>>

-----------------------------------------------------------------------------
Reopen(S) ==
    /\ MayEdit
    /\ clock' = clock + 1
    /\ rows' = [t \in Tickets |->
                  IF t \in S THEN [rows[t] EXCEPT !.synced = FALSE, !.stamp = clock + 1]
                  ELSE rows[t]]
    /\ UNCHANGED <<counter, reqs, shots, fixLog, syncVars>>

(* POST /sync/resync of chosen rows. *)
Resync(S) == (\A t \in S : Present(t)) /\ Reopen(S)

(* POST /sync/resync-lab *)
ResyncLab ==
    LET S == {t \in Tickets : rows[t].dir = "INBOUND" /\ rows[t].synced
                                /\ rows[t].lab \in LabResults}
    IN  S # {} /\ Reopen(S)

-----------------------------------------------------------------------------
SyncInit ==
    /\ FactoryInit
    /\ worker = IdleWorker
    /\ zombies = {}
    /\ seen = [t \in Tickets |-> {}]
    /\ failures = 0

(* The timer always runs again and a connected cloud always answers. *)
Progress ==
    \/ PostBatch
    \/ \E t \in Tickets : CloudTake(t)
    \/ CloudReply
    \/ \E t \in Tickets : AckRow(t) \/ FailRow(t)

Trouble ==
    \/ \E t \in Tickets : CloudLeavesOut(t)
    \/ ConnLost
    \/ \E z \in zombies : ZombieTake(z) \/ ZombieDies(z)
    \/ WriteThrows
    \/ Crash

SyncNext ==
    \/ FactoryNext /\ UNCHANGED syncVars
    \/ Progress
    \/ Trouble
    \/ ResyncLab
    \/ \E S \in SUBSET Tickets : Resync(S)

SyncSpec == SyncInit /\ [][SyncNext]_vars
FairSyncSpec == SyncSpec /\ WF_vars(Progress)

-----------------------------------------------------------------------------
(* Type invariant. *)
SyncTypeOK ==
    /\ FactoryTypeOK
    /\ worker.phase \in {"idle", "posted", "acking", "failing"}
    /\ DOMAIN worker.sent \subseteq Tickets
    /\ \A t \in DOMAIN worker.sent :
          worker.sent[t] \in [pay : Payloads, stamp : Nat]
    /\ worker.left \subseteq DOMAIN worker.sent
    /\ worker.inbox \subseteq DOMAIN worker.sent
    /\ worker.acks \subseteq DOMAIN worker.sent
    /\ zombies \subseteq Tickets \X Payloads
    /\ seen \in [Tickets -> SUBSET Payloads]
    /\ failures \in Nat

(* A row marked synced is one the cloud has processed exactly as it is     *)
(* now: an edit that lands between the select and the ack is never taken   *)
(* for delivered, however replies are lost, late, partial or repeated.     *)
SyncedIsDelivered ==
    \A t \in Tickets : rows[t].synced => Payload(rows[t]) \in seen[t]

(* The rows whose every writer clears cloudSynced: /push does not.         *)
Announced == Tickets \ PushTickets

(* The worker and the handlers together implement Delivery for those.      *)
SyncDelivery ==
    INSTANCE Delivery WITH Records <- Announced,
        current <- [t \in Announced |-> Payload(rows[t])],
        heard <- [t \in Announced |-> seen[t]],
        settled <- {t \in Announced : rows[t].synced}

DeliveryContract == SyncDelivery!DeliverySpec

(* Once edits and failures stop, every row worth sending gets synced; a    *)
(* held row at the head of the queue does not starve the others.           *)
BacklogDrains ==
    \A t \in Tickets :
        (~rows[t].synced /\ Pushable(rows[t])) ~> (rows[t].synced \/ ~Pushable(rows[t]))

(* The final weights of a completed ticket reach the cloud, unless it is   *)
(* cancelled or relayed anew before, or waits for a purchase order.        *)
CompleteReachesCloud ==
    \A t \in Tickets :
        (rows[t].status = "COMPLETE" /\ ~HeldBack(rows[t]))
            ~> \/ rows[t].status # "COMPLETE"
               \/ \E p \in seen[t] : p.status = "COMPLETE" /\ p.net = rows[t].net
=============================================================================
