--------------------------- MODULE SyncWorker_proofs ---------------------------
(***************************************************************************)
(* Proofs about SyncWorker, for any sets of tickets, requests, weights and *)
(* corrections, any size of a batch and any number of failures: a row that *)
(* no PC writes through /push and that is marked synced is one the cloud   *)
(* has processed as it is, and worker and handlers implement Delivery for  *)
(* those rows.                                                             *)
(***************************************************************************)
EXTENDS SyncWorker, FactoryWeighment_proofs

-----------------------------------------------------------------------------
(* What the handlers do to a row: nothing, or a write that takes a new     *)
(* stamp, after which the row is synced only if it was and says the same.  *)
(* (/push keeps to the stamp only.)                                        *)
Edited(u) ==
    \/ rows'[u] = rows[u]
    \/ /\ rows'[u].stamp = clock + 1
       /\ clock' = clock + 1
       /\ u \in Announced /\ rows'[u].synced =>
              rows[u].synced /\ Payload(rows'[u]) = Payload(rows[u])

PushesOwn == \A q \in Requests : reqs[q].op = "push" => reqs[q].t \in PushTickets

LEMMA SaveUnsynced ==
    ASSUME FactoryTypeOK, NEW t \in Tickets, NEW r \in Row, ~r.synced, Save(t, r),
           NEW u \in Tickets
    PROVE  Edited(u)
BY DEF Save, Edited, FactoryTypeOK, Row

(* The photos only touch the stamp. *)
LEMMA SaveSame ==
    ASSUME FactoryTypeOK, NEW t \in Tickets, Save(t, rows[t]), NEW u \in Tickets
    PROVE  Edited(u)
BY DEF Save, Edited, Payload, FactoryTypeOK, Row

(* Every handler but /push clears cloudSynced when it changes what is sent. *)
LEMMA FactoryEdits ==
    ASSUME FactoryTypeOK, PushesOwn, FactoryNext
    PROVE  /\ clock' \in {clock, clock + 1}
           /\ \A u \in Tickets : Edited(u)
           /\ PushesOwn'
<1> USE DEF FactoryTypeOK
<1>1. ASSUME NEW q \in Requests, GrossCommit(q) \/ TareCommit(q)
      PROVE  \A u \in Tickets : Edited(u)
  <2> DEFINE r == reqs[q]
  <2>1. r.t \in Tickets
    BY <1>1, RequestFields DEF GrossCommit, TareCommit
  <2>2. CASE Unmoved(r.t, r.status)
    <3>1. PICK weighed \in {[rows[r.t] EXCEPT !.gross = r.w], [rows[r.t] EXCEPT !.tare = r.w]},
               net \in {r.w - r.other, r.other - r.w} :
             WeighCommit(q, r, weighed, net)
      BY <1>1 DEF GrossCommit, TareCommit
    <3> DEFINE status == IF r.status = "GATE_ENTRY" THEN "FIRST_DONE" ELSE "COMPLETE"
               kept == IF r.status = "GATE_ENTRY" THEN weighed.net ELSE net
    <3>2. Save(r.t, [weighed EXCEPT !.status = status, !.net = kept, !.synced = FALSE])
      BY <2>2, <3>1 DEF WeighCommit
    <3> HIDE DEF status, kept
    <3> QED BY <2>1, <3>1, <3>2 DEF Save, Edited, Row
  <2>3. CASE ~Unmoved(r.t, r.status)
    BY <1>1, <2>3 DEF GrossCommit, TareCommit, WeighCommit, NoWrite, Edited
  <2> QED BY <2>2, <2>3
<1>2. ASSUME NEW q \in Requests, LabCommit(q)
      PROVE  \A u \in Tickets : Edited(u)
  <2>1. reqs[q].t \in Tickets
    BY <1>2, RequestFields DEF LabCommit
  <2> QED BY <1>2, <2>1 DEF LabCommit, Save, Edited, Row
<1>3. ASSUME NEW q \in Requests, CorrectionCommit(q)
      PROVE  \A u \in Tickets : Edited(u)
  <2> DEFINE r == reqs[q]
  <2>1. r.t \in Tickets
    BY <1>3, RequestFields DEF CorrectionCommit
  <2>2. CASE r.id \notin fixLog
    <3>1. PICK status, held :
            Save(r.t, [rows[r.t] EXCEPT !.status = status, !.held = held, !.synced = FALSE])
      BY <1>3, <2>2, Zenon DEF CorrectionCommit
    <3> QED BY <2>1, <3>1 DEF Save, Edited, Row
  <2>3. CASE r.id \in fixLog
    BY <1>3, <2>3 DEF CorrectionCommit, NoWrite, Edited
  <2> QED BY <2>2, <2>3
<1>4. ASSUME NEW t \in Tickets, PhotoSaved(t) \/ PhotoLost(t)
      PROVE  \A u \in Tickets : Edited(u)
  BY <1>4, SaveSame DEF PhotoSaved, PhotoLost, NoWrite, Edited
<1>5. ASSUME NEW t \in Tickets, NEW dir \in Directions, NEW lab \in {"PENDING", "NONE"},
             NEW held \in BOOLEAN, GateEntry(t, dir, lab, held)
      PROVE  \A u \in Tickets : Edited(u)
  BY <1>5 DEF GateEntry, Save, Edited, Absent
<1>6. ASSUME NEW t \in Tickets, NEW p \in PcSnaps, NEW lab \in LabResults \union {"PENDING"},
             NEW n \in 1..Cardinality(Tickets), WbPush(t, p, lab, n)
      PROVE  \A u \in Tickets : Edited(u)
  BY <1>6 DEF WbPush, Save, Edited, Row
<1>7. ASSUME UNCHANGED rows
      PROVE  \A u \in Tickets : Edited(u)
  BY <1>7 DEF Edited
<1>8. clock' \in {clock, clock + 1}
  <2>1. ASSUME NEW q \in Requests, WebStep(q)
        PROVE  clock' \in {clock, clock + 1}
    BY <2>1 DEF WebStep, GrossBegin, TareBegin, WeighBegin, LabBegin, CorrectionBegin,
                PcPushBegin, Refuse, GrossCommit, TareCommit, WeighCommit, LabCommit,
                CorrectionCommit, PcPushCommit, NoWrite, Save
  <2>2. ASSUME NEW t \in Tickets, RowStep(t)
        PROVE  clock' \in {clock, clock + 1}
    BY <2>2 DEF RowStep, GateEntry, WbPush, PhotoSaved, PhotoLost, NoWrite, Save
  <2> QED BY <2>1, <2>2 DEF FactoryNext
<1>9. PushesOwn'
  <2>1. ASSUME NEW q \in Requests, WebStep(q)
        PROVE  PushesOwn'
    BY <2>1 DEF WebStep, GrossBegin, TareBegin, WeighBegin, LabBegin, CorrectionBegin,
                PcPushBegin, Refuse, GrossCommit, TareCommit, WeighCommit, LabCommit,
                CorrectionCommit, PcPushCommit, Start, Finish, Idle, PushesOwn
  <2>2. ASSUME NEW t \in Tickets, RowStep(t)
        PROVE  PushesOwn'
    BY <2>2 DEF RowStep, GateEntry, WbPush, PhotoSaved, PhotoLost, PushesOwn
  <2> QED BY <2>1, <2>2 DEF FactoryNext
<1>10. ASSUME NEW q \in Requests, WebStep(q)
       PROVE  \A u \in Tickets : Edited(u)
  <2>1. ASSUME PcPushCommit(q) PROVE \A u \in Tickets : Edited(u)
    <3>1. reqs[q].t \in PushTickets /\ reqs[q].t \in Tickets
      BY <2>1 DEF PcPushCommit, PushesOwn, Tickets
    <3>2. NoWrite \/ \E r : Save(reqs[q].t, r)
      BY <2>1 DEF PcPushCommit
    <3>3. ASSUME NEW r, Save(reqs[q].t, r) PROVE \A u \in Tickets : Edited(u)
      BY <3>1, <3>3 DEF Save, Edited, Announced
    <3> QED BY <3>2, <3>3 DEF NoWrite, Edited
  <2> QED BY <1>1, <1>2, <1>3, <1>7, <1>10, <2>1
       DEF WebStep, GrossBegin, TareBegin, WeighBegin, LabBegin, CorrectionBegin,
           PcPushBegin, Refuse, NoWrite
<1>11. ASSUME NEW t \in Tickets, RowStep(t)
       PROVE  \A u \in Tickets : Edited(u)
  BY <1>4, <1>5, <1>6, <1>11 DEF RowStep
<1> QED BY <1>8, <1>9, <1>10, <1>11 DEF FactoryNext

-----------------------------------------------------------------------------
(* Type correctness. *)
WorkerFields ==
    worker = [phase |-> worker.phase, sent |-> worker.sent, inbox |-> worker.inbox,
              acks |-> worker.acks, left |-> worker.left]

SyncTypes == SyncTypeOK /\ WorkerFields

LEMMA PayloadType ==
    ASSUME NEW r \in Row
    PROVE  Payload(r) \in Payloads
BY DEF Row, Payload, Payloads

LEMMA IdleTypes ==
    ASSUME FactoryTypeOK', worker' = IdleWorker,
           zombies' \subseteq Tickets \X Payloads,
           seen' \in [Tickets -> SUBSET Payloads], failures' \in Nat
    PROVE  SyncTypes'
<1>1. DOMAIN <<>> = {}
  OBVIOUS
<1> QED BY <1>1 DEF SyncTypes, SyncTypeOK, WorkerFields, IdleWorker

LEMMA SyncInitTypes == SyncInit => SyncTypes
<1> SUFFICES ASSUME SyncInit PROVE SyncTypes
  OBVIOUS
<1>1. FactoryTypeOK
  BY InitType DEF SyncInit
<1>2. DOMAIN <<>> = {}
  OBVIOUS
<1> QED BY <1>1, <1>2 DEF SyncInit, SyncTypes, SyncTypeOK, WorkerFields, IdleWorker

(* The rows the worker reads go into the request as they are. *)
LEMMA PostTypes ==
    ASSUME SyncTypes, PostBatch
    PROVE  SyncTypes'
<1>1. Batch \subseteq Tickets
  BY DEF Batch, Oldest
<1>2. \A t \in Batch : Payload(rows[t]) \in Payloads /\ rows[t].stamp \in Nat
  BY <1>1, PayloadType DEF SyncTypes, SyncTypeOK, FactoryTypeOK, Row
<1>3. FactoryTypeOK'
  BY DEF PostBatch, factoryVars, SyncTypes, SyncTypeOK, FactoryTypeOK
<1> QED BY <1>1, <1>2, <1>3 DEF PostBatch, SyncTypes, SyncTypeOK, WorkerFields

LEMMA OrphanTypes ==
    ASSUME SyncTypes, Orphan
    PROVE  zombies' \subseteq Tickets \X Payloads
BY DEF Orphan, SyncTypes, SyncTypeOK

LEMMA MarkTypes ==
    ASSUME SyncTypes, NEW t \in Tickets, NEW b \in BOOLEAN, Mark(t, b),
           UNCHANGED <<counter, reqs, shots, fixLog>>
    PROVE  FactoryTypeOK'
<1>1. FactoryTypeOK /\ rows[t] \in Row
  BY DEF SyncTypes, SyncTypeOK, FactoryTypeOK
<1>2. [rows[t] EXCEPT !.synced = b, !.stamp = 0] \in Row
  BY <1>1 DEF Row
<1> QED BY <1>1, <1>2 DEF Mark, FactoryTypeOK

LEMMA NextRowTypes ==
    ASSUME SyncTypes, NEW t \in Tickets, NextRow(t), FactoryTypeOK'
    PROVE  SyncTypes'
<1>1. CASE worker' = IdleWorker
  BY <1>1, IdleTypes DEF NextRow, SyncTypes, SyncTypeOK
<1>2. CASE worker' = [worker EXCEPT !.left = @ \ {t}]
  BY <1>2 DEF NextRow, SyncTypes, SyncTypeOK, WorkerFields
<1> QED BY <1>1, <1>2 DEF NextRow

LEMMA ProgressTypes ==
    ASSUME SyncTypes, Progress
    PROVE  SyncTypes'
<1>1. CASE PostBatch
  BY <1>1, PostTypes
<1>2. ASSUME NEW t \in Tickets, CloudTake(t)
      PROVE  SyncTypes'
  <2>1. FactoryTypeOK'
    BY <1>2 DEF CloudTake, factoryVars, SyncTypes, SyncTypeOK, FactoryTypeOK
  <2>2. seen' \in [Tickets -> SUBSET Payloads]
    BY <1>2 DEF CloudTake, Hears, SyncTypes, SyncTypeOK
  <2> QED BY <1>2, <2>1, <2>2 DEF CloudTake, SyncTypes, SyncTypeOK, WorkerFields
<1>3. CASE CloudReply
  <2>1. FactoryTypeOK'
    BY <1>3 DEF CloudReply, factoryVars, SyncTypes, SyncTypeOK, FactoryTypeOK
  <2> QED BY <1>3, <2>1 DEF CloudReply, Settling, SyncTypes, SyncTypeOK, WorkerFields
<1>4. ASSUME NEW t \in Tickets, AckRow(t) \/ FailRow(t)
      PROVE  SyncTypes'
  <2>1. NextRow(t) /\ UNCHANGED <<counter, reqs, shots, fixLog>>
    BY <1>4 DEF AckRow, FailRow, NextRow
  <2>2. (\E b \in BOOLEAN : Mark(t, b)) \/ NoWrite
    BY <1>4 DEF AckRow, FailRow, SyncTypes, SyncTypeOK, FactoryTypeOK, Row
  <2>3. FactoryTypeOK'
    BY <2>1, <2>2, MarkTypes DEF NoWrite, SyncTypes, SyncTypeOK, FactoryTypeOK
  <2> QED BY <2>1, <2>3, NextRowTypes
<1> QED BY <1>1, <1>2, <1>3, <1>4 DEF Progress

LEMMA TroubleTypes ==
    ASSUME SyncTypes, Trouble
    PROVE  SyncTypes'
<1>1. FactoryTypeOK'
  <2>1. ASSUME UNCHANGED factoryVars
        PROVE  FactoryTypeOK'
    BY <2>1 DEF factoryVars, SyncTypes, SyncTypeOK, FactoryTypeOK
  <2>2. CASE Crash
    BY <2>2 DEF Crash, SyncTypes, SyncTypeOK, FactoryTypeOK, Request
  <2> QED BY <2>1, <2>2
       DEF Trouble, CloudLeavesOut, ConnLost, ZombieTake, ZombieDies, WriteThrows
<1>2. ASSUME NEW t \in Tickets, CloudLeavesOut(t)
      PROVE  SyncTypes'
  <2>1. failures' \in Nat
    BY <1>2 DEF CloudLeavesOut, SyncTypes, SyncTypeOK
  <2> QED BY <1>1, <1>2, <2>1 DEF CloudLeavesOut, SyncTypes, SyncTypeOK, WorkerFields
<1>3. CASE ConnLost
  <2>1. failures' \in Nat /\ zombies' \subseteq Tickets \X Payloads
    BY <1>3, OrphanTypes DEF ConnLost, SyncTypes, SyncTypeOK
  <2> QED BY <1>1, <1>3, <2>1 DEF ConnLost, Settling, SyncTypes, SyncTypeOK, WorkerFields
<1>4. ASSUME NEW z \in zombies, ZombieTake(z)
      PROVE  SyncTypes'
  <2>1. z[1] \in Tickets /\ z[2] \in Payloads
    BY DEF SyncTypes, SyncTypeOK
  <2>2. seen' \in [Tickets -> SUBSET Payloads]
    BY <1>4, <2>1 DEF ZombieTake, Hears, SyncTypes, SyncTypeOK
  <2> QED BY <1>1, <1>4, <2>2 DEF ZombieTake, SyncTypes, SyncTypeOK, WorkerFields
<1>5. ASSUME NEW z \in zombies, ZombieDies(z)
      PROVE  SyncTypes'
  BY <1>1, <1>5 DEF ZombieDies, SyncTypes, SyncTypeOK, WorkerFields
<1>6. CASE WriteThrows
  <2>1. CASE worker' = IdleWorker
    BY <1>1, <1>6, <2>1, IdleTypes DEF WriteThrows, SyncTypes, SyncTypeOK
  <2>2. CASE Settling("failing", {})
    <3>1. failures' \in Nat
      BY <1>6 DEF WriteThrows, SyncTypes, SyncTypeOK
    <3> QED BY <1>1, <1>6, <2>2, <3>1
         DEF WriteThrows, Settling, SyncTypes, SyncTypeOK, WorkerFields
  <2> QED BY <1>6, <2>1, <2>2 DEF WriteThrows
<1>7. CASE Crash
  BY <1>1, <1>7, OrphanTypes, IdleTypes DEF Crash, SyncTypes, SyncTypeOK
<1> QED BY <1>2, <1>3, <1>4, <1>5, <1>6, <1>7 DEF Trouble

LEMMA ReopenTypes ==
    ASSUME SyncTypes, NEW S, Reopen(S)
    PROVE  SyncTypes'
<1>1. FactoryTypeOK'
  <2>1. FactoryTypeOK
    BY DEF SyncTypes, SyncTypeOK
  <2>2. ASSUME NEW r \in Row, NEW n \in Nat
        PROVE  [r EXCEPT !.synced = FALSE, !.stamp = n] \in Row
    BY DEF Row
  <2>3. clock + 1 \in Nat
    BY <2>1 DEF FactoryTypeOK
  <2>4. \A t \in Tickets : rows[t] \in Row
    BY <2>1 DEF FactoryTypeOK
  <2>5. \A t \in Tickets : [rows[t] EXCEPT !.synced = FALSE, !.stamp = clock + 1] \in Row
    BY <2>2, <2>3, <2>4
  <2>6. rows' \in [Tickets -> Row]
    BY <2>4, <2>5 DEF Reopen
  <2> QED BY <2>1, <2>3, <2>6 DEF Reopen, FactoryTypeOK
<1> QED BY <1>1 DEF Reopen, syncVars, SyncTypes, SyncTypeOK, WorkerFields

LEMMA SyncTypesStep ==
    ASSUME SyncTypes, [SyncNext]_vars
    PROVE  SyncTypes'
<1>1. CASE UNCHANGED syncVars /\ FactoryTypeOK'
  BY <1>1 DEF syncVars, SyncTypes, SyncTypeOK, WorkerFields
<1>2. [FactoryNext]_factoryVars => FactoryTypeOK'
  BY TypeStep DEF SyncTypes, SyncTypeOK
<1> QED BY <1>1, <1>2, ProgressTypes, TroubleTypes, ReopenTypes
     DEF SyncNext, Resync, ResyncLab, vars

(* The type invariant of worker, connection and cloud.                     *)
THEOREM SyncIsTyped == SyncSpec => []SyncTypeOK
<1>1. SyncTypes => SyncTypeOK
  BY DEF SyncTypes
<1> QED BY <1>1, SyncInitTypes, SyncTypesStep, PTL DEF SyncSpec

-----------------------------------------------------------------------------
(* The inductive invariant behind SyncedIsDelivered.  No stamp lies in the *)
(* future, so an edit always changes the stamp of the row; a row that is   *)
(* still to be marked and has the stamp that was read says what was read;  *)
(* an ack is for something the cloud has processed.  Only the last part    *)
(* depends on who writes a row.                                            *)
ToBeMarked ==
    {t \in DOMAIN worker.sent :
        \/ worker.phase = "posted"
        \/ worker.phase = "acking" /\ t \in worker.left}

StampsArePast ==
    /\ \A t \in Tickets : rows[t].stamp <= clock
    /\ \A t \in DOMAIN worker.sent : worker.sent[t].stamp <= clock

SameStampSameRow ==
    \A t \in ToBeMarked :
        rows[t].stamp = worker.sent[t].stamp => Payload(rows[t]) = worker.sent[t].pay

AcksAreHeard == \A t \in worker.acks : worker.sent[t].pay \in seen[t]

AnnouncedDelivered ==
    \A t \in Announced : rows[t].synced => Payload(rows[t]) \in seen[t]

Honest ==
    /\ SyncTypes
    /\ PushesOwn
    /\ StampsArePast
    /\ SameStampSameRow
    /\ AcksAreHeard
    /\ AnnouncedDelivered

LEMMA HonestInit == SyncInit => Honest
<1> SUFFICES ASSUME SyncInit PROVE Honest
  OBVIOUS
<1>1. SyncTypes
  BY SyncInitTypes
<1>2. DOMAIN worker.sent = {} /\ worker.acks = {}
  <2>1. DOMAIN <<>> = {}
    OBVIOUS
  <2> QED BY <2>1 DEF SyncInit, IdleWorker
<1>3. PushesOwn
  BY DEF SyncInit, FactoryInit, PushesOwn, Idle
<1>4. \A t \in Tickets : rows[t] = Absent /\ clock = 0
  BY DEF SyncInit, FactoryInit
<1>5. StampsArePast /\ AnnouncedDelivered
  BY <1>2, <1>4 DEF StampsArePast, AnnouncedDelivered, Announced, Absent
<1>6. SameStampSameRow /\ AcksAreHeard
  BY <1>2 DEF SameStampSameRow, AcksAreHeard, ToBeMarked
<1> QED BY <1>1, <1>3, <1>5, <1>6 DEF Honest

(* Edits of handlers and of the resync routes, while the worker waits.     *)
LEMMA HonestEdit ==
    ASSUME Honest, SyncTypes', PushesOwn', UNCHANGED syncVars,
           clock' \in {clock, clock + 1}, \A u \in Tickets : Edited(u)
    PROVE  Honest'
<1>1. /\ clock \in Nat
      /\ \A t \in Tickets : rows[t].stamp \in Nat
      /\ DOMAIN worker.sent \subseteq Tickets
      /\ \A t \in DOMAIN worker.sent : worker.sent[t].stamp \in Nat
  BY DEF Honest, SyncTypes, SyncTypeOK, FactoryTypeOK, Row
<1>2. StampsArePast'
  BY <1>1 DEF Honest, StampsArePast, Edited, syncVars
<1>3. SameStampSameRow'
  <2> SUFFICES ASSUME NEW t \in ToBeMarked, rows'[t].stamp = worker.sent[t].stamp
               PROVE  Payload(rows'[t]) = worker.sent[t].pay
    BY DEF SameStampSameRow, ToBeMarked, syncVars
  <2>1. t \in DOMAIN worker.sent /\ t \in Tickets
    BY <1>1 DEF ToBeMarked
  <2>2. rows'[t] = rows[t]
    BY <1>1, <2>1 DEF Honest, StampsArePast, Edited
  <2> QED BY <2>2 DEF Honest, SameStampSameRow
<1>4. AcksAreHeard'
  BY DEF Honest, AcksAreHeard, syncVars
<1>5. AnnouncedDelivered'
  BY DEF Honest, AnnouncedDelivered, Announced, Edited, syncVars
<1> QED BY <1>2, <1>3, <1>4, <1>5 DEF Honest

(* The worker marks a row, or leaves it. *)
LEMMA HonestMark ==
    ASSUME Honest, SyncTypes', NEW t \in Tickets, AckRow(t) \/ FailRow(t)
    PROVE  Honest'
<1>1. /\ clock \in Nat
      /\ rows \in [Tickets -> Row]
      /\ DOMAIN worker.sent \subseteq Tickets
      /\ worker.left \subseteq DOMAIN worker.sent
      /\ worker.acks \subseteq DOMAIN worker.sent
  BY DEF Honest, SyncTypes, SyncTypeOK, FactoryTypeOK
<1>2. /\ NextRow(t)
      /\ UNCHANGED <<clock, reqs, seen>>
      /\ worker.phase \in {"acking", "failing"}
  BY DEF AckRow, FailRow, NextRow, Mark, NoWrite
<1>3. /\ worker'.sent \in {worker.sent, <<>>}
      /\ worker'.acks \in {worker.acks, {}}
      /\ worker'.sent = <<>> => worker'.acks = {}
  <2>1. CASE worker' = IdleWorker
    BY <2>1 DEF IdleWorker
  <2>2. CASE worker' = [worker EXCEPT !.left = @ \ {t}] /\ worker.sent # <<>>
    BY <2>2 DEF Honest, SyncTypes, WorkerFields
  <2>3. worker.sent # <<>>
    <3>1. t \in DOMAIN worker.sent
      BY <1>1, <1>2 DEF NextRow
    <3>2. DOMAIN <<>> = {}
      OBVIOUS
    <3> QED BY <3>1, <3>2
  <2> QED BY <1>2, <2>1, <2>2, <2>3 DEF NextRow
<1>4. \A u \in Tickets \ {t} : rows'[u] = rows[u]
  BY <1>1 DEF AckRow, FailRow, Mark, NoWrite
<1>5. /\ rows'[t].stamp \in {rows[t].stamp, 0}
      /\ Payload(rows'[t]) = Payload(rows[t])
      /\ rows'[t].synced =>
            \/ rows[t].synced
            \/ t \in worker.acks /\ worker.phase = "acking" /\ Unedited(t)
  <2>1. ASSUME NEW b \in BOOLEAN, Mark(t, b)
        PROVE  /\ rows'[t].stamp = 0
               /\ rows'[t].synced = b
               /\ Payload(rows'[t]) = Payload(rows[t])
    BY <1>1, <2>1 DEF Mark, Payload, Row
  <2>2. rows[t].synced \in BOOLEAN
    BY <1>1 DEF Row
  <2>3. CASE NoWrite
    BY <2>3 DEF NoWrite
  <2> QED BY <2>1, <2>2, <2>3 DEF AckRow, FailRow
<1>6. StampsArePast'
  <2>1. DOMAIN <<>> = {}
    OBVIOUS
  <2>2. \A u \in DOMAIN worker'.sent : worker'.sent[u].stamp <= clock
    BY <1>3, <2>1 DEF Honest, StampsArePast
  <2>3. \A u \in Tickets : rows'[u].stamp <= clock
    BY <1>1, <1>4, <1>5 DEF Honest, StampsArePast
  <2> QED BY <1>2, <2>2, <2>3 DEF StampsArePast
<1>7. SameStampSameRow'
  <2>1. CASE worker' = IdleWorker
    BY <2>1 DEF IdleWorker, SameStampSameRow, ToBeMarked
  <2>2. CASE worker' = [worker EXCEPT !.left = @ \ {t}]
    <3>1. /\ worker'.phase = worker.phase /\ worker'.sent = worker.sent
          /\ worker'.left = worker.left \ {t}
      BY <2>2 DEF Honest, SyncTypes, WorkerFields
    <3>2. \A u \in ToBeMarked' : u \in ToBeMarked /\ u # t /\ u \in Tickets
      BY <1>1, <1>2, <3>1 DEF ToBeMarked
    <3> QED BY <1>4, <3>1, <3>2 DEF Honest, SameStampSameRow
  <2> QED BY <1>2, <2>1, <2>2 DEF NextRow
<1>8. AcksAreHeard'
  BY <1>2, <1>3 DEF Honest, AcksAreHeard
<1>9. AnnouncedDelivered'
  <2>1. t \in worker.acks /\ worker.phase = "acking" /\ Unedited(t) => Payload(rows[t]) \in seen[t]
    <3>1. t \in worker.left
      BY <1>2 DEF NextRow
    <3> QED BY <1>1, <3>1 DEF Honest, AcksAreHeard, SameStampSameRow, ToBeMarked, Unedited
  <2> QED BY <1>2, <1>4, <1>5, <2>1 DEF Honest, AnnouncedDelivered, Announced
<1>10. PushesOwn'
  BY <1>2 DEF Honest, PushesOwn
<1> QED BY <1>6, <1>7, <1>8, <1>9, <1>10 DEF Honest

(* The rest of a cycle: the table stays, the cloud only hears more. *)
LEMMA HonestTransfer ==
    ASSUME Honest, SyncTypes', UNCHANGED <<rows, clock>>, PushesOwn',
           \A t \in Tickets : seen[t] \subseteq seen'[t],
           \A t \in DOMAIN worker'.sent : worker'.sent[t].stamp <= clock,
           \A t \in ToBeMarked' :
              rows[t].stamp = worker'.sent[t].stamp => Payload(rows[t]) = worker'.sent[t].pay,
           \A t \in worker'.acks : worker'.sent[t].pay \in seen'[t]
    PROVE  Honest'
BY DEF Honest, StampsArePast, SameStampSameRow, AcksAreHeard, AnnouncedDelivered, Announced

LEMMA HonestCycle ==
    ASSUME Honest, SyncTypes',
           \/ PostBatch \/ CloudReply \/ ConnLost \/ WriteThrows \/ Crash
           \/ \E t \in Tickets : CloudTake(t) \/ CloudLeavesOut(t)
           \/ \E z \in zombies : ZombieTake(z) \/ ZombieDies(z)
    PROVE  Honest'
<1>1. UNCHANGED <<rows, clock>>
  BY DEF PostBatch, CloudReply, ConnLost, WriteThrows, Crash, CloudTake, CloudLeavesOut,
         ZombieTake, ZombieDies, factoryVars
<1>2. PushesOwn'
  <2>1. CASE Crash
    BY <2>1 DEF Crash, PushesOwn, Idle
  <2>2. CASE UNCHANGED factoryVars
    BY <2>2 DEF factoryVars, PushesOwn, Honest
  <2> QED BY <2>1, <2>2
       DEF PostBatch, CloudReply, ConnLost, WriteThrows, CloudTake, CloudLeavesOut,
           ZombieTake, ZombieDies
<1>3. \A t \in Tickets : seen[t] \subseteq seen'[t]
  <2>1. ASSUME NEW u, NEW pay, Hears(u, pay)
        PROVE  \A t \in Tickets : seen[t] \subseteq seen'[t]
    BY <2>1 DEF Hears, Honest, SyncTypes, SyncTypeOK
  <2> QED BY <2>1 DEF PostBatch, CloudReply, ConnLost, WriteThrows, Crash, CloudTake,
                      CloudLeavesOut, ZombieTake, ZombieDies
<1>4. /\ \A t \in DOMAIN worker.sent : worker.sent[t].stamp <= clock
      /\ \A t \in ToBeMarked :
            rows[t].stamp = worker.sent[t].stamp => Payload(rows[t]) = worker.sent[t].pay
      /\ \A t \in worker.acks : worker.sent[t].pay \in seen[t]
      /\ worker.acks \subseteq Tickets
      /\ DOMAIN worker.sent \subseteq Tickets
  BY DEF Honest, StampsArePast, SameStampSameRow, AcksAreHeard, SyncTypes, SyncTypeOK
<1>5. CASE worker' = IdleWorker
  <2>1. DOMAIN <<>> = {}
    OBVIOUS
  <2> QED BY <1>1, <1>2, <1>3, <1>5, <2>1, HonestTransfer DEF IdleWorker, ToBeMarked
<1>6. CASE worker' = worker
  <2>1. ToBeMarked' = ToBeMarked
    BY <1>6 DEF ToBeMarked
  <2> QED BY <1>1, <1>2, <1>3, <1>4, <1>6, <2>1, HonestTransfer
<1>7. CASE PostBatch
  <2>1. \A t \in DOMAIN worker'.sent :
           /\ t \in Tickets
           /\ worker'.sent[t].stamp = rows[t].stamp
           /\ worker'.sent[t].pay = Payload(rows[t])
    BY <1>7 DEF PostBatch, Batch, Oldest
  <2>2. worker'.acks = {} /\ ToBeMarked' \subseteq DOMAIN worker'.sent
    BY <1>7 DEF PostBatch, ToBeMarked
  <2>3. \A t \in Tickets : rows[t].stamp <= clock
    BY DEF Honest, StampsArePast
  <2> QED BY <1>1, <1>2, <1>3, <2>1, <2>2, <2>3, HonestTransfer
<1>8. CASE CloudReply \/ Settling("failing", {})
  <2>1. /\ worker'.sent = worker.sent
        /\ worker'.acks \in {worker.acks, {}}
        /\ worker'.phase = "acking" => worker.phase = "posted"
        /\ worker'.phase \in {"acking", "failing"}
    BY <1>8 DEF CloudReply, Settling, Honest, SyncTypes, WorkerFields
  <2>2. ToBeMarked' \subseteq ToBeMarked
    BY <2>1 DEF ToBeMarked
  <2> QED BY <1>1, <1>2, <1>3, <1>4, <2>1, <2>2, HonestTransfer
<1>9. ASSUME NEW t \in Tickets, CloudTake(t) \/ CloudLeavesOut(t)
      PROVE  Honest'
  <2>1. /\ worker'.sent = worker.sent
        /\ worker'.phase = worker.phase
        /\ worker'.left = worker.left
        /\ worker'.acks \in {worker.acks, worker.acks \union {t}}
        /\ t \in worker'.acks => t \in worker.acks \/ CloudTake(t)
    BY <1>9 DEF CloudTake, CloudLeavesOut, Honest, SyncTypes, WorkerFields
  <2>2. ToBeMarked' = ToBeMarked
    BY <2>1 DEF ToBeMarked
  <2>3. CloudTake(t) => worker.sent[t].pay \in seen'[t]
    <3>1. DOMAIN seen = Tickets
      BY DEF Honest, SyncTypes, SyncTypeOK
    <3> QED BY <3>1 DEF CloudTake, Hears
  <2> QED BY <1>1, <1>2, <1>3, <1>4, <2>1, <2>2, <2>3, HonestTransfer
<1> QED BY <1>5, <1>6, <1>7, <1>8, <1>9
     DEF ConnLost, WriteThrows, Crash, ZombieTake, ZombieDies

(* Resync clears flags under new stamps: an edit that changes no payload. *)
LEMMA HonestReopen ==
    ASSUME Honest, SyncTypes', NEW S, Reopen(S)
    PROVE  Honest'
<1>1. rows \in [Tickets -> Row] /\ PushesOwn'
  BY DEF Honest, SyncTypes, SyncTypeOK, FactoryTypeOK, Reopen, PushesOwn
<1>2. \A u \in Tickets : Edited(u)
  BY <1>1 DEF Reopen, Edited, Row
<1> QED BY <1>1, <1>2, HonestEdit DEF Reopen

LEMMA HonestStep ==
    ASSUME Honest, [SyncNext]_vars
    PROVE  Honest'
<1>1. SyncTypes'
  BY SyncTypesStep DEF Honest
<1>2. CASE UNCHANGED vars
  BY <1>1, <1>2, HonestEdit DEF vars, factoryVars, Edited, PushesOwn, Honest
<1>3. CASE FactoryNext /\ UNCHANGED syncVars
  BY <1>1, <1>3, FactoryEdits, HonestEdit DEF Honest, SyncTypes, SyncTypeOK
<1>4. CASE Progress \/ Trouble
  BY <1>1, <1>4, HonestCycle, HonestMark DEF Progress, Trouble
<1>5. CASE ResyncLab \/ \E S \in SUBSET Tickets : Resync(S)
  BY <1>1, <1>5, HonestReopen DEF Resync, ResyncLab
<1> QED BY <1>2, <1>3, <1>4, <1>5 DEF SyncNext

(* A row marked synced is one the cloud has processed exactly as it is now *)
(* (syncWorker.ts, the conditional updateMany), whatever PCs do to other   *)
(* rows through /push, which does not clear cloudSynced.                   *)
THEOREM AnnouncedRowsDelivered == SyncSpec => []AnnouncedDelivered
<1>1. SyncInit => Honest
  BY HonestInit
<1>2. Honest /\ [SyncNext]_vars => Honest'
  BY HonestStep
<1>3. Honest => AnnouncedDelivered
  BY DEF Honest
<1> QED BY <1>1, <1>2, <1>3, PTL DEF SyncSpec

(* All rows, if no PC writes the table through /push.                      *)
THEOREM SyncedRowsDelivered ==
    ASSUME PushTickets = {}
    PROVE  SyncSpec => []SyncedIsDelivered
<1>1. AnnouncedDelivered => SyncedIsDelivered
  BY DEF AnnouncedDelivered, SyncedIsDelivered, Announced
<1> QED BY <1>1, AnnouncedRowsDelivered, PTL

-----------------------------------------------------------------------------
(* The refinement of Delivery: each step of worker or handlers is one of   *)
(* its steps, or changes nothing of what it speaks about.                  *)
says == [t \in Announced |-> Payload(rows[t])]
hears == [t \in Announced |-> seen[t]]
synced == {t \in Announced : rows[t].synced}

(* A handler writes one row at a time. *)
LEMMA OneRowEdited ==
    ASSUME FactoryTypeOK, FactoryNext
    PROVE  \/ UNCHANGED rows
           \/ \E t \in Tickets : \A u \in Tickets \ {t} : rows'[u] = rows[u]
<1> USE DEF FactoryTypeOK
<1>1. ASSUME NEW t \in Tickets, NEW r, Save(t, r)
      PROVE  \E v \in Tickets : \A u \in Tickets \ {v} : rows'[u] = rows[u]
  BY <1>1 DEF Save
<1>2. ASSUME NEW q \in Requests, WebStep(q)
      PROVE  \/ UNCHANGED rows
             \/ \E t \in Tickets : \A u \in Tickets \ {t} : rows'[u] = rows[u]
  <2>1. CASE GrossCommit(q) \/ TareCommit(q) \/ LabCommit(q) \/ CorrectionCommit(q) \/ PcPushCommit(q)
    <3>1. reqs[q].t \in Tickets
      BY <2>1, RequestFields DEF GrossCommit, TareCommit, LabCommit, CorrectionCommit, PcPushCommit
    <3>2. NoWrite \/ \E r : Save(reqs[q].t, r)
      BY <2>1 DEF GrossCommit, TareCommit, WeighCommit, LabCommit, CorrectionCommit, PcPushCommit
    <3> QED BY <1>1, <3>1, <3>2 DEF NoWrite
  <2> QED BY <1>2, <2>1 DEF WebStep, GrossBegin, TareBegin, WeighBegin, LabBegin,
                            CorrectionBegin, PcPushBegin, Refuse, NoWrite
<1>3. ASSUME NEW t \in Tickets, RowStep(t)
      PROVE  \/ UNCHANGED rows
             \/ \E v \in Tickets : \A u \in Tickets \ {v} : rows'[u] = rows[u]
  <2>1. NoWrite \/ \E r : Save(t, r)
    BY <1>3 DEF RowStep, GateEntry, WbPush, PhotoSaved, PhotoLost
  <2> QED BY <1>1, <2>1 DEF NoWrite
<1> QED BY <1>2, <1>3 DEF FactoryNext

(* An edit reopens the row it changes. *)
LEMMA EditRefines ==
    ASSUME Honest, SyncTypes', FactoryNext, UNCHANGED syncVars
    PROVE  [SyncDelivery!DeliveryNext]_(SyncDelivery!deliveryVars)
<1>1. seen' = seen
  BY DEF syncVars
<1>2. \A u \in Tickets : Edited(u)
  BY FactoryEdits DEF Honest, SyncTypes, SyncTypeOK
<1>3. CASE \A u \in Announced : /\ Payload(rows'[u]) = Payload(rows[u])
                                /\ rows'[u].synced = rows[u].synced
  <2>1. says' = says /\ synced' = synced
    BY <1>3 DEF says, synced
  <2> QED BY <1>1, <2>1 DEF SyncDelivery!deliveryVars, says, hears, synced
<1>4. CASE ~\A u \in Announced : /\ Payload(rows'[u]) = Payload(rows[u])
                                 /\ rows'[u].synced = rows[u].synced
  <2>1. PICK t \in Tickets : \A u \in Tickets \ {t} : rows'[u] = rows[u]
    BY <1>4, OneRowEdited DEF Honest, SyncTypes, SyncTypeOK
  <2>2. /\ \A u \in Tickets : rows[u].synced \in BOOLEAN
        /\ \A u \in Tickets : rows'[u].synced \in BOOLEAN
    BY DEF Honest, SyncTypes, SyncTypeOK, FactoryTypeOK, Row
  <2>3. t \in Announced /\ ~rows'[t].synced
    BY <1>2, <1>4, <2>1, <2>2 DEF Edited, Announced
  <2>4. synced' = synced \ {t}
    BY <2>1, <2>3 DEF synced, Announced
  <2>5. /\ says' \in [Announced -> Payloads]
        /\ \A u \in Announced \ {t} : says'[u] = says[u]
    <3>1. \A u \in Tickets : rows'[u] \in Row
      BY DEF SyncTypes, SyncTypeOK, FactoryTypeOK
    <3> QED BY <2>1, <3>1, PayloadType DEF says, Announced
  <2>6. hears' = hears
    BY <1>1 DEF hears
  <2>7. SyncDelivery!Edit(t)
    BY <2>4, <2>5, <2>6 DEF SyncDelivery!Edit, says, hears, synced
  <2> QED BY <2>3, <2>7 DEF SyncDelivery!DeliveryNext
<1> QED BY <1>3, <1>4

(* A mark on an unedited row settles it. *)
LEMMA MarkRefines ==
    ASSUME Honest, NEW t \in Tickets, AckRow(t) \/ FailRow(t)
    PROVE  [SyncDelivery!DeliveryNext]_(SyncDelivery!deliveryVars)
<1>1. /\ rows \in [Tickets -> Row]
      /\ worker.left \subseteq DOMAIN worker.sent
      /\ NextRow(t)
      /\ seen' = seen
  BY DEF Honest, SyncTypes, SyncTypeOK, FactoryTypeOK, AckRow, FailRow, NextRow
<1>2. ASSUME NEW b \in BOOLEAN, Mark(t, b)
      PROVE  says' = says /\ synced' = IF b /\ t \in Announced THEN synced \union {t}
                                       ELSE synced \ {t}
  <2>1. /\ rows' = [rows EXCEPT ![t] = [rows[t] EXCEPT !.synced = b, !.stamp = 0]]
        /\ rows[t] \in Row
    BY <1>1, <1>2 DEF Mark
  <2>2. rows'[t].synced = b /\ Payload(rows'[t]) = Payload(rows[t])
    BY <1>1, <2>1 DEF Payload, Row
  <2>3. \A u \in Tickets \ {t} : rows'[u] = rows[u]
    BY <1>1, <2>1
  <2> QED BY <2>2, <2>3 DEF says, synced, Announced
<1>3. CASE Mark(t, rows[t].synced)
  <2>1. rows[t].synced \in BOOLEAN
    BY <1>1 DEF Row
  <2>2. says' = says /\ synced' = synced
    BY <1>2, <1>3, <2>1 DEF synced
  <2> QED BY <1>1, <2>2 DEF SyncDelivery!deliveryVars, says, hears, synced
<1>4. CASE NoWrite
  BY <1>1, <1>4 DEF NoWrite, SyncDelivery!deliveryVars
<1>5. CASE Mark(t, TRUE) /\ t \in worker.acks /\ Unedited(t) /\ worker.phase = "acking"
  <2>1. says' = says /\ synced' = IF t \in Announced THEN synced \union {t} ELSE synced \ {t}
    BY <1>2, <1>5
  <2>2. Payload(rows[t]) \in seen[t]
    BY <1>1, <1>5 DEF Honest, AcksAreHeard, SameStampSameRow, ToBeMarked, Unedited, NextRow
  <2>3. hears' = hears
    BY <1>1 DEF hears
  <2>4. CASE t \in Announced
    <3>1. says[t] \in hears[t]
      BY <2>2, <2>4 DEF says, hears
    <3>2. SyncDelivery!Settle(t)
      BY <2>1, <2>3, <2>4, <3>1 DEF SyncDelivery!Settle, says, hears, synced
    <3> QED BY <2>4, <3>2 DEF SyncDelivery!DeliveryNext
  <2>5. CASE t \notin Announced
    <3>1. synced' = synced
      BY <2>1, <2>5 DEF synced
    <3> QED BY <2>1, <2>3, <3>1 DEF SyncDelivery!deliveryVars, says, hears, synced
  <2> QED BY <2>4, <2>5
<1> QED BY <1>3, <1>4, <1>5 DEF AckRow, FailRow

(* The rest of a cycle: the cloud may hear something. *)
LEMMA CycleRefines ==
    ASSUME Honest, SyncTypes',
           \/ PostBatch \/ CloudReply \/ ConnLost \/ WriteThrows \/ Crash
           \/ \E t \in Tickets : CloudTake(t) \/ CloudLeavesOut(t)
           \/ \E z \in zombies : ZombieTake(z) \/ ZombieDies(z)
    PROVE  [SyncDelivery!DeliveryNext]_(SyncDelivery!deliveryVars)
<1>1. rows' = rows
  BY DEF PostBatch, CloudReply, ConnLost, WriteThrows, Crash, CloudTake, CloudLeavesOut,
         ZombieTake, ZombieDies, factoryVars
<1>2. CASE seen' = seen
  BY <1>1, <1>2 DEF SyncDelivery!deliveryVars
<1>3. ASSUME NEW t \in Tickets, NEW pay, Hears(t, pay)
      PROVE  [SyncDelivery!DeliveryNext]_(SyncDelivery!deliveryVars)
  <2>1. seen \in [Tickets -> SUBSET Payloads] /\ seen' \in [Tickets -> SUBSET Payloads]
    BY DEF Honest, SyncTypes, SyncTypeOK
  <2>2. /\ hears' \in [Announced -> SUBSET Payloads]
        /\ \A u \in Announced \ {t} : hears'[u] = hears[u]
        /\ \A u \in Announced : hears[u] \subseteq hears'[u]
    BY <1>3, <2>1 DEF Hears, hears, Announced
  <2>3. says' = says /\ synced' = synced
    BY <1>1 DEF says, synced
  <2>4. CASE t \in Announced
    <3>1. SyncDelivery!Hear(t)
      BY <2>2, <2>3, <2>4 DEF SyncDelivery!Hear, says, hears, synced
    <3> QED BY <2>4, <3>1 DEF SyncDelivery!DeliveryNext
  <2>5. CASE t \notin Announced
    <3>1. hears' = hears
      BY <1>3, <2>1, <2>5 DEF Hears, hears, Announced
    <3> QED BY <2>3, <3>1 DEF SyncDelivery!deliveryVars, says, hears, synced
  <2> QED BY <2>4, <2>5
<1>4. seen' = seen \/ \E t \in Tickets, pay \in Payloads : Hears(t, pay)
  <2>1. \A z \in zombies : z[1] \in Tickets /\ z[2] \in Payloads
    BY DEF Honest, SyncTypes, SyncTypeOK
  <2>2. ASSUME NEW t \in Tickets, CloudTake(t)
        PROVE  \E pay \in Payloads : Hears(t, pay)
    BY <2>2 DEF CloudTake, Honest, SyncTypes, SyncTypeOK
  <2> QED BY <2>1, <2>2 DEF PostBatch, CloudReply, ConnLost, WriteThrows, Crash, CloudLeavesOut,
                            ZombieTake, ZombieDies
<1> QED BY <1>2, <1>3, <1>4

LEMMA ReopenRefines ==
    ASSUME Honest, NEW S \in SUBSET Tickets, Reopen(S)
    PROVE  [SyncDelivery!DeliveryNext]_(SyncDelivery!deliveryVars)
<1>1. rows \in [Tickets -> Row] /\ seen' = seen
  BY DEF Honest, SyncTypes, SyncTypeOK, FactoryTypeOK, Reopen, syncVars
<1>2. \A u \in Tickets : /\ Payload(rows'[u]) = Payload(rows[u])
                         /\ u \in S => ~rows'[u].synced
                         /\ u \notin S => rows'[u] = rows[u]
  BY <1>1 DEF Reopen, Payload, Row
<1>3. says' = says /\ hears' = hears /\ synced' = synced \ (S \intersect Announced)
  BY <1>1, <1>2 DEF says, hears, synced, Announced
<1>4. SyncDelivery!Reopen(S \intersect Announced)
  BY <1>3 DEF SyncDelivery!Reopen, says, hears, synced
<1> QED BY <1>4 DEF SyncDelivery!DeliveryNext

LEMMA StepRefines ==
    ASSUME Honest, [SyncNext]_vars
    PROVE  [SyncDelivery!DeliveryNext]_(SyncDelivery!deliveryVars)
<1>1. SyncTypes'
  BY SyncTypesStep DEF Honest
<1>2. CASE UNCHANGED vars
  BY <1>2 DEF vars, factoryVars, syncVars, SyncDelivery!deliveryVars
<1>3. CASE FactoryNext /\ UNCHANGED syncVars
  BY <1>1, <1>3, EditRefines
<1>4. CASE Progress \/ Trouble
  BY <1>1, <1>4, MarkRefines, CycleRefines DEF Progress, Trouble
<1>5. CASE ResyncLab \/ \E S \in SUBSET Tickets : Resync(S)
  BY <1>5, ReopenRefines DEF Resync, ResyncLab
<1> QED BY <1>2, <1>3, <1>4, <1>5 DEF SyncNext

LEMMA InitRefines == SyncInit => SyncDelivery!DeliveryInit
<1> SUFFICES ASSUME SyncInit PROVE SyncDelivery!DeliveryInit
  OBVIOUS
<1>1. \A t \in Tickets : rows[t] = Absent
  BY DEF SyncInit, FactoryInit
<1>2. Absent \in Row /\ ~Absent.synced
  BY DEF Absent, Row, Directions
<1>3. says \in [Announced -> Payloads] /\ synced = {}
  BY <1>1, <1>2, PayloadType DEF says, synced, Announced
<1>4. hears = [t \in Announced |-> {}]
  BY DEF SyncInit, hears, Announced
<1> QED BY <1>3, <1>4 DEF SyncDelivery!DeliveryInit, says, hears, synced

(* Worker, connection and handlers together implement what ADR 002         *)
(* promises of a record on its way to the cloud, for every row that no PC  *)
(* writes through /push, whatever happens to the others.                   *)
THEOREM WorkerImplementsDelivery == SyncSpec => DeliveryContract
<1>1. SyncInit => Honest /\ SyncDelivery!DeliveryInit
  BY HonestInit, InitRefines
<1>2. Honest /\ [SyncNext]_vars => Honest'
  BY HonestStep
<1>3. Honest /\ [SyncNext]_vars => [SyncDelivery!DeliveryNext]_(SyncDelivery!deliveryVars)
  BY StepRefines
<1> QED BY <1>1, <1>2, <1>3, PTL DEF SyncSpec, DeliveryContract, SyncDelivery!DeliverySpec
=============================================================================
