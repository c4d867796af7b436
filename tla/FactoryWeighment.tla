-------------------------- MODULE FactoryWeighment --------------------------
(***************************************************************************)
(* The Weighment table of the factory server and the HTTP handlers that    *)
(* write it (factory-server/src/routes/weighbridge.ts).                    *)
(*                                                                         *)
(* Every handler that awaits between reading a row and writing it is two   *)
(* actions, a Begin that peeks and a Commit that writes, so requests       *)
(* interleave as they do in the server.  Weights are small numbers, 0      *)
(* stands for NULL.  A row edit takes the next value of "clock" as its     *)
(* updatedAt: two edits of a row never share a timestamp.                  *)
(***************************************************************************)
EXTENDS Integers, FiniteSets

CONSTANTS
    WebTickets,     \* rows created by the factory's own gate-entry page
    PcTickets,      \* rows born on a weighbridge PC, relayed through /wb-push
    PushTickets,    \* rows that PCs write through the camelCase /push endpoint
    Requests,       \* HTTP requests the server handles concurrently
    Weights,        \* scale readings
    PoFixes,        \* cloud corrections that assign a purchase order
    CancelFixes,    \* cloud corrections that cancel the weighment
    MaxClock        \* bound on the writes made by operators, PCs and the cloud

Tickets == WebTickets \union PcTickets \union PushTickets
Fixes == PoFixes \union CancelFixes

ASSUME WeightsAssumption == Weights \subseteq Nat \ {0}
ASSUME BoundAssumption == MaxClock \in Nat
ASSUME FixesAssumption == PoFixes \intersect CancelFixes = {}

VARIABLES
    rows,       \* the Weighment table
    counter,    \* Counter['ticket_no']
    clock,      \* the time, in edits
    reqs,       \* what each in-flight request remembers
    shots,      \* weighments whose camera snapshots are still being taken
    fixLog      \* WeighmentCorrectionLog: correction ids already applied

factoryVars == <<rows, counter, clock, reqs, shots, fixLog>>

-----------------------------------------------------------------------------
(* Rows *)

Statuses == {"GATE_ENTRY", "FIRST_DONE", "COMPLETE", "CANCELLED"}
Directions == {"INBOUND", "OUTBOUND"}
LabResults == {"PASS", "FAIL"}

(* "held" is an inbound purchase against a PO that has no poId yet. *)
Row == [status : Statuses \union {"ABSENT"}, dir : Directions, held : BOOLEAN,
        gross : Nat, tare : Nat, net : Nat,
        lab : LabResults \union {"PENDING", "NONE"},
        ticket : Nat, synced : BOOLEAN, born : Nat, stamp : Nat]

Absent == [status |-> "ABSENT", dir |-> "INBOUND", held |-> FALSE,
           gross |-> 0, tare |-> 0, net |-> 0, lab |-> "NONE",
           ticket |-> 0, synced |-> FALSE, born |-> 0, stamp |-> 0]

Present(t) == rows[t].status # "ABSENT"

(* Prisma's @updatedAt: whatever a write changes, it takes a new stamp. *)
Save(t, r) ==
    /\ rows' = [rows EXCEPT ![t] = [r EXCEPT !.stamp = clock + 1]]
    /\ clock' = clock + 1

NoWrite == UNCHANGED <<rows, clock>>

(* Operators, PCs and the cloud act only while the bound allows. *)
MayEdit == clock < MaxClock

(* The status in the WHERE of a guarded updateMany: 0 rows is a 409. *)
WhereIdOnly(t, peeked) == TRUE          \* fault: the write goes by id alone
Unmoved(t, peeked) == rows[t].status = peeked

(* ticketNo is @unique: can row t carry number n? *)
TicketFree(t, n) == \A u \in Tickets \ {t} : rows[u].ticket # n

-----------------------------------------------------------------------------
(* Requests *)

Idle == [op |-> "idle"]

(* A weighment that no page or PC has closed. *)
OpenStatuses == {"GATE_ENTRY", "FIRST_DONE"}

Request ==
    {Idle}
    \union [op : {"gross", "tare"}, t : Tickets, w : Weights,
            status : OpenStatuses, other : Nat]
    \union [op : {"lab"}, t : Tickets, result : LabResults]
    \union [op : {"push"}, t : Tickets, status : OpenStatuses \union {"ABSENT"},
            snap : [status : Statuses, dir : Directions,
                    gross : Nat, tare : Nat, net : Nat]]
    \union [op : {"fix"}, t : Tickets, id : Fixes]

Ready(q) == reqs[q] = Idle
Start(q, r) == reqs' = [reqs EXCEPT ![q] = r]
Finish(q) == reqs' = [reqs EXCEPT ![q] = Idle]

-----------------------------------------------------------------------------
(* Fault: the counter is drawn outside the transaction of the create. *)
GateEntryNoTx(t, dir, lab, held) ==
    /\ MayEdit
    /\ t \in WebTickets
    /\ ~Present(t)
    /\ counter' = counter + 1
    /\ IF TicketFree(t, counter + 1)
       THEN Save(t, [Absent EXCEPT !.status = "GATE_ENTRY", !.ticket = counter + 1])
       ELSE UNCHANGED rows /\ clock' = clock + 1
    /\ UNCHANGED <<reqs, shots, fixLog>>

(* POST /gate-entry: counter and row in one transaction, so a unique       *)
(* violation on ticketNo rolls the counter back too.                       *)
GateEntry(t, dir, lab, held) ==
    /\ MayEdit
    /\ t \in WebTickets
    /\ ~Present(t)
    /\ lab = "PENDING" => dir = "INBOUND"
    /\ held => dir = "INBOUND"
    /\ TicketFree(t, counter + 1)
    /\ counter' = counter + 1
    /\ Save(t, [Absent EXCEPT !.status = "GATE_ENTRY", !.dir = dir, !.lab = lab,
                              !.held = held, !.ticket = counter + 1,
                              !.born = clock + 1])
    /\ UNCHANGED <<reqs, shots, fixLog>>

(* Which leg is this?  Gross comes first inbound and second outbound. *)
FirstOp(dir) == IF dir = "INBOUND" THEN "gross" ELSE "tare"

EitherTime(op, r) ==                    \* fault: the direction alone decides
    r.status \in OpenStatuses /\ op = FirstOp(r.dir)
FirstLeg(op, r) == r.status = "GATE_ENTRY" /\ op = FirstOp(r.dir)
SecondLeg(op, r) == r.status = "FIRST_DONE" /\ op # FirstOp(r.dir)

WeighBegin(q, t, op, w, other) ==
    /\ MayEdit
    /\ Ready(q)
    /\ FirstLeg(op, rows[t]) \/ SecondLeg(op, rows[t])
    /\ Start(q, [op |-> op, t |-> t, w |-> w, status |-> rows[t].status, other |-> other])
    /\ NoWrite
    /\ UNCHANGED <<counter, shots, fixLog>>

(* POST /:id/gross up to the await of the rule engine. *)
GrossBegin(q, t, w) == WeighBegin(q, t, "gross", w, rows[t].tare)

(* POST /:id/tare up to the await of the rule engine. *)
TareBegin(q, t, w) == WeighBegin(q, t, "tare", w, rows[t].gross)

(* "Gross weight must exceed tare weight", checked on the second leg. *)
NoNetCheck(r, net) == TRUE              \* fault: the check is missing
NetPositive(r, net) == r.status = "FIRST_DONE" => net > 0

(* updateMany where {id, status: peek.status}: 0 rows is a 409.  The net   *)
(* weight comes from the other weight as it was peeked.                    *)
WeighCommit(q, r, weighed, net) ==
    /\ NetPositive(r, net)
    /\ \/ /\ Unmoved(r.t, r.status)
          /\ Save(r.t, [weighed EXCEPT
                          !.status = IF r.status = "GATE_ENTRY" THEN "FIRST_DONE" ELSE "COMPLETE",
                          !.net = IF r.status = "GATE_ENTRY" THEN @ ELSE net,
                          !.synced = FALSE])
          /\ shots' = shots \union {r.t}
       \/ /\ ~Unmoved(r.t, r.status)
          /\ NoWrite
          /\ UNCHANGED shots
    /\ Finish(q)
    /\ UNCHANGED <<counter, fixLog>>

GrossCommit(q) ==
    LET r == reqs[q] IN
    /\ r.op = "gross"
    /\ WeighCommit(q, r, [rows[r.t] EXCEPT !.gross = r.w], r.w - r.other)

TareCommit(q) ==
    LET r == reqs[q] IN
    /\ r.op = "tare"
    /\ WeighCommit(q, r, [rows[r.t] EXCEPT !.tare = r.w], r.other - r.w)

(* The early returns after the peek: the rule engine wants a PIN or a      *)
(* confirmation, gross does not exceed tare, ethanol fields are missing.   *)
(* A crash of the server ends a request the same way.                      *)
Refuse(q) ==
    /\ ~Ready(q)
    /\ Finish(q)
    /\ NoWrite
    /\ UNCHANGED <<counter, shots, fixLog>>

(* captureSnapshots(...).then(update photos): a late write that only       *)
(* touches updatedAt, or fails and is swallowed.                           *)
PhotoSaved(t) ==
    /\ t \in shots
    /\ shots' = shots \ {t}
    /\ Save(t, rows[t])
    /\ UNCHANGED <<counter, reqs, fixLog>>

PhotoLost(t) ==
    /\ t \in shots
    /\ shots' = shots \ {t}
    /\ NoWrite
    /\ UNCHANGED <<counter, reqs, fixLog>>

-----------------------------------------------------------------------------
(* POST /:id/lab: the checks are on the row found, the update is by id.    *)
LabBegin(q, t, result) ==
    /\ MayEdit
    /\ Ready(q)
    /\ Present(t)
    /\ rows[t].dir = "INBOUND"
    /\ rows[t].status # "CANCELLED"
    /\ rows[t].lab = "PENDING"
    /\ Start(q, [op |-> "lab", t |-> t, result |-> result])
    /\ NoWrite
    /\ UNCHANGED <<counter, shots, fixLog>>

LabCommit(q) ==
    LET r == reqs[q] IN
    /\ r.op = "lab"
    /\ Save(r.t, [rows[r.t] EXCEPT !.lab = r.result, !.synced = FALSE])
    /\ Finish(q)
    /\ UNCHANGED <<counter, shots, fixLog>>

-----------------------------------------------------------------------------
(* POST /push, the camelCase endpoint for PCs. *)

(* Weighments as a PC knows them: weights appear leg by leg and net is     *)
(* gross minus tare.                                                       *)
Snap(status, dir, gross, tare, net) ==
    [status |-> status, dir |-> dir, gross |-> gross, tare |-> tare, net |-> net]

PcSnaps ==
    {Snap(s, d, 0, 0, 0) : s \in {"GATE_ENTRY", "CANCELLED"}, d \in Directions}
    \union {Snap("FIRST_DONE", "INBOUND", w, 0, 0) : w \in Weights}
    \union {Snap("FIRST_DONE", "OUTBOUND", 0, w, 0) : w \in Weights}
    \union {Snap("COMPLETE", d, w[1], w[2], w[1] - w[2]) :
              d \in Directions, w \in {x \in Weights \X Weights : x[1] > x[2]}}

ValidTransitions(status) ==
    CASE status = "GATE_ENTRY" -> {"FIRST_DONE", "COMPLETE", "CANCELLED"}
      [] status = "FIRST_DONE" -> {"COMPLETE", "CANCELLED"}
      [] OTHER -> {}

(* A push that repeats the status is written through only while the ticket *)
(* is open; a final one is acked (same weights) or refused, never written. *)
Replayable(status) == status \in OpenStatuses

(* `x ? parseFloat(x) : undefined`: an absent weight leaves the column.    *)
Merge(new, old) == IF new = 0 THEN old ELSE new

PcPushBegin(q, t, p) ==
    /\ MayEdit
    /\ Ready(q)
    /\ t \in PushTickets
    /\ Present(t) \/ t \notin WebTickets
    /\ Present(t) => /\ p.dir = rows[t].dir
                     /\ \/ p.status = rows[t].status /\ Replayable(p.status)
                        \/ p.status \in ValidTransitions(rows[t].status)
    /\ Start(q, [op |-> "push", t |-> t, status |-> rows[t].status, snap |-> p])
    /\ NoWrite
    /\ UNCHANGED <<counter, shots, fixLog>>

(* Create when the row was absent (a concurrent create is a unique         *)
(* violation), otherwise updateMany where {localId, status}.  Neither the  *)
(* update nor anything after it touches cloudSynced.                       *)
PcPushCommit(q) ==
    LET r == reqs[q]
        old == rows[r.t]
        base == IF old.status = "ABSENT"
                THEN [old EXCEPT !.dir = r.snap.dir, !.born = clock + 1,
                                 !.lab = "PENDING", !.held = (r.snap.dir = "INBOUND")]
                ELSE old
    IN
    /\ r.op = "push"
    /\ \/ /\ Unmoved(r.t, r.status)
          /\ Save(r.t, [base EXCEPT !.status = r.snap.status,
                                    !.gross = Merge(r.snap.gross, @),
                                    !.tare = Merge(r.snap.tare, @),
                                    !.net = Merge(r.snap.net, @)])
       \/ /\ ~Unmoved(r.t, r.status)
          /\ NoWrite
    /\ Finish(q)
    /\ UNCHANGED <<counter, shots, fixLog>>

-----------------------------------------------------------------------------
(* POST /wb-push, the relay: an unconditional upsert by localId with the   *)
(* status and lab result of the payload, which the PC stored when it       *)
(* queued it: at its gate entry, at its second weight, at a lab result.    *)
(* The PC numbers its own tickets; a unique violation on ticketNo is       *)
(* caught and the item skipped.                                            *)
WbPush(t, p, lab, n) ==
    /\ MayEdit
    /\ t \in PcTickets
    /\ p.status # "CANCELLED"
    /\ p.status = "FIRST_DONE" => lab # "PENDING"
    /\ Present(t) => p.dir = rows[t].dir /\ rows[t].ticket \in {0, n}
    /\ TicketFree(t, n)
    /\ Save(t, [rows[t] EXCEPT !.status = p.status, !.dir = p.dir,
                               !.lab = lab, !.ticket = n,
                               !.gross = Merge(p.gross, @), !.tare = Merge(p.tare, @),
                               !.net = Merge(p.net, @),
                               !.held = IF Present(t) THEN @ ELSE p.dir = "INBOUND",
                               !.born = IF Present(t) THEN @ ELSE clock + 1,
                               !.synced = FALSE])
    /\ UNCHANGED <<counter, reqs, shots, fixLog>>

-----------------------------------------------------------------------------
(* POST /correction: find the row, drop the ids already in the log, then   *)
(* update and log in one transaction.                                      *)
CorrectionBegin(q, t, id) ==
    /\ MayEdit
    /\ Ready(q)
    /\ Present(t)
    /\ id \notin fixLog
    /\ Start(q, [op |-> "fix", t |-> t, id |-> id])
    /\ NoWrite
    /\ UNCHANGED <<counter, shots, fixLog>>

(* correctionId is the log's primary key: a second insert of the same id   *)
(* aborts the transaction with the row update in it.                       *)
CorrectionCommit(q) ==
    LET r == reqs[q] IN
    /\ r.op = "fix"
    /\ \/ /\ r.id \notin fixLog
          /\ fixLog' = fixLog \union {r.id}
          /\ Save(r.t, [rows[r.t] EXCEPT
                          !.status = IF r.id \in CancelFixes THEN "CANCELLED" ELSE @,
                          !.held = IF r.id \in PoFixes THEN FALSE ELSE @,
                          !.synced = FALSE])
       \/ /\ r.id \in fixLog
          /\ NoWrite
          /\ UNCHANGED fixLog
    /\ Finish(q)
    /\ UNCHANGED <<counter, shots>>

-----------------------------------------------------------------------------
FactoryInit ==
    /\ rows = [t \in Tickets |-> Absent]
    /\ counter = 0
    /\ clock = 0
    /\ reqs = [q \in Requests |-> Idle]
    /\ shots = {}
    /\ fixLog = {}

WebStep(q) ==
    \/ \E t \in Tickets, w \in Weights : GrossBegin(q, t, w) \/ TareBegin(q, t, w)
    \/ \E t \in Tickets, result \in LabResults : LabBegin(q, t, result)
    \/ \E t \in Tickets, id \in Fixes : CorrectionBegin(q, t, id)
    \/ \E t \in Tickets, p \in PcSnaps : PcPushBegin(q, t, p)
    \/ GrossCommit(q)
    \/ TareCommit(q)
    \/ LabCommit(q)
    \/ CorrectionCommit(q)
    \/ PcPushCommit(q)
    \/ Refuse(q)

RowStep(t) ==
    \/ \E dir \in Directions, lab \in {"PENDING", "NONE"}, held \in BOOLEAN :
          GateEntry(t, dir, lab, held)
    \/ \E p \in PcSnaps, lab \in LabResults \union {"PENDING"}, n \in 1..Cardinality(Tickets) :
          WbPush(t, p, lab, n)
    \/ PhotoSaved(t)
    \/ PhotoLost(t)

FactoryNext ==
    \/ \E q \in Requests : WebStep(q)
    \/ \E t \in Tickets : RowStep(t)

FactorySpec == FactoryInit /\ [][FactoryNext]_factoryVars

-----------------------------------------------------------------------------
(* Type invariant. *)
FactoryTypeOK ==
    /\ rows \in [Tickets -> Row]
    /\ counter \in Nat
    /\ clock \in Nat
    /\ reqs \in [Requests -> Request]
    /\ shots \subseteq Tickets
    /\ fixLog \subseteq Fixes

(* Rows that only the factory's own pages and the cloud's corrections      *)
(* write: a PC never learns their localId.                                 *)
FactoryOwned == WebTickets \ (PcTickets \union PushTickets)

(* A completed ticket's net weight is its gross less its tare, although    *)
(* net is computed from a weight read before an await: the status in the   *)
(* WHERE of the second leg is what keeps the first leg's weight current.   *)
NetIsGrossLessTare ==
    \A t \in FactoryOwned :
        rows[t].status = "COMPLETE" =>
            /\ rows[t].tare > 0
            /\ rows[t].net > 0
            /\ rows[t].net + rows[t].tare = rows[t].gross

(* What makes it so.  An open ticket has exactly the weights of the legs    *)
(* it went through; a leg still in flight was the right one when it was    *)
(* peeked, the row never falls back behind it, and as long as the row has  *)
(* not moved, the other weight it remembers is the row's.                  *)
OpenLegs ==
    \A t \in FactoryOwned :
        /\ rows[t].status \in {"ABSENT", "GATE_ENTRY"} => rows[t].gross = 0 /\ rows[t].tare = 0
        /\ rows[t].status = "FIRST_DONE" =>
              IF rows[t].dir = "INBOUND" THEN rows[t].gross > 0 /\ rows[t].tare = 0
              ELSE rows[t].tare > 0 /\ rows[t].gross = 0

PeekStillHolds(r) ==
    /\ Present(r.t)
    /\ r.status = "GATE_ENTRY" => r.op = FirstOp(rows[r.t].dir)
    /\ r.status = "FIRST_DONE" =>
          /\ r.op # FirstOp(rows[r.t].dir)
          /\ rows[r.t].status # "GATE_ENTRY"
          /\ Unmoved(r.t, r.status) =>
                r.other = (IF r.op = "gross" THEN rows[r.t].tare ELSE rows[r.t].gross)

LegsInOrder ==
    /\ OpenLegs
    /\ \A q \in Requests :
          /\ reqs[q].op \in {"gross", "tare"} /\ reqs[q].t \in FactoryOwned =>
                PeekStillHolds(reqs[q])
          /\ reqs[q].op = "push" => reqs[q].t \in PushTickets

(* A weight once captured is never weighed over: two operators who         *)
(* capture the same leg cannot both be recorded.                           *)
WeighedOnce ==
    [][\A t \in FactoryOwned :
          /\ rows[t].gross # 0 => rows'[t].gross = rows[t].gross
          /\ rows[t].tare # 0 => rows'[t].tare = rows[t].tare]_factoryVars

(* A cancelled ticket stays cancelled, whichever requests were in flight   *)
(* when the cancellation arrived, /push retries included.                  *)
CancelledForGood ==
    [][\A t \in Tickets \ PcTickets :
          rows[t].status = "CANCELLED" => rows'[t].status = "CANCELLED"]_factoryVars

(* The weights of a COMPLETE ticket change through no PC or page: /push    *)
(* answers 409 and points at the audited correction endpoint.              *)
FinalWeightsFrozen ==
    [][\A t \in Tickets \ PcTickets :
          rows[t].status = "COMPLETE" =>
              /\ rows'[t].gross = rows[t].gross
              /\ rows'[t].tare = rows[t].tare
              /\ rows'[t].net = rows[t].net]_factoryVars

(* The gate's ticket series has no gap: every number drawn from the        *)
(* counter is on a row of the gate, also when the relay already holds the  *)
(* number that the counter wants next and the create fails.                *)
TicketsGapless ==
    \A n \in 1..counter : \E t \in WebTickets : rows[t].ticket = n
=============================================================================
