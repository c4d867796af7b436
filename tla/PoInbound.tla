----------------------------- MODULE PoInbound ------------------------------
(***************************************************************************)
(* The cloud receiving COMPLETE inbound trucks against one purchase order  *)
(* (backend/src/routes/weighbridge/push.ts, pre-phase.ts,                  *)
(* handlers/poInbound.ts, shared.ts) next to the orphan-GRN watchdog       *)
(* (backend/src/services/orphanGrnWatchdog.ts).                            *)
(*                                                                         *)
(* The order has one line with an inventory item and every truck carries   *)
(* Load.  A push is a chain of awaits: several run at the same time, each  *)
(* can fail, and a restart ends them all.  Transactions run at Postgres's  *)
(* default READ COMMITTED: what one reads may be outdated when it commits. *)
(* The row lock on the order line serialises everything from the update of *)
(* the line to the commit.                                                 *)
(***************************************************************************)
EXTENDS Integers, FiniteSets

CONSTANTS
    Trucks,         \* COMPLETE weighments of the factory, by localId
    Runs,           \* pushes the cloud handles at the same time
    NoTruck,
    Load,           \* net weight of a truck, in the unit of the line
    Ordered,        \* quantity of the line
    Caps,           \* the truckCap an order may have, 0 for none
    Open,           \* dealType OPEN, a running account
    Fuel,           \* a fuel order: its trucks have no GrainTruck row
    Desk,           \* the receiving desk opens PARTIAL receipts
    Overlap,        \* a truck may be pushed while a push of it is running
    MaxGrns,        \* bound on the receipts
    MaxFailures     \* bound on failed writes and restarts

ASSUME TruckAssumption == NoTruck \notin Trucks
ASSUME LoadAssumption == Load \in Nat \ {0}
ASSUME OrderAssumption == Ordered \in Nat /\ Caps \subseteq Nat
ASSUME FlagsAssumption == {Open, Fuel, Desk, Overlap} \subseteq BOOLEAN
ASSUME GrnBoundAssumption == MaxGrns \in Nat /\ MaxFailures \in Nat

VARIABLES
    grns,       \* GoodsReceipt
    line,       \* the POLine: receivedQty and pendingQty
    status,     \* of the PurchaseOrder
    cap,        \* its truckCap
    moves,      \* how many StockMovements refer to each receipt
    approvals,  \* receipts with a PO_OVERAGE approval
    lab,        \* lab result of each truck at the factory
    quarantine, \* trucks whose GrainTruck row is in quarantine
    acked,      \* trucks in some processedWbIds
    issues,     \* trucks named by a PlantIssue
    callbacks,  \* trucks whose PlantIssue is still to be written
    runs,       \* the pushes in progress
    gaps,       \* receipts the watchdog is about to heal
    failures

poVars == <<grns, line, status, cap, moves, approvals, lab, quarantine, acked,
            issues, callbacks, runs, gaps, failures>>
tables == <<grns, line, status, cap, moves, approvals>>
notices == <<acked, issues, callbacks>>

-----------------------------------------------------------------------------
Grns == 1..MaxGrns
Receipt == [status : {"NONE", "PARTIAL", "CONFIRMED"}, truck : Trucks \union {NoTruck},
            old : BOOLEAN]

ReceiptsOf(t) == {g \in Grns : grns[g].truck = t}
Confirmed == {g \in Grns : grns[g].status = "CONFIRMED"}
Partial == {g \in Grns : grns[g].status = "PARTIAL"}
Unused == {g \in Grns : grns[g].status = "NONE"}

Receivable == status \in {"APPROVED", "PARTIAL_RECEIVED"} \/ (Open /\ status = "RECEIVED")

IdleRun == [pc |-> "idle", t |-> NoTruck, lab |-> "PENDING", seen |-> 0, grn |-> 0]
Busy(t) == \E r \in Runs : runs[r].t = t
Goto(r, run) == runs' = [runs EXCEPT ![r] = run]
MayFail == failures < MaxFailures

-----------------------------------------------------------------------------
(* Results: every way a push ends acks its truck. *)
Ack(r) ==
    /\ Goto(r, IdleRun)
    /\ acked' = acked \union {runs[r].t}

(* A SKIPPED result, or a throw out of the handler, is acked too; the      *)
(* PlantIssue that tells of it is written by a setImmediate callback.      *)
LeftUnacked(r) ==                       \* fault: only results that succeed
    /\ Goto(r, IdleRun)
    /\ UNCHANGED <<acked, callbacks, issues>>
AckWithIssue(r) ==
    /\ Ack(r)
    /\ callbacks' = callbacks \union {runs[r].t}
    /\ UNCHANGED issues

-----------------------------------------------------------------------------
(* The loop of push.ts takes a truck: the pre-phase brings the lab result  *)
(* to the truck's row, checkWbDuplicate looks for "WB:" and its localId in *)
(* the remarks of the receipts.                                            *)
NoDedup(t) == FALSE                     \* fault: receipts are not looked up
Duplicate(t) == ReceiptsOf(t) # {}

PrePhase(t) ==
    quarantine' = IF Fuel \/ lab[t] = "PENDING" THEN quarantine
                  ELSE IF lab[t] = "FAIL" THEN quarantine \union {t}
                  ELSE quarantine \ {t}

Push(r, t) ==
    /\ runs[r] = IdleRun
    /\ Busy(t) => Overlap
    /\ PrePhase(t)
    /\ \/ /\ Duplicate(t)
          /\ acked' = acked \union {t}
          /\ UNCHANGED runs
       \/ /\ ~Duplicate(t)
          /\ Goto(r, [IdleRun EXCEPT !.pc = "fresh", !.t = t, !.lab = lab[t]])
          /\ UNCHANGED acked
    /\ UNCHANGED <<tables, lab, issues, callbacks, gaps, failures>>

(* The pre-phase or the dedup throws, before or after the truck's row was   *)
(* written.                                                                *)
PushThrows(r, t) ==
    /\ runs[r] = IdleRun
    /\ Busy(t) => Overlap
    /\ MayFail
    /\ failures' = failures + 1
    /\ PrePhase(t) \/ UNCHANGED quarantine
    /\ acked' = acked \union {t}
    /\ callbacks' = callbacks \union {t}
    /\ UNCHANGED <<tables, lab, issues, runs, gaps>>

(* handlePoInbound reads the order, outside of the transaction. *)
ReadOrder(r) ==
    LET t == runs[r].t IN
    /\ runs[r].pc = "fresh"
    /\ \/ /\ ~Receivable
          /\ AckWithIssue(r)
          /\ UNCHANGED quarantine
       \/ /\ Receivable /\ runs[r].lab = "FAIL"
          /\ quarantine' = IF Fuel THEN quarantine ELSE quarantine \union {t}
          /\ Ack(r)
          /\ UNCHANGED <<issues, callbacks>>
       \/ /\ Receivable /\ runs[r].lab # "FAIL"
          /\ Goto(r, [runs[r] EXCEPT !.pc = "read", !.seen = line.received])
          /\ UNCHANGED <<quarantine, notices>>
    /\ UNCHANGED <<tables, lab, gaps, failures>>

(* The first reads of the transaction: the truck cap, and a PARTIAL        *)
(* receipt to fill.                                                        *)
OverCap == cap > 0 /\ Cardinality(Confirmed) > cap      \* fault: off by one
CapReached == cap > 0 /\ Cardinality(Confirmed) >= cap

TxRead(r) ==
    /\ runs[r].pc = "read"
    /\ \/ /\ CapReached
          /\ AckWithIssue(r)
       \/ /\ ~CapReached
          /\ \E g \in (IF Partial = {} THEN {0} ELSE Partial) :
                Goto(r, [runs[r] EXCEPT !.pc = "tx", !.grn = g])
          /\ UNCHANGED notices
    /\ UNCHANGED <<tables, lab, quarantine, gaps, failures>>

(* receivedQty and pendingQty: atomic increment and decrement, and the     *)
(* clamp at 0 that ends the transaction.                                   *)
Unclamped(run) ==                       \* fault: no clamp
    [received |-> line.received + Load, pending |-> line.pending - Load]
StaleAdd(run) ==                        \* fault: from the values read before
    [received |-> run.seen + Load,
     pending |-> IF run.seen + Load > Ordered THEN 0 ELSE Ordered - (run.seen + Load)]
Added(run) ==
    [received |-> line.received + Load,
     pending |-> IF Load > line.pending THEN 0 ELSE line.pending - Load]

StatusAfter(confirmed, pending) ==
    IF cap > 0
    THEN IF Cardinality(confirmed) >= cap THEN "RECEIVED" ELSE "PARTIAL_RECEIVED"
    ELSE IF pending > 0 THEN "PARTIAL_RECEIVED"
    ELSE IF Open THEN status ELSE "RECEIVED"

(* The PARTIAL receipt found is updated by id, whoever filled it by now. *)
RefillNew(run) == {g \in Unused : \A h \in Unused : g <= h}
Target(run) == IF run.grn # 0 THEN {run.grn} ELSE RefillNew(run)

TxCommit(r) ==
    LET run == runs[r] IN
    /\ run.pc = "tx"
    /\ \E g \in Target(run) :
          /\ grns' = [grns EXCEPT ![g] = [@ EXCEPT !.status = "CONFIRMED", !.truck = run.t]]
          /\ line' = Added(run)
          /\ status' = StatusAfter(Confirmed \union {g}, line'.pending)
          /\ Goto(r, [run EXCEPT !.pc = "moving", !.grn = g])
    /\ UNCHANGED <<cap, moves, approvals, lab, quarantine, notices, gaps, failures>>

(* After the commit: the GrainTruck row, and syncToInventory, a transaction *)
(* of its own.  When a write fails the handler goes on; the PlantIssue of   *)
(* logSyncFailure names the receipt, no truck.                              *)
Moved(g) == moves' = [moves EXCEPT ![g] = @ + 1]

SyncStock(r) ==
    /\ runs[r].pc = "moving"
    /\ Goto(r, [runs[r] EXCEPT !.pc = "moved"])
    /\ quarantine' = IF runs[r].lab = "PASS" /\ ~Fuel THEN quarantine \ {runs[r].t}
                     ELSE quarantine
    /\ \/ /\ Moved(runs[r].grn)
          /\ UNCHANGED failures
       \/ /\ MayFail
          /\ failures' = failures + 1
          /\ UNCHANGED moves
    /\ UNCHANGED <<grns, line, status, cap, approvals, lab, notices, gaps>>

(* More than 5% over the ordered quantity, by what the order read said. *)
NeedsApproval(seen) == ~Open /\ (seen + Load - Ordered) * 20 > Ordered

Done(r) ==
    /\ runs[r].pc = "moved"
    /\ \/ /\ approvals' = IF NeedsApproval(runs[r].seen) THEN approvals \union {runs[r].grn}
                          ELSE approvals
          /\ UNCHANGED failures
       \/ /\ MayFail /\ NeedsApproval(runs[r].seen)
          /\ failures' = failures + 1
          /\ UNCHANGED approvals
    /\ Ack(r)
    /\ UNCHANGED <<grns, line, status, cap, moves, lab, quarantine, issues, callbacks, gaps>>

(* A query outside of any catch throws: before the commit, when the         *)
(* transaction rolls back, or after it, when the GrainTruck row is looked   *)
(* up; that push does not come to the stock movement.                       *)
LooksUpTruck(run) == run.pc = "moving" /\ run.lab = "PASS" /\ ~Fuel

HandlerThrows(r) ==
    /\ runs[r].pc \in {"fresh", "read", "tx"} \/ LooksUpTruck(runs[r])
    /\ MayFail
    /\ failures' = failures + 1
    /\ AckWithIssue(r)
    /\ UNCHANGED <<tables, lab, quarantine, gaps>>

-----------------------------------------------------------------------------
(* The setImmediate callback; a failing create is only logged. *)
IssueSaved(t) ==
    /\ t \in callbacks
    /\ callbacks' = callbacks \ {t}
    /\ issues' = issues \union {t}
    /\ UNCHANGED <<tables, lab, quarantine, acked, runs, gaps, failures>>

IssueLost(t) ==
    /\ t \in callbacks
    /\ MayFail
    /\ failures' = failures + 1
    /\ callbacks' = callbacks \ {t}
    /\ UNCHANGED <<tables, lab, quarantine, acked, issues, runs, gaps>>

(* The cloud restarts. *)
Restart ==
    /\ MayFail
    /\ failures' = failures + 1
    /\ runs' = [r \in Runs |-> IdleRun]
    /\ callbacks' = {}
    /\ gaps' = {}
    /\ UNCHANGED <<tables, lab, quarantine, acked, issues>>

(* The lab's result reaches the factory's row, at any time. *)
LabResult(t, result) ==
    /\ lab[t] = "PENDING"
    /\ lab' = [lab EXCEPT ![t] = result]
    /\ UNCHANGED <<tables, quarantine, notices, runs, gaps, failures>>

(* POST /goods-receipts/partial/:poId, "paid and awaiting". *)
OpenPartial ==
    /\ Desk
    /\ status \in {"APPROVED", "PARTIAL_RECEIVED"}
    /\ Partial = {}
    /\ \E g \in RefillNew(IdleRun) :
          grns' = [grns EXCEPT ![g] = [status |-> "PARTIAL", truck |-> NoTruck, old |-> TRUE]]
    /\ UNCHANGED <<line, status, cap, moves, approvals, lab, quarantine, notices, runs, gaps,
                   failures>>

-----------------------------------------------------------------------------
(* The watchdog.  30 minutes pass since a receipt was created: no push     *)
(* takes that long.  A PARTIAL receipt was created long before it is       *)
(* filled.                                                                 *)
Age(g) ==
    /\ g \in Confirmed
    /\ ~grns[g].old
    /\ \A r \in Runs : runs[r].grn # g
    /\ grns' = [grns EXCEPT ![g].old = TRUE]
    /\ UNCHANGED <<line, status, cap, moves, approvals, lab, quarantine, notices, runs, gaps,
                   failures>>

(* findOrphans and ensurePlantIssue, for trucks completed 30 minutes ago. *)
FlagOrphan(t) ==
    /\ ReceiptsOf(t) = {}
    /\ t \notin issues
    /\ issues' = issues \union {t}
    /\ UNCHANGED <<tables, lab, quarantine, acked, callbacks, runs, gaps, failures>>

NoGrace == {g \in Confirmed : moves[g] = 0}     \* fault: no 30 minutes
Fresh == {g \in Confirmed : ~grns[g].old /\ moves[g] = 0}   \* fault: > for <
StockGaps == {g \in Confirmed : grns[g].old /\ moves[g] = 0}

FindStockGaps ==
    /\ gaps = {}
    /\ StockGaps # {}
    /\ gaps' = StockGaps
    /\ UNCHANGED <<tables, lab, quarantine, notices, runs, failures>>

HealStockGap(g) ==
    /\ g \in gaps
    /\ gaps' = gaps \ {g}
    /\ \/ Moved(g) /\ UNCHANGED failures
       \/ MayFail /\ failures' = failures + 1 /\ UNCHANGED moves
    /\ UNCHANGED <<grns, line, status, cap, approvals, lab, quarantine, notices, runs>>

-----------------------------------------------------------------------------
PoInit ==
    /\ grns = [g \in Grns |-> [status |-> "NONE", truck |-> NoTruck, old |-> FALSE]]
    /\ line = [received |-> 0, pending |-> Ordered]
    /\ status = "APPROVED"
    /\ cap \in Caps
    /\ moves = [g \in Grns |-> 0]
    /\ approvals = {}
    /\ lab = [t \in Trucks |-> "PENDING"]
    /\ quarantine = {}
    /\ acked = {}
    /\ issues = {}
    /\ callbacks = {}
    /\ runs = [r \in Runs |-> IdleRun]
    /\ gaps = {}
    /\ failures = 0

RunStep(r) == ReadOrder(r) \/ TxRead(r) \/ TxCommit(r) \/ SyncStock(r) \/ Done(r)

Watchdog ==
    \/ \E t \in Trucks : FlagOrphan(t)
    \/ FindStockGaps
    \/ \E g \in Grns : HealStockGap(g)

PoNext ==
    \/ \E r \in Runs, t \in Trucks : Push(r, t) \/ PushThrows(r, t)
    \/ \E r \in Runs : RunStep(r) \/ HandlerThrows(r)
    \/ \E t \in Trucks : IssueSaved(t) \/ IssueLost(t)
    \/ \E t \in Trucks, result \in {"PASS", "FAIL"} : LabResult(t, result)
    \/ Restart
    \/ OpenPartial
    \/ \E g \in Grns : Age(g)
    \/ Watchdog

PoSpec == PoInit /\ [][PoNext]_poVars

(* The factory pushes what is not acked, again and again (Runs only bounds *)
(* the model, the server refuses nobody); a push that is not interrupted   *)
(* goes on, callbacks run, time passes, and the watchdog keeps ticking.    *)
FairPoSpec ==
    /\ PoSpec
    /\ \A t \in Trucks : SF_poVars(t \notin acked /\ \E r \in Runs : Push(r, t))
    /\ \A r \in Runs : WF_poVars(RunStep(r))
    /\ \A g \in Grns : WF_poVars(Age(g)) /\ WF_poVars(HealStockGap(g))
    /\ \A t \in Trucks : WF_poVars(IssueSaved(t)) /\ WF_poVars(FlagOrphan(t))
    /\ WF_poVars(FindStockGaps)

-----------------------------------------------------------------------------
(* Type invariant. *)
PoTypeOK ==
    /\ grns \in [Grns -> Receipt]
    /\ line \in [received : Nat, pending : Nat]
    /\ status \in {"APPROVED", "PARTIAL_RECEIVED", "RECEIVED"}
    /\ cap \in Caps
    /\ moves \in [Grns -> Nat]
    /\ approvals \subseteq Grns
    /\ lab \in [Trucks -> {"PENDING", "PASS", "FAIL"}]
    /\ quarantine \subseteq Trucks
    /\ acked \subseteq Trucks
    /\ issues \subseteq Trucks
    /\ callbacks \subseteq Trucks
    /\ runs \in [Runs -> [pc : {"idle", "fresh", "read", "tx", "moving", "moved"},
                          t : Trucks \union {NoTruck},
                          lab : {"PENDING", "PASS", "FAIL"}, seen : Nat,
                          grn : Grns \union {0}]]
    /\ gaps \subseteq Grns
    /\ failures \in Nat

(* However often the factory sends a truck, and wherever a push of it was  *)
(* cut off, it is received at most once (docs/adr/003: handlers must be    *)
(* idempotent).                                                            *)
OneReceiptPerTruck == \A t \in Trucks : Cardinality(ReceiptsOf(t)) <= 1

(* The order line counts exactly the confirmed receipts, and what is       *)
(* pending is what it has left, never below 0: concurrent pushes add up.   *)
LineMatchesReceipts ==
    /\ line.received = Load * Cardinality(Confirmed)
    /\ line.pending = IF line.received > Ordered THEN 0 ELSE Ordered - line.received

(* Each receipt moves the stock at most once, by its push or by the        *)
(* watchdog.                                                               *)
StockMovedOnce == \A g \in Grns : moves[g] <= 1

(* The cap is counted in the transaction and nothing is locked for it       *)
(* (poInbound.ts calls that the fix of the race): pushes that overlap all   *)
(* find room.  An order goes over its cap by them only, and never by as     *)
(* many as run at the same time.                                            *)
CapNearlyRespected == cap > 0 => Cardinality(Confirmed) < cap + Cardinality(Runs)

(* Every truck ends up received, or quarantined, or before a human.        *)
EveryTruckAccounted ==
    \A t \in Trucks : <>(t \in acked /\ (ReceiptsOf(t) # {} \/ t \in issues))

(* Every confirmed receipt reaches the stock, also when its push was cut   *)
(* off between the commit and the stock movement.                          *)
EveryReceiptStocked ==
    \A g \in Grns : grns[g].status = "CONFIRMED" ~> moves[g] > 0
=============================================================================
