-------------------------- MODULE PoInbound_proofs --------------------------
(***************************************************************************)
(* Proofs about PoInbound, for any trucks, pushes, quantities, caps and    *)
(* any number of failures: types, one receipt a truck when pushes of it do *)
(* not overlap, an exact order line and one stock movement a receipt when  *)
(* the desk opens no receipts, and the truck cap but for pushes at once.   *)
(***************************************************************************)
EXTENDS PoInbound, FiniteSetTheorems, TLAPS

-----------------------------------------------------------------------------
(* Types. *)
RunType == [pc : {"idle", "fresh", "read", "tx", "moving", "moved"},
            t : Trucks \union {NoTruck}, lab : {"PENDING", "PASS", "FAIL"},
            seen : Nat, grn : Grns \union {0}]

LEMMA IdleTyped == IdleRun \in RunType
BY DEF IdleRun, RunType

LEMMA GotoTyped ==
    ASSUME PoTypeOK, NEW r \in Runs, NEW run \in RunType, Goto(r, run)
    PROVE  runs' \in [Runs -> RunType]
BY DEF PoTypeOK, Goto, RunType

(* The parts of the type that no push touches alone. *)
LEMMA RunOf ==
    ASSUME PoTypeOK, NEW r \in Runs
    PROVE  /\ runs[r] \in RunType
           /\ runs[r].t # NoTruck => runs[r].t \in Trucks
BY DEF PoTypeOK, RunType

LEMMA PushTyped ==
    ASSUME PoTypeOK, NEW r \in Runs, NEW t \in Trucks, Push(r, t)
    PROVE  PoTypeOK'
<1>1. runs' \in [Runs -> RunType]
  <2>1. [IdleRun EXCEPT !.pc = "fresh", !.t = t, !.lab = lab[t]] \in RunType
    BY DEF IdleRun, RunType, PoTypeOK
  <2>2. runs \in [Runs -> RunType]
    BY DEF PoTypeOK, RunType
  <2> QED BY <2>1, <2>2, GotoTyped DEF Push
<1>2. quarantine' \subseteq Trucks /\ acked' \subseteq Trucks
  BY DEF Push, PrePhase, PoTypeOK
<1> QED BY <1>1, <1>2 DEF Push, PoTypeOK, RunType, tables

LEMMA PushThrowsTyped ==
    ASSUME PoTypeOK, NEW r \in Runs, NEW t \in Trucks, PushThrows(r, t)
    PROVE  PoTypeOK'
<1>1. quarantine' \subseteq Trucks
  BY DEF PushThrows, PrePhase, PoTypeOK
<1> QED BY <1>1 DEF PushThrows, PoTypeOK, tables

(* A run that moves on or ends, and acks its truck. *)
LEMMA AckTyped ==
    ASSUME PoTypeOK, NEW r \in Runs, runs[r].t \in Trucks, Ack(r)
    PROVE  runs' \in [Runs -> RunType] /\ acked' \subseteq Trucks
BY IdleTyped, GotoTyped DEF Ack, PoTypeOK

LEMMA AckWithIssueTyped ==
    ASSUME PoTypeOK, NEW r \in Runs, runs[r].t \in Trucks, AckWithIssue(r)
    PROVE  /\ runs' \in [Runs -> RunType] /\ acked' \subseteq Trucks
           /\ callbacks' \subseteq Trucks /\ issues' \subseteq Trucks
BY AckTyped DEF AckWithIssue, PoTypeOK

LEMMA UnderWay ==
    ASSUME NEW r \in Runs, RunStep(r) \/ HandlerThrows(r)
    PROVE  runs[r].pc \in {"fresh", "read", "tx", "moving", "moved"}
<1>1. ReadOrder(r) => runs[r].pc = "fresh"
  BY DEF ReadOrder
<1>2. TxRead(r) => runs[r].pc = "read"
  BY DEF TxRead
<1>3. TxCommit(r) => runs[r].pc = "tx"
  BY DEF TxCommit
<1> QED BY <1>1, <1>2, <1>3 DEF RunStep, SyncStock, Done, HandlerThrows, LooksUpTruck

(* A run that is under way has a truck. *)
Manned == \A r \in Runs : runs[r].t = NoTruck => runs[r] = IdleRun

PoTyped == PoTypeOK /\ Manned

LEMMA MannedStep ==
    ASSUME PoTyped, [PoNext]_poVars
    PROVE  Manned'
<1>1. ASSUME NEW r \in Runs, NEW run, Goto(r, run), run.t = NoTruck => run = IdleRun
      PROVE  Manned'
  BY <1>1 DEF Goto, Manned, PoTyped, PoTypeOK
<1>2. CASE UNCHANGED runs
  BY <1>2 DEF Manned, PoTyped
<1>3. ASSUME NEW r \in Runs, NEW t \in Trucks, Push(r, t)
      PROVE  Manned'
  BY <1>1, <1>2, <1>3, TruckAssumption DEF Push, IdleRun
<1>4. ASSUME NEW r \in Runs, RunStep(r) \/ HandlerThrows(r)
      PROVE  Manned'
  <2>1. runs[r] # IdleRun
    <3>1. runs[r].pc \in {"fresh", "read", "tx", "moving", "moved"}
      BY <1>4, UnderWay
    <3> QED BY <3>1 DEF IdleRun
  <2>2. runs[r].t # NoTruck
    BY <2>1 DEF PoTyped, Manned
  <2>3. runs[r] \in RunType
    BY RunOf DEF PoTyped
  <2>4. ASSUME NEW run, Goto(r, run), run = IdleRun \/ run.t = runs[r].t
        PROVE  Manned'
    BY <1>1, <2>2, <2>4
  <2>5. CASE ReadOrder(r)
    BY <2>3, <2>4, <2>5 DEF ReadOrder, AckWithIssue, Ack, RunType
  <2>6. CASE TxRead(r)
    BY <2>3, <2>4, <2>6 DEF TxRead, AckWithIssue, Ack, RunType
  <2>7. CASE TxCommit(r)
    BY <2>3, <2>4, <2>7 DEF TxCommit, RunType
  <2>8. CASE SyncStock(r)
    BY <2>3, <2>4, <2>8 DEF SyncStock, RunType
  <2>9. CASE Done(r) \/ HandlerThrows(r)
    BY <2>4, <2>9 DEF Done, HandlerThrows, AckWithIssue, Ack
  <2> QED BY <1>4, <2>5, <2>6, <2>7, <2>8, <2>9 DEF RunStep
<1>5. CASE Restart
  BY <1>5 DEF Restart, Manned
<1> QED BY <1>2, <1>3, <1>4, <1>5 DEF PoTyped, PoNext, poVars, PushThrows, IssueSaved, IssueLost,
        LabResult, OpenPartial, Age, Watchdog, FlagOrphan, FindStockGaps, HealStockGap

LEMMA ReadOrderTyped ==
    ASSUME PoTyped, NEW r \in Runs, runs[r].t \in Trucks, ReadOrder(r)
    PROVE  PoTypeOK'
<1> USE DEF PoTyped
<1>1. runs[r] \in RunType /\ line.received \in Nat
  BY RunOf DEF PoTypeOK
<1>2. UNCHANGED <<tables, lab, gaps, failures>>
  BY DEF ReadOrder
<1>3. CASE AckWithIssue(r) /\ UNCHANGED quarantine
  BY <1>2, <1>3, AckWithIssueTyped DEF PoTypeOK, tables, RunType
<1>4. CASE /\ quarantine' \in {quarantine, quarantine \union {runs[r].t}}
           /\ Ack(r) /\ UNCHANGED <<issues, callbacks>>
  BY <1>2, <1>4, AckTyped DEF PoTypeOK, tables, RunType
<1>5. CASE /\ Goto(r, [runs[r] EXCEPT !.pc = "read", !.seen = line.received])
           /\ UNCHANGED <<quarantine, notices>>
  <2>1. [runs[r] EXCEPT !.pc = "read", !.seen = line.received] \in RunType
    BY <1>1 DEF RunType
  <2>2. runs' \in [Runs -> RunType]
    BY <1>5, <2>1, GotoTyped
  <2> QED BY <1>2, <1>5, <2>2 DEF PoTypeOK, tables, notices, RunType
<1> QED BY <1>3, <1>4, <1>5 DEF ReadOrder

LEMMA TxReadTyped ==
    ASSUME PoTyped, NEW r \in Runs, runs[r].t \in Trucks, TxRead(r)
    PROVE  PoTypeOK'
<1> USE DEF PoTyped
<1>1. runs[r] \in RunType
  BY RunOf
<1>2. UNCHANGED <<tables, lab, quarantine, gaps, failures>>
  BY DEF TxRead
<1>3. CASE AckWithIssue(r)
  BY <1>2, <1>3, AckWithIssueTyped DEF PoTypeOK, tables, RunType
<1>4. ASSUME NEW g \in Grns \union {0}, UNCHANGED notices,
             Goto(r, [runs[r] EXCEPT !.pc = "tx", !.grn = g])
      PROVE  PoTypeOK'
  <2>1. [runs[r] EXCEPT !.pc = "tx", !.grn = g] \in RunType
    BY <1>1 DEF RunType
  <2>2. runs' \in [Runs -> RunType]
    BY <1>4, <2>1, GotoTyped
  <2> QED BY <1>2, <1>4, <2>2 DEF PoTypeOK, tables, notices, RunType
<1> QED BY <1>3, <1>4 DEF TxRead, Partial

(* What a commit does, whichever receipt it takes. *)
CommitTo(r, g) ==
    /\ g \in Grns
    /\ grns' = [grns EXCEPT ![g] = [@ EXCEPT !.status = "CONFIRMED", !.truck = runs[r].t]]
    /\ line' = Added(runs[r])
    /\ status' = StatusAfter(Confirmed \union {g}, line'.pending)
    /\ Goto(r, [runs[r] EXCEPT !.pc = "moving", !.grn = g])
    /\ UNCHANGED <<cap, moves, approvals, lab, quarantine, notices, gaps, failures>>

LEMMA CommitPicks ==
    ASSUME PoTyped, NEW r \in Runs, TxCommit(r)
    PROVE  \E g \in Grns : /\ CommitTo(r, g) /\ runs[r].pc = "tx"
                           /\ g = runs[r].grn \/ (runs[r].grn = 0 /\ g \in Unused)
<1>1. runs[r].grn \in Grns \union {0}
  BY RunOf DEF PoTyped, RunType
<1>2. PICK g \in Target(runs[r]) :
          /\ grns' = [grns EXCEPT ![g] = [@ EXCEPT !.status = "CONFIRMED", !.truck = runs[r].t]]
          /\ line' = Added(runs[r])
          /\ status' = StatusAfter(Confirmed \union {g}, line'.pending)
          /\ Goto(r, [runs[r] EXCEPT !.pc = "moving", !.grn = g])
  BY DEF TxCommit
<1>3. /\ g \in Grns
      /\ g = runs[r].grn \/ (runs[r].grn = 0 /\ g \in Unused)
  BY <1>1, <1>2 DEF Target, RefillNew, Unused
<1> QED BY <1>2, <1>3 DEF CommitTo, TxCommit

LEMMA CommitTyped ==
    ASSUME PoTyped, NEW r \in Runs, runs[r].t \in Trucks, NEW g \in Grns, CommitTo(r, g)
    PROVE  PoTypeOK'
<1> USE DEF PoTyped
<1>1. runs' \in [Runs -> RunType]
  <2>1. [runs[r] EXCEPT !.pc = "moving", !.grn = g] \in RunType
    BY RunOf DEF RunType
  <2> QED BY <2>1, GotoTyped DEF CommitTo
<1>2. grns' \in [Grns -> Receipt]
  <2>1. [grns[g] EXCEPT !.status = "CONFIRMED", !.truck = runs[r].t] \in Receipt
    <3>1. grns[g] \in Receipt
      BY DEF PoTypeOK
    <3> QED BY <3>1 DEF Receipt
  <2>2. grns' = [grns EXCEPT ![g] = [grns[g] EXCEPT !.status = "CONFIRMED", !.truck = runs[r].t]]
    BY DEF CommitTo
  <2> QED BY <2>1, <2>2 DEF PoTypeOK
<1>3. line' \in [received : Nat, pending : Nat]
  <2>1. line.received \in Nat /\ line.pending \in Nat /\ Load \in Nat
    BY LoadAssumption DEF PoTypeOK
  <2>2. line.received + Load \in Nat
    BY <2>1
  <2>3. (IF Load > line.pending THEN 0 ELSE line.pending - Load) \in Nat
    BY <2>1
  <2> QED BY <2>2, <2>3 DEF CommitTo, Added
<1>4. status' \in {"APPROVED", "PARTIAL_RECEIVED", "RECEIVED"}
  BY DEF CommitTo, StatusAfter, PoTypeOK
<1> QED BY <1>1, <1>2, <1>3, <1>4 DEF PoTypeOK, CommitTo, notices, RunType

LEMMA MovedTyped ==
    ASSUME PoTypeOK, NEW g \in Grns, Moved(g)
    PROVE  moves' \in [Grns -> Nat]
BY DEF Moved, PoTypeOK

LEMMA SyncStockTyped ==
    ASSUME PoTyped, NEW r \in Runs, runs[r].grn \in Grns, SyncStock(r)
    PROVE  PoTypeOK'
<1> USE DEF PoTyped
<1>1. runs' \in [Runs -> RunType]
  <2>1. [runs[r] EXCEPT !.pc = "moved"] \in RunType
    BY RunOf DEF RunType
  <2> QED BY <2>1, GotoTyped DEF SyncStock
<1>2. moves' \in [Grns -> Nat]
  BY MovedTyped DEF SyncStock, PoTypeOK
<1>3. quarantine' \subseteq Trucks /\ failures' \in Nat
  BY DEF SyncStock, PoTypeOK
<1> QED BY <1>1, <1>2, <1>3 DEF SyncStock, PoTypeOK, notices, RunType

LEMMA DoneTyped ==
    ASSUME PoTyped, NEW r \in Runs, runs[r].t \in Trucks, runs[r].grn \in Grns, Done(r)
    PROVE  PoTypeOK'
<1> USE DEF PoTyped
<1>1. approvals' \subseteq Grns /\ failures' \in Nat
  BY DEF Done, PoTypeOK
<1> QED BY <1>1, AckTyped DEF Done, PoTypeOK, RunType

LEMMA HandlerThrowsTyped ==
    ASSUME PoTyped, NEW r \in Runs, runs[r].t \in Trucks, HandlerThrows(r)
    PROVE  PoTypeOK'
<1>1. failures' \in Nat
  BY DEF PoTyped, HandlerThrows, PoTypeOK
<1> QED BY <1>1, AckWithIssueTyped DEF PoTyped, HandlerThrows, PoTypeOK, tables, RunType

LEMMA WatchdogTyped ==
    ASSUME PoTypeOK, Watchdog
    PROVE  PoTypeOK'
<1>1. CASE \E t \in Trucks : FlagOrphan(t)
  BY <1>1 DEF FlagOrphan, PoTypeOK, tables
<1>2. CASE FindStockGaps
  BY <1>2 DEF FindStockGaps, StockGaps, Confirmed, PoTypeOK, tables, notices
<1>3. ASSUME NEW g \in Grns, HealStockGap(g)
      PROVE  PoTypeOK'
  <2>1. moves' \in [Grns -> Nat] /\ failures' \in Nat
    BY <1>3, MovedTyped DEF HealStockGap, PoTypeOK
  <2> QED BY <1>3, <2>1 DEF HealStockGap, PoTypeOK, notices
<1> QED BY <1>1, <1>2, <1>3 DEF Watchdog

LEMMA SurroundingsTyped ==
    ASSUME PoTypeOK,
           \/ \E t \in Trucks : IssueSaved(t) \/ IssueLost(t)
           \/ \E t \in Trucks, result \in {"PASS", "FAIL"} : LabResult(t, result)
           \/ Restart
           \/ OpenPartial
           \/ \E g \in Grns : Age(g)
    PROVE  PoTypeOK'
<1>1. CASE \E t \in Trucks : IssueSaved(t) \/ IssueLost(t)
  BY <1>1 DEF IssueSaved, IssueLost, PoTypeOK, tables
<1>2. CASE \E t \in Trucks, result \in {"PASS", "FAIL"} : LabResult(t, result)
  BY <1>2 DEF LabResult, PoTypeOK, tables, notices
<1>3. CASE Restart
  BY <1>3, IdleTyped DEF Restart, PoTypeOK, RunType, tables
<1>4. CASE OpenPartial
  BY <1>4 DEF OpenPartial, RefillNew, Unused, PoTypeOK, Receipt, notices
<1>5. ASSUME NEW g \in Grns, Age(g)
      PROVE  PoTypeOK'
  <2>1. [grns[g] EXCEPT !.old = TRUE] \in Receipt
    <3>1. grns[g] \in Receipt
      BY DEF PoTypeOK
    <3> QED BY <3>1 DEF Receipt
  <2>2. grns' = [grns EXCEPT ![g] = [grns[g] EXCEPT !.old = TRUE]]
    BY <1>5 DEF Age
  <2>3. grns' \in [Grns -> Receipt]
    BY <2>1, <2>2 DEF PoTypeOK
  <2> QED BY <1>5, <2>3 DEF Age, PoTypeOK, notices
<1> QED BY <1>1, <1>2, <1>3, <1>4, <1>5

(* A run that has committed has its receipt. *)
Filed == \A r \in Runs : runs[r].pc \in {"moving", "moved"} => runs[r].grn \in Grns

(* A run before its commit may name a receipt to fill, one behind it does.  *)
PoSafe == PoTyped /\ Filed

LEMMA FiledStep ==
    ASSUME PoSafe, [PoNext]_poVars
    PROVE  Filed'
<1> USE DEF PoSafe
<1>1. ASSUME NEW r \in Runs, NEW run, Goto(r, run),
             run.pc \in {"moving", "moved"} => run.grn \in Grns
      PROVE  Filed'
  BY <1>1 DEF Goto, Filed, PoTyped, PoTypeOK
<1>2. CASE UNCHANGED runs
  BY <1>2 DEF Filed
<1>3. ASSUME NEW r \in Runs, Goto(r, IdleRun)
      PROVE  Filed'
  BY <1>1, <1>3 DEF IdleRun
<1>4. ASSUME NEW r \in Runs, NEW t \in Trucks, Push(r, t)
      PROVE  Filed'
  BY <1>1, <1>2, <1>4 DEF Push, IdleRun
<1>5. ASSUME NEW r \in Runs, RunStep(r) \/ HandlerThrows(r)
      PROVE  Filed'
  <2>1. runs[r] \in RunType
    BY RunOf DEF PoTyped
  <2>2. CASE ReadOrder(r)
    BY <1>1, <1>3, <2>1, <2>2 DEF ReadOrder, AckWithIssue, Ack, RunType
  <2>3. CASE TxRead(r)
    BY <1>1, <1>3, <2>1, <2>3 DEF TxRead, AckWithIssue, Ack, RunType
  <2>4. CASE TxCommit(r)
    <3>1. PICK g \in Grns : CommitTo(r, g)
      BY <2>4, CommitPicks
    <3> QED BY <1>1, <2>1, <3>1 DEF CommitTo, RunType
  <2>5. CASE SyncStock(r)
    BY <1>1, <2>1, <2>5 DEF SyncStock, Filed, RunType
  <2>6. CASE Done(r) \/ HandlerThrows(r)
    BY <1>3, <2>6 DEF Done, HandlerThrows, AckWithIssue, Ack
  <2> QED BY <1>5, <2>2, <2>3, <2>4, <2>5, <2>6 DEF RunStep
<1>6. CASE Restart
  BY <1>6 DEF Restart, Filed, IdleRun
<1> QED BY <1>2, <1>4, <1>5, <1>6 DEF PoNext, poVars, PushThrows, IssueSaved, IssueLost,
        LabResult, OpenPartial, Age, Watchdog, FlagOrphan, FindStockGaps, HealStockGap

LEMMA RunStepTyped ==
    ASSUME PoSafe, NEW r \in Runs, RunStep(r) \/ HandlerThrows(r)
    PROVE  PoTypeOK'
<1>1. runs[r] # IdleRun
  <2>1. runs[r].pc \in {"fresh", "read", "tx", "moving", "moved"}
    BY UnderWay
  <2> QED BY <2>1 DEF IdleRun
<1>2. runs[r].t \in Trucks
  BY <1>1, RunOf DEF PoSafe, PoTyped, Manned
<1>3. CASE TxCommit(r)
  BY <1>2, <1>3, CommitPicks, CommitTyped DEF PoSafe
<1>4. CASE SyncStock(r)
  BY <1>4, SyncStockTyped DEF PoSafe, Filed, SyncStock
<1>5. CASE Done(r)
  BY <1>2, <1>5, DoneTyped DEF PoSafe, Filed, Done
<1> QED BY <1>2, <1>3, <1>4, <1>5, ReadOrderTyped, TxReadTyped, HandlerThrowsTyped
        DEF RunStep, PoSafe

LEMMA PoInitSafe == PoInit => PoSafe
<1> SUFFICES ASSUME PoInit PROVE PoSafe
  OBVIOUS
<1>1. Ordered \in Nat
  BY OrderAssumption
<1> QED BY <1>1 DEF PoInit, PoSafe, PoTyped, PoTypeOK, Manned, Filed, IdleRun, Receipt

LEMMA PoSafeStep ==
    ASSUME PoSafe, [PoNext]_poVars
    PROVE  PoSafe'
<1>1. PoTypeOK'
  <2>1. CASE UNCHANGED poVars
    BY <2>1 DEF PoSafe, PoTyped, PoTypeOK, poVars
  <2>2. CASE \E r \in Runs, t \in Trucks : Push(r, t) \/ PushThrows(r, t)
    BY <2>2, PushTyped, PushThrowsTyped DEF PoSafe, PoTyped
  <2>3. CASE \E r \in Runs : RunStep(r) \/ HandlerThrows(r)
    BY <2>3, RunStepTyped
  <2> QED BY <2>1, <2>2, <2>3, SurroundingsTyped, WatchdogTyped DEF PoNext, PoSafe, PoTyped
<1> QED BY <1>1, MannedStep, FiledStep DEF PoSafe, PoTyped

(* Runs keep a truck and, once they have committed, a receipt.              *)
THEOREM PoKeeping == PoSpec => []PoSafe
<1> QED BY PoInitSafe, PoSafeStep, PTL DEF PoSpec

(* Type correctness: what the line has pending never falls below 0, and the *)
(* tables hold what the schema allows, whatever fails or overlaps.          *)
THEOREM PoTypes == PoSpec => []PoTypeOK
<1>1. PoSafe => PoTypeOK
  BY DEF PoSafe, PoTyped
<1> QED BY <1>1, PoKeeping, PTL

-----------------------------------------------------------------------------
(* What a step does to the runs and the receipts.                           *)

Committing == {"fresh", "read", "tx"}       \* before the commit

RunsStay(r) == \A s \in Runs \ {r} : runs'[s] = runs[s]
Ended(r) == runs'[r] = IdleRun
Started(r, t) ==
    /\ ~Busy(t) \/ Overlap
    /\ ReceiptsOf(t) = {}
    /\ runs'[r].t = t /\ runs'[r].pc = "fresh" /\ runs'[r].grn = 0

Files(g, t) ==      \* receipt g is confirmed for truck t
    /\ grns'[g].truck = t /\ grns'[g].status = "CONFIRMED" /\ grns'[g].old = grns[g].old
    /\ \A h \in Grns \ {g} : grns'[h] = grns[h]

TrucksStay == \A g \in Grns : grns'[g].truck = grns[g].truck

Advances(r) ==
    /\ runs[r].pc \in {"fresh", "read", "moving"}
    /\ runs'[r].pc = (CASE runs[r].pc = "fresh" -> "read"
                        [] runs[r].pc = "read" -> "tx"
                        [] OTHER -> "moved")
    /\ runs'[r].t = runs[r].t
    /\ runs[r].pc # "read" => runs'[r].grn = runs[r].grn
    /\ runs[r].pc = "read" => runs'[r].grn \in Partial \/ (runs'[r].grn = 0 /\ Partial = {})
    /\ runs[r].pc = "read" => ~CapReached

Commits(r, g) ==
    /\ runs[r].pc = "tx" /\ Files(g, runs[r].t)
    /\ g = runs[r].grn \/ (runs[r].grn = 0 /\ g \in Unused)
    /\ runs'[r].pc = "moving" /\ runs'[r].t = runs[r].t /\ runs'[r].grn = g
    /\ line' = Added(runs[r])
    /\ UNCHANGED <<moves, gaps>>

LEMMA GotoMeans ==
    ASSUME PoSafe, NEW r \in Runs, NEW run, Goto(r, run)
    PROVE  runs'[r] = run /\ RunsStay(r)
BY DEF PoSafe, PoTyped, PoTypeOK, Goto, RunsStay

(* A step of a run.                                                         *)
LEMMA RunSteps ==
    ASSUME PoSafe, NEW r \in Runs, RunStep(r) \/ HandlerThrows(r)
    PROVE  /\ RunsStay(r)
           /\ \/ (Ended(r) \/ Advances(r)) /\ UNCHANGED <<grns, line>>
              \/ \E g \in Grns : Commits(r, g)
<1>1. runs[r] \in RunType
  BY RunOf DEF PoSafe, PoTyped
<1>2. ASSUME Goto(r, IdleRun)
      PROVE  RunsStay(r) /\ Ended(r)
  BY <1>2, GotoMeans DEF Ended
<1>3. ASSUME Ack(r) \/ AckWithIssue(r)
      PROVE  RunsStay(r) /\ Ended(r)
  BY <1>2, <1>3 DEF Ack, AckWithIssue
<1>4. CASE ReadOrder(r)
  <2>1. UNCHANGED <<grns, line>> /\ runs[r].pc = "fresh"
    BY <1>4 DEF ReadOrder, tables
  <2>2. ASSUME Goto(r, [runs[r] EXCEPT !.pc = "read", !.seen = line.received])
        PROVE  RunsStay(r) /\ Advances(r)
    <3>1. /\ runs'[r] = [runs[r] EXCEPT !.pc = "read", !.seen = line.received]
          /\ RunsStay(r)
      BY <2>2, GotoMeans
    <3>2. runs'[r].pc = "read" /\ runs'[r].t = runs[r].t /\ runs'[r].grn = runs[r].grn
      BY <1>1, <3>1 DEF RunType
    <3> QED BY <2>1, <3>1, <3>2 DEF Advances
  <2> QED BY <1>3, <1>4, <2>1, <2>2 DEF ReadOrder
<1>5. CASE TxRead(r)
  <2>1. UNCHANGED <<grns, line>> /\ runs[r].pc = "read"
    BY <1>5 DEF TxRead, tables
  <2>2. ASSUME NEW g \in (IF Partial = {} THEN {0} ELSE Partial), ~CapReached,
               Goto(r, [runs[r] EXCEPT !.pc = "tx", !.grn = g])
        PROVE  RunsStay(r) /\ Advances(r)
    <3>1. runs'[r] = [runs[r] EXCEPT !.pc = "tx", !.grn = g] /\ RunsStay(r)
      BY <2>2, GotoMeans
    <3>2. runs'[r].pc = "tx" /\ runs'[r].t = runs[r].t /\ runs'[r].grn = g
      BY <1>1, <3>1 DEF RunType
    <3> QED BY <2>1, <2>2, <3>1, <3>2 DEF Advances
  <2> QED BY <1>3, <1>5, <2>1, <2>2 DEF TxRead
<1>6. CASE TxCommit(r)
  <2>1. PICK g \in Grns : /\ CommitTo(r, g) /\ runs[r].pc = "tx"
                          /\ g = runs[r].grn \/ (runs[r].grn = 0 /\ g \in Unused)
    BY <1>6, CommitPicks DEF PoSafe
  <2>2. Files(g, runs[r].t)
    <3>1. grns[g] \in Receipt /\ DOMAIN grns = Grns
      BY DEF PoSafe, PoTyped, PoTypeOK
    <3>2. grns' = [grns EXCEPT ![g] = [grns[g] EXCEPT !.status = "CONFIRMED", !.truck = runs[r].t]]
      BY <2>1 DEF CommitTo
    <3> QED BY <3>1, <3>2 DEF Files, Receipt
  <2>3. runs'[r] = [runs[r] EXCEPT !.pc = "moving", !.grn = g] /\ RunsStay(r)
    BY <2>1, GotoMeans DEF CommitTo
  <2>4. runs'[r].pc = "moving" /\ runs'[r].t = runs[r].t /\ runs'[r].grn = g
    BY <1>1, <2>3 DEF RunType
  <2> QED BY <2>1, <2>2, <2>3, <2>4 DEF Commits, CommitTo
<1>7. CASE SyncStock(r)
  <2>1. runs'[r] = [runs[r] EXCEPT !.pc = "moved"] /\ RunsStay(r)
    BY <1>7, GotoMeans DEF SyncStock
  <2> QED BY <1>1, <1>7, <2>1 DEF SyncStock, Advances, RunType
<1>8. CASE Done(r) \/ HandlerThrows(r)
  BY <1>3, <1>8 DEF Done, HandlerThrows, tables
<1> QED BY <1>4, <1>5, <1>6, <1>7, <1>8 DEF RunStep

(* A step of the rest.                                                      *)
LEMMA OtherSteps ==
    ASSUME PoSafe, [PoNext]_poVars, \A r \in Runs : ~(RunStep(r) \/ HandlerThrows(r))
    PROVE  /\ line' = line
           /\ \/ UNCHANGED runs
              \/ \A r \in Runs : Ended(r)
              \/ /\ UNCHANGED grns
                 /\ \E r \in Runs, t \in Trucks : RunsStay(r) /\ Started(r, t)
           /\ \/ UNCHANGED grns
              \/ OpenPartial
              \/ \E g \in Grns : Age(g)
<1>1. ASSUME NEW r \in Runs, NEW t \in Trucks, Push(r, t)
      PROVE  /\ UNCHANGED <<line, grns>>
             /\ UNCHANGED runs \/ (RunsStay(r) /\ Started(r, t))
  <2>1. CASE UNCHANGED runs
    BY <1>1, <2>1 DEF Push, tables
  <2>2. CASE ~Duplicate(t) /\ Goto(r, [IdleRun EXCEPT !.pc = "fresh", !.t = t, !.lab = lab[t]])
    <3>1. /\ runs'[r] = [IdleRun EXCEPT !.pc = "fresh", !.t = t, !.lab = lab[t]]
          /\ RunsStay(r)
      BY <2>2, GotoMeans
    <3> QED BY <1>1, <2>2, <3>1 DEF Push, tables, Started, Duplicate, IdleRun
  <2> QED BY <1>1, <2>1, <2>2 DEF Push
<1>2. CASE Restart
  BY <1>2 DEF Restart, Ended, tables
<1> QED BY <1>1, <1>2 DEF PoNext, poVars, PushThrows, IssueSaved, IssueLost, tables,
        LabResult, OpenPartial, Age, Watchdog, FlagOrphan, FindStockGaps, HealStockGap

-----------------------------------------------------------------------------
(* One receipt a truck.  A truck has one run, and no receipt before it       *)
(* commits.                                                                 *)
Alone == \A r, s \in Runs : runs[r].t = runs[s].t /\ runs[r].t # NoTruck => r = s
Unreceived == \A r \in Runs : runs[r].pc \in Committing => ReceiptsOf(runs[r].t) = {}
Single == \A g, h \in Grns : grns[g].truck = grns[h].truck /\ grns[g].truck # NoTruck => g = h

OneByOne == Alone /\ Unreceived /\ Single

LEMMA IdleHasNothing == IdleRun.t = NoTruck /\ IdleRun.pc = "idle" /\ IdleRun.grn = 0
BY DEF IdleRun

LEMMA TrucksOfReceipts ==
    ASSUME PoSafe, UNCHANGED grns \/ OpenPartial \/ \E g \in Grns : Age(g)
    PROVE  \A h \in Grns : grns'[h].truck \in {grns[h].truck, NoTruck}
<1>1. CASE OpenPartial
  BY <1>1 DEF OpenPartial, PoSafe, PoTyped, PoTypeOK
<1>2. ASSUME NEW g \in Grns, Age(g)
      PROVE  \A h \in Grns : grns'[h].truck \in {grns[h].truck, NoTruck}
  <2>1. grns[g] \in Receipt /\ DOMAIN grns = Grns
    BY DEF PoSafe, PoTyped, PoTypeOK
  <2>2. grns' = [grns EXCEPT ![g] = [grns[g] EXCEPT !.old = TRUE]]
    BY <1>2 DEF Age
  <2> QED BY <2>1, <2>2 DEF Receipt
<1> QED BY <1>1, <1>2

LEMMA OneByOneStep ==
    ASSUME PoSafe, OneByOne, [PoNext]_poVars, Overlap = FALSE
    PROVE  OneByOne'
<1> USE IdleHasNothing
<1>1. ASSUME NEW r \in Runs, RunStep(r) \/ HandlerThrows(r)
      PROVE  OneByOne'
  <2>1. RunsStay(r)
    BY <1>1, RunSteps
  <2>2. CASE Ended(r) /\ UNCHANGED grns
    BY <2>1, <2>2 DEF RunsStay, Ended, OneByOne, Alone, Unreceived, Single, ReceiptsOf, Committing
  <2>3. CASE Advances(r) /\ UNCHANGED grns
    <3>1. /\ runs'[r].t = runs[r].t
          /\ runs'[r].pc \in Committing => runs[r].pc \in Committing
      BY <2>3 DEF Advances, Committing
    <3> QED BY <2>1, <2>3, <3>1 DEF RunsStay, OneByOne, Alone, Unreceived, Single, ReceiptsOf
  <2>4. ASSUME NEW g \in Grns, Commits(r, g)
        PROVE  OneByOne'
    <3>1. runs[r].pc \in Committing /\ runs'[r].t = runs[r].t /\ runs'[r].pc \notin Committing
      BY <2>4 DEF Commits, Committing
    <3>2. \A h \in Grns : grns[h].truck # runs[r].t
      BY <3>1 DEF OneByOne, Unreceived, ReceiptsOf
    <3>3. runs[r].t # NoTruck
      BY <3>1 DEF PoSafe, PoTyped, Manned, Committing
    <3>4. Alone'
      BY <2>1, <3>1 DEF RunsStay, OneByOne, Alone
    <3>5. Single'
      BY <2>4, <3>2 DEF Commits, Files, OneByOne, Single
    <3>6. ASSUME NEW s \in Runs, runs'[s].pc \in Committing, NEW h \in Grns
          PROVE  grns'[h].truck # runs'[s].t
      <4>1. s # r
        BY <3>1, <3>6
      <4>2. runs'[s] = runs[s]
        BY <2>1, <4>1 DEF RunsStay
      <4>3. runs[s].t # runs[r].t
        BY <3>3, <4>1 DEF OneByOne, Alone
      <4>4. grns[h].truck # runs[s].t
        BY <3>6, <4>2 DEF OneByOne, Unreceived, ReceiptsOf
      <4> QED BY <2>4, <4>2, <4>3, <4>4 DEF Commits, Files
    <3> QED BY <3>4, <3>5, <3>6 DEF OneByOne, Unreceived, ReceiptsOf
  <2> QED BY <1>1, <2>2, <2>3, <2>4, RunSteps
<1>2. CASE \A r \in Runs : ~(RunStep(r) \/ HandlerThrows(r))
  <2>1. \A h \in Grns : grns'[h].truck \in {grns[h].truck, NoTruck}
    BY <1>2, OtherSteps, TrucksOfReceipts
  <2>2. Single'
    BY <2>1 DEF OneByOne, Single
  <2>3. CASE UNCHANGED runs
    <3>1. \A r \in Runs : runs[r].pc \in Committing => runs[r].t # NoTruck
      BY DEF PoSafe, PoTyped, Manned, Committing
    <3> QED BY <2>1, <2>2, <2>3, <3>1 DEF OneByOne, Alone, Unreceived, ReceiptsOf
  <2>4. CASE \A r \in Runs : Ended(r)
    BY <2>2, <2>4 DEF Ended, OneByOne, Alone, Unreceived, Committing
  <2>5. ASSUME NEW r \in Runs, NEW t \in Trucks, RunsStay(r), Started(r, t), UNCHANGED grns
        PROVE  OneByOne'
    <3>1. \A s \in Runs : runs[s].t # t
      BY <2>5 DEF Started, Busy
    <3> QED BY <2>2, <2>5, <3>1 DEF RunsStay, Started, OneByOne, Alone, Unreceived, ReceiptsOf
  <2> QED BY <1>2, <2>3, <2>4, <2>5, OtherSteps
<1> QED BY <1>1, <1>2

LEMMA AtMostOne ==
    ASSUME NEW S, \A x, y \in S : x = y
    PROVE  Cardinality(S) <= 1
<1>1. CASE S = {}
  BY <1>1, FS_EmptySet
<1>2. CASE S # {}
  <2>1. PICK x \in S : TRUE
    BY <1>2
  <2>2. S = {x}
    BY <2>1
  <2> QED BY <2>2, FS_Singleton
<1> QED BY <1>1, <1>2

(* However often a truck is sent, wherever its pushes are cut off and        *)
(* whatever the desk opens, it is received at most once, provided that two  *)
(* pushes of it do not run at the same time.                                *)
THEOREM ReceivedOnce ==
    ASSUME Overlap = FALSE
    PROVE  PoSpec => []OneReceiptPerTruck
<1>1. PoInit => OneByOne
  BY DEF PoInit, OneByOne, Alone, Unreceived, Single, IdleRun, Committing
<1>2. PoSafe /\ OneByOne /\ [PoNext]_poVars => OneByOne'
  BY OneByOneStep
<1>3. OneByOne => OneReceiptPerTruck
  <2> SUFFICES ASSUME OneByOne, NEW t \in Trucks
               PROVE  Cardinality(ReceiptsOf(t)) <= 1
    BY DEF OneReceiptPerTruck
  <2>1. \A g, h \in ReceiptsOf(t) : g = h
    BY TruckAssumption DEF ReceiptsOf, OneByOne, Single
  <2> QED BY <2>1, AtMostOne
<1> QED BY <1>1, <1>2, <1>3, PoKeeping, PTL DEF PoSpec

-----------------------------------------------------------------------------
(* Without receipts of the desk a push creates its own.                     *)
NoneToFill ==
    /\ Partial = {}
    /\ \A r \in Runs : runs[r].pc \in Committing => runs[r].grn = 0

LEMMA NoneToFillStep ==
    ASSUME PoSafe, NoneToFill, [PoNext]_poVars, Desk = FALSE
    PROVE  NoneToFill'
<1> USE IdleHasNothing
<1>1. ASSUME NEW r \in Runs, RunStep(r) \/ HandlerThrows(r)
      PROVE  NoneToFill'
  <2>1. RunsStay(r)
    BY <1>1, RunSteps
  <2>2. CASE Ended(r) /\ UNCHANGED grns
    BY <2>1, <2>2 DEF RunsStay, Ended, NoneToFill, Partial, Committing
  <2>3. CASE Advances(r) /\ UNCHANGED grns
    BY <2>1, <2>3 DEF Advances, RunsStay, NoneToFill, Partial, Committing
  <2>4. ASSUME NEW g \in Grns, Commits(r, g)
        PROVE  NoneToFill'
    BY <2>1, <2>4 DEF Commits, Files, RunsStay, NoneToFill, Partial, Committing
  <2> QED BY <1>1, <2>2, <2>3, <2>4, RunSteps
<1>2. CASE \A r \in Runs : ~(RunStep(r) \/ HandlerThrows(r))
  <2>1. Partial' = {}
    <3>1. CASE UNCHANGED grns
      BY <3>1 DEF NoneToFill, Partial
    <3>2. ASSUME NEW g \in Grns, Age(g)
          PROVE  Partial' = {}
      <4>1. grns[g] \in Receipt /\ DOMAIN grns = Grns
        BY DEF PoSafe, PoTyped, PoTypeOK
      <4>2. grns' = [grns EXCEPT ![g] = [grns[g] EXCEPT !.old = TRUE]]
        BY <3>2 DEF Age
      <4> QED BY <4>1, <4>2 DEF NoneToFill, Partial, Receipt
    <3> QED BY <1>2, <3>1, <3>2, OtherSteps DEF OpenPartial
  <2>2. CASE UNCHANGED runs
    BY <2>1, <2>2 DEF NoneToFill
  <2>3. CASE \A r \in Runs : Ended(r)
    BY <2>1, <2>3 DEF NoneToFill, Ended, Committing
  <2>4. ASSUME NEW r \in Runs, NEW t \in Trucks, RunsStay(r), Started(r, t)
        PROVE  NoneToFill'
    BY <2>1, <2>4 DEF NoneToFill, RunsStay, Started
  <2> QED BY <1>2, <2>2, <2>3, <2>4, OtherSteps
<1> QED BY <1>1, <1>2

LEMMA InitNoneToFill == PoInit => NoneToFill
BY DEF PoInit, NoneToFill, Partial, IdleRun, Committing

(* The receipt of a commit is a new one.                                    *)
LEMMA CommitsNew ==
    ASSUME PoSafe, NoneToFill, NEW r \in Runs, NEW g \in Grns, Commits(r, g)
    PROVE  g \in Unused
<1>1. runs[r].grn = 0 /\ 0 \notin Grns
  BY DEF Commits, NoneToFill, Committing, Grns
<1> QED BY <1>1 DEF Commits

(* The order line.                                                          *)
LEMMA ReceiptsFinite ==
    /\ IsFiniteSet(Confirmed) /\ Cardinality(Confirmed) \in Nat
<1>1. IsFiniteSet(Grns)
  BY GrnBoundAssumption, FS_Interval DEF Grns
<1>2. Confirmed \in SUBSET Grns
  BY DEF Confirmed
<1> QED BY <1>1, <1>2, FS_Subset, FS_CardinalityType

LEMMA ConfirmedStays ==
    ASSUME PoSafe, UNCHANGED grns \/ OpenPartial \/ \E g \in Grns : Age(g)
    PROVE  Confirmed' = Confirmed
<1>1. CASE UNCHANGED grns
  BY <1>1 DEF Confirmed
<1>2. CASE OpenPartial
  BY <1>2 DEF OpenPartial, RefillNew, Unused, Confirmed, PoSafe, PoTyped, PoTypeOK
<1>3. ASSUME NEW g \in Grns, Age(g)
      PROVE  Confirmed' = Confirmed
  <2>1. grns[g] \in Receipt /\ DOMAIN grns = Grns
    BY DEF PoSafe, PoTyped, PoTypeOK
  <2>2. grns' = [grns EXCEPT ![g] = [grns[g] EXCEPT !.old = TRUE]]
    BY <1>3 DEF Age
  <2> QED BY <2>1, <2>2 DEF Confirmed, Receipt
<1> QED BY <1>1, <1>2, <1>3

LEMMA ConfirmedGrows ==
    ASSUME PoSafe, NEW r \in Runs, NEW g \in Grns, Commits(r, g)
    PROVE  Confirmed' = Confirmed \union {g}
BY DEF Commits, Files, Confirmed

LEMMA LineStep ==
    ASSUME PoSafe, NoneToFill, LineMatchesReceipts, [PoNext]_poVars
    PROVE  LineMatchesReceipts'
<1>1. CASE line' = line /\ Confirmed' = Confirmed
  BY <1>1 DEF LineMatchesReceipts
<1>2. ASSUME NEW r \in Runs, RunStep(r) \/ HandlerThrows(r)
      PROVE  LineMatchesReceipts'
  <2>1. CASE UNCHANGED <<grns, line>>
    BY <1>1, <2>1 DEF Confirmed
  <2>2. ASSUME NEW g \in Grns, Commits(r, g)
        PROVE  LineMatchesReceipts'
    <3>1. g \notin Confirmed
      BY <2>2, CommitsNew DEF Unused, Confirmed
    <3>2. Cardinality(Confirmed)' = Cardinality(Confirmed) + 1
      <4>1. Cardinality(Confirmed \union {g}) = Cardinality(Confirmed) + 1
        BY <3>1, ReceiptsFinite, FS_AddElement
      <4> QED BY <2>2, <4>1, ConfirmedGrows
    <3> DEFINE n == Cardinality(Confirmed)
    <3>3. n \in Nat /\ Load \in Nat /\ Ordered \in Nat
      BY ReceiptsFinite, LoadAssumption, OrderAssumption
    <3>4. /\ line.received = Load * n
          /\ line.pending = IF line.received > Ordered THEN 0 ELSE Ordered - line.received
      BY DEF LineMatchesReceipts
    <3>5. /\ line'.received = line.received + Load
          /\ line'.pending = IF Load > line.pending THEN 0 ELSE line.pending - Load
      BY <2>2 DEF Commits, Added
    <3>6. Cardinality(Confirmed)' = n + 1
      BY <3>2
    <3> HIDE DEF n
    <3>7. line'.received = Load * (n + 1) /\ line.received \in Nat
      <4>1. Load * (n + 1) = Load * n + Load
        BY <3>3
      <4>2. Load * n \in Nat
        BY <3>3
      <4> QED BY <3>4, <3>5, <4>1, <4>2
    <3>8. line'.pending = IF line'.received > Ordered THEN 0 ELSE Ordered - line'.received
      BY <3>3, <3>4, <3>5, <3>7
    <3> QED BY <3>6, <3>7, <3>8 DEF LineMatchesReceipts
  <2> QED BY <1>2, <2>1, <2>2, RunSteps
<1>3. CASE \A r \in Runs : ~(RunStep(r) \/ HandlerThrows(r))
  BY <1>1, <1>3, OtherSteps, ConfirmedStays
<1> QED BY <1>2, <1>3

(* Concurrent pushes add up on the order line: it counts exactly the         *)
(* receipts, and what is pending is what they left.                         *)
THEOREM LineAddsUp ==
    ASSUME Desk = FALSE
    PROVE  PoSpec => []LineMatchesReceipts
<1>1. PoInit => LineMatchesReceipts
  <2> SUFFICES ASSUME PoInit PROVE LineMatchesReceipts
    OBVIOUS
  <2>1. Confirmed = {}
    BY DEF PoInit, Confirmed
  <2>2. Cardinality(Confirmed) = 0
    BY <2>1, FS_EmptySet
  <2>3. Load * 0 = 0 /\ Ordered \in Nat
    BY LoadAssumption, OrderAssumption
  <2> QED BY <2>2, <2>3 DEF PoInit, LineMatchesReceipts
<1>2. PoSafe /\ NoneToFill /\ [PoNext]_poVars => NoneToFill'
  BY NoneToFillStep
<1>3. PoSafe /\ NoneToFill /\ LineMatchesReceipts /\ [PoNext]_poVars => LineMatchesReceipts'
  BY LineStep
<1> QED BY <1>1, <1>2, <1>3, InitNoneToFill, PoKeeping, PTL DEF PoSpec

-----------------------------------------------------------------------------
(* One stock movement a receipt.  A receipt whose push is about to move the *)
(* stock is confirmed, new and not moved, and no other push has it; the     *)
(* watchdog's are confirmed, old and not moved.                             *)
Fits(g) ==
    grns[g].status = "CONFIRMED" /\ moves[g] = 0 /\ ~grns[g].old
Moving(r) == runs[r].pc = "moving"

UnusedIsBlank == \A g \in Unused : moves[g] = 0 /\ ~grns[g].old
MovingFits == \A r \in Runs : Moving(r) => Fits(runs[r].grn)
MovingAlone == \A r, s \in Runs : Moving(r) /\ Moving(s) /\ runs[r].grn = runs[s].grn => r = s
GapsFit == \A g \in gaps : grns[g].status = "CONFIRMED" /\ moves[g] = 0 /\ grns[g].old

OneMover == StockMovedOnce /\ UnusedIsBlank /\ MovingFits /\ MovingAlone /\ GapsFit

LEMMA RunStepsMove ==
    ASSUME NEW r \in Runs, RunStep(r) \/ HandlerThrows(r)
    PROVE  /\ gaps' = gaps
           /\ UNCHANGED moves \/ (Moving(r) /\ Moved(runs[r].grn))
BY DEF RunStep, ReadOrder, TxRead, TxCommit, SyncStock, Done, HandlerThrows, tables, Moving

LEMMA OtherStepsMove ==
    ASSUME [PoNext]_poVars, \A r \in Runs : ~(RunStep(r) \/ HandlerThrows(r))
    PROVE  \/ UNCHANGED moves /\ gaps' \in {gaps, {}}
           \/ FindStockGaps
           \/ \E g \in Grns : HealStockGap(g)
BY DEF PoNext, poVars, Push, PushThrows, IssueSaved, IssueLost, tables, LabResult, Restart,
       OpenPartial, Age, Watchdog, FlagOrphan

LEMMA MovingHasReceipt ==
    ASSUME PoSafe, NEW r \in Runs, Moving(r)
    PROVE  runs[r].grn \in Grns
BY DEF PoSafe, Filed, Moving

LEMMA RunKeepsMover ==
    ASSUME PoSafe, NoneToFill, OneMover, NEW r \in Runs, RunStep(r) \/ HandlerThrows(r)
    PROVE  OneMover'
<1> USE IdleHasNothing
<1>1. RunsStay(r) /\ gaps' = gaps
  BY RunSteps, RunStepsMove
<1>2. moves \in [Grns -> Nat]
  BY DEF PoSafe, PoTyped, PoTypeOK
<1>3. ASSUME UNCHANGED grns, runs'[r].pc # "moving", UNCHANGED moves
      PROVE  OneMover'
  BY <1>1, <1>3 DEF OneMover, StockMovedOnce, UnusedIsBlank, Unused, MovingFits, Fits, Moving,
     MovingAlone, GapsFit, RunsStay
<1>4. ASSUME UNCHANGED grns, runs'[r].pc # "moving", Moving(r), Moved(runs[r].grn)
      PROVE  OneMover'
  <2> DEFINE g == runs[r].grn
  <2>1. g \in Grns /\ grns[g].status = "CONFIRMED" /\ moves[g] = 0 /\ ~grns[g].old
    BY <1>4, MovingHasReceipt DEF OneMover, MovingFits, Fits
  <2>2. moves'[g] = 1 /\ \A h \in Grns \ {g} : moves'[h] = moves[h]
    BY <1>2, <1>4, <2>1 DEF Moved
  <2>3. \A s \in Runs \ {r} : runs'[s] = runs[s] /\ (Moving(s) => runs[s].grn # g)
    BY <1>1, <1>4 DEF RunsStay, OneMover, MovingAlone
  <2> HIDE DEF g
  <2>4. StockMovedOnce'
    BY <2>2 DEF OneMover, StockMovedOnce
  <2>5. UnusedIsBlank'
    BY <1>4, <2>1, <2>2 DEF OneMover, UnusedIsBlank, Unused
  <2>6. MovingFits'
    <3> SUFFICES ASSUME NEW s \in Runs, Moving(s)'
                 PROVE  Fits(runs[s].grn)'
      BY DEF MovingFits
    <3>1. s # r /\ runs'[s] = runs[s] /\ Moving(s) /\ runs[s].grn # g
      BY <1>4, <2>3 DEF Moving
    <3>2. runs[s].grn \in Grns /\ Fits(runs[s].grn)
      BY <3>1, MovingHasReceipt DEF OneMover, MovingFits
    <3> QED BY <1>4, <2>2, <3>1, <3>2 DEF Fits
  <2>7. MovingAlone'
    BY <1>4, <2>3 DEF OneMover, MovingAlone, Moving
  <2>8. GapsFit'
    <3>1. gaps \subseteq Grns /\ g \notin gaps
      BY <2>1 DEF OneMover, GapsFit, PoSafe, PoTyped, PoTypeOK
    <3> QED BY <1>1, <1>4, <2>2, <3>1 DEF OneMover, GapsFit
  <2> QED BY <2>4, <2>5, <2>6, <2>7, <2>8 DEF OneMover
<1>5. ASSUME NEW g \in Grns, Commits(r, g)
      PROVE  OneMover'
  <2>1. /\ g \in Unused /\ grns[g].status = "NONE" /\ moves[g] = 0 /\ ~grns[g].old
    BY <1>5, CommitsNew DEF OneMover, UnusedIsBlank, Unused
  <2>2. /\ grns'[g].status = "CONFIRMED" /\ grns'[g].old = grns[g].old
        /\ \A h \in Grns \ {g} : grns'[h] = grns[h]
        /\ moves' = moves /\ runs'[r].grn = g
    BY <1>5 DEF Commits, Files
  <2>3. \A s \in Runs : s # r => runs'[s] = runs[s]
    BY <1>1 DEF RunsStay
  <2>3a. \A s \in Runs : Moving(s) => runs[s].grn \in Grns
    BY MovingHasReceipt
  <2>3b. \A s \in Runs : Moving(s) => runs[s].grn # g
    BY <2>1 DEF OneMover, MovingFits, Fits
  <2>4. UnusedIsBlank'
    BY <2>2 DEF OneMover, UnusedIsBlank, Unused
  <2>5. MovingFits'
    <3> SUFFICES ASSUME NEW s \in Runs, Moving(s)'
                 PROVE  Fits(runs[s].grn)'
      BY DEF MovingFits
    <3>1. CASE s = r
      BY <2>1, <2>2, <3>1 DEF Fits
    <3>2. CASE s # r
      <4>1. /\ runs'[s] = runs[s] /\ Moving(s)
            /\ runs[s].grn # g /\ runs[s].grn \in Grns
        BY <2>3, <2>3a, <2>3b, <3>2 DEF Moving
      <4>2. Fits(runs[s].grn)
        BY <4>1 DEF OneMover, MovingFits
      <4> QED BY <2>2, <4>1, <4>2 DEF Fits
    <3> QED BY <3>1, <3>2
  <2>6. MovingAlone'
    <3> SUFFICES ASSUME NEW s \in Runs, NEW u \in Runs, s # u, Moving(s)', Moving(u)'
                 PROVE  runs'[s].grn # runs'[u].grn
      BY DEF MovingAlone
    <3>1. CASE s # r /\ u # r
      BY <2>3, <3>1 DEF OneMover, MovingAlone, Moving
    <3>2. CASE s = r
      BY <2>2, <2>3, <2>3b, <3>2 DEF Moving
    <3>3. CASE u = r
      BY <2>2, <2>3, <2>3b, <3>3 DEF Moving
    <3> QED BY <3>1, <3>2, <3>3
  <2>7. GapsFit'
    <3>1. gaps \subseteq Grns /\ g \notin gaps
      BY <2>1 DEF OneMover, GapsFit, PoSafe, PoTyped, PoTypeOK
    <3> QED BY <1>1, <2>2, <3>1 DEF OneMover, GapsFit
  <2> QED BY <2>2, <2>4, <2>5, <2>6, <2>7 DEF OneMover, StockMovedOnce
<1>6. CASE (Ended(r) \/ Advances(r)) /\ UNCHANGED grns
  <2>1. runs'[r].pc # "moving"
    BY <1>6 DEF Ended, Advances
  <2> QED BY <1>3, <1>4, <1>6, <2>1, RunStepsMove
<1> QED BY <1>5, <1>6, RunSteps

LEMMA OthersKeepMover ==
    ASSUME PoSafe, OneMover, [PoNext]_poVars, Desk = FALSE,
           \A r \in Runs : ~(RunStep(r) \/ HandlerThrows(r))
    PROVE  OneMover'
<1> USE IdleHasNothing
<1>1. \A s \in Runs : Moving(s)' => runs'[s] = runs[s]
  BY OtherSteps DEF Moving, Ended, RunsStay, Started
<1>2. moves \in [Grns -> Nat] /\ gaps \subseteq Grns
  BY DEF PoSafe, PoTyped, PoTypeOK
<1>3. ASSUME UNCHANGED <<grns, moves>>, GapsFit'
      PROVE  OneMover'
  BY <1>1, <1>3 DEF OneMover, StockMovedOnce, UnusedIsBlank, Unused, MovingFits, Fits, Moving,
     MovingAlone
<1>4. ASSUME NEW g \in Grns, Age(g)
      PROVE  OneMover'
  <2>1. grns[g] \in Receipt /\ DOMAIN grns = Grns /\ grns[g].status = "CONFIRMED"
    BY <1>4 DEF PoSafe, PoTyped, PoTypeOK, Age, Confirmed
  <2>2. grns' = [grns EXCEPT ![g] = [grns[g] EXCEPT !.old = TRUE]]
    BY <1>4 DEF Age
  <2>3. /\ grns'[g].status = "CONFIRMED" /\ grns'[g].old
        /\ \A h \in Grns \ {g} : grns'[h] = grns[h]
        /\ UNCHANGED <<moves, gaps, runs>>
    BY <1>4, <2>1, <2>2 DEF Age, Receipt
  <2>4. \A s \in Runs : runs[s].grn # g
    BY <1>4 DEF Age
  <2>5. UnusedIsBlank'
    BY <2>3 DEF OneMover, UnusedIsBlank, Unused
  <2>6. MovingFits'
    BY <2>3, <2>4, MovingHasReceipt DEF OneMover, MovingFits, Fits, Moving
  <2>7. GapsFit'
    BY <1>2, <2>3 DEF OneMover, GapsFit
  <2>8. MovingAlone'
    BY <2>3 DEF OneMover, MovingAlone, Moving
  <2> QED BY <2>3, <2>5, <2>6, <2>7, <2>8 DEF OneMover, StockMovedOnce
<1>5. CASE FindStockGaps
  <2>1. GapsFit'
    BY <1>5 DEF FindStockGaps, StockGaps, Confirmed, GapsFit, tables
  <2> QED BY <1>3, <1>5, <2>1 DEF FindStockGaps, tables
<1>6. ASSUME NEW g \in Grns, HealStockGap(g)
      PROVE  OneMover'
  <2>1. /\ g \in gaps /\ gaps' = gaps \ {g} /\ UNCHANGED <<grns, runs>>
        /\ grns[g].status = "CONFIRMED" /\ moves[g] = 0 /\ grns[g].old
    BY <1>6 DEF HealStockGap, OneMover, GapsFit
  <2>2. CASE UNCHANGED moves
    <3>1. GapsFit'
      BY <2>1, <2>2 DEF OneMover, GapsFit
    <3> QED BY <1>3, <2>1, <2>2, <3>1
  <2>3. CASE Moved(g)
    <3>1. moves'[g] = 1 /\ \A h \in Grns \ {g} : moves'[h] = moves[h]
      BY <1>2, <2>1, <2>3 DEF Moved
    <3>2. \A s \in Runs : Moving(s) => runs[s].grn # g /\ runs[s].grn \in Grns
      BY <2>1, MovingHasReceipt DEF OneMover, MovingFits, Fits
    <3>3. StockMovedOnce'
      BY <3>1 DEF OneMover, StockMovedOnce
    <3>4. UnusedIsBlank'
      BY <2>1, <3>1 DEF OneMover, UnusedIsBlank, Unused
    <3>5. MovingFits'
      BY <2>1, <3>1, <3>2 DEF OneMover, MovingFits, Fits, Moving
    <3>6. MovingAlone'
      BY <2>1 DEF OneMover, MovingAlone, Moving
    <3>7. GapsFit'
      BY <1>2, <2>1, <3>1 DEF OneMover, GapsFit
    <3> QED BY <3>3, <3>4, <3>5, <3>6, <3>7 DEF OneMover
  <2> QED BY <1>6, <2>2, <2>3 DEF HealStockGap
<1>7. CASE UNCHANGED <<moves, grns>> /\ gaps' \in {gaps, {}}
  <2>1. GapsFit'
    BY <1>7 DEF OneMover, GapsFit
  <2> QED BY <1>3, <1>7, <2>1
<1>8. (\E g \in Grns : Age(g)) \/ UNCHANGED grns
  BY OtherSteps DEF OpenPartial
<1> QED BY <1>4, <1>5, <1>6, <1>7, <1>8, OtherStepsMove

(* Each receipt moves the stock at most once, by its push or by the          *)
(* watchdog, as long as the desk opens no receipts: those are old before    *)
(* their truck comes.                                                       *)
THEOREM MovedOnce ==
    ASSUME Desk = FALSE
    PROVE  PoSpec => []StockMovedOnce
<1>1. PoInit => OneMover
  <2> SUFFICES ASSUME PoInit PROVE OneMover
    OBVIOUS
  <2>1. \A g \in Grns : moves[g] = 0 /\ ~grns[g].old
    BY DEF PoInit
  <2>2. \A r \in Runs : ~Moving(r)
    BY DEF PoInit, Moving, IdleRun
  <2> QED BY <2>1, <2>2 DEF PoInit, OneMover, StockMovedOnce, UnusedIsBlank, Unused, MovingFits,
          MovingAlone, GapsFit
<1>2. PoSafe /\ NoneToFill /\ [PoNext]_poVars => NoneToFill'
  BY NoneToFillStep
<1>3. PoSafe /\ NoneToFill /\ OneMover /\ [PoNext]_poVars => OneMover'
  BY RunKeepsMover, OthersKeepMover
<1>4. OneMover => StockMovedOnce
  BY DEF OneMover
<1> QED BY <1>1, <1>2, <1>3, <1>4, InitNoneToFill, PoKeeping, PTL DEF PoSpec

-----------------------------------------------------------------------------
(* What overlapping pushes can add.  A push that leaves a group of the runs  *)
(* makes room for the one receipt it adds.                                  *)
LEMMA OneLess ==
    ASSUME NEW S, NEW T, NEW r \in T, IsFiniteSet(T), S \subseteq T \ {r}
    PROVE  Cardinality(S) \in Nat /\ Cardinality(T) \in Nat /\ Cardinality(S) + 1 <= Cardinality(T)
<1>1. IsFiniteSet(T \ {r}) /\ Cardinality(T \ {r}) = Cardinality(T) - 1
  BY FS_RemoveElement
<1>2. IsFiniteSet(S) /\ Cardinality(S) <= Cardinality(T \ {r})
  BY <1>1, FS_Subset
<1>3. Cardinality(S) \in Nat /\ Cardinality(T) \in Nat
  BY <1>2, FS_CardinalityType
<1> QED BY <1>1, <1>2, <1>3

LEMMA NoMore ==
    ASSUME NEW S, NEW T, IsFiniteSet(T), S \subseteq T
    PROVE  Cardinality(S) \in Nat /\ Cardinality(T) \in Nat /\ Cardinality(S) <= Cardinality(T)
BY FS_Subset, FS_CardinalityType

LEMMA OneMoreAtMost ==
    ASSUME NEW S, NEW g, IsFiniteSet(S)
    PROVE  /\ Cardinality(S) \in Nat /\ Cardinality(S \union {g}) \in Nat
           /\ Cardinality(S \union {g}) <= Cardinality(S) + 1
<1>1. IsFiniteSet(S \union {g}) /\ Cardinality(S) \in Nat
  BY FS_AddElement, FS_CardinalityType
<1>2. Cardinality(S \union {g}) \in Nat
  BY <1>1, FS_CardinalityType
<1>3. Cardinality(S \union {g}) = Cardinality(S) \/ Cardinality(S \union {g}) = Cardinality(S) + 1
  BY FS_AddElement
<1> QED BY <1>1, <1>2, <1>3

-----------------------------------------------------------------------------
(* The truck cap is checked by a transaction that locks nothing: the runs   *)
(* that have passed the check and not committed.                            *)
Entered == {r \in Runs : runs[r].pc = "tx"}

CapHeld ==
    cap > 0 => Cardinality(Confirmed) + Cardinality(Entered) < cap + Cardinality(Runs)

LEMMA CapIsNat ==
    ASSUME PoSafe
    PROVE  cap \in Nat
BY OrderAssumption DEF PoSafe, PoTyped, PoTypeOK

LEMMA CapStays ==
    ASSUME [PoNext]_poVars
    PROVE  cap' = cap
BY DEF PoNext, poVars, tables, Push, PushThrows, RunStep, ReadOrder, TxRead, TxCommit, SyncStock,
       Done, HandlerThrows, IssueSaved, IssueLost, LabResult, Restart, OpenPartial, Age, Watchdog,
       FlagOrphan, FindStockGaps, HealStockGap

LEMMA CapStep ==
    ASSUME PoSafe, CapHeld, [PoNext]_poVars, IsFiniteSet(Runs)
    PROVE  CapHeld'
<1> USE IdleHasNothing, CapStays, CapIsNat
<1>1. Cardinality(Confirmed) \in Nat /\ cap \in Nat /\ IsFiniteSet(Entered)
  <2>1. Entered \in SUBSET Runs
    BY DEF Entered
  <2> QED BY <2>1, ReceiptsFinite, OrderAssumption, FS_Subset
<1>2. CASE Confirmed' = Confirmed /\ Entered' \subseteq Entered
  <2>1. Cardinality(Entered') <= Cardinality(Entered)
        /\ Cardinality(Entered') \in Nat /\ Cardinality(Entered) \in Nat
    BY <1>1, <1>2, NoMore
  <2>2. Cardinality(Runs) \in Nat
    BY FS_CardinalityType
  <2>3. cap > 0 => Cardinality(Confirmed) + Cardinality(Entered') < cap + Cardinality(Runs)
    BY <1>1, <2>1, <2>2 DEF CapHeld
  <2> QED BY <1>2, <2>3 DEF CapHeld
<1>3. ASSUME NEW r \in Runs, RunStep(r) \/ HandlerThrows(r)
      PROVE  CapHeld'
  <2>1. RunsStay(r)
    BY <1>3, RunSteps
  <2>2. CASE Ended(r) /\ UNCHANGED grns
    BY <1>2, <2>1, <2>2 DEF Ended, RunsStay, Entered, Confirmed
  <2>3. CASE Advances(r) /\ UNCHANGED grns
    <3>1. Confirmed' = Confirmed
      BY <2>3 DEF Confirmed
    <3>2. CASE runs[r].pc = "read"
      <4>1. cap > 0 => Cardinality(Confirmed) < cap
        BY <1>1, <2>3, <3>2 DEF Advances, CapReached
      <4>2. Cardinality(Entered') <= Cardinality(Runs)
            /\ Cardinality(Entered') \in Nat /\ Cardinality(Runs) \in Nat
        BY NoMore DEF Entered
      <4>3. cap > 0 => Cardinality(Confirmed) + Cardinality(Entered') < cap + Cardinality(Runs)
        BY <1>1, <4>1, <4>2
      <4> QED BY <3>1, <4>3 DEF CapHeld
    <3>3. CASE runs[r].pc # "read"
      <4>1. Entered' \subseteq Entered
        BY <2>1, <2>3, <3>3 DEF Advances, RunsStay, Entered
      <4> QED BY <1>2, <3>1, <4>1
    <3> QED BY <3>2, <3>3
  <2>4. ASSUME NEW g \in Grns, Commits(r, g)
        PROVE  CapHeld'
    <3>1. r \in Entered /\ Entered' \subseteq Entered \ {r}
      BY <2>1, <2>4 DEF Commits, RunsStay, Entered
    <3>2. Cardinality(Entered') + 1 <= Cardinality(Entered)
          /\ Cardinality(Entered') \in Nat /\ Cardinality(Entered) \in Nat
      BY <1>1, <3>1, OneLess
    <3>3. Cardinality(Confirmed \union {g}) <= Cardinality(Confirmed) + 1
          /\ Cardinality(Confirmed \union {g}) \in Nat
      BY ReceiptsFinite, OneMoreAtMost
    <3>4. Cardinality(Runs) \in Nat
      BY FS_CardinalityType
    <3>5. cap > 0 => Cardinality(Confirmed \union {g}) + Cardinality(Entered')
                     < cap + Cardinality(Runs)
      BY <1>1, <3>2, <3>3, <3>4 DEF CapHeld
    <3> QED BY <2>4, <3>5, ConfirmedGrows DEF CapHeld
  <2> QED BY <1>3, <2>2, <2>3, <2>4, RunSteps
<1>4. CASE \A r \in Runs : ~(RunStep(r) \/ HandlerThrows(r))
  <2>1. Confirmed' = Confirmed
    BY <1>4, OtherSteps, ConfirmedStays
  <2>2. \A s \in Runs : runs'[s].pc = "tx" => runs'[s] = runs[s]
    BY <1>4, OtherSteps DEF Ended, RunsStay, Started
  <2>3. Entered' \subseteq Entered
    BY <2>2 DEF Entered
  <2> QED BY <1>2, <2>1, <2>3
<1> QED BY <1>3, <1>4

(* The truck cap of push.ts is exceeded by overlapping pushes only, and by   *)
(* at most all of them but one.                                             *)
THEOREM CapExceededByOverlapOnly ==
    ASSUME IsFiniteSet(Runs), Runs # {}
    PROVE  PoSpec => []CapNearlyRespected
<1>1. PoInit => CapHeld
  <2> SUFFICES ASSUME PoInit PROVE CapHeld
    OBVIOUS
  <2>1. Confirmed = {} /\ Entered = {}
    BY DEF PoInit, Confirmed, Entered, IdleRun
  <2>2. Cardinality(Confirmed) = 0 /\ Cardinality(Entered) = 0
    BY <2>1, FS_EmptySet
  <2>3. Cardinality(Runs) \in Nat /\ cap \in Nat /\ Cardinality(Runs) # 0
    BY FS_CardinalityType, FS_EmptySet, PoInitSafe, CapIsNat
  <2> QED BY <2>2, <2>3 DEF CapHeld
<1>2. PoSafe /\ CapHeld /\ [PoNext]_poVars => CapHeld'
  BY CapStep
<1>3. PoSafe /\ CapHeld => CapNearlyRespected
  <2>1. Cardinality(Entered) \in Nat /\ Cardinality(Runs) \in Nat
    BY NoMore DEF Entered
  <2> QED BY <2>1, ReceiptsFinite, CapIsNat DEF CapHeld, CapNearlyRespected
<1> QED BY <1>1, <1>2, <1>3, PoKeeping, PTL DEF PoSpec

-----------------------------------------------------------------------------
(* A truck pushed again while a push of it runs: the runs that have looked   *)
(* its receipts up and not committed.                                       *)
Looked(t) == {r \in Runs : runs[r].t = t /\ runs[r].pc \in Committing}

RoomForAll ==
    \A t \in Trucks : Cardinality(ReceiptsOf(t)) + Cardinality(Looked(t)) <= Cardinality(Runs)

LEMMA GroupsFinite ==
    ASSUME IsFiniteSet(Runs), NEW t
    PROVE  /\ IsFiniteSet(ReceiptsOf(t)) /\ IsFiniteSet(Looked(t))
           /\ IsFiniteSet(ReceiptsOf(t))' /\ IsFiniteSet(Looked(t))'
           /\ Cardinality(ReceiptsOf(t)) \in Nat /\ Cardinality(Looked(t)) \in Nat
<1>1. IsFiniteSet(Grns)
  BY GrnBoundAssumption, FS_Interval DEF Grns
<1>2. /\ ReceiptsOf(t) \in SUBSET Grns /\ ReceiptsOf(t)' \in SUBSET Grns
      /\ Looked(t) \in SUBSET Runs /\ Looked(t)' \in SUBSET Runs
  BY DEF ReceiptsOf, Looked
<1>3. IsFiniteSet(ReceiptsOf(t)) /\ IsFiniteSet(Looked(t))
  BY <1>1, <1>2, FS_Subset
<1>4. IsFiniteSet(ReceiptsOf(t)') /\ IsFiniteSet(Looked(t)')
  BY <1>1, <1>2, FS_Subset
<1> QED BY <1>3, <1>4, FS_CardinalityType

LEMMA RoomForAllStep ==
    ASSUME PoSafe, RoomForAll, [PoNext]_poVars, IsFiniteSet(Runs)
    PROVE  RoomForAll'
<1> USE IdleHasNothing
<1> SUFFICES ASSUME NEW t \in Trucks
             PROVE  (Cardinality(ReceiptsOf(t)) + Cardinality(Looked(t)) <= Cardinality(Runs))'
  BY DEF RoomForAll
<1>1. /\ Cardinality(Runs) \in Nat
      /\ Cardinality(ReceiptsOf(t)) + Cardinality(Looked(t)) <= Cardinality(Runs)
  BY FS_CardinalityType DEF RoomForAll
<1>2. t # NoTruck
  BY TruckAssumption
<1>3. CASE ReceiptsOf(t)' \subseteq ReceiptsOf(t) /\ Looked(t)' \subseteq Looked(t)
  <2>1. Cardinality(ReceiptsOf(t)') <= Cardinality(ReceiptsOf(t))
        /\ Cardinality(ReceiptsOf(t)') \in Nat /\ Cardinality(ReceiptsOf(t)) \in Nat
    BY <1>3, GroupsFinite, NoMore
  <2>2. Cardinality(Looked(t)') <= Cardinality(Looked(t))
        /\ Cardinality(Looked(t)') \in Nat /\ Cardinality(Looked(t)) \in Nat
    BY <1>3, GroupsFinite, NoMore
  <2>3. Cardinality(ReceiptsOf(t)') + Cardinality(Looked(t)') <= Cardinality(Runs)
    BY <1>1, <2>1, <2>2
  <2> QED BY <2>3
<1>4. ASSUME NEW r \in Runs, RunStep(r) \/ HandlerThrows(r)
      PROVE  (Cardinality(ReceiptsOf(t)) + Cardinality(Looked(t)) <= Cardinality(Runs))'
  <2>1. RunsStay(r)
    BY <1>4, RunSteps
  <2>2. CASE Ended(r) /\ UNCHANGED grns
    BY <1>3, <2>1, <2>2 DEF Ended, RunsStay, Looked, ReceiptsOf, Committing
  <2>3. CASE Advances(r) /\ UNCHANGED grns
    <3>1. runs'[r].t = t /\ runs'[r].pc \in Committing
          => runs[r].t = t /\ runs[r].pc \in Committing
      BY <2>3 DEF Advances, Committing
    <3>2. Looked(t)' \subseteq Looked(t)
      BY <2>1, <3>1 DEF RunsStay, Looked
    <3> QED BY <1>3, <2>3, <3>2 DEF ReceiptsOf
  <2>4. ASSUME NEW g \in Grns, Commits(r, g), runs[r].t # t
        PROVE  (Cardinality(ReceiptsOf(t)) + Cardinality(Looked(t)) <= Cardinality(Runs))'
    <3>1. ReceiptsOf(t)' \subseteq ReceiptsOf(t)
      BY <2>4 DEF Commits, Files, ReceiptsOf
    <3>2. Looked(t)' \subseteq Looked(t)
      BY <2>1, <2>4 DEF Commits, RunsStay, Looked
    <3> QED BY <1>3, <3>1, <3>2
  <2>5. ASSUME NEW g \in Grns, Commits(r, g), runs[r].t = t
        PROVE  (Cardinality(ReceiptsOf(t)) + Cardinality(Looked(t)) <= Cardinality(Runs))'
    <3>1. r \in Looked(t) /\ Looked(t)' \subseteq Looked(t) \ {r}
      BY <2>1, <2>5 DEF Commits, RunsStay, Looked, Committing
    <3>2. Cardinality(Looked(t)') + 1 <= Cardinality(Looked(t))
          /\ Cardinality(Looked(t)') \in Nat /\ Cardinality(Looked(t)) \in Nat
      BY <3>1, GroupsFinite, OneLess
    <3>3. ReceiptsOf(t)' = ReceiptsOf(t) \union {g}
      BY <2>5 DEF Commits, Files, ReceiptsOf
    <3>4. /\ Cardinality(ReceiptsOf(t)) \in Nat
          /\ Cardinality(ReceiptsOf(t) \union {g}) \in Nat
          /\ Cardinality(ReceiptsOf(t) \union {g}) <= Cardinality(ReceiptsOf(t)) + 1
      BY GroupsFinite, OneMoreAtMost
    <3>5. Cardinality(ReceiptsOf(t) \union {g}) + Cardinality(Looked(t)') <= Cardinality(Runs)
      BY <1>1, <3>2, <3>4
    <3>6. Cardinality(ReceiptsOf(t)') + Cardinality(Looked(t)') <= Cardinality(Runs)
      BY <3>3, <3>5
    <3> QED BY <3>6
  <2> QED BY <1>4, <2>2, <2>3, <2>4, <2>5, RunSteps
<1>5. CASE \A r \in Runs : ~(RunStep(r) \/ HandlerThrows(r))
  <2>1. ReceiptsOf(t)' \subseteq ReceiptsOf(t)
    <3>1. CASE UNCHANGED grns
      BY <3>1 DEF ReceiptsOf
    <3>2. CASE OpenPartial
      <4>1. PICK g \in Grns :
              grns' = [grns EXCEPT ![g] = [status |-> "PARTIAL", truck |-> NoTruck, old |-> TRUE]]
        BY <3>2 DEF OpenPartial, RefillNew, Unused
      <4> QED BY <1>2, <4>1 DEF ReceiptsOf, PoSafe, PoTyped, PoTypeOK
    <3>3. ASSUME NEW g \in Grns, Age(g)
          PROVE  ReceiptsOf(t)' \subseteq ReceiptsOf(t)
      <4>1. grns[g] \in Receipt /\ DOMAIN grns = Grns
        BY DEF PoSafe, PoTyped, PoTypeOK
      <4>2. grns' = [grns EXCEPT ![g] = [grns[g] EXCEPT !.old = TRUE]]
        BY <3>3 DEF Age
      <4> QED BY <4>1, <4>2 DEF ReceiptsOf, Receipt
    <3> QED BY <1>5, <3>1, <3>2, <3>3, OtherSteps
  <2>2. CASE UNCHANGED runs
    BY <1>3, <2>1, <2>2 DEF Looked
  <2>3. CASE \A r \in Runs : Ended(r)
    BY <1>3, <2>1, <2>3 DEF Looked, Ended, Committing
  <2>4. ASSUME NEW r \in Runs, NEW u \in Trucks, UNCHANGED grns, RunsStay(r), Started(r, u)
        PROVE  (Cardinality(ReceiptsOf(t)) + Cardinality(Looked(t)) <= Cardinality(Runs))'
    <3>1. CASE u # t
      BY <1>3, <2>4, <3>1 DEF RunsStay, Started, Looked, ReceiptsOf
    <3>2. CASE u = t
      <4>1. ReceiptsOf(t)' = {}
        BY <2>4, <3>2 DEF Started, ReceiptsOf
      <4>2. Cardinality(ReceiptsOf(t)') = 0
        BY <4>1, FS_EmptySet
      <4>3. Cardinality(Looked(t)') <= Cardinality(Runs) /\ Cardinality(Looked(t)') \in Nat
        BY NoMore DEF Looked
      <4>4. Cardinality(ReceiptsOf(t)') + Cardinality(Looked(t)') <= Cardinality(Runs)
        BY <1>1, <4>2, <4>3
      <4> QED BY <4>4
    <3> QED BY <3>1, <3>2
  <2> QED BY <1>5, <2>2, <2>3, <2>4, OtherSteps
<1> QED BY <1>4, <1>5

(* A truck never has more receipts than there were pushes of it at the same  *)
(* time.                                                                    *)
ReceiptsWithinRuns == \A t \in Trucks : Cardinality(ReceiptsOf(t)) <= Cardinality(Runs)

(* checkWbDuplicate stops every push but those that overlap: however often a *)
(* truck is sent, and whatever fails, restarts or the desk opens, what it    *)
(* can be received twice by are pushes that ran at the same time.           *)
THEOREM ReceivedTwiceByOverlapOnly ==
    ASSUME IsFiniteSet(Runs)
    PROVE  PoSpec => []ReceiptsWithinRuns
<1>1. PoInit => RoomForAll
  <2> SUFFICES ASSUME PoInit, NEW t \in Trucks
               PROVE  Cardinality(ReceiptsOf(t)) + Cardinality(Looked(t)) <= Cardinality(Runs)
    BY DEF RoomForAll
  <2>1. ReceiptsOf(t) = {} /\ Looked(t) = {}
    BY TruckAssumption DEF PoInit, ReceiptsOf, Looked, IdleRun, Committing
  <2>2. Cardinality(ReceiptsOf(t)) = 0 /\ Cardinality(Looked(t)) = 0
    BY <2>1, FS_EmptySet
  <2>3. Cardinality(Runs) \in Nat
    BY FS_CardinalityType
  <2> QED BY <2>2, <2>3
<1>2. PoSafe /\ RoomForAll /\ [PoNext]_poVars => RoomForAll'
  BY RoomForAllStep
<1>3. RoomForAll => ReceiptsWithinRuns
  <2>1. Cardinality(Runs) \in Nat
    BY FS_CardinalityType
  <2> QED BY <2>1, GroupsFinite DEF RoomForAll, ReceiptsWithinRuns
<1> QED BY <1>1, <1>2, <1>3, PoKeeping, PTL DEF PoSpec

-----------------------------------------------------------------------------
(* Stock movements with the desk: several pushes may have found one PARTIAL  *)
(* receipt, and since it is old the watchdog may heal it meanwhile.         *)
Carry(g) == {r \in Runs : runs[r].grn = g /\ runs[r].pc \in {"tx", "moving"}}
Owed(g) == IF g \in gaps THEN 1 ELSE 0

MovingConfirmed == \A r \in Runs : Moving(r) => runs[r].grn \in Confirmed
BlankBefore == \A g \in Grns \ Confirmed : moves[g] = 0 /\ g \notin gaps
RoomToMove ==
    \A g \in Grns : moves[g] + Cardinality(Carry(g)) + Owed(g) <= Cardinality(Runs) + 1

FewMovers == MovingConfirmed /\ BlankBefore /\ RoomToMove

LEMMA CarryFinite ==
    ASSUME IsFiniteSet(Runs), NEW g
    PROVE  /\ IsFiniteSet(Carry(g)) /\ IsFiniteSet(Carry(g)')
           /\ Cardinality(Carry(g)) \in Nat /\ Cardinality(Carry(g)') \in Nat
           /\ Cardinality(Carry(g)) <= Cardinality(Runs)
           /\ Cardinality(Carry(g)') <= Cardinality(Runs)
           /\ Cardinality(Runs) \in Nat
<1>1. Carry(g) \in SUBSET Runs /\ Carry(g)' \in SUBSET Runs
  BY DEF Carry
<1>2. IsFiniteSet(Carry(g)) /\ Cardinality(Carry(g)) <= Cardinality(Runs)
  BY <1>1, FS_Subset
<1>3. IsFiniteSet(Carry(g)') /\ Cardinality(Carry(g)') <= Cardinality(Runs)
  BY <1>1, FS_Subset
<1> QED BY <1>2, <1>3, FS_CardinalityType

(* The room of one receipt, when its numbers do not grow together. *)
LEMMA RoomStays ==
    ASSUME PoSafe, FewMovers, IsFiniteSet(Runs), NEW g \in Grns, moves'[g] \in Nat,
           \/ /\ Carry(g)' \subseteq Carry(g)
              /\ moves'[g] + Owed(g)' <= moves[g] + Owed(g)
           \/ moves'[g] = 0
           \/ \E r \in Carry(g) : /\ Carry(g)' \subseteq Carry(g) \ {r}
                                  /\ moves'[g] = moves[g] + 1 /\ Owed(g)' = Owed(g)
    PROVE  moves'[g] + Cardinality(Carry(g)') + Owed(g)' <= Cardinality(Runs) + 1
<1>1. /\ moves[g] \in Nat /\ Owed(g) \in {0, 1} /\ Owed(g)' \in {0, 1}
      /\ moves[g] + Cardinality(Carry(g)) + Owed(g) <= Cardinality(Runs) + 1
  BY DEF PoSafe, PoTyped, PoTypeOK, FewMovers, RoomToMove, Owed
<1>2. CASE Carry(g)' \subseteq Carry(g) /\ moves'[g] + Owed(g)' <= moves[g] + Owed(g)
  <2>1. Cardinality(Carry(g)') <= Cardinality(Carry(g))
    BY <1>2, CarryFinite, NoMore
  <2> QED BY <1>1, <1>2, <2>1, CarryFinite
<1>3. CASE moves'[g] = 0
  BY <1>1, <1>3, CarryFinite
<1>4. ASSUME NEW r \in Carry(g), Carry(g)' \subseteq Carry(g) \ {r},
             moves'[g] = moves[g] + 1, Owed(g)' = Owed(g)
      PROVE  moves'[g] + Cardinality(Carry(g)') + Owed(g)' <= Cardinality(Runs) + 1
  <2>1. Cardinality(Carry(g)') + 1 <= Cardinality(Carry(g))
    BY <1>4, CarryFinite, OneLess
  <2> QED BY <1>1, <1>4, <2>1, CarryFinite
<1> QED BY <1>2, <1>3, <1>4

LEMMA RunKeepsFew ==
    ASSUME PoSafe, PoSafe', FewMovers, IsFiniteSet(Runs),
           NEW r \in Runs, RunStep(r) \/ HandlerThrows(r)
    PROVE  FewMovers'
<1> USE IdleHasNothing
<1>1. RunsStay(r) /\ gaps' = gaps
  BY RunSteps, RunStepsMove
<1>2. moves \in [Grns -> Nat] /\ moves' \in [Grns -> Nat]
  BY DEF PoSafe, PoTyped, PoTypeOK
<1>3. \A g : Owed(g)' = Owed(g)
  BY <1>1 DEF Owed
<1>4. CASE (Ended(r) \/ Advances(r)) /\ UNCHANGED grns
  <2>1. Confirmed' = Confirmed
    BY <1>4 DEF Confirmed
  <2>2. runs'[r].pc # "moving"
    BY <1>4 DEF Ended, Advances
  <2>3. MovingConfirmed'
    BY <1>1, <2>1, <2>2 DEF FewMovers, MovingConfirmed, Moving, RunsStay
  <2>4. CASE UNCHANGED moves
    <3>1. BlankBefore'
      BY <1>1, <2>1, <2>4 DEF FewMovers, BlankBefore
    <3>2. ASSUME NEW g \in Grns
          PROVE  moves'[g] + Cardinality(Carry(g)') + Owed(g)' <= Cardinality(Runs) + 1
      <4>1. CASE runs'[r].pc = "tx" /\ runs'[r].grn = g
        <5>1. runs[r].pc = "read" /\ g \in Partial
          BY <1>4, <4>1, IdleHasNothing DEF Advances, Ended, Grns
        <5>2. moves[g] = 0
          BY <5>1 DEF Partial, Confirmed, FewMovers, BlankBefore
        <5> QED BY <1>2, <2>4, <5>2, RoomStays
      <4>2. CASE ~(runs'[r].pc = "tx" /\ runs'[r].grn = g)
        <5>1. Carry(g)' \subseteq Carry(g)
          BY <1>1, <2>2, <4>2 DEF Carry, RunsStay
        <5>2. moves'[g] + Owed(g)' <= moves[g] + Owed(g)
          BY <1>2, <1>3, <2>4 DEF Owed
        <5> QED BY <1>2, <5>1, <5>2, RoomStays
      <4> QED BY <4>1, <4>2
    <3> QED BY <2>3, <3>1, <3>2 DEF FewMovers, RoomToMove
  <2>5. CASE Moving(r) /\ Moved(runs[r].grn)
    <3>1. runs[r].grn \in Grns /\ runs[r].grn \in Confirmed
      BY <2>5, MovingHasReceipt DEF FewMovers, MovingConfirmed
    <3>2. /\ moves'[runs[r].grn] = moves[runs[r].grn] + 1
          /\ \A h \in Grns \ {runs[r].grn} : moves'[h] = moves[h]
      BY <1>2, <2>5, <3>1 DEF Moved
    <3>3. BlankBefore'
      BY <1>1, <2>1, <3>1, <3>2 DEF FewMovers, BlankBefore
    <3>4. runs'[r].pc \notin {"tx", "moving"}
      BY <1>4, <2>5 DEF Ended, Advances, Moving
    <3>5. \A g \in Grns : Carry(g)' \subseteq Carry(g) \ {r}
      BY <1>1, <3>4 DEF Carry, RunsStay
    <3>6. ASSUME NEW g \in Grns
          PROVE  moves'[g] + Cardinality(Carry(g)') + Owed(g)' <= Cardinality(Runs) + 1
      <4>1. CASE g = runs[r].grn
        <5>1. r \in Carry(g)
          BY <2>5, <4>1 DEF Carry, Moving
        <5> QED BY <1>2, <1>3, <3>2, <3>5, <4>1, <5>1, RoomStays
      <4>2. CASE g # runs[r].grn
        <5>1. Carry(g)' \subseteq Carry(g)
          BY <3>5
        <5>2. moves'[g] + Owed(g)' <= moves[g] + Owed(g)
          BY <1>2, <1>3, <3>2, <4>2 DEF Owed
        <5> QED BY <1>2, <5>1, <5>2, RoomStays
      <4> QED BY <4>1, <4>2
    <3> QED BY <2>3, <3>3, <3>6 DEF FewMovers, RoomToMove
  <2> QED BY <2>4, <2>5, RunStepsMove
<1>5. ASSUME NEW g \in Grns, Commits(r, g)
      PROVE  FewMovers'
  <2>1. Confirmed' = Confirmed \union {g} /\ moves' = moves /\ runs'[r].grn = g
    BY <1>5, ConfirmedGrows DEF Commits
  <2>2. MovingConfirmed'
    BY <1>1, <2>1 DEF FewMovers, MovingConfirmed, Moving, RunsStay
  <2>3. BlankBefore'
    BY <1>1, <2>1 DEF FewMovers, BlankBefore
  <2>4. ASSUME NEW h \in Grns
        PROVE  moves'[h] + Cardinality(Carry(h)') + Owed(h)' <= Cardinality(Runs) + 1
    <3>1. moves'[h] + Owed(h)' <= moves[h] + Owed(h)
      BY <1>2, <1>3, <2>1 DEF Owed
    <3>2. CASE h = g /\ g \in Unused
      <4>1. moves[h] = 0
        BY <3>2 DEF Unused, Confirmed, FewMovers, BlankBefore
      <4> QED BY <1>2, <2>1, <4>1, RoomStays
    <3>3. CASE h # g \/ g = runs[r].grn
      <4>1. Carry(h)' \subseteq Carry(h)
        BY <1>1, <1>5, <2>1, <3>3 DEF Carry, RunsStay, Commits
      <4> QED BY <1>2, <3>1, <4>1, RoomStays
    <3> QED BY <1>5, <3>2, <3>3 DEF Commits
  <2> QED BY <2>2, <2>3, <2>4 DEF FewMovers, RoomToMove
<1> QED BY <1>4, <1>5, RunSteps

LEMMA OthersKeepFew ==
    ASSUME PoSafe, PoSafe', FewMovers, IsFiniteSet(Runs), [PoNext]_poVars,
           \A r \in Runs : ~(RunStep(r) \/ HandlerThrows(r))
    PROVE  FewMovers'
<1> USE IdleHasNothing
<1>1. Confirmed' = Confirmed
  BY OtherSteps, ConfirmedStays
<1>2. moves \in [Grns -> Nat] /\ moves' \in [Grns -> Nat] /\ gaps \subseteq Grns
  BY DEF PoSafe, PoTyped, PoTypeOK
<1>3. \A s \in Runs : runs'[s].pc \in {"tx", "moving"} => runs'[s] = runs[s]
  BY OtherSteps DEF Ended, RunsStay, Started
<1>4. MovingConfirmed'
  BY <1>1, <1>3 DEF FewMovers, MovingConfirmed, Moving
<1>5. \A g : Carry(g)' \subseteq Carry(g)
  BY <1>3 DEF Carry
<1>6. ASSUME NEW g \in Grns, moves'[g] + Owed(g)' <= moves[g] + Owed(g) \/ moves'[g] = 0
      PROVE  moves'[g] + Cardinality(Carry(g)') + Owed(g)' <= Cardinality(Runs) + 1
  BY <1>2, <1>5, <1>6, RoomStays
<1>7. CASE UNCHANGED moves /\ gaps' \in {gaps, {}}
  <2>1. \A g \in Grns : moves'[g] + Owed(g)' <= moves[g] + Owed(g)
    BY <1>2, <1>7 DEF Owed
  <2>2. BlankBefore'
    BY <1>1, <1>7 DEF FewMovers, BlankBefore
  <2> QED BY <1>4, <1>6, <2>1, <2>2 DEF FewMovers, RoomToMove
<1>8. CASE FindStockGaps
  <2>1. moves' = moves /\ gaps' \subseteq Confirmed /\ \A g \in gaps' : moves[g] = 0
    BY <1>8 DEF FindStockGaps, StockGaps, tables
  <2>2. BlankBefore'
    BY <1>1, <2>1 DEF FewMovers, BlankBefore
  <2>3. ASSUME NEW g \in Grns
        PROVE  moves'[g] + Owed(g)' <= moves[g] + Owed(g) \/ moves'[g] = 0
    BY <1>2, <2>1 DEF Owed
  <2> QED BY <1>4, <1>6, <2>2, <2>3 DEF FewMovers, RoomToMove
<1>9. ASSUME NEW g \in Grns, HealStockGap(g)
      PROVE  FewMovers'
  <2>1. g \in gaps /\ gaps' = gaps \ {g}
    BY <1>9 DEF HealStockGap
  <2>2. g \in Confirmed
    BY <2>1 DEF FewMovers, BlankBefore
  <2>3. /\ moves'[g] \in {moves[g], moves[g] + 1}
        /\ \A h \in Grns \ {g} : moves'[h] = moves[h]
    BY <1>2, <1>9 DEF HealStockGap, Moved
  <2>4. BlankBefore'
    BY <1>1, <2>1, <2>2, <2>3 DEF FewMovers, BlankBefore
  <2>5. ASSUME NEW h \in Grns
        PROVE  moves'[h] + Owed(h)' <= moves[h] + Owed(h)
    BY <1>2, <2>1, <2>3 DEF Owed
  <2> QED BY <1>4, <1>6, <2>4, <2>5 DEF FewMovers, RoomToMove
<1> QED BY <1>7, <1>8, <1>9, OtherStepsMove

(* A receipt moves the stock once, and once more at most for each push but   *)
(* one that runs at the same time and for the watchdog.                     *)
MovesWithinRuns == \A g \in Grns : moves[g] <= Cardinality(Runs) + 1

(* syncToInventory and healStockGap never add to a receipt's stock without   *)
(* end, whatever is opened at the desk, fails or is tried again: beyond the  *)
(* first movement there is one for each overlapping push that had found the  *)
(* receipt and one for the watchdog.                                        *)
THEOREM MovedAgainByOverlapOnly ==
    ASSUME IsFiniteSet(Runs)
    PROVE  PoSpec => []MovesWithinRuns
<1>1. PoInit => FewMovers
  <2> SUFFICES ASSUME PoInit PROVE FewMovers
    OBVIOUS
  <2>1. \A r \in Runs : ~Moving(r)
    BY DEF PoInit, Moving, IdleRun
  <2>2. ASSUME NEW g \in Grns
        PROVE  moves[g] + Cardinality(Carry(g)) + Owed(g) <= Cardinality(Runs) + 1
    <3>1. moves[g] = 0 /\ Owed(g) = 0
      BY DEF PoInit, Owed
    <3> QED BY <3>1, CarryFinite
  <2>3. BlankBefore
    BY DEF PoInit, BlankBefore
  <2> QED BY <2>1, <2>2, <2>3 DEF FewMovers, MovingConfirmed, RoomToMove
<1>2. PoSafe /\ PoSafe' /\ FewMovers /\ [PoNext]_poVars => FewMovers'
  BY RunKeepsFew, OthersKeepFew
<1>3. PoSafe /\ FewMovers => MovesWithinRuns
  <2> SUFFICES ASSUME PoSafe, FewMovers, NEW g \in Grns
               PROVE  moves[g] <= Cardinality(Runs) + 1
    BY DEF MovesWithinRuns
  <2>1. moves[g] \in Nat /\ Owed(g) \in Nat
    BY DEF PoSafe, PoTyped, PoTypeOK, Owed
  <2> QED BY <2>1, CarryFinite DEF FewMovers, RoomToMove
<1> QED BY <1>1, <1>2, <1>3, PoKeeping, PTL DEF PoSpec

-----------------------------------------------------------------------------
(* The order line with the desk: two pushes may fill the same receipt.       *)
LineCoversReceipts ==
    /\ line.received >= Load * Cardinality(Confirmed)
    /\ line.pending = IF line.received > Ordered THEN 0 ELSE Ordered - line.received

LEMMA LineCoversStep ==
    ASSUME PoSafe, LineCoversReceipts, [PoNext]_poVars
    PROVE  LineCoversReceipts'
<1>1. CASE line' = line /\ Confirmed' = Confirmed
  BY <1>1 DEF LineCoversReceipts
<1>2. ASSUME NEW r \in Runs, RunStep(r) \/ HandlerThrows(r)
      PROVE  LineCoversReceipts'
  <2>1. CASE UNCHANGED <<grns, line>>
    BY <1>1, <2>1 DEF Confirmed
  <2>2. ASSUME NEW g \in Grns, Commits(r, g)
        PROVE  LineCoversReceipts'
    <3> DEFINE n == Cardinality(Confirmed)
               m == Cardinality(Confirmed \union {g})
    <3>1. n \in Nat /\ m \in Nat /\ m <= n + 1
      BY ReceiptsFinite, OneMoreAtMost
    <3>2. Load \in Nat /\ Ordered \in Nat /\ line.received \in Nat
      BY LoadAssumption, OrderAssumption DEF PoSafe, PoTyped, PoTypeOK
    <3>3. /\ line.received >= Load * n
          /\ line.pending = IF line.received > Ordered THEN 0 ELSE Ordered - line.received
      BY DEF LineCoversReceipts
    <3>4. /\ line'.received = line.received + Load
          /\ line'.pending = IF Load > line.pending THEN 0 ELSE line.pending - Load
      BY <2>2 DEF Commits, Added
    <3>5. Cardinality(Confirmed)' = m
      BY <2>2, ConfirmedGrows
    <3> HIDE DEF n, m
    <3>6. Load * m <= Load * n + Load
      <4>1. m = n \/ m = n + 1 \/ m < n
        BY <3>1
      <4>2. Load * (n + 1) = Load * n + Load
        BY <3>1, <3>2
      <4>3. m < n => \E k \in Nat : n = m + k /\ Load * n = Load * m + Load * k /\ Load * k \in Nat
        <5> SUFFICES ASSUME m < n
                     PROVE  \E k \in Nat : n = m + k /\ Load * n = Load * m + Load * k
                                           /\ Load * k \in Nat
          OBVIOUS
        <5> DEFINE k == n - m
        <5>1. k \in Nat /\ n = m + k
          BY <3>1
        <5> HIDE DEF k
        <5>2. Load * (m + k) = Load * m + Load * k /\ Load * k \in Nat
          BY <3>1, <3>2, <5>1
        <5> QED BY <5>1, <5>2
      <4>4. Load * m \in Nat /\ Load * n \in Nat
        BY <3>1, <3>2
      <4> QED BY <3>2, <4>1, <4>2, <4>3, <4>4
    <3>7. line'.received >= Load * m
      <4>1. Load * m \in Nat /\ Load * n \in Nat
        BY <3>1, <3>2
      <4> QED BY <3>2, <3>3, <3>4, <3>6, <4>1
    <3>8. line'.pending = IF line'.received > Ordered THEN 0 ELSE Ordered - line'.received
      BY <3>2, <3>3, <3>4
    <3> QED BY <3>5, <3>7, <3>8 DEF LineCoversReceipts
  <2> QED BY <1>2, <2>1, <2>2, RunSteps
<1>3. CASE \A r \in Runs : ~(RunStep(r) \/ HandlerThrows(r))
  BY <1>1, <1>3, OtherSteps, ConfirmedStays
<1> QED BY <1>2, <1>3

(* No receipt is missing from the order line, also when the desk opens       *)
(* receipts and two pushes fill the same one: the line may count more than   *)
(* the receipts, never less, and what is pending is always what it has left. *)
THEOREM LineNeverShort == PoSpec => []LineCoversReceipts
<1>1. PoInit => LineCoversReceipts
  <2> SUFFICES ASSUME PoInit PROVE LineCoversReceipts
    OBVIOUS
  <2>1. Confirmed = {}
    BY DEF PoInit, Confirmed
  <2>2. Cardinality(Confirmed) = 0
    BY <2>1, FS_EmptySet
  <2>3. Load * 0 = 0 /\ Ordered \in Nat
    BY LoadAssumption, OrderAssumption
  <2> QED BY <2>2, <2>3 DEF PoInit, LineCoversReceipts
<1>2. PoSafe /\ LineCoversReceipts /\ [PoNext]_poVars => LineCoversReceipts'
  BY LineCoversStep
<1> QED BY <1>1, <1>2, PoKeeping, PTL DEF PoSpec
=============================================================================
