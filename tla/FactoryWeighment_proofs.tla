----------------------- MODULE FactoryWeighment_proofs -----------------------
(***************************************************************************)
(* Proofs about FactoryWeighment, for any sets of tickets, requests,       *)
(* weights and corrections.                                                *)
(***************************************************************************)
EXTENDS FactoryWeighment, TLAPS

-----------------------------------------------------------------------------
(* What a PC sends is a weighment with weights in Nat. *)
LEMMA PcSnapsType ==
    PcSnaps \subseteq [status : Statuses, dir : Directions,
                       gross : Nat, tare : Nat, net : Nat]
<1> SUFFICES ASSUME NEW p \in PcSnaps
             PROVE  p \in [status : Statuses, dir : Directions,
                           gross : Nat, tare : Nat, net : Nat]
  OBVIOUS
<1>1. CASE p \in {Snap(s, d, 0, 0, 0) : s \in {"GATE_ENTRY", "CANCELLED"}, d \in Directions}
  BY <1>1 DEF Snap, Statuses
<1>2. CASE p \in {Snap("FIRST_DONE", "INBOUND", w, 0, 0) : w \in Weights}
  BY <1>2, WeightsAssumption DEF Snap, Statuses, Directions
<1>3. CASE p \in {Snap("FIRST_DONE", "OUTBOUND", 0, w, 0) : w \in Weights}
  BY <1>3, WeightsAssumption DEF Snap, Statuses, Directions
<1>4. CASE p \in {Snap("COMPLETE", d, w[1], w[2], w[1] - w[2]) :
                    d \in Directions, w \in {x \in Weights \X Weights : x[1] > x[2]}}
  <2>1. PICK d \in Directions, w \in {x \in Weights \X Weights : x[1] > x[2]} :
           p = Snap("COMPLETE", d, w[1], w[2], w[1] - w[2])
    BY <1>4
  <2>2. w \in Weights \X Weights /\ w[1] > w[2]
    OBVIOUS
  <2>3. w[1] \in Nat /\ w[2] \in Nat
    BY <2>2, WeightsAssumption
  <2>4. w[1] - w[2] \in Nat
    BY <2>2, <2>3
  <2> QED BY <2>1, <2>3, <2>4 DEF Snap, Statuses
<1> QED BY <1>1, <1>2, <1>3, <1>4 DEF PcSnaps

(* The initial table is well typed. *)
LEMMA InitType == FactoryInit => FactoryTypeOK
<1> SUFFICES ASSUME FactoryInit PROVE FactoryTypeOK
  OBVIOUS
<1>1. Absent \in Row
  BY DEF Absent, Row, Directions
<1>2. Idle \in Request
  BY DEF Request
<1> QED BY <1>1, <1>2 DEF FactoryInit, FactoryTypeOK

(* Saving a row of the right type keeps the table well typed. *)
LEMMA SaveType ==
    ASSUME FactoryTypeOK, NEW t \in Tickets, NEW r \in Row, Save(t, r)
    PROVE  rows' \in [Tickets -> Row] /\ clock' \in Nat
<1>1. [r EXCEPT !.stamp = clock + 1] \in Row
  BY DEF FactoryTypeOK, Row
<1> QED BY <1>1 DEF FactoryTypeOK, Save

(* A request of the right type keeps the requests well typed. *)
LEMMA StartType ==
    ASSUME FactoryTypeOK, NEW q \in Requests, NEW r \in Request, Start(q, r)
    PROVE  reqs' \in [Requests -> Request]
BY DEF FactoryTypeOK, Start

LEMMA FinishType ==
    ASSUME FactoryTypeOK, NEW q \in Requests, Finish(q)
    PROVE  reqs' \in [Requests -> Request]
BY DEF FactoryTypeOK, Finish, Request

(* What the op of a request says about its other fields. *)
LEMMA RequestFields ==
    ASSUME NEW r \in Request
    PROVE  /\ r.op \in {"gross", "tare"} =>
                 r \in [op : {"gross", "tare"}, t : Tickets, w : Weights,
                       status : OpenStatuses, other : Nat]
           /\ r.op = "lab" => r \in [op : {"lab"}, t : Tickets, result : LabResults]
           /\ r.op = "push" =>
                 r \in [op : {"push"}, t : Tickets, status : OpenStatuses \union {"ABSENT"},
                       snap : [status : Statuses, dir : Directions,
                               gross : Nat, tare : Nat, net : Nat]]
           /\ r.op = "fix" => r \in [op : {"fix"}, t : Tickets, id : Fixes]
BY DEF Request, Idle

(* `x ? parseFloat(x) : undefined` keeps a weight a weight. *)
LEMMA MergeType ==
    ASSUME NEW new \in Nat, NEW old \in Nat
    PROVE  Merge(new, old) \in Nat
BY DEF Merge

(* The row that /push creates. *)
LEMMA BornByPush ==
    ASSUME NEW old \in Row, NEW d \in Directions, NEW b \in Nat
    PROVE  [old EXCEPT !.dir = d, !.born = b, !.lab = "PENDING",
                       !.held = (d = "INBOUND")] \in Row
<1>1. PICK h \in BOOLEAN : h = (d = "INBOUND")
  OBVIOUS
<1>2. [old EXCEPT !.dir = d, !.born = b, !.lab = "PENDING", !.held = h] \in Row
  BY DEF Row
<1> QED BY <1>1, <1>2, Zenon

(* The two legs: whatever was peeked, the write keeps the types. *)
LEMMA WeighType ==
    ASSUME FactoryTypeOK, NEW q \in Requests, NEW r \in Request,
           r.op \in {"gross", "tare"},
           NEW weighed \in Row, NEW net \in Int, WeighCommit(q, r, weighed, net)
    PROVE  FactoryTypeOK'
<1>1. r.t \in Tickets /\ r.status \in OpenStatuses
  BY RequestFields
<1>2. reqs' \in [Requests -> Request]
  BY FinishType DEF WeighCommit
<1>3. UNCHANGED <<counter, fixLog>>
  BY DEF WeighCommit
<1>4. CASE Unmoved(r.t, r.status)
  <2>1. PICK row \in Row : Save(r.t, row)
    <3> DEFINE row == [weighed EXCEPT
                         !.status = IF r.status = "GATE_ENTRY" THEN "FIRST_DONE" ELSE "COMPLETE",
                         !.net = IF r.status = "GATE_ENTRY" THEN @ ELSE net,
                         !.synced = FALSE]
    <3>1. Save(r.t, row)
      BY <1>4 DEF WeighCommit, NoWrite
    <3>2. r.status # "GATE_ENTRY" => net \in Nat
      BY <1>1 DEF WeighCommit, NetPositive, OpenStatuses
    <3>3. row \in Row
      BY <3>2 DEF Row, Statuses
    <3> QED BY <3>1, <3>3
  <2>2. rows' \in [Tickets -> Row] /\ clock' \in Nat
    BY <1>1, <2>1, SaveType
  <2>3. shots' \subseteq Tickets
    BY <1>1, <1>4 DEF WeighCommit, FactoryTypeOK
  <2> QED BY <1>2, <1>3, <2>2, <2>3 DEF FactoryTypeOK
<1>5. CASE ~Unmoved(r.t, r.status)
  BY <1>2, <1>3, <1>5 DEF WeighCommit, NoWrite, FactoryTypeOK
<1> QED BY <1>4, <1>5

(* Every step of the factory keeps the types. *)
LEMMA TypeStep ==
    ASSUME FactoryTypeOK, [FactoryNext]_factoryVars
    PROVE  FactoryTypeOK'
<1>0. CASE UNCHANGED factoryVars
  BY <1>0 DEF factoryVars, FactoryTypeOK
<1>1. ASSUME NEW q \in Requests, NEW t \in Tickets, NEW w \in Weights,
             GrossBegin(q, t, w) \/ TareBegin(q, t, w)
      PROVE  FactoryTypeOK'
  <2>1. PICK op \in {"gross", "tare"}, other \in Nat : WeighBegin(q, t, op, w, other)
    BY <1>1 DEF GrossBegin, TareBegin, FactoryTypeOK, Row
  <2> DEFINE r == [op |-> op, t |-> t, w |-> w, status |-> rows[t].status, other |-> other]
  <2>2. r \in Request
    BY <2>1 DEF WeighBegin, FirstLeg, SecondLeg, OpenStatuses, Request
  <2>3. reqs' \in [Requests -> Request]
    BY <2>1, <2>2, StartType DEF WeighBegin
  <2> QED BY <2>1, <2>3 DEF WeighBegin, NoWrite, FactoryTypeOK
<1>2. ASSUME NEW q \in Requests, NEW t \in Tickets, NEW result \in LabResults,
             LabBegin(q, t, result)
      PROVE  FactoryTypeOK'
  <2>1. [op |-> "lab", t |-> t, result |-> result] \in Request
    BY DEF Request
  <2>2. reqs' \in [Requests -> Request]
    BY <1>2, <2>1, StartType DEF LabBegin
  <2> QED BY <1>2, <2>2 DEF LabBegin, NoWrite, FactoryTypeOK
<1>3. ASSUME NEW q \in Requests, NEW t \in Tickets, NEW id \in Fixes, CorrectionBegin(q, t, id)
      PROVE  FactoryTypeOK'
  <2>1. [op |-> "fix", t |-> t, id |-> id] \in Request
    BY DEF Request
  <2>2. reqs' \in [Requests -> Request]
    BY <1>3, <2>1, StartType DEF CorrectionBegin
  <2> QED BY <1>3, <2>2 DEF CorrectionBegin, NoWrite, FactoryTypeOK
<1>4. ASSUME NEW q \in Requests, NEW t \in Tickets, NEW p \in PcSnaps, PcPushBegin(q, t, p)
      PROVE  FactoryTypeOK'
  <2> DEFINE r == [op |-> "push", t |-> t, status |-> rows[t].status, snap |-> p]
  <2>1. rows[t].status \in OpenStatuses \union {"ABSENT"}
    BY <1>4 DEF PcPushBegin, Present, Replayable, ValidTransitions, OpenStatuses,
                FactoryTypeOK, Row, Statuses
  <2>2. r \in Request
    BY <2>1, PcSnapsType DEF Request
  <2>3. reqs' \in [Requests -> Request]
    BY <1>4, <2>2, StartType DEF PcPushBegin
  <2> QED BY <1>4, <2>3 DEF PcPushBegin, NoWrite, FactoryTypeOK
<1>5. ASSUME NEW q \in Requests, GrossCommit(q)
      PROVE  FactoryTypeOK'
  <2> DEFINE r == reqs[q]
  <2>1. r \in Request /\ r.op = "gross"
    BY <1>5 DEF GrossCommit, FactoryTypeOK
  <2>2. r.t \in Tickets /\ r.w \in Nat /\ r.other \in Nat
    BY <2>1, RequestFields, WeightsAssumption
  <2>3. [rows[r.t] EXCEPT !.gross = r.w] \in Row
    BY <2>2 DEF FactoryTypeOK, Row
  <2>4. r.w - r.other \in Int
    BY <2>2
  <2> QED BY <1>5, <2>1, <2>3, <2>4, WeighType DEF GrossCommit
<1>6. ASSUME NEW q \in Requests, TareCommit(q)
      PROVE  FactoryTypeOK'
  <2> DEFINE r == reqs[q]
  <2>1. r \in Request /\ r.op = "tare"
    BY <1>6 DEF TareCommit, FactoryTypeOK
  <2>2. r.t \in Tickets /\ r.w \in Nat /\ r.other \in Nat
    BY <2>1, RequestFields, WeightsAssumption
  <2>3. [rows[r.t] EXCEPT !.tare = r.w] \in Row
    BY <2>2 DEF FactoryTypeOK, Row
  <2>4. r.other - r.w \in Int
    BY <2>2
  <2> QED BY <1>6, <2>1, <2>3, <2>4, WeighType DEF TareCommit
<1>7. ASSUME NEW q \in Requests, LabCommit(q)
      PROVE  FactoryTypeOK'
  <2> DEFINE r == reqs[q]
             row == [rows[r.t] EXCEPT !.lab = r.result, !.synced = FALSE]
  <2>1. r.t \in Tickets /\ r.result \in LabResults
    BY <1>7, RequestFields DEF LabCommit, FactoryTypeOK
  <2>2. row \in Row
    <3>1. rows[r.t] \in Row
      BY <2>1 DEF FactoryTypeOK
    <3> QED BY <2>1, <3>1 DEF Row, LabResults
  <2>3. Save(r.t, row)
    BY <1>7 DEF LabCommit
  <2>4. rows' \in [Tickets -> Row] /\ clock' \in Nat
    BY <2>1, <2>2, <2>3, SaveType
  <2>5. reqs' \in [Requests -> Request]
    BY <1>7, FinishType DEF LabCommit
  <2> QED BY <1>7, <2>4, <2>5 DEF LabCommit, FactoryTypeOK
<1>8. ASSUME NEW q \in Requests, CorrectionCommit(q)
      PROVE  FactoryTypeOK'
  <2> DEFINE r == reqs[q]
             row == [rows[r.t] EXCEPT
                       !.status = IF r.id \in CancelFixes THEN "CANCELLED" ELSE @,
                       !.held = IF r.id \in PoFixes THEN FALSE ELSE @,
                       !.synced = FALSE]
  <2>1. r.t \in Tickets /\ r.id \in Fixes
    BY <1>8, RequestFields DEF CorrectionCommit, FactoryTypeOK
  <2>2. row \in Row
    <3>1. rows[r.t] \in Row
      BY <2>1 DEF FactoryTypeOK
    <3>2. PICK s \in Statuses \union {"ABSENT"} :
            s = (IF r.id \in CancelFixes THEN "CANCELLED" ELSE rows[r.t].status)
      BY <3>1 DEF Row, Statuses
    <3>3. PICK h \in BOOLEAN : h = (IF r.id \in PoFixes THEN FALSE ELSE rows[r.t].held)
      BY <3>1 DEF Row
    <3>4. [rows[r.t] EXCEPT !.status = s, !.held = h, !.synced = FALSE] \in Row
      BY <3>1 DEF Row
    <3> QED BY <3>2, <3>3, <3>4, Zenon
  <2>3. reqs' \in [Requests -> Request]
    BY <1>8, FinishType DEF CorrectionCommit
  <2>4. CASE r.id \notin fixLog
    <3>1. Save(r.t, row) /\ fixLog' = fixLog \union {r.id}
      BY <1>8, <2>4 DEF CorrectionCommit
    <3>2. rows' \in [Tickets -> Row] /\ clock' \in Nat
      BY <2>1, <2>2, <3>1, SaveType
    <3> QED BY <1>8, <2>1, <2>3, <3>1, <3>2 DEF CorrectionCommit, FactoryTypeOK
  <2>5. CASE r.id \in fixLog
    BY <1>8, <2>3, <2>5 DEF CorrectionCommit, NoWrite, FactoryTypeOK
  <2> QED BY <2>4, <2>5
<1>9. ASSUME NEW q \in Requests, PcPushCommit(q)
      PROVE  FactoryTypeOK'
  <2> DEFINE r == reqs[q]
             old == rows[r.t]
             base == IF old.status = "ABSENT"
                     THEN [old EXCEPT !.dir = r.snap.dir, !.born = clock + 1,
                                      !.lab = "PENDING", !.held = (r.snap.dir = "INBOUND")]
                     ELSE old
             row == [base EXCEPT !.status = r.snap.status,
                                 !.gross = Merge(r.snap.gross, @),
                                 !.tare = Merge(r.snap.tare, @),
                                 !.net = Merge(r.snap.net, @)]
  <2>1. /\ r.t \in Tickets
        /\ r.snap \in [status : Statuses, dir : Directions, gross : Nat, tare : Nat, net : Nat]
    BY <1>9, RequestFields DEF PcPushCommit, FactoryTypeOK
  <2>2. base \in Row
    <3>1. old \in Row /\ r.snap.dir \in Directions /\ clock + 1 \in Nat
      BY <2>1 DEF FactoryTypeOK
    <3> QED BY <3>1, BornByPush
  <2>3. row \in Row
    <3>1. base.gross \in Nat /\ base.tare \in Nat /\ base.net \in Nat
      BY <2>2 DEF Row
    <3>2. /\ Merge(r.snap.gross, base.gross) \in Nat
          /\ Merge(r.snap.tare, base.tare) \in Nat
          /\ Merge(r.snap.net, base.net) \in Nat
      BY <2>1, <3>1, MergeType
    <3> HIDE DEF base
    <3> QED BY <2>1, <2>2, <3>2 DEF Row
  <2>4. reqs' \in [Requests -> Request]
    BY <1>9, FinishType DEF PcPushCommit
  <2>5. CASE Unmoved(r.t, r.status) /\ Save(r.t, row)
    BY <1>9, <2>1, <2>3, <2>4, <2>5, SaveType DEF PcPushCommit, FactoryTypeOK
  <2>6. CASE NoWrite
    BY <1>9, <2>4, <2>6 DEF PcPushCommit, NoWrite, FactoryTypeOK
  <2> QED BY <1>9, <2>5, <2>6 DEF PcPushCommit
<1>10. ASSUME NEW q \in Requests, Refuse(q)
       PROVE  FactoryTypeOK'
  <2>1. reqs' \in [Requests -> Request]
    BY <1>10, FinishType DEF Refuse
  <2> QED BY <1>10, <2>1 DEF Refuse, NoWrite, FactoryTypeOK
<1>11. ASSUME NEW t \in Tickets, NEW dir \in Directions, NEW lab \in {"PENDING", "NONE"},
              NEW held \in BOOLEAN, GateEntry(t, dir, lab, held)
       PROVE  FactoryTypeOK'
  <2> DEFINE row == [Absent EXCEPT !.status = "GATE_ENTRY", !.dir = dir, !.lab = lab,
                                   !.held = held, !.ticket = counter + 1,
                                   !.born = clock + 1]
  <2>1. row \in Row
    <3>1. Absent \in Row
      BY DEF Absent, Row, Directions
    <3>2. counter + 1 \in Nat /\ clock + 1 \in Nat
      BY DEF FactoryTypeOK
    <3> QED BY <3>1, <3>2 DEF Row, Statuses, LabResults
  <2>2. Save(t, row)
    BY <1>11 DEF GateEntry
  <2>3. rows' \in [Tickets -> Row] /\ clock' \in Nat
    BY <2>1, <2>2, SaveType
  <2> QED BY <1>11, <2>3 DEF GateEntry, FactoryTypeOK
<1>12. ASSUME NEW t \in Tickets, NEW p \in PcSnaps, NEW lab \in LabResults \union {"PENDING"},
              NEW n \in 1..Cardinality(Tickets), WbPush(t, p, lab, n)
       PROVE  FactoryTypeOK'
  <2> DEFINE row == [rows[t] EXCEPT !.status = p.status, !.dir = p.dir,
                               !.lab = lab, !.ticket = n,
                               !.gross = Merge(p.gross, @), !.tare = Merge(p.tare, @),
                               !.net = Merge(p.net, @),
                               !.held = IF Present(t) THEN @ ELSE p.dir = "INBOUND",
                               !.born = IF Present(t) THEN @ ELSE clock + 1,
                               !.synced = FALSE]
  <2>1. p \in [status : Statuses, dir : Directions, gross : Nat, tare : Nat, net : Nat]
    BY PcSnapsType
  <2>2. rows[t] \in Row /\ n \in Nat /\ clock + 1 \in Nat
    BY DEF FactoryTypeOK
  <2>3. row \in Row
    <3>1. PICK h \in BOOLEAN : h = (IF Present(t) THEN rows[t].held ELSE p.dir = "INBOUND")
      BY <2>2 DEF Row
    <3>2. PICK b \in Nat : b = (IF Present(t) THEN rows[t].born ELSE clock + 1)
      BY <2>2 DEF Row
    <3>3. rows[t].gross \in Nat /\ rows[t].tare \in Nat /\ rows[t].net \in Nat
      BY <2>2 DEF Row
    <3>4. [rows[t] EXCEPT !.status = p.status, !.dir = p.dir, !.lab = lab, !.ticket = n,
                          !.gross = Merge(p.gross, @), !.tare = Merge(p.tare, @),
                          !.net = Merge(p.net, @), !.held = h, !.born = b,
                          !.synced = FALSE] \in Row
      BY <2>1, <2>2, <3>3, MergeType DEF Row
    <3> QED BY <3>1, <3>2, <3>4, Zenon
  <2>4. Save(t, row)
    BY <1>12 DEF WbPush
  <2>5. rows' \in [Tickets -> Row] /\ clock' \in Nat
    BY <2>3, <2>4, SaveType
  <2> QED BY <1>12, <2>5 DEF WbPush, FactoryTypeOK
<1>13. ASSUME NEW t \in Tickets, PhotoSaved(t) \/ PhotoLost(t)
       PROVE  FactoryTypeOK'
  <2>1. rows[t] \in Row
    BY DEF FactoryTypeOK
  <2>2. CASE PhotoSaved(t)
    BY <2>1, <2>2, SaveType DEF PhotoSaved, FactoryTypeOK
  <2>3. CASE PhotoLost(t)
    BY <2>3 DEF PhotoLost, NoWrite, FactoryTypeOK
  <2> QED BY <1>13, <2>2, <2>3
<1>14. ASSUME NEW q \in Requests, WebStep(q)
       PROVE  FactoryTypeOK'
  BY <1>1, <1>2, <1>3, <1>4, <1>5, <1>6, <1>7, <1>8, <1>9, <1>10, <1>14 DEF WebStep
<1>15. ASSUME NEW t \in Tickets, RowStep(t)
       PROVE  FactoryTypeOK'
  BY <1>11, <1>12, <1>13, <1>15 DEF RowStep
<1> QED BY <1>0, <1>14, <1>15 DEF FactoryNext

(* Every reachable table, set of requests and correction log is well       *)
(* typed; in particular no write lets a negative net weight through.       *)
THEOREM FactoryTypes == FactorySpec => []FactoryTypeOK
BY InitType, TypeStep, PTL DEF FactorySpec

-----------------------------------------------------------------------------
(* The inductive invariant behind the safety properties. *)
Legs == FactoryTypeOK /\ NetIsGrossLessTare /\ LegsInOrder

LEMMA LegsInit == FactoryInit => Legs
<1> SUFFICES ASSUME FactoryInit PROVE Legs
  OBVIOUS
<1>1. FactoryOwned \subseteq Tickets
  BY DEF FactoryOwned, Tickets
<1>2. NetIsGrossLessTare /\ OpenLegs
  BY <1>1 DEF FactoryInit, NetIsGrossLessTare, OpenLegs, Absent
<1>3. \A q \in Requests : reqs[q].op = "idle"
  BY DEF FactoryInit, Idle
<1> QED BY <1>2, <1>3, InitType DEF Legs, LegsInOrder

(* Rows of the factory that keep their weights, and only close if they     *)
(* move, disturb nothing, whatever else happens to them.                   *)
KeepsWeights(r, new) ==
    /\ new.dir = r.dir
    /\ new.gross = r.gross
    /\ new.tare = r.tare
    /\ new.net = r.net
    /\ new.status \in {r.status, "CANCELLED"}

LEMMA Undisturbed ==
    ASSUME Legs, FactoryTypeOK',
           \A t \in FactoryOwned : KeepsWeights(rows[t], rows'[t]),
           \A q \in Requests :
              \/ reqs'[q] = reqs[q]
              \/ reqs'[q].op \notin {"gross", "tare", "push"}
              \/ reqs'[q].op = "push" /\ reqs'[q].t \in PushTickets
    PROVE  Legs'
<1>1. NetIsGrossLessTare'
  BY DEF Legs, NetIsGrossLessTare, KeepsWeights
<1>2. OpenLegs'
  BY DEF Legs, LegsInOrder, OpenLegs, KeepsWeights
<1>3. ASSUME NEW q \in Requests,
             reqs'[q].op \in {"gross", "tare"}, reqs'[q].t \in FactoryOwned
      PROVE  PeekStillHolds(reqs[q])'
  <2>1. reqs'[q] = reqs[q] /\ PeekStillHolds(reqs[q])
    BY <1>3 DEF Legs, LegsInOrder
  <2> QED BY <1>3, <2>1 DEF PeekStillHolds, KeepsWeights, Present, Unmoved
<1>4. \A q \in Requests : reqs'[q].op = "push" => reqs'[q].t \in PushTickets
  BY DEF Legs, LegsInOrder
<1> QED BY <1>1, <1>2, <1>3, <1>4 DEF Legs, LegsInOrder

(* A leg whose WHERE matches writes its own weight, on the second leg the  *)
(* net, and nothing else that matters here.                                *)
WroteLeg(r, row, new) ==
    /\ new.dir = row.dir
    /\ new.ticket = row.ticket
    /\ new.status = IF r.status = "GATE_ENTRY" THEN "FIRST_DONE" ELSE "COMPLETE"
    /\ r.op = "gross" => /\ new.gross = r.w /\ new.tare = row.tare
                         /\ r.status = "FIRST_DONE" => new.net = r.w - r.other /\ new.net > 0
    /\ r.op = "tare" => /\ new.tare = r.w /\ new.gross = row.gross
                        /\ r.status = "FIRST_DONE" => new.net = r.other - r.w /\ new.net > 0

LEMMA WeighRequest ==
    ASSUME FactoryTypeOK, NEW q \in Requests, GrossCommit(q) \/ TareCommit(q)
    PROVE  /\ reqs[q] \in Request
           /\ reqs[q].op \in {"gross", "tare"}
           /\ reqs[q].t \in Tickets
           /\ reqs[q].w \in Nat \ {0}
           /\ reqs[q].status \in OpenStatuses
<1>1. reqs[q] \in Request /\ reqs[q].op \in {"gross", "tare"}
  BY DEF FactoryTypeOK, GrossCommit, TareCommit
<1> QED BY <1>1, RequestFields, WeightsAssumption

LEMMA WeighedRow ==
    ASSUME FactoryTypeOK, NEW q \in Requests, GrossCommit(q) \/ TareCommit(q),
           Unmoved(reqs[q].t, reqs[q].status)
    PROVE  /\ \A u \in Tickets \ {reqs[q].t} : rows'[u] = rows[u]
           /\ WroteLeg(reqs[q], rows[reqs[q].t], rows'[reqs[q].t])
<1> DEFINE r == reqs[q]
           row == rows[r.t]
<1>1. rows \in [Tickets -> Row] /\ row \in Row /\ r.t \in Tickets
  BY WeighRequest DEF FactoryTypeOK
<1>2. CASE GrossCommit(q)
  <2>1. /\ NetPositive(r, r.w - r.other)
        /\ Save(r.t, [[row EXCEPT !.gross = r.w] EXCEPT
                        !.status = IF r.status = "GATE_ENTRY" THEN "FIRST_DONE" ELSE "COMPLETE",
                        !.net = IF r.status = "GATE_ENTRY" THEN @ ELSE r.w - r.other,
                        !.synced = FALSE])
        /\ r.op = "gross"
    BY <1>2 DEF GrossCommit, WeighCommit
  <2> QED BY <1>1, <2>1 DEF Save, Row, NetPositive, WroteLeg
<1>3. CASE TareCommit(q)
  <2>1. /\ NetPositive(r, r.other - r.w)
        /\ Save(r.t, [[row EXCEPT !.tare = r.w] EXCEPT
                        !.status = IF r.status = "GATE_ENTRY" THEN "FIRST_DONE" ELSE "COMPLETE",
                        !.net = IF r.status = "GATE_ENTRY" THEN @ ELSE r.other - r.w,
                        !.synced = FALSE])
        /\ r.op = "tare"
    BY <1>3 DEF TareCommit, WeighCommit
  <2> QED BY <1>1, <2>1 DEF Save, Row, NetPositive, WroteLeg
<1> QED BY <1>2, <1>3

(* The weigh commits.  The WHERE makes the row the one that was peeked, so *)
(* the leg is still the right one and the net is computed from the weight  *)
(* that the row has.                                                       *)
LEMMA WeighLegs ==
    ASSUME Legs, FactoryTypeOK', NEW q \in Requests, GrossCommit(q) \/ TareCommit(q)
    PROVE  Legs'
<1> DEFINE r == reqs[q]
           row == rows[r.t]
           new == rows'[r.t]
<1>1. /\ r \in Request
      /\ r.op \in {"gross", "tare"}
      /\ r.t \in Tickets /\ r.w \in Nat \ {0} /\ r.status \in OpenStatuses
  BY WeighRequest DEF Legs
<1>2. row \in Row
  BY <1>1 DEF Legs, FactoryTypeOK
<1>3. /\ reqs'[q] = Idle
      /\ \A p \in Requests \ {q} : reqs'[p] = reqs[p]
  BY DEF GrossCommit, TareCommit, WeighCommit, Finish, Legs, FactoryTypeOK
<1>4. CASE UNCHANGED rows
  <2>1. \A t \in FactoryOwned : KeepsWeights(rows[t], rows'[t])
    BY <1>4 DEF KeepsWeights
  <2> QED BY <1>3, <2>1, Undisturbed DEF Idle
<1>5. CASE Unmoved(r.t, r.status)
  <2>1. /\ \A u \in Tickets \ {r.t} : rows'[u] = rows[u]
        /\ WroteLeg(r, row, new)
    BY <1>5, WeighedRow DEF Legs
  <2>2. CASE r.t \notin FactoryOwned
    <3>1. \A t \in FactoryOwned : KeepsWeights(rows[t], rows'[t])
      BY <2>1, <2>2 DEF KeepsWeights, FactoryOwned, Tickets
    <3> QED BY <1>3, <3>1, Undisturbed DEF Idle
  <2>3. CASE r.t \in FactoryOwned
    <3>1. PeekStillHolds(r) /\ row.status = r.status
      BY <1>1, <1>5, <2>3 DEF Legs, LegsInOrder, Unmoved
    <3>2. OpenLegs'
      BY <1>1, <1>2, <2>1, <2>3, <3>1
      DEF Legs, LegsInOrder, OpenLegs, PeekStillHolds, FirstOp, OpenStatuses, Row, Directions,
          FactoryOwned, Tickets, WroteLeg
    <3>3. NetIsGrossLessTare'
      <4>1. ASSUME new.status = "COMPLETE"
            PROVE  new.tare > 0 /\ new.net > 0 /\ new.net + new.tare = new.gross
        <5>1. /\ r.status = "FIRST_DONE"
              /\ r.op # FirstOp(row.dir)
              /\ r.other = (IF r.op = "gross" THEN row.tare ELSE row.gross)
          BY <1>1, <1>5, <2>1, <3>1, <4>1 DEF PeekStillHolds, OpenStatuses, WroteLeg
        <5>2. IF row.dir = "INBOUND" THEN row.gross > 0 ELSE row.tare > 0
          BY <2>3, <3>1, <5>1 DEF Legs, LegsInOrder, OpenLegs
        <5>3. row.gross \in Nat /\ row.tare \in Nat
          BY <1>2 DEF Row
        <5> QED BY <1>1, <2>1, <5>1, <5>2, <5>3 DEF FirstOp, WroteLeg
      <4> QED BY <2>1, <4>1 DEF Legs, NetIsGrossLessTare, FactoryOwned, Tickets
    <3>4. ASSUME NEW p \in Requests,
                 reqs'[p].op \in {"gross", "tare"}, reqs'[p].t \in FactoryOwned
          PROVE  PeekStillHolds(reqs[p])'
      <4>1. reqs'[p] = reqs[p] /\ PeekStillHolds(reqs[p])
        BY <1>3, <3>4 DEF Legs, LegsInOrder, Idle
      <4>2. reqs[p].status \in OpenStatuses
        BY <3>4, <4>1, RequestFields DEF Legs, FactoryTypeOK
      <4> QED BY <1>1, <2>1, <3>1, <3>4, <4>1, <4>2
           DEF PeekStillHolds, Present, Unmoved, OpenStatuses, FactoryOwned, Tickets, WroteLeg
    <3>5. \A p \in Requests : reqs'[p].op = "push" => reqs'[p].t \in PushTickets
      BY <1>3 DEF Legs, LegsInOrder, Idle
    <3> QED BY <3>2, <3>3, <3>4, <3>5 DEF Legs, LegsInOrder
  <2> QED BY <2>2, <2>3
<1> QED BY <1>4, <1>5 DEF GrossCommit, TareCommit, WeighCommit, NoWrite

(* A leg that starts remembers what it peeked. *)
LEMMA WeighBeginLegs ==
    ASSUME Legs, FactoryTypeOK', NEW q \in Requests, NEW t \in Tickets, NEW w \in Weights,
           GrossBegin(q, t, w) \/ TareBegin(q, t, w)
    PROVE  Legs'
<1>1. PICK op \in {"gross", "tare"} :
         WeighBegin(q, t, op, w, IF op = "gross" THEN rows[t].tare ELSE rows[t].gross)
  BY DEF GrossBegin, TareBegin
<1>2. UNCHANGED rows
  BY <1>1 DEF WeighBegin, NoWrite
<1>3. NetIsGrossLessTare' /\ OpenLegs'
  BY <1>2 DEF Legs, LegsInOrder, NetIsGrossLessTare, OpenLegs
<1>4. ASSUME NEW p \in Requests,
             reqs'[p].op \in {"gross", "tare"}, reqs'[p].t \in FactoryOwned
      PROVE  PeekStillHolds(reqs[p])'
  <2>1. CASE p = q
    <3>1. /\ reqs'[p].t = t /\ reqs'[p].op = op /\ reqs'[p].status = rows[t].status
          /\ reqs'[p].other = (IF op = "gross" THEN rows[t].tare ELSE rows[t].gross)
      BY <1>1, <2>1 DEF WeighBegin, Start, Legs, FactoryTypeOK
    <3>2. FirstLeg(op, rows[t]) \/ SecondLeg(op, rows[t])
      BY <1>1 DEF WeighBegin
    <3> QED BY <1>2, <3>1, <3>2 DEF PeekStillHolds, FirstLeg, SecondLeg, Present
  <2>2. CASE p # q
    <3>1. reqs'[p] = reqs[p]
      BY <1>1, <2>2 DEF WeighBegin, Start, Legs, FactoryTypeOK
    <3>2. PeekStillHolds(reqs[p])
      BY <1>4, <3>1 DEF Legs, LegsInOrder
    <3> QED BY <1>2, <3>1, <3>2 DEF PeekStillHolds, Present, Unmoved
  <2> QED BY <2>1, <2>2
<1>5. \A p \in Requests : reqs'[p].op = "push" => reqs'[p].t \in PushTickets
  BY <1>1 DEF WeighBegin, Start, Legs, LegsInOrder, FactoryTypeOK
<1> QED BY <1>3, <1>4, <1>5 DEF Legs, LegsInOrder

(* A gate entry starts a ticket without weights, and no leg of it is in    *)
(* flight yet.                                                             *)
LEMMA GateEntryLegs ==
    ASSUME Legs, FactoryTypeOK', NEW t \in Tickets, NEW dir \in Directions,
           NEW lab \in {"PENDING", "NONE"}, NEW held \in BOOLEAN, GateEntry(t, dir, lab, held)
    PROVE  Legs'
<1>1. /\ \A u \in Tickets \ {t} : rows'[u] = rows[u]
      /\ rows'[t].status = "GATE_ENTRY"
      /\ rows'[t].gross = 0 /\ rows'[t].tare = 0
      /\ reqs' = reqs /\ ~Present(t)
  BY DEF GateEntry, Save, Absent, Legs, FactoryTypeOK
<1>2. NetIsGrossLessTare' /\ OpenLegs'
  BY <1>1 DEF Legs, LegsInOrder, NetIsGrossLessTare, OpenLegs, FactoryOwned, Tickets
<1>3. ASSUME NEW p \in Requests,
             reqs[p].op \in {"gross", "tare"}, reqs[p].t \in FactoryOwned
      PROVE  PeekStillHolds(reqs[p])'
  <2>1. PeekStillHolds(reqs[p])
    BY <1>3 DEF Legs, LegsInOrder
  <2>2. reqs[p].t # t
    BY <1>1, <2>1 DEF PeekStillHolds
  <2> QED BY <1>1, <1>3, <2>1, <2>2
       DEF PeekStillHolds, Present, Unmoved, FactoryOwned, Tickets
<1> QED BY <1>1, <1>2, <1>3 DEF Legs, LegsInOrder

(* The steps that leave the weights of every row alone: the requests that  *)
(* start, those that write no weight, and the photos.                      *)
PlainRequest(q) ==
    \/ \E t \in Tickets, w \in Weights : GrossBegin(q, t, w) \/ TareBegin(q, t, w)
    \/ \E t \in Tickets, result \in LabResults : LabBegin(q, t, result)
    \/ \E t \in Tickets, id \in Fixes : CorrectionBegin(q, t, id)
    \/ \E t \in Tickets, p \in PcSnaps : PcPushBegin(q, t, p)
    \/ LabCommit(q) \/ CorrectionCommit(q) \/ Refuse(q)

PlainStep ==
    \/ \E q \in Requests : PlainRequest(q)
    \/ \E t \in Tickets : PhotoSaved(t) \/ PhotoLost(t)

LEMMA PlainKeepsWeights ==
    ASSUME FactoryTypeOK, PlainStep, NEW u \in Tickets
    PROVE  KeepsWeights(rows[u], rows'[u])
<1>1. rows \in [Tickets -> Row] /\ rows[u] \in Row
  BY DEF FactoryTypeOK
<1>2. CASE UNCHANGED rows
  BY <1>2 DEF KeepsWeights
<1>3. ASSUME NEW q \in Requests, LabCommit(q)
      PROVE  KeepsWeights(rows[u], rows'[u])
  BY <1>1, <1>3 DEF LabCommit, Save, KeepsWeights, Row
<1>4. ASSUME NEW q \in Requests, CorrectionCommit(q)
      PROVE  KeepsWeights(rows[u], rows'[u])
  <2> DEFINE r == reqs[q]
  <2>1. CASE r.id \notin fixLog
    <3> DEFINE cancels == IF r.id \in CancelFixes THEN "CANCELLED" ELSE rows[r.t].status
               still == IF r.id \in PoFixes THEN FALSE ELSE rows[r.t].held
    <3>1. Save(r.t, [rows[r.t] EXCEPT !.status = cancels, !.held = still, !.synced = FALSE])
      BY <1>4, <2>1 DEF CorrectionCommit
    <3>2. u = r.t => cancels \in {rows[u].status, "CANCELLED"}
      OBVIOUS
    <3> HIDE DEF cancels, still
    <3> QED BY <1>1, <3>1, <3>2 DEF Save, KeepsWeights, Row
  <2>2. CASE r.id \in fixLog
    BY <1>2, <1>4, <2>2 DEF CorrectionCommit, NoWrite
  <2> QED BY <2>1, <2>2
<1>5. ASSUME NEW t \in Tickets, PhotoSaved(t) \/ PhotoLost(t)
      PROVE  KeepsWeights(rows[u], rows'[u])
  BY <1>1, <1>5 DEF PhotoSaved, PhotoLost, NoWrite, Save, KeepsWeights, Row
<1> QED BY <1>2, <1>3, <1>4, <1>5
     DEF PlainStep, PlainRequest, GrossBegin, TareBegin, WeighBegin, LabBegin,
         CorrectionBegin, PcPushBegin, Refuse, NoWrite

(* The other requests: they start and end without touching the weights of  *)
(* a row that the factory owns.                                            *)
LEMMA OtherRequestLegs ==
    ASSUME Legs, FactoryTypeOK', NEW q \in Requests,
           \/ \E t \in Tickets, result \in LabResults : LabBegin(q, t, result)
           \/ \E t \in Tickets, id \in Fixes : CorrectionBegin(q, t, id)
           \/ \E t \in Tickets, p \in PcSnaps : PcPushBegin(q, t, p)
           \/ LabCommit(q) \/ CorrectionCommit(q) \/ PcPushCommit(q) \/ Refuse(q)
    PROVE  Legs'
<1>1. \A p \in Requests :
         \/ reqs'[p] = reqs[p]
         \/ reqs'[p].op \notin {"gross", "tare", "push"}
         \/ reqs'[p].op = "push" /\ reqs'[p].t \in PushTickets
  <2>1. CASE \E t \in Tickets, result \in LabResults : LabBegin(q, t, result)
    BY <2>1 DEF LabBegin, Start, Legs, FactoryTypeOK
  <2>2. CASE \E t \in Tickets, id \in Fixes : CorrectionBegin(q, t, id)
    BY <2>2 DEF CorrectionBegin, Start, Legs, FactoryTypeOK
  <2>3. CASE \E t \in Tickets, p \in PcSnaps : PcPushBegin(q, t, p)
    BY <2>3 DEF PcPushBegin, Start, Legs, FactoryTypeOK
  <2>4. CASE LabCommit(q) \/ CorrectionCommit(q) \/ PcPushCommit(q) \/ Refuse(q)
    BY <2>4 DEF LabCommit, CorrectionCommit, PcPushCommit, Refuse, Finish, Idle,
                Legs, FactoryTypeOK
  <2> QED BY <2>1, <2>2, <2>3, <2>4
<1>2. ASSUME NEW u \in FactoryOwned
      PROVE  KeepsWeights(rows[u], rows'[u])
  <2>1. u \in Tickets /\ u \notin PushTickets
    BY DEF FactoryOwned, Tickets
  <2>2. CASE PcPushCommit(q)
    <3>1. reqs[q].t # u
      BY <2>1, <2>2 DEF PcPushCommit, Legs, LegsInOrder
    <3> QED BY <2>1, <2>2, <3>1
         DEF PcPushCommit, Save, NoWrite, KeepsWeights, Legs, FactoryTypeOK
  <2>3. CASE ~PcPushCommit(q)
    <3>1. PlainStep
      BY <2>3 DEF PlainStep, PlainRequest
    <3> QED BY <2>1, <3>1, PlainKeepsWeights DEF Legs
  <2> QED BY <2>2, <2>3
<1> QED BY <1>1, <1>2, Undisturbed

(* The writes that no request stands behind. *)
LEMMA OtherRowLegs ==
    ASSUME Legs, FactoryTypeOK', NEW t \in Tickets,
           \/ PhotoSaved(t) \/ PhotoLost(t)
           \/ \E p \in PcSnaps, lab \in LabResults \union {"PENDING"}, n \in 1..Cardinality(Tickets) :
                 WbPush(t, p, lab, n)
    PROVE  Legs'
<1>1. reqs' = reqs
  BY DEF PhotoSaved, PhotoLost, WbPush
<1>2. ASSUME NEW u \in FactoryOwned
      PROVE  KeepsWeights(rows[u], rows'[u])
  <2>1. u \in Tickets /\ u \notin PcTickets
    BY DEF FactoryOwned, Tickets
  <2>2. rows \in [Tickets -> Row] /\ rows[u] \in Row
    BY <2>1 DEF Legs, FactoryTypeOK
  <2>3. CASE PhotoSaved(t) \/ PhotoLost(t)
    BY <2>1, <2>3, PlainKeepsWeights DEF PlainStep, Legs
  <2>4. CASE \E p \in PcSnaps, lab \in LabResults \union {"PENDING"}, n \in 1..Cardinality(Tickets) :
                WbPush(t, p, lab, n)
    BY <2>1, <2>2, <2>4 DEF WbPush, Save, KeepsWeights
  <2> QED BY <2>3, <2>4
<1> QED BY <1>1, <1>2, Undisturbed

LEMMA LegsStep ==
    ASSUME Legs, [FactoryNext]_factoryVars
    PROVE  Legs'
<1>1. FactoryTypeOK'
  BY TypeStep DEF Legs
<1>2. CASE UNCHANGED factoryVars
  <2>1. \A t \in FactoryOwned : KeepsWeights(rows[t], rows'[t])
    BY <1>2 DEF factoryVars, KeepsWeights
  <2>2. reqs' = reqs
    BY <1>2 DEF factoryVars
  <2> QED BY <1>1, <2>1, <2>2, Undisturbed
<1>3. ASSUME NEW q \in Requests, WebStep(q)
      PROVE  Legs'
  BY <1>1, <1>3, WeighBeginLegs, WeighLegs, OtherRequestLegs DEF WebStep
<1>4. ASSUME NEW t \in Tickets, RowStep(t)
      PROVE  Legs'
  BY <1>1, <1>4, GateEntryLegs, OtherRowLegs DEF RowStep
<1> QED BY <1>2, <1>3, <1>4 DEF FactoryNext

(* The net weight of a completed ticket is its gross less its tare, with   *)
(* any number of requests in flight.                                       *)
THEOREM NetWeightCorrect == FactorySpec => []NetIsGrossLessTare
<1>1. Legs => NetIsGrossLessTare
  BY DEF Legs
<1> QED BY <1>1, LegsInit, LegsStep, PTL DEF FactorySpec

-----------------------------------------------------------------------------
(* A closed row keeps its weights and never opens again: a leg or a push   *)
(* that peeked it open finds in its WHERE that it has moved.               *)
LEMMA ClosedRows ==
    ASSUME FactoryTypeOK, [FactoryNext]_factoryVars,
           NEW u \in Tickets \ PcTickets, rows[u].status \in {"COMPLETE", "CANCELLED"}
    PROVE  KeepsWeights(rows[u], rows'[u])
<1> USE DEF FactoryTypeOK
<1>1. CASE UNCHANGED factoryVars
  BY <1>1 DEF factoryVars, KeepsWeights
<1>2. CASE PlainStep
  BY <1>2, PlainKeepsWeights
<1>3. ASSUME NEW q \in Requests, GrossCommit(q) \/ TareCommit(q)
      PROVE  KeepsWeights(rows[u], rows'[u])
  <2> DEFINE r == reqs[q]
  <2>1. r.t \in Tickets /\ r.status \in OpenStatuses
    BY <1>3, RequestFields DEF GrossCommit, TareCommit
  <2>2. r.t = u => ~Unmoved(r.t, r.status)
    BY <2>1 DEF Unmoved, OpenStatuses
  <2> QED BY <1>3, <2>1, <2>2
       DEF GrossCommit, TareCommit, WeighCommit, NoWrite, Save, KeepsWeights
<1>4. ASSUME NEW q \in Requests, PcPushCommit(q)
      PROVE  KeepsWeights(rows[u], rows'[u])
  <2> DEFINE r == reqs[q]
  <2>1. r.t \in Tickets /\ r.status \in OpenStatuses \union {"ABSENT"}
    BY <1>4, RequestFields DEF PcPushCommit
  <2>2. r.t = u => ~Unmoved(r.t, r.status)
    BY <2>1 DEF Unmoved, OpenStatuses
  <2> QED BY <1>4, <2>1, <2>2 DEF PcPushCommit, NoWrite, Save, KeepsWeights
<1>5. ASSUME NEW t \in Tickets, NEW dir \in Directions, NEW lab \in {"PENDING", "NONE"},
             NEW held \in BOOLEAN, GateEntry(t, dir, lab, held)
      PROVE  KeepsWeights(rows[u], rows'[u])
  BY <1>5 DEF GateEntry, Present, Save, KeepsWeights
<1>6. ASSUME NEW t \in Tickets, NEW p \in PcSnaps, NEW lab \in LabResults \union {"PENDING"},
             NEW n \in 1..Cardinality(Tickets), WbPush(t, p, lab, n)
      PROVE  KeepsWeights(rows[u], rows'[u])
  BY <1>6 DEF WbPush, Save, KeepsWeights
<1> QED BY <1>1, <1>2, <1>3, <1>4, <1>5, <1>6
     DEF FactoryNext, WebStep, RowStep, PlainStep, PlainRequest

(* Whatever is in flight when a ticket is cancelled, it stays cancelled.   *)
THEOREM CancellationIsFinal == FactorySpec => CancelledForGood
<1>1. FactoryTypeOK /\ [FactoryNext]_factoryVars =>
        [\A t \in Tickets \ PcTickets :
            rows[t].status = "CANCELLED" => rows'[t].status = "CANCELLED"]_factoryVars
  BY ClosedRows DEF KeepsWeights
<1> QED BY <1>1, FactoryTypes, PTL DEF FactorySpec, CancelledForGood

(* The weights of a completed ticket never change, and no page or PC can   *)
(* open it again.                                                          *)
THEOREM FinalWeightsStay == FactorySpec => FinalWeightsFrozen
<1>1. FactoryTypeOK /\ [FactoryNext]_factoryVars =>
        [\A t \in Tickets \ PcTickets :
            rows[t].status = "COMPLETE" =>
                /\ rows'[t].gross = rows[t].gross
                /\ rows'[t].tare = rows[t].tare
                /\ rows'[t].net = rows[t].net]_factoryVars
  BY ClosedRows DEF KeepsWeights
<1> QED BY <1>1, FactoryTypes, PTL DEF FactorySpec, FinalWeightsFrozen

(* A weight of a ticket of the factory, once captured, stays: the leg that *)
(* would weigh it again is no longer the leg of the row.                   *)
THEOREM NoWeightWeighedAgain == FactorySpec => WeighedOnce
<1>1. ASSUME Legs, [FactoryNext]_factoryVars, NEW u \in FactoryOwned
      PROVE  /\ rows[u].gross # 0 => rows'[u].gross = rows[u].gross
             /\ rows[u].tare # 0 => rows'[u].tare = rows[u].tare
  <2>1. u \in Tickets /\ u \notin PcTickets \union PushTickets
    BY DEF FactoryOwned, Tickets
  <2>2. FactoryTypeOK
    BY <1>1 DEF Legs
  <2>3. CASE UNCHANGED factoryVars
    BY <2>3 DEF factoryVars
  <2>4. CASE PlainStep
    BY <2>1, <2>2, <2>4, PlainKeepsWeights DEF KeepsWeights
  <2>5. ASSUME NEW q \in Requests, GrossCommit(q) \/ TareCommit(q),
               Unmoved(reqs[q].t, reqs[q].status), reqs[q].t = u
        PROVE  /\ rows[u].gross # 0 => rows'[u].gross = rows[u].gross
               /\ rows[u].tare # 0 => rows'[u].tare = rows[u].tare
    <3>1. WroteLeg(reqs[q], rows[u], rows'[u])
      BY <2>2, <2>5, WeighedRow
    <3>2. reqs[q].op \in {"gross", "tare"} /\ reqs[q].status \in OpenStatuses
      BY <2>2, <2>5, WeighRequest
    <3>3. PeekStillHolds(reqs[q]) /\ rows[u].status = reqs[q].status
      BY <1>1, <2>5, <3>2 DEF Legs, LegsInOrder, Unmoved
    <3>4. rows[u].dir \in Directions
      BY <2>1, <2>2 DEF FactoryTypeOK, Row
    <3> QED BY <1>1, <2>5, <3>1, <3>2, <3>3, <3>4
         DEF WroteLeg, PeekStillHolds, FirstOp, OpenStatuses, Legs, LegsInOrder, OpenLegs,
             Directions
  <2>6. ASSUME NEW q \in Requests, GrossCommit(q) \/ TareCommit(q)
        PROVE  /\ rows[u].gross # 0 => rows'[u].gross = rows[u].gross
               /\ rows[u].tare # 0 => rows'[u].tare = rows[u].tare
    <3>1. CASE ~Unmoved(reqs[q].t, reqs[q].status)
      BY <2>6, <3>1 DEF GrossCommit, TareCommit, WeighCommit, NoWrite
    <3>2. CASE Unmoved(reqs[q].t, reqs[q].status) /\ reqs[q].t # u
      BY <2>1, <2>2, <2>6, <3>2, WeighedRow
    <3> QED BY <2>5, <2>6, <3>1, <3>2
  <2>7. ASSUME NEW q \in Requests, PcPushCommit(q)
        PROVE  rows'[u] = rows[u]
    <3>1. reqs[q].t # u
      BY <1>1, <2>1, <2>7 DEF PcPushCommit, Legs, LegsInOrder
    <3> QED BY <2>1, <2>2, <2>7, <3>1 DEF PcPushCommit, Save, NoWrite, FactoryTypeOK
  <2>8. ASSUME NEW t \in Tickets, NEW dir \in Directions, NEW lab \in {"PENDING", "NONE"},
               NEW held \in BOOLEAN, GateEntry(t, dir, lab, held)
        PROVE  /\ rows[u].gross # 0 => rows'[u].gross = rows[u].gross
               /\ rows[u].tare # 0 => rows'[u].tare = rows[u].tare
    <3>1. t = u => rows[u].gross = 0 /\ rows[u].tare = 0
      BY <1>1, <2>8 DEF GateEntry, Present, Legs, LegsInOrder, OpenLegs
    <3> QED BY <2>1, <2>2, <2>8, <3>1 DEF GateEntry, Save, FactoryTypeOK
  <2>9. ASSUME NEW t \in Tickets, NEW p \in PcSnaps, NEW lab \in LabResults \union {"PENDING"},
               NEW n \in 1..Cardinality(Tickets), WbPush(t, p, lab, n)
        PROVE  rows'[u] = rows[u]
    BY <2>1, <2>2, <2>9 DEF WbPush, Save, FactoryTypeOK
  <2> QED BY <1>1, <2>3, <2>4, <2>6, <2>7, <2>8, <2>9
       DEF FactoryNext, WebStep, RowStep, PlainStep, PlainRequest
<1>2. Legs /\ [FactoryNext]_factoryVars =>
        [\A t \in FactoryOwned :
            /\ rows[t].gross # 0 => rows'[t].gross = rows[t].gross
            /\ rows[t].tare # 0 => rows'[t].tare = rows[t].tare]_factoryVars
  BY <1>1
<1> QED BY <1>2, LegsInit, LegsStep, PTL DEF FactorySpec, WeighedOnce

-----------------------------------------------------------------------------
(* The ticket series.  A row that has a number keeps it, and only a row    *)
(* that exists has one.                                                    *)
NumbersOnRows == \A t \in Tickets : ~Present(t) => rows[t].ticket = 0

LEMMA TicketStays ==
    ASSUME FactoryTypeOK, NumbersOnRows, [FactoryNext]_factoryVars, NEW u \in Tickets
    PROVE  /\ rows[u].ticket # 0 => rows'[u].ticket = rows[u].ticket
           /\ rows'[u].status = "ABSENT" => rows[u].status = "ABSENT" /\ rows'[u].ticket = 0
<1> DEFINE Stays == /\ rows[u].ticket # 0 => rows'[u].ticket = rows[u].ticket
                    /\ rows'[u].status = "ABSENT" =>
                          rows[u].status = "ABSENT" /\ rows'[u].ticket = 0
<1>1. rows \in [Tickets -> Row] /\ rows[u] \in Row
  BY DEF FactoryTypeOK
<1>2. rows[u].status = "ABSENT" => rows[u].ticket = 0
  BY DEF NumbersOnRows, Present
<1>3. CASE rows'[u] = rows[u]
  BY <1>2, <1>3
<1>4. ASSUME NEW q \in Requests, LabCommit(q)
      PROVE  Stays
  BY <1>1, <1>2, <1>4 DEF LabCommit, Save, Row
<1>5. ASSUME NEW q \in Requests, CorrectionCommit(q)
      PROVE  Stays
  <2> DEFINE r == reqs[q]
             cancels == IF r.id \in CancelFixes THEN "CANCELLED" ELSE rows[r.t].status
             still == IF r.id \in PoFixes THEN FALSE ELSE rows[r.t].held
  <2>1. CASE r.id \notin fixLog
    <3>1. Save(r.t, [rows[r.t] EXCEPT !.status = cancels, !.held = still, !.synced = FALSE])
      BY <1>5, <2>1 DEF CorrectionCommit
    <3>2. u = r.t => cancels \in {rows[u].status, "CANCELLED"}
      OBVIOUS
    <3> HIDE DEF cancels, still
    <3> QED BY <1>1, <1>2, <3>1, <3>2 DEF Save, Row
  <2>2. CASE r.id \in fixLog
    BY <1>3, <1>5, <2>2 DEF CorrectionCommit, NoWrite
  <2> QED BY <2>1, <2>2
<1>6. ASSUME NEW t \in Tickets, PhotoSaved(t) \/ PhotoLost(t)
      PROVE  Stays
  BY <1>1, <1>2, <1>6 DEF PhotoSaved, PhotoLost, NoWrite, Save, Row
<1>7. ASSUME NEW q \in Requests, GrossCommit(q) \/ TareCommit(q)
      PROVE  Stays
  <2>1. CASE ~Unmoved(reqs[q].t, reqs[q].status)
    BY <1>3, <1>7, <2>1 DEF GrossCommit, TareCommit, WeighCommit, NoWrite
  <2>2. CASE Unmoved(reqs[q].t, reqs[q].status)
    BY <1>2, <1>7, <2>2, WeighedRow DEF WroteLeg
  <2> QED BY <2>1, <2>2
<1>8. ASSUME NEW q \in Requests, PcPushCommit(q)
      PROVE  Stays
  <2> DEFINE r == reqs[q]
             old == rows[r.t]
             base == IF old.status = "ABSENT"
                     THEN [old EXCEPT !.dir = r.snap.dir, !.born = clock + 1,
                                      !.lab = "PENDING", !.held = (r.snap.dir = "INBOUND")]
                     ELSE old
  <2>1. r.t \in Tickets /\ r.snap.status \in Statuses
    BY <1>8, RequestFields DEF PcPushCommit, FactoryTypeOK
  <2>2. base.ticket = old.ticket
    BY <1>1, <2>1 DEF Row
  <2>3. base \in Row
    <3>1. old \in Row /\ r.snap.dir \in Directions /\ clock + 1 \in Nat
      BY <1>8, RequestFields DEF PcPushCommit, FactoryTypeOK
    <3> QED BY <3>1, BornByPush
  <2>4. \/ Save(r.t, [base EXCEPT !.status = r.snap.status,
                                  !.gross = Merge(r.snap.gross, @),
                                  !.tare = Merge(r.snap.tare, @),
                                  !.net = Merge(r.snap.net, @)])
        \/ NoWrite
    BY <1>8 DEF PcPushCommit
  <2>5. CASE NoWrite \/ u # r.t
    BY <1>1, <1>3, <2>4, <2>5 DEF NoWrite, Save
  <2>6. CASE ~NoWrite /\ u = r.t
    <3> HIDE DEF base
    <3> DEFINE row == [base EXCEPT !.status = r.snap.status,
                                   !.gross = Merge(r.snap.gross, @),
                                   !.tare = Merge(r.snap.tare, @),
                                   !.net = Merge(r.snap.net, @)]
    <3>1. rows' = [rows EXCEPT ![u] = [row EXCEPT !.stamp = clock + 1]]
      BY <2>4, <2>6 DEF Save
    <3>2. rows'[u] = [row EXCEPT !.stamp = clock + 1]
      BY <1>1, <3>1
    <3>3. row.ticket = base.ticket /\ row.status = r.snap.status
          /\ DOMAIN row = DOMAIN base
      BY <2>3 DEF Row
    <3>4. "ticket" \in DOMAIN base /\ "status" \in DOMAIN base
      BY <2>3 DEF Row
    <3> HIDE DEF row
    <3>5. rows'[u].ticket = base.ticket /\ rows'[u].status = r.snap.status
      BY <3>2, <3>3, <3>4
    <3> QED BY <2>1, <2>2, <2>6, <3>5 DEF Statuses
  <2> QED BY <2>5, <2>6
<1>9. ASSUME NEW t \in Tickets, NEW dir \in Directions, NEW lab \in {"PENDING", "NONE"},
             NEW held \in BOOLEAN, GateEntry(t, dir, lab, held)
      PROVE  Stays
  BY <1>1, <1>2, <1>9 DEF GateEntry, Present, Save, Absent
<1>10. ASSUME NEW t \in Tickets, NEW p \in PcSnaps, NEW lab \in LabResults \union {"PENDING"},
              NEW n \in 1..Cardinality(Tickets), WbPush(t, p, lab, n)
       PROVE  Stays
  <2>1. p.status \in Statuses
    BY PcSnapsType
  <2>2. rows[t].ticket \in {0, n}
    BY <1>10 DEF WbPush, NumbersOnRows
  <2>3. u # t => rows'[u] = rows[u]
    BY <1>1, <1>10 DEF WbPush, Save
  <2>4. rows'[t].ticket = n /\ rows'[t].status = p.status
    BY <1>1, <1>10 DEF WbPush, Save, Row
  <2> QED BY <1>3, <2>1, <2>2, <2>3, <2>4 DEF Statuses
<1>11. CASE UNCHANGED rows
  BY <1>3, <1>11
<1> QED BY <1>4, <1>5, <1>6, <1>7, <1>8, <1>9, <1>10, <1>11
     DEF FactoryNext, WebStep, RowStep, GrossBegin, TareBegin, WeighBegin, LabBegin,
         CorrectionBegin, PcPushBegin, Refuse, NoWrite, factoryVars

(* The gate's ticket series has no gap: a create that fails takes its      *)
(* number back with it.                                                    *)
THEOREM SeriesHasNoGap == FactorySpec => []TicketsGapless
<1> DEFINE Series == FactoryTypeOK /\ NumbersOnRows /\ TicketsGapless
<1>1. FactoryInit => Series
  BY InitType DEF FactoryInit, NumbersOnRows, TicketsGapless, Absent
<1>2. Series /\ [FactoryNext]_factoryVars => Series'
  <2> SUFFICES ASSUME Series, [FactoryNext]_factoryVars PROVE Series'
    OBVIOUS
  <2>1. FactoryTypeOK'
    BY TypeStep
  <2>2. NumbersOnRows'
    BY TicketStays DEF NumbersOnRows, Present
  <2>3. ASSUME NEW n \in 1..counter
        PROVE  \E t \in WebTickets : rows'[t].ticket = n
    <3>1. PICK t \in WebTickets : rows[t].ticket = n
      BY DEF TicketsGapless
    <3>2. rows'[t].ticket = n
      BY <3>1, TicketStays DEF Tickets
    <3> QED BY <3>2
  <2>4. ASSUME counter' = counter
        PROVE  TicketsGapless'
    BY <2>3, <2>4 DEF TicketsGapless
  <2>5. ASSUME NEW t \in Tickets, NEW dir \in Directions, NEW lab \in {"PENDING", "NONE"},
               NEW held \in BOOLEAN, GateEntry(t, dir, lab, held)
        PROVE  TicketsGapless'
    <3>1. t \in WebTickets /\ counter' = counter + 1 /\ rows'[t].ticket = counter + 1
      BY <2>5 DEF GateEntry, Save, Absent, FactoryTypeOK
    <3>2. \A n \in 1..counter' : n \in 1..counter \/ n = counter + 1
      BY <3>1 DEF FactoryTypeOK
    <3> QED BY <2>3, <3>1, <3>2 DEF TicketsGapless
  <2>6. (\E t \in Tickets, dir \in Directions, lab \in {"PENDING", "NONE"}, held \in BOOLEAN :
            GateEntry(t, dir, lab, held)) \/ counter' = counter
    <3>1. ASSUME NEW q \in Requests, WebStep(q)
          PROVE  counter' = counter
      BY <3>1 DEF WebStep, GrossBegin, TareBegin, WeighBegin, LabBegin, CorrectionBegin,
                  PcPushBegin, Refuse, GrossCommit, TareCommit, WeighCommit, LabCommit,
                  CorrectionCommit, PcPushCommit
    <3>2. ASSUME NEW t \in Tickets, RowStep(t),
                 ~\E dir \in Directions, lab \in {"PENDING", "NONE"}, held \in BOOLEAN :
                     GateEntry(t, dir, lab, held)
          PROVE  counter' = counter
      BY <3>2 DEF RowStep, WbPush, PhotoSaved, PhotoLost
    <3> QED BY <3>1, <3>2 DEF FactoryNext, factoryVars
  <2> QED BY <2>1, <2>2, <2>4, <2>5, <2>6
<1>3. Series => TicketsGapless
  OBVIOUS
<1> QED BY <1>1, <1>2, <1>3, PTL DEF FactorySpec
=============================================================================
