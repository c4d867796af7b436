----------------------------- MODULE ScaleRules -----------------------------
(***************************************************************************)
(* The rules that keep one truck from being weighed for two tickets: the   *)
(* factory server polls the scale of the weighbridge                       *)
(* (services/pcMonitor.ts), and before it stores a weight it asks the rule *)
(* engine (services/ruleEngine.ts) whether the scale was empty since the   *)
(* last capture and whether the weight is the last one again.  An operator *)
(* who weighs all the same has to clear it with a PIN or a tick, under his *)
(* name.                                                                   *)
(*                                                                         *)
(* Weights are classes: two readings of one class are within the tolerance *)
(* of the delta rule, two of different classes are not, and 0 is an empty  *)
(* scale.  A stay is one truck on the scale from driving on to driving     *)
(* off; the program does not know of stays, so only readings carry them,   *)
(* and no guard of the program looks at them.                              *)
(***************************************************************************)
EXTENDS Integers, Sequences, FiniteSets

CONSTANTS
    Tickets,        \* weighments, with their gate entry made
    Outbound,       \* the tickets whose first weight is the tare
    Loads,          \* classes of weights
    Requests,       \* captures handled at once
    Window,         \* SCALE_ZERO_WINDOW_MINUTES
    MaxClock,       \* bound on time
    MaxStays,       \* bound on trucks that drive on
    MaxFailures     \* bound on restarts

ASSUME ScaleAssumption ==
    /\ Tickets # {} /\ Outbound \subseteq Tickets
    /\ Loads \subseteq Nat \ {0}
    /\ {Window, MaxClock, MaxStays, MaxFailures} \subseteq Nat

VARIABLES
    clock,
    stays,      \* trucks that have driven on so far
    scale,      \* what stands on the scale
    poll,       \* the poll in flight and the reading it got
    status,     \* pcStatus of the weighbridge PC
    zeroAt,     \* scaleZeroAt, 0 for none since the start
    bootAt,     \* _serverStartTime
    rows,       \* the weighments
    reqs,       \* captures, from the button to the write
    last,       \* history: the capture that was stored last
    failures

monitor == <<poll, status, zeroAt, bootAt>>
truck == <<stays, scale>>
vars == <<clock, truck, monitor, rows, reqs, last, failures>>

-----------------------------------------------------------------------------
Reading == [stay : Nat, load : Loads \union {0}]
Empty == [stay |-> 0, load |-> 0]

NoPoll == [busy |-> FALSE, signal |-> FALSE, read |-> Empty]
NoStatus == [alive |-> FALSE, signal |-> FALSE, read |-> Empty]

NewRow == [status |-> "GATE_ENTRY", gross |-> 0, tare |-> 0,
           grossLoad |-> 0, tareLoad |-> 0]

(* What a capture remembers: the ticket, the weight on the button, the      *)
(* status it peeked at, its stamp, and whether a human has cleared it;      *)
(* excused is for the properties.                                           *)
NoRequest == [state |-> "idle", ticket |-> CHOOSE t \in Tickets : TRUE, read |-> Empty,
              was |-> "GATE_ENTRY", at |-> 0, signed |-> FALSE, excused |-> FALSE]

Fails == failures < MaxFailures /\ failures' = failures + 1

-----------------------------------------------------------------------------
(* The yard. *)

DriveOn ==
    /\ scale = Empty /\ stays < MaxStays
    /\ stays' = stays + 1
    /\ \E w \in Loads : scale' = [stay |-> stays + 1, load |-> w]
    /\ UNCHANGED <<clock, monitor, rows, reqs, last, failures>>

DriveOff ==
    /\ scale # Empty
    /\ scale' = Empty
    /\ UNCHANGED <<clock, stays, monitor, rows, reqs, last, failures>>

(* A truck that stands badly, or is filled or tipped where it stands. *)
Shift ==
    /\ scale # Empty
    /\ \E w \in Loads : scale' = [scale EXCEPT !.load = w]
    /\ UNCHANGED <<clock, stays, monitor, rows, reqs, last, failures>>

Tick ==
    /\ clock < MaxClock
    /\ clock' = clock + 1
    /\ UNCHANGED <<truck, monitor, rows, reqs, last, failures>>

-----------------------------------------------------------------------------
(* The poller.  One poll at a time: they start every five seconds and are   *)
(* given up after five.                                                     *)

PollRead ==
    /\ ~poll.busy
    /\ \E signal \in BOOLEAN :
        poll' = [busy |-> TRUE, signal |-> signal, read |-> IF signal THEN scale ELSE Empty]
    /\ UNCHANGED <<clock, truck, status, zeroAt, bootAt, rows, reqs, last, failures>>

PollDoneStaleIsZero ==
    /\ poll.busy
    /\ status' = [alive |-> TRUE, signal |-> poll.signal, read |-> poll.read]
    /\ zeroAt' = IF poll.read.load = 0 THEN clock ELSE zeroAt
    /\ poll' = NoPoll
    /\ UNCHANGED <<clock, truck, bootAt, rows, reqs, last, failures>>

PollDone ==
    /\ poll.busy
    /\ status' = [alive |-> TRUE, signal |-> poll.signal, read |-> poll.read]
    /\ zeroAt' = IF poll.signal /\ poll.read.load = 0 THEN clock ELSE zeroAt
    /\ poll' = NoPoll
    /\ UNCHANGED <<clock, truck, bootAt, rows, reqs, last, failures>>

PollFails ==
    /\ poll.busy
    /\ status' = [status EXCEPT !.alive = FALSE]
    /\ poll' = NoPoll
    /\ UNCHANGED <<clock, truck, zeroAt, bootAt, rows, reqs, last, failures>>

(* A heartbeat says that the PC is alive and brings no reading. *)
Heartbeat ==
    /\ ~status.alive
    /\ status' = [status EXCEPT !.alive = TRUE]
    /\ UNCHANGED <<clock, truck, poll, zeroAt, bootAt, rows, reqs, last, failures>>

(* fetchLiveWeight('web') is the reading of the last poll. *)
Live == status.alive /\ status.signal

-----------------------------------------------------------------------------
(* The last capture, as the two rules that need it look for it. *)

(* orderBy [grossTime desc, tareTime desc]: Postgres puts NULL first.  No   *)
(* two captures have one stamp, so there is at most one newest row.         *)
Precedes(a, b) == a # b /\ (a = 0 \/ (b # 0 /\ a > b))
RowPrecedes(t, u) ==
    \/ Precedes(rows[t].gross, rows[u].gross)
    \/ rows[t].gross = rows[u].gross /\ Precedes(rows[t].tare, rows[u].tare)
Newest(S) == {t \in S : ~\E u \in S : RowPrecedes(u, t)}

Captured(t) == rows[t].gross # 0 \/ rows[t].tare # 0
Since(at) == at # 0 /\ at >= clock - Window
Recent(t) == Since(rows[t].gross) \/ Since(rows[t].tare)

TareIsLater(t) == rows[t].tare # 0 /\ (rows[t].gross = 0 \/ rows[t].tare > rows[t].gross)
LastAt(t) == IF TareIsLater(t) THEN rows[t].tare ELSE rows[t].gross
LastLoad(t) == IF TareIsLater(t) THEN rows[t].tareLoad ELSE rows[t].grossLoad

Others(r) == Tickets \ {r.ticket}
FirstWeight(r) == rows[r.ticket].status = "GATE_ENTRY"

(* checkScaleZero: passed when the scale was seen empty since that capture, *)
(* when the server has started since and has not seen it empty yet, when it *)
(* cannot see the scale, and when it sees it empty.                         *)
ScaleNotZero(r, prev) ==
    /\ FirstWeight(r)
    /\ zeroAt <= LastAt(prev)
    /\ ~(LastAt(prev) < bootAt /\ zeroAt = 0)
    /\ Live /\ status.read.load # 0

BreaksZero(r) == \E prev \in Newest({t \in Others(r) : Recent(t)}) : ScaleNotZero(r, prev)

BreaksDelta(r) ==
    /\ FirstWeight(r)
    /\ \E prev \in Newest({t \in Others(r) : Captured(t)}) : LastLoad(prev) = r.read.load

(* checkDuplicateWeight: the same column of another row, to the kilogram.   *)
IsGross(r) == (r.ticket \in Outbound) = (r.was = "FIRST_DONE")
MayBreakDuplicate(r) ==
    \E t \in Others(r) :
        IF IsGross(r) THEN Since(rows[t].gross) /\ rows[t].grossLoad = r.read.load
                      ELSE Since(rows[t].tare) /\ rows[t].tareLoad = r.read.load

(* checkMinWeightInterval: how long ago the first leg was is left open. *)
MayBreakInterval(r) == ~FirstWeight(r)

(* checkWeighmentRules: whether there are violations.  Whether two weights  *)
(* of a class are equal to the kilogram is left open.                       *)
Breaks(r) == BreaksZero(r) \/ BreaksDelta(r)
MayBreak(r) == Breaks(r) \/ MayBreakDuplicate(r) \/ MayBreakInterval(r)

-----------------------------------------------------------------------------
(* A capture: the button takes the weight that the page shows, which is the *)
(* monitor's last reading, alive or not; the handler peeks at the ticket,   *)
(* asks the rules and writes.                                               *)

Press(q) ==
    /\ reqs[q].state = "idle"
    /\ status.signal /\ status.read.load # 0
    /\ \E t \in Tickets :
        /\ rows[t].status # "COMPLETE"
        /\ reqs' = [reqs EXCEPT ![q] =
            [NoRequest EXCEPT !.state = "pressed", !.ticket = t, !.read = status.read]]
    /\ UNCHANGED <<clock, truck, monitor, rows, last, failures>>

GiveUp(q) ==
    /\ reqs[q].state \in {"pressed", "begun"}
    /\ reqs' = [reqs EXCEPT ![q] = NoRequest]
    /\ UNCHANGED <<clock, truck, monitor, rows, last, failures>>

(* Each page sends its leg only, so a complete ticket is refused and the    *)
(* peeked status tells the leg.                                             *)
Begin(q) ==
    /\ reqs[q].state = "pressed" /\ clock < MaxClock
    /\ rows[reqs[q].ticket].status # "COMPLETE"
    /\ clock' = clock + 1
    /\ reqs' = [reqs EXCEPT ![q].state = "begun", ![q].at = clock + 1,
                            ![q].was = rows[reqs[q].ticket].status]
    /\ UNCHANGED <<truck, monitor, rows, last, failures>>

(* What excuses the zero rule: the truck has left, the scale cannot be      *)
(* seen, the server has started since, or the last capture is too old.      *)
Excused(r) ==
    \/ scale.stay # r.read.stay
    \/ ~Live
    \/ last.at < bootAt
    \/ last.at < clock - Window

(* enforceWeighmentRules: what is broken is cleared with a PIN, the delta   *)
(* rule with a tick, or the capture is given up.                            *)
Check(q) ==
    LET r == reqs[q] IN
    /\ r.state = "begun"
    /\ \E signed \in BOOLEAN :
        /\ Breaks(r) => signed
        /\ signed => MayBreak(r)
        /\ reqs' = [reqs EXCEPT ![q] =
            [r EXCEPT !.state = "cleared", !.signed = signed, !.excused = Excused(r)]]
    /\ UNCHANGED <<clock, truck, monitor, rows, last, failures>>

(* updateMany where the status is still the one peeked at; a second leg     *)
(* needs gross above tare.                                                  *)
Heavier(r) ==
    IF IsGross(r) THEN r.read.load > rows[r.ticket].tareLoad
                  ELSE r.read.load < rows[r.ticket].grossLoad
Writable(r) ==
    /\ rows[r.ticket].status = r.was
    /\ r.was = "FIRST_DONE" => Heavier(r)

WeighedOldStatus(r) ==
    [rows[r.ticket] EXCEPT !.status = "TARE_DONE", !.gross = r.at, !.grossLoad = r.read.load]

Weighed(r) ==
    LET row == [rows[r.ticket] EXCEPT !.status =
                    IF r.was = "GATE_ENTRY" THEN "FIRST_DONE" ELSE "COMPLETE"]
    IN  IF IsGross(r) THEN [row EXCEPT !.gross = r.at, !.grossLoad = r.read.load]
                      ELSE [row EXCEPT !.tare = r.at, !.tareLoad = r.read.load]

Commit(q) ==
    LET r == reqs[q] IN
    /\ r.state = "cleared" /\ Writable(r)
    /\ rows' = [rows EXCEPT ![r.ticket] = Weighed(r)]
    /\ last' = r
    /\ reqs' = [reqs EXCEPT ![q] = NoRequest]
    /\ UNCHANGED <<clock, truck, monitor, failures>>

Refused(q) ==
    /\ reqs[q].state = "cleared" /\ ~Writable(reqs[q])
    /\ reqs' = [reqs EXCEPT ![q] = NoRequest]
    /\ UNCHANGED <<clock, truck, monitor, rows, last, failures>>

-----------------------------------------------------------------------------
(* The factory server restarts: the monitor forgets, the handlers end; the  *)
(* pages of the operators stay open.                                        *)
Restart ==
    /\ Fails
    /\ poll' = NoPoll /\ status' = NoStatus /\ zeroAt' = 0 /\ bootAt' = clock
    /\ reqs' = [q \in Requests |->
                    IF reqs[q].state = "pressed" THEN reqs[q] ELSE NoRequest]
    /\ UNCHANGED <<clock, truck, rows, last>>

-----------------------------------------------------------------------------
Init ==
    /\ clock = 1 /\ stays = 0 /\ scale = Empty
    /\ poll = NoPoll /\ status = NoStatus /\ zeroAt = 0 /\ bootAt = 1
    /\ rows = [t \in Tickets |-> NewRow]
    /\ reqs = [q \in Requests |-> NoRequest]
    /\ last = NoRequest /\ failures = 0

Yard == DriveOn \/ DriveOff \/ Shift \/ Tick
Monitor == PollRead \/ PollDone \/ PollFails \/ Heartbeat
Capture == \E q \in Requests :
    Press(q) \/ GiveUp(q) \/ Begin(q) \/ Check(q) \/ Commit(q) \/ Refused(q)

Next == Yard \/ Monitor \/ Capture \/ Restart

Spec == Init /\ [][Next]_vars

-----------------------------------------------------------------------------
Row == [status : {"GATE_ENTRY", "FIRST_DONE", "COMPLETE"}, gross : Nat, tare : Nat,
        grossLoad : Loads \union {0}, tareLoad : Loads \union {0}]
Request == [state : {"idle", "pressed", "begun", "cleared"}, ticket : Tickets,
            read : Reading, was : {"GATE_ENTRY", "FIRST_DONE"}, at : Nat,
            signed : BOOLEAN, excused : BOOLEAN]

(* Every variable holds what its column or field can hold. *)
ScaleTypeOK ==
    /\ clock \in Nat /\ stays \in Nat /\ scale \in Reading
    /\ poll \in [busy : BOOLEAN, signal : BOOLEAN, read : Reading]
    /\ status \in [alive : BOOLEAN, signal : BOOLEAN, read : Reading]
    /\ zeroAt \in Nat /\ bootAt \in Nat
    /\ rows \in [Tickets -> Row] /\ reqs \in [Requests -> Request]
    /\ last \in Request /\ failures \in Nat

First(r) == r.was = "GATE_ENTRY"

(* One truck on one stay, captured for two tickets one right after the      *)
(* other. *)
Twice(r, s) == r.ticket # s.ticket /\ r.read.stay = s.read.stay

(* A truck that stands on the scale since its first weight was captured is  *)
(* not weighed as the first weight of another ticket unless somebody has    *)
(* cleared it by name: the delta rule sees to it if its weight is the same, *)
(* the zero rule, unless excused, if it is not.  The rules compare with     *)
(* rows of the table and with what the poller saw, none of which names a    *)
(* truck.                                                                   *)
Signed(r, s) ==
    First(r) /\ First(s) /\ Twice(r, s) =>
        s.signed \/ (s.read.load # r.read.load /\ s.excused)
StandingTruckSigned == [][last' # last => Signed(last, last')]_vars

(* The delta rule as its comment and the settings page put it: a first      *)
(* weight near that of the immediately previous capture on the scale, any   *)
(* ticket, is cleared by a human.                                           *)
NearPreviousSigned ==
    [][last' # last /\ First(last') /\ Twice(last, last')
            /\ last'.read.load = last.read.load
        => last'.signed]_vars
=============================================================================
