-------------------------- MODULE ScaleRules_proofs --------------------------
(***************************************************************************)
(* Proofs about ScaleRules: the types for every instance, and, for inbound *)
(* tickets and one capture at a time, that a truck which stays on the      *)
(* scale is not weighed for a second ticket unless a human clears it.      *)
(***************************************************************************)
EXTENDS ScaleRules, TLAPS

-----------------------------------------------------------------------------
(* The inductive invariant. *)

Sound(r) == r.load = 0 <=> r.stay = 0
InFlight(q) == reqs[q].state \in {"begun", "cleared"}

(* A stay has a number of its own and readings name stays of the past. *)
Named ==
    /\ Sound(scale) /\ Sound(poll.read) /\ Sound(status.read)
    /\ scale.stay <= stays /\ poll.read.stay <= stays /\ status.read.stay <= stays
    /\ last.read.stay <= stays
    /\ \A q \in Requests :
        /\ reqs[q].read.stay <= stays
        /\ reqs[q].state # "idle" => reqs[q].read.stay # 0
    /\ last.at = 0 => last.read.stay = 0

(* Stamps are of the past; one in flight is above all that are stored.      *)
Stamped ==
    /\ zeroAt <= clock /\ last.at <= clock
    /\ \A t \in Tickets : rows[t].gross <= clock /\ rows[t].tare <= clock
    /\ \A q \in Requests : InFlight(q) =>
        /\ reqs[q].at <= clock /\ reqs[q].at # 0
        /\ \A t \in Tickets : rows[t].gross < reqs[q].at /\ rows[t].tare < reqs[q].at

(* Nobody has read, pressed or stored a weight of the truck with stay s. *)
Unread(s) ==
    /\ status.read.stay # s /\ last.read.stay # s
    /\ \A q \in Requests : reqs[q].read.stay # s

(* While an empty scale is what the poller has just read, or read last, the *)
(* truck that stands there now has not been read yet.                       *)
NewTruck ==
    scale.stay # 0 =>
        /\ poll.busy /\ poll.signal /\ poll.read.load = 0 => Unread(scale.stay)
        /\ status.signal /\ status.read.load = 0 => Unread(scale.stay)

(* Once the scale was seen empty after a capture, its truck is gone. *)
ZeroIsGone ==
    /\ zeroAt > last.at /\ last.read.stay # 0 => scale.stay # last.read.stay
    /\ \A q \in Requests :
        InFlight(q) /\ zeroAt > reqs[q].at => scale.stay # reqs[q].read.stay

(* An inbound ticket has its gross first. *)
GrossFirst ==
    \A t \in Tickets :
        /\ rows[t].status = "GATE_ENTRY" => rows[t].gross = 0 /\ rows[t].tare = 0
        /\ rows[t].status # "GATE_ENTRY" => rows[t].gross # 0

(* If the last capture was a first weight, it is the newest gross. *)
LastIsNewest ==
    last.at # 0 /\ First(last) =>
        /\ rows[last.ticket].gross = last.at /\ rows[last.ticket].tare = 0
        /\ rows[last.ticket].grossLoad = last.read.load
        /\ \A t \in Tickets \ {last.ticket} : rows[t].gross < last.at

(* A capture that the rules have let through keeps its word as long as its  *)
(* ticket is where it was.                                                  *)
Cleared ==
    \A q \in Requests :
        reqs[q].state = "cleared" /\ rows[reqs[q].ticket].status = reqs[q].was
            => Signed(last, reqs[q])

Guarded ==
    /\ ScaleTypeOK /\ Named /\ Stamped /\ NewTruck /\ ZeroIsGone
    /\ GrossFirst /\ LastIsNewest /\ Cleared

-----------------------------------------------------------------------------
(* Types. *)

LEMMA BlankTypes ==
    /\ NoRequest \in Request /\ Empty \in Reading /\ NewRow \in Row
    /\ NoPoll \in [busy : BOOLEAN, signal : BOOLEAN, read : Reading]
    /\ NoStatus \in [alive : BOOLEAN, signal : BOOLEAN, read : Reading]
<1>1. PICK t \in Tickets : TRUE
  BY ScaleAssumption
<1>2. (CHOOSE u \in Tickets : TRUE) \in Tickets
  BY <1>1
<1>. QED BY <1>2 DEF NoRequest, Empty, NewRow, NoPoll, NoStatus, Request, Reading, Row

LEMMA WeighedTypes ==
    ASSUME NEW r \in Request, rows \in [Tickets -> Row]
    PROVE  Weighed(r) \in Row
<1>1. r.ticket \in Tickets /\ r.at \in Nat /\ r.read.load \in Loads \union {0}
  BY DEF Request, Reading
<1>2. rows[r.ticket] \in Row
  BY <1>1
<1>3. PICK row : row = [rows[r.ticket] EXCEPT !.status =
                          IF r.was = "GATE_ENTRY" THEN "FIRST_DONE" ELSE "COMPLETE"]
  OBVIOUS
<1>4. row \in Row
  BY <1>2, <1>3 DEF Row
<1>5. /\ [row EXCEPT !.gross = r.at, !.grossLoad = r.read.load] \in Row
      /\ [row EXCEPT !.tare = r.at, !.tareLoad = r.read.load] \in Row
  BY <1>1, <1>4 DEF Row
<1>. QED BY <1>3, <1>5 DEF Weighed

LEMMA TypesInductive == ScaleTypeOK /\ [Next]_vars => ScaleTypeOK'
<1>. SUFFICES ASSUME ScaleTypeOK, [Next]_vars PROVE ScaleTypeOK'
  OBVIOUS
<1>. USE ScaleAssumption, BlankTypes DEF ScaleTypeOK
<1>1. CASE DriveOn
  BY <1>1 DEF DriveOn, monitor, Reading
<1>2. CASE DriveOff
  BY <1>2 DEF DriveOff, monitor
<1>3. CASE Shift
  <2>1. \A w \in Loads : [scale EXCEPT !.load = w] \in Reading
    BY DEF Reading
  <2>. QED BY <1>3, <2>1 DEF Shift, monitor
<1>4. CASE Tick
  BY <1>4 DEF Tick, monitor, truck
<1>5. CASE PollRead
  BY <1>5 DEF PollRead, truck
<1>6. CASE PollDone
  BY <1>6 DEF PollDone, truck
<1>7. CASE PollFails
  BY <1>7 DEF PollFails, truck
<1>8. CASE Heartbeat
  BY <1>8 DEF Heartbeat, truck
<1>9. CASE \E q \in Requests : Press(q)
  <2>1. PICK q \in Requests, t \in Tickets :
            /\ Press(q)
            /\ reqs' = [reqs EXCEPT ![q] =
                 [NoRequest EXCEPT !.state = "pressed", !.ticket = t, !.read = status.read]]
    BY <1>9 DEF Press
  <2>2. [NoRequest EXCEPT !.state = "pressed", !.ticket = t, !.read = status.read] \in Request
    BY DEF Request
  <2>. QED BY <2>1, <2>2 DEF Press, truck, monitor
<1>10. CASE \E q \in Requests : GiveUp(q)
  BY <1>10 DEF GiveUp, truck, monitor
<1>11. CASE \E q \in Requests : Begin(q)
  <2>1. PICK q \in Requests : Begin(q)
    BY <1>11
  <2>2. reqs[q] \in Request /\ rows[reqs[q].ticket] \in Row
    BY DEF Request
  <2>3. rows[reqs[q].ticket].status \in {"GATE_ENTRY", "FIRST_DONE"}
    BY <2>1, <2>2 DEF Begin, Row
  <2>4. \A r \in Request, n \in Nat, w \in {"GATE_ENTRY", "FIRST_DONE"} :
            [r EXCEPT !.state = "begun", !.at = n, !.was = w] \in Request
    BY DEF Request
  <2>5. clock + 1 \in Nat
    OBVIOUS
  <2>6. PICK w \in {"GATE_ENTRY", "FIRST_DONE"} : w = rows[reqs[q].ticket].status
    BY <2>3
  <2>7. [reqs[q] EXCEPT !.state = "begun", !.at = clock + 1, !.was = w] \in Request
    BY <2>2, <2>4, <2>5
  <2>. QED BY <2>1, <2>6, <2>7 DEF Begin, truck, monitor
<1>12. CASE \E q \in Requests : Check(q)
  <2>1. PICK q \in Requests, signed \in BOOLEAN :
            /\ Check(q)
            /\ reqs' = [reqs EXCEPT ![q] =
                 [reqs[q] EXCEPT !.state = "cleared", !.signed = signed,
                                 !.excused = Excused(reqs[q])]]
    BY <1>12 DEF Check
  <2>2. Excused(reqs[q]) \in BOOLEAN
    BY DEF Excused, Live
  <2>3. [reqs[q] EXCEPT !.state = "cleared", !.signed = signed,
                        !.excused = Excused(reqs[q])] \in Request
    BY <2>2 DEF Request
  <2>. QED BY <2>1, <2>3 DEF Check, truck, monitor
<1>13. CASE \E q \in Requests : Commit(q)
  <2>1. PICK q \in Requests : Commit(q)
    BY <1>13
  <2>2. Weighed(reqs[q]) \in Row
    BY WeighedTypes
  <2>. QED BY <2>1, <2>2 DEF Commit, truck, monitor
<1>14. CASE \E q \in Requests : Refused(q)
  BY <1>14 DEF Refused, truck, monitor
<1>15. CASE Restart
  BY <1>15 DEF Restart, Fails, truck
<1>16. CASE UNCHANGED vars
  BY <1>16 DEF vars, truck, monitor
<1>. QED
  BY <1>1, <1>2, <1>3, <1>4, <1>5, <1>6, <1>7, <1>8, <1>9, <1>10, <1>11, <1>12, <1>13,
     <1>14, <1>15, <1>16 DEF Next, Yard, Monitor, Capture

(* Every variable of the scale's model holds what its column can hold. *)
THEOREM ScaleIsTyped == Spec => []ScaleTypeOK
<1>1. Init => ScaleTypeOK
  BY ScaleAssumption, BlankTypes DEF Init, ScaleTypeOK
<1>2. ScaleTypeOK /\ [Next]_vars => ScaleTypeOK'
  BY TypesInductive
<1>. QED BY <1>1, <1>2, PTL DEF Spec

-----------------------------------------------------------------------------
(* Each action keeps the invariant. *)

LEMMA RequestFields ==
    ASSUME ScaleTypeOK, NEW q \in Requests
    PROVE  /\ reqs[q] \in Request
           /\ reqs[q].state \in {"idle", "pressed", "begun", "cleared"}
           /\ reqs[q].ticket \in Tickets
           /\ reqs[q].read \in Reading /\ reqs[q].read.stay \in Nat
           /\ reqs[q].at \in Nat
BY DEF ScaleTypeOK, Request, Reading

LEMMA YardKeeps ==
    ASSUME Guarded, Yard, ScaleTypeOK' PROVE Guarded'
<1>. USE DEF Guarded, Named, Stamped, NewTruck, ZeroIsGone, Unread, InFlight,
             GrossFirst, LastIsNewest, Cleared
<1>1. CASE DriveOn
  <2>1. PICK w \in Loads : scale' = [stay |-> stays + 1, load |-> w]
    BY <1>1 DEF DriveOn
  <2>2. /\ scale'.stay = stays + 1 /\ stays' = stays + 1 /\ w # 0 /\ scale'.load = w
        /\ stays \in Nat
    BY <1>1, <2>1, ScaleAssumption DEF DriveOn, ScaleTypeOK
  <2>3. UNCHANGED <<clock, poll, status, zeroAt, bootAt, rows, reqs, last>>
    BY <1>1 DEF DriveOn, monitor
  <2>4. \A q \in Requests : reqs[q].read.stay \in Nat
    BY RequestFields
  <2>5. last.read.stay \in Nat /\ poll.read.stay \in Nat /\ status.read.stay \in Nat
    BY DEF ScaleTypeOK, Request, Reading
  <2>6. Named'
    BY <2>2, <2>3, <2>4, <2>5 DEF Sound
  <2>7. Stamped' /\ GrossFirst' /\ LastIsNewest' /\ Cleared'
    BY <2>3
  <2>8. Unread(scale.stay)'
    BY <2>2, <2>3, <2>4, <2>5
  <2>9. NewTruck'
    BY <2>8
  <2>10. ZeroIsGone'
    BY <2>2, <2>3, <2>4, <2>5
  <2>. QED BY <2>6, <2>7, <2>9, <2>10
<1>2. CASE DriveOff
  <2>1. scale' = Empty /\ UNCHANGED <<clock, stays, poll, status, zeroAt, bootAt, rows, reqs, last>>
    BY <1>2 DEF DriveOff, monitor
  <2>2. scale'.stay = 0 /\ scale'.load = 0
    BY <2>1 DEF Empty
  <2>3. stays \in Nat
    BY DEF ScaleTypeOK
  <2>4. Named'
    BY <2>1, <2>2, <2>3 DEF Sound
  <2>5. Stamped' /\ GrossFirst' /\ LastIsNewest' /\ Cleared'
    BY <2>1
  <2>6. NewTruck' /\ ZeroIsGone'
    BY <2>1, <2>2
  <2>. QED BY <2>4, <2>5, <2>6
<1>3. CASE Shift
  <2>1. PICK w \in Loads : scale' = [scale EXCEPT !.load = w]
    BY <1>3 DEF Shift
  <2>2. scale \in Reading /\ scale # Empty /\ w # 0
    BY <1>3, ScaleAssumption DEF Shift, ScaleTypeOK
  <2>3. scale'.stay = scale.stay /\ scale'.load = w /\ scale.stay # 0
    BY <2>1, <2>2 DEF Reading, Empty, Sound
  <2>4. UNCHANGED <<clock, stays, poll, status, zeroAt, bootAt, rows, reqs, last>>
    BY <1>3 DEF Shift, monitor
  <2>5. Named'
    BY <2>2, <2>3, <2>4 DEF Sound
  <2>6. Stamped' /\ GrossFirst' /\ LastIsNewest' /\ Cleared'
    BY <2>4
  <2>7. NewTruck' /\ ZeroIsGone'
    BY <2>3, <2>4
  <2>. QED BY <2>5, <2>6, <2>7
<1>4. CASE Tick
  <2>1. /\ clock' = clock + 1 /\ clock \in Nat
        /\ UNCHANGED <<scale, stays, poll, status, zeroAt, bootAt, rows, reqs, last>>
    BY <1>4 DEF Tick, monitor, truck, ScaleTypeOK
  <2>2. Named' /\ NewTruck' /\ ZeroIsGone' /\ GrossFirst' /\ LastIsNewest' /\ Cleared'
    BY <2>1
  <2>3. /\ zeroAt \in Nat /\ last.at \in Nat
        /\ \A t \in Tickets : rows[t].gross \in Nat /\ rows[t].tare \in Nat
        /\ \A q \in Requests : reqs[q].at \in Nat
    BY DEF ScaleTypeOK, Row, Request
  <2>4. Stamped'
    BY <2>1, <2>3
  <2>. QED BY <2>2, <2>4
<1>. QED BY <1>1, <1>2, <1>3, <1>4 DEF Yard

LEMMA MonitorKeeps ==
    ASSUME Guarded, Monitor, ScaleTypeOK' PROVE Guarded'
<1>. USE DEF Guarded, Named, Stamped, NewTruck, ZeroIsGone, Unread, InFlight,
             GrossFirst, LastIsNewest, Cleared
<1>1. CASE PollRead
  <2>1. PICK signal \in BOOLEAN :
          poll' = [busy |-> TRUE, signal |-> signal, read |-> IF signal THEN scale ELSE Empty]
    BY <1>1 DEF PollRead
  <2>2. UNCHANGED <<clock, scale, stays, status, zeroAt, bootAt, rows, reqs, last>>
    BY <1>1 DEF PollRead, truck
  <2>3. /\ poll'.signal = signal
        /\ signal => poll'.read = scale
        /\ poll'.read \in {scale, Empty}
    BY <2>1
  <2>4. Sound(Empty) /\ Empty.stay = 0 /\ stays \in Nat
    BY DEF Sound, Empty, ScaleTypeOK
  <2>5. Named'
    BY <2>2, <2>3, <2>4
  <2>6. Stamped' /\ GrossFirst' /\ LastIsNewest' /\ Cleared' /\ ZeroIsGone'
    BY <2>2
  <2>7. NewTruck'
    BY <2>2, <2>3 DEF Sound
  <2>. QED BY <2>5, <2>6, <2>7
<1>2. CASE PollDone
  <2>1. /\ status'.signal = poll.signal /\ status'.read = poll.read /\ poll' = NoPoll
        /\ poll.busy
        /\ zeroAt' = IF poll.signal /\ poll.read.load = 0 THEN clock ELSE zeroAt
        /\ UNCHANGED <<clock, scale, stays, bootAt, rows, reqs, last>>
    BY <1>2 DEF PollDone, truck
  <2>2. NoPoll.busy = FALSE /\ Sound(NoPoll.read) /\ NoPoll.read.stay = 0 /\ stays \in Nat
    BY DEF NoPoll, Empty, Sound, ScaleTypeOK
  <2>3. Named'
    BY <2>1, <2>2
  <2>4. GrossFirst' /\ LastIsNewest' /\ Cleared'
    BY <2>1
  <2>5. Stamped'
    BY <2>1 DEF ScaleTypeOK
  <2>6. NewTruck'
    BY <2>1, <2>2 DEF Sound
  <2>7. ZeroIsGone'
    <3>1. CASE poll.signal /\ poll.read.load = 0
      <4>1. scale.stay # 0 => Unread(scale.stay)
        BY <2>1, <3>1
      <4>2. \A q \in Requests : InFlight(q) => reqs[q].read.stay # 0
        OBVIOUS
      <4>. QED BY <2>1, <4>1, <4>2
    <3>2. CASE ~(poll.signal /\ poll.read.load = 0)
      BY <2>1, <3>2
    <3>. QED BY <3>1, <3>2
  <2>. QED BY <2>3, <2>4, <2>5, <2>6, <2>7
<1>3. CASE PollFails \/ Heartbeat
  <2>1. /\ status'.signal = status.signal /\ status'.read = status.read
        /\ poll' \in {poll, NoPoll}
        /\ UNCHANGED <<clock, scale, stays, zeroAt, bootAt, rows, reqs, last>>
    BY <1>3 DEF PollFails, Heartbeat, truck, ScaleTypeOK
  <2>2. NoPoll.busy = FALSE /\ Sound(NoPoll.read) /\ NoPoll.read.stay = 0 /\ stays \in Nat
    BY DEF NoPoll, Empty, Sound, ScaleTypeOK
  <2>3. Named'
    BY <2>1, <2>2
  <2>4. Stamped' /\ GrossFirst' /\ LastIsNewest' /\ Cleared' /\ ZeroIsGone'
    BY <2>1
  <2>5. NewTruck'
    BY <2>1, <2>2
  <2>. QED BY <2>3, <2>4, <2>5
<1>. QED BY <1>1, <1>2, <1>3 DEF Monitor

(* Actions that only change one request, and leave it idle, pressed or      *)
(* begun: what is needed of the new request.                                *)
LEMMA OneRequest ==
    ASSUME Guarded, ScaleTypeOK', NEW q \in Requests,
           UNCHANGED <<scale, stays, poll, status, zeroAt, bootAt, rows, last>>,
           clock' \in Nat, clock' >= clock,
           \A r \in Requests \ {q} : reqs'[r] = reqs[r],
           reqs'[q].state # "cleared",
           reqs'[q].read \in {status.read, reqs[q].read, Empty},
           reqs'[q].state # "idle" => reqs'[q].read.stay # 0,
           reqs'[q].state = "begun" =>
                reqs'[q].at = clock + 1 /\ clock' = clock + 1
    PROVE  Guarded'
<1>. USE DEF Guarded, Named, Stamped, NewTruck, ZeroIsGone, Unread, InFlight,
             GrossFirst, LastIsNewest, Cleared
<1>1. /\ clock \in Nat /\ zeroAt \in Nat /\ last.at \in Nat /\ stays \in Nat
      /\ \A t \in Tickets : rows[t].gross \in Nat /\ rows[t].tare \in Nat
      /\ \A r \in Requests : reqs[r].at \in Nat
  BY DEF ScaleTypeOK, Row, Request
<1>2. Empty.stay = 0
  BY DEF Empty
<1>3. Named'
  BY <1>1, <1>2
<1>4. Stamped'
  <2>1. zeroAt' <= clock' /\ last'.at <= clock'
    BY <1>1
  <2>2. \A t \in Tickets : rows'[t].gross <= clock' /\ rows'[t].tare <= clock'
    BY <1>1
  <2>3. ASSUME NEW r \in Requests, InFlight(r)', r # q
        PROVE  /\ reqs'[r].at <= clock' /\ reqs'[r].at # 0
               /\ \A t \in Tickets : rows'[t].gross < reqs'[r].at /\ rows'[t].tare < reqs'[r].at
    BY <1>1, <2>3
  <2>4. ASSUME InFlight(q)'
        PROVE  /\ reqs'[q].at <= clock' /\ reqs'[q].at # 0
               /\ \A t \in Tickets : rows'[t].gross < reqs'[q].at /\ rows'[t].tare < reqs'[q].at
    BY <1>1, <2>4
  <2>. QED BY <2>1, <2>2, <2>3, <2>4
<1>5. scale.stay # 0 /\ Unread(scale.stay) => Unread(scale.stay)'
  BY <1>2
<1>6. NewTruck'
  BY <1>5
<1>7. ZeroIsGone'
  BY <1>1
<1>8. GrossFirst' /\ LastIsNewest'
  OBVIOUS
<1>9. Cleared'
  OBVIOUS
<1>. QED BY <1>3, <1>4, <1>6, <1>7, <1>8, <1>9

LEMMA BlankRequest == NoRequest.state = "idle" /\ NoRequest.read = Empty /\ NoRequest.at = 0
BY DEF NoRequest

LEMMA EarlyKeeps ==
    ASSUME Guarded, ScaleTypeOK', NEW q \in Requests,
           Press(q) \/ GiveUp(q) \/ Begin(q) \/ Refused(q)
    PROVE  Guarded'
<1>. USE RequestFields, BlankRequest DEF Guarded
<1>1. reqs \in [Requests -> Request] /\ clock \in Nat
  BY DEF ScaleTypeOK
<1>2. CASE Press(q)
  <2>1. PICK t \in Tickets :
          reqs' = [reqs EXCEPT ![q] =
            [NoRequest EXCEPT !.state = "pressed", !.ticket = t, !.read = status.read]]
    BY <1>2 DEF Press
  <2>2. /\ reqs'[q].state = "pressed" /\ reqs'[q].read = status.read
        /\ \A r \in Requests \ {q} : reqs'[r] = reqs[r]
    BY <1>1, <2>1 DEF NoRequest
  <2>3. status.read.stay # 0
    BY <1>2 DEF Press, Named, Sound
  <2>4. UNCHANGED <<clock, truck, monitor, rows, last>>
    BY <1>2 DEF Press
  <2>5. /\ UNCHANGED <<scale, stays, poll, status, zeroAt, bootAt, rows, last>>
        /\ clock' \in Nat /\ clock' >= clock
    BY <1>1, <2>4 DEF truck, monitor
  <2>6. reqs'[q].state # "cleared" /\ reqs'[q].state # "begun"
    BY <2>2
  <2>. QED BY <2>2, <2>3, <2>5, <2>6, OneRequest
<1>3. CASE GiveUp(q) \/ Refused(q)
  <2>1. /\ reqs'[q] = NoRequest
        /\ \A r \in Requests \ {q} : reqs'[r] = reqs[r]
    BY <1>1, <1>3 DEF GiveUp, Refused
  <2>. QED BY <1>1, <1>3, <2>1, OneRequest DEF GiveUp, Refused, truck, monitor
<1>4. CASE Begin(q)
  <2>1. /\ reqs'[q].state = "begun" /\ reqs'[q].read = reqs[q].read /\ reqs'[q].at = clock + 1
        /\ \A r \in Requests \ {q} : reqs'[r] = reqs[r]
    BY <1>1, <1>4 DEF Begin, Request
  <2>2. reqs[q].read.stay # 0
    BY <1>4 DEF Begin, Named
  <2>3. clock' = clock + 1 /\ clock' \in Nat /\ clock' >= clock
    BY <1>1, <1>4 DEF Begin
  <2>. QED BY <1>4, <2>1, <2>2, <2>3, OneRequest DEF Begin, truck, monitor
<1>. QED BY <1>2, <1>3, <1>4

LEMMA RestartKeeps ==
    ASSUME Guarded, ScaleTypeOK', Restart PROVE Guarded'
<1>. USE DEF Guarded, Named, Stamped, NewTruck, ZeroIsGone, Unread, InFlight,
             GrossFirst, LastIsNewest, Cleared
<1>1. /\ poll' = NoPoll /\ status' = NoStatus /\ zeroAt' = 0
      /\ \A q \in Requests :
            \/ reqs'[q] = reqs[q] /\ reqs[q].state = "pressed"
            \/ reqs'[q] = NoRequest
      /\ UNCHANGED <<clock, scale, stays, rows, last>>
  BY DEF Restart, truck
<1>2. /\ ~NoPoll.busy /\ Sound(NoPoll.read) /\ NoPoll.read.stay = 0
      /\ ~NoStatus.signal /\ Sound(NoStatus.read) /\ NoStatus.read.stay = 0
      /\ Empty.stay = 0 /\ stays \in Nat /\ clock \in Nat /\ last.at \in Nat
      /\ \A q \in Requests : reqs[q].at \in Nat
  BY DEF NoPoll, NoStatus, Empty, Sound, ScaleTypeOK, Request
<1>3. Named'
  BY <1>1, <1>2, BlankRequest
<1>4. \A q \in Requests : ~InFlight(q)'
  BY <1>1, BlankRequest
<1>5. Stamped'
  BY <1>1, <1>2, <1>4
<1>6. NewTruck' /\ ZeroIsGone'
  BY <1>1, <1>2, <1>4
<1>7. GrossFirst' /\ LastIsNewest' /\ Cleared'
  BY <1>1, <1>4
<1>. QED BY <1>3, <1>5, <1>6, <1>7

(* The rules at work: the capture that was stored last, if it was the first *)
(* weight of another ticket on this stay, is the row that both rules find.  *)
LEMMA RulesSeeLast ==
    ASSUME Guarded, NEW q \in Requests, reqs[q].state = "begun",
           rows[reqs[q].ticket].status = "GATE_ENTRY",
           First(last), Twice(last, reqs[q])
    PROVE  \/ Breaks(reqs[q])
           \/ reqs[q].read.load # last.read.load /\ Excused(reqs[q])
<1>. DEFINE r == reqs[q]
            p == last.ticket
<1>1. last \in Request /\ p \in Tickets /\ r.ticket # p /\ last.at \in Nat
  BY DEF Guarded, ScaleTypeOK, Request, Twice
<1>2. last.read.stay = r.read.stay /\ r.read.stay # 0 /\ last.at # 0
  BY DEF Guarded, Named, Twice
<1>3. /\ rows[p].gross = last.at /\ rows[p].tare = 0 /\ rows[p].grossLoad = last.read.load
      /\ \A t \in Tickets \ {p} : rows[t].gross < last.at
  BY <1>2 DEF Guarded, LastIsNewest
<1>4. \A t \in Tickets : rows[t].gross \in Nat /\ rows[t].tare \in Nat
  BY DEF Guarded, ScaleTypeOK, Row
<1>5. \A t \in Tickets : Captured(t) => rows[t].gross # 0
  BY DEF Guarded, GrossFirst, Captured
<1>6. \A t \in Tickets : Recent(t) => Captured(t)
  BY DEF Recent, Since, Captured
<1>7. p \in Others(r)
  BY <1>1 DEF Others
<1>8. ASSUME NEW S \in SUBSET Others(r), p \in S, \A t \in S : Captured(t)
      PROVE  p \in Newest(S)
  <2>1. SUFFICES ASSUME NEW t \in S, RowPrecedes(t, p) PROVE FALSE
    BY <1>8 DEF Newest
  <2>2. t \in Tickets /\ t # r.ticket /\ rows[t].gross # 0
    BY <1>5, <1>8 DEF Others
  <2>3. CASE t = p
    BY <2>1, <2>3 DEF RowPrecedes, Precedes
  <2>4. CASE t # p
    <3>1. rows[t].gross < rows[p].gross
      BY <1>3, <2>2, <2>4
    <3>. QED BY <1>1, <1>3, <1>4, <2>1, <2>2, <3>1 DEF RowPrecedes, Precedes
  <2>. QED BY <2>3, <2>4
<1>9. LastAt(p) = last.at /\ LastLoad(p) = last.read.load
  BY <1>3 DEF LastAt, LastLoad, TareIsLater
<1>10. Captured(p) /\ FirstWeight(r)
  BY <1>2, <1>3 DEF Captured, FirstWeight
<1>11. CASE r.read.load = last.read.load
  <2>1. p \in Newest({t \in Others(r) : Captured(t)})
    BY <1>7, <1>8, <1>10
  <2>. QED BY <1>9, <1>10, <1>11, <2>1 DEF BreaksDelta, Breaks
<1>12. CASE r.read.load # last.read.load /\ ~Excused(r)
  <2>1. /\ scale.stay = r.read.stay /\ Live
        /\ ~(last.at < bootAt) /\ ~(last.at < clock - Window)
    BY <1>12 DEF Excused
  <2>2. Recent(p)
    <3>1. clock \in Nat /\ Window \in Nat
      BY ScaleAssumption DEF Guarded, ScaleTypeOK
    <3>. QED BY <1>1, <1>2, <1>3, <2>1, <3>1 DEF Recent, Since
  <2>3. p \in Newest({t \in Others(r) : Recent(t)})
    <3>. DEFINE S == {t \in Others(r) : Recent(t)}
    <3>1. S \in SUBSET Others(r) /\ p \in S /\ \A t \in S : Captured(t)
      BY <1>6, <1>7, <2>2 DEF Others
    <3>. QED BY <1>8, <3>1
  <2>4. zeroAt <= last.at
    <3>1. zeroAt \in Nat
      BY DEF Guarded, ScaleTypeOK
    <3>. QED BY <1>1, <1>2, <2>1, <3>1 DEF Guarded, ZeroIsGone
  <2>5. status.read.load # 0
    <3>1. ~Unread(scale.stay)
      BY <1>2, <2>1 DEF Unread
    <3>. QED BY <1>2, <2>1, <3>1 DEF Guarded, NewTruck, Live
  <2>6. ScaleNotZero(r, p)
    BY <1>9, <1>10, <2>1, <2>4, <2>5 DEF ScaleNotZero
  <2>. QED BY <2>3, <2>6 DEF BreaksZero, Breaks
<1>. QED BY <1>11, <1>12

LEMMA CheckKeeps ==
    ASSUME Guarded, ScaleTypeOK', NEW q \in Requests, Check(q)
    PROVE  Guarded'
<1>. USE DEF Guarded
<1>1. PICK signed \in BOOLEAN :
        /\ Breaks(reqs[q]) => signed
        /\ reqs' = [reqs EXCEPT ![q] =
             [reqs[q] EXCEPT !.state = "cleared", !.signed = signed,
                             !.excused = Excused(reqs[q])]]
  BY DEF Check
<1>2. reqs[q].state = "begun" /\ reqs[q] \in Request
  BY RequestFields DEF Check
<1>3. UNCHANGED <<clock, scale, stays, poll, status, zeroAt, bootAt, rows, last>>
  BY DEF Check, truck, monitor
<1>4. /\ reqs'[q].state = "cleared" /\ reqs'[q].signed = signed
      /\ reqs'[q].excused = Excused(reqs[q])
      /\ reqs'[q].ticket = reqs[q].ticket /\ reqs'[q].read = reqs[q].read
      /\ reqs'[q].was = reqs[q].was /\ reqs'[q].at = reqs[q].at
      /\ \A r \in Requests \ {q} : reqs'[r] = reqs[r]
  BY <1>1, <1>2 DEF ScaleTypeOK, Request
<1>5. Named' /\ Stamped' /\ NewTruck' /\ ZeroIsGone'
  BY <1>2, <1>3, <1>4 DEF Named, Stamped, NewTruck, ZeroIsGone, Unread, InFlight
<1>6. GrossFirst' /\ LastIsNewest'
  BY <1>3 DEF GrossFirst, LastIsNewest
<1>7. Cleared'
  <2>1. SUFFICES ASSUME rows[reqs[q].ticket].status = reqs[q].was
                 PROVE  Signed(last, reqs'[q])
    BY <1>3, <1>4 DEF Cleared
  <2>2. SUFFICES ASSUME First(last), First(reqs[q]), Twice(last, reqs[q])
                 PROVE  signed \/ (reqs[q].read.load # last.read.load /\ Excused(reqs[q]))
    BY <1>4 DEF Signed, First, Twice
  <2>3. rows[reqs[q].ticket].status = "GATE_ENTRY"
    BY <2>1, <2>2 DEF First
  <2>. QED BY <1>1, <1>2, <2>2, <2>3, RulesSeeLast
<1>. QED BY <1>5, <1>6, <1>7

LEMMA CommitKeeps ==
    ASSUME Guarded, ScaleTypeOK', NEW q \in Requests, Commit(q),
           Outbound = {}, \A r \in Requests : r = q
    PROVE  Guarded'
<1>. USE DEF Guarded
<1>. DEFINE r == reqs[q]
            t == reqs[q].ticket
<1>1. /\ r.state = "cleared" /\ Writable(r) /\ r \in Request /\ t \in Tickets
      /\ r.at \in Nat /\ r.read.stay \in Nat
  BY RequestFields DEF Commit
<1>2. /\ rows' = [rows EXCEPT ![t] = Weighed(r)] /\ last' = r
      /\ reqs'[q] = NoRequest
      /\ UNCHANGED <<clock, scale, stays, poll, status, zeroAt, bootAt>>
  BY DEF Commit, truck, monitor, ScaleTypeOK
<1>3. rows \in [Tickets -> Row] /\ rows[t] \in Row /\ rows[t].status = r.was
  BY <1>1 DEF ScaleTypeOK, Writable
<1>4. IsGross(r) <=> First(r)
  BY <1>1 DEF IsGross, First, Request
<1>5. First(r) => /\ rows'[t].gross = r.at /\ rows'[t].grossLoad = r.read.load
                  /\ rows'[t].tare = rows[t].tare /\ rows'[t].status = "FIRST_DONE"
  BY <1>1, <1>2, <1>3, <1>4 DEF Weighed, First, Row
<1>6. ~First(r) => /\ rows'[t].tare = r.at /\ rows'[t].gross = rows[t].gross
                   /\ rows'[t].status = "COMPLETE"
  BY <1>1, <1>2, <1>3, <1>4 DEF Weighed, First, Row
<1>7. \A u \in Tickets \ {t} : rows'[u] = rows[u]
  BY <1>2, <1>3
<1>8. /\ r.at <= clock /\ r.at # 0 /\ r.read.stay # 0 /\ r.read.stay <= stays
      /\ \A u \in Tickets : rows[u].gross < r.at /\ rows[u].tare < r.at
      /\ zeroAt > r.at => scale.stay # r.read.stay
  BY <1>1 DEF Stamped, InFlight, ZeroIsGone, Named
<1>9. \A p \in Requests : reqs'[p] = NoRequest /\ p = q
  BY <1>2
<1>10. Empty.stay = 0 /\ stays \in Nat
  BY DEF Empty, ScaleTypeOK
<1>11. Named'
  BY <1>1, <1>2, <1>8, <1>9, <1>10, BlankRequest DEF Named
<1>12. Stamped'
  <2>1. \A u \in Tickets : rows'[u].gross <= clock /\ rows'[u].tare <= clock
    BY <1>5, <1>6, <1>7, <1>8 DEF Stamped
  <2>. QED BY <1>2, <1>8, <1>9, <2>1, BlankRequest DEF Stamped, InFlight
<1>13. NewTruck'
  <2>1. scale.stay # 0 /\ Unread(scale.stay) => Unread(scale.stay)'
    BY <1>2, <1>9, <1>10, BlankRequest DEF Unread
  <2>. QED BY <1>2, <2>1 DEF NewTruck
<1>14. ZeroIsGone'
  BY <1>2, <1>8, <1>9, BlankRequest DEF ZeroIsGone, InFlight
<1>15. GrossFirst'
  <2>1. rows'[t].status # "GATE_ENTRY" /\ rows'[t].gross # 0
    BY <1>1, <1>3, <1>5, <1>6, <1>8 DEF GrossFirst, First
  <2>. QED BY <1>7, <2>1 DEF GrossFirst
<1>16. LastIsNewest'
  <2>1. First(r) => rows[t].tare = 0
    BY <1>1, <1>3 DEF GrossFirst, First
  <2>. QED BY <1>2, <1>5, <1>7, <1>8, <2>1 DEF LastIsNewest
<1>17. Cleared'
  BY <1>9, BlankRequest DEF Cleared
<1>. QED BY <1>11, <1>12, <1>13, <1>14, <1>15, <1>16, <1>17

LEMMA GuardedInit == Init => Guarded
<1>. SUFFICES ASSUME Init PROVE Guarded
  OBVIOUS
<1>1. ScaleTypeOK
  BY ScaleAssumption, BlankTypes DEF Init, ScaleTypeOK
<1>. QED
  BY <1>1, BlankRequest DEF Init, Guarded, Named, Sound, Stamped, NewTruck, ZeroIsGone, InFlight,
     GrossFirst, LastIsNewest, Cleared, Empty, NoPoll, NoStatus, NewRow

LEMMA GuardedStep ==
    ASSUME Outbound = {}, \A q, r \in Requests : q = r
    PROVE  Guarded /\ [Next]_vars => Guarded'
<1>. SUFFICES ASSUME Guarded, [Next]_vars PROVE Guarded'
  OBVIOUS
<1>1. ScaleTypeOK'
  BY TypesInductive DEF Guarded
<1>2. CASE Yard
  BY <1>1, <1>2, YardKeeps
<1>3. CASE Monitor
  BY <1>1, <1>3, MonitorKeeps
<1>4. CASE Capture
  <2>1. PICK q \in Requests : Press(q) \/ GiveUp(q) \/ Begin(q) \/ Check(q) \/ Commit(q) \/ Refused(q)
    BY <1>4 DEF Capture
  <2>. QED BY <1>1, <2>1, EarlyKeeps, CheckKeeps, CommitKeeps
<1>5. CASE Restart
  BY <1>1, <1>5, RestartKeeps
<1>6. CASE UNCHANGED vars
  BY <1>6 DEF vars, truck, monitor, Guarded, ScaleTypeOK, Named, Stamped, NewTruck, ZeroIsGone,
     Unread, InFlight, GrossFirst, LastIsNewest, Cleared
<1>. QED BY <1>2, <1>3, <1>4, <1>5, <1>6 DEF Next

(* For inbound tickets and one capture at a time, a truck that stays on the *)
(* scale after its first weight was stored is not weighed as another        *)
(* ticket's first weight unless a human clears it, or its weight has        *)
(* changed and the zero rule is excused.                                    *)
THEOREM StandingTruckIsSigned ==
    ASSUME Outbound = {}, \A q, r \in Requests : q = r
    PROVE  Spec => StandingTruckSigned
<1>1. Guarded /\ [Next]_vars => [last' # last => Signed(last, last')]_vars
  <2>. SUFFICES ASSUME Guarded, Next, last' # last PROVE Signed(last, last')
    OBVIOUS
  <2>1. PICK q \in Requests : Commit(q)
    BY DEF Next, Yard, Monitor, Capture, Restart, DriveOn, DriveOff, Shift, Tick, PollRead,
       PollDone, PollFails, Heartbeat, Press, GiveUp, Begin, Check, Refused
  <2>. QED BY <2>1 DEF Commit, Writable, Guarded, Cleared
<1>. QED BY <1>1, GuardedInit, GuardedStep, PTL DEF Spec, StandingTruckSigned
=============================================================================
