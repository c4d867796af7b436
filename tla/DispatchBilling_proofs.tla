----------------------- MODULE DispatchBilling_proofs -----------------------
(***************************************************************************)
(* Proofs about DispatchBilling, for any trucks, dispatches, tankers and   *)
(* any number of requests and failures: the invoice series has no gap, a   *)
(* truck is invoiced once by pushes and releases, a contract counts its    *)
(* dispatches.                                                             *)
(***************************************************************************)
EXTENDS DispatchBilling, FiniteSetTheorems, SequenceTheorems, TLAPS

USE DEF notices

-----------------------------------------------------------------------------
LEMMA LockFacts ==
    /\ Counter \in Lock /\ Passes \in Lock
    /\ \A k \in Trucks \union Tankers : RowOf(k) \in Lock
    /\ Counter # Passes
    /\ \A k : RowOf(k) # Counter
BY DEF Counter, Passes, RowOf, Lock

LEMMA BusyIsTyped ==
    ASSUME TypeOK, NEW r \in Requests, Busy(r)
    PROVE  request[r] \in Busies
BY DEF TypeOK, Busy

LEMMA IdleIsNotBusy ==
    ASSUME NEW q \in Busies
    PROVE  q # Idle
BY DEF Busies, Idle

(* A request that begins. *)
LEMMA BeginsTyped ==
    ASSUME TypeOK, NEW r \in Requests,
           NEW kind \in {"push", "release", "invoice", "delete", "ethanol"},
           NEW k \in Keys \union Tankers, NEW path \in Seq(Lock), Begins(r, kind, k, path)
    PROVE  request' \in [Requests -> Busies \union {Idle}]
<1>1. [kind |-> kind, key |-> k, path |-> path, held |-> {}, no |-> 0,
       saw |-> IF kind = "push" THEN "unread" ELSE "read", bill |-> FALSE] \in Busies
  BY DEF Busies
<1> QED BY <1>1 DEF Begins, TypeOK

LEMMA EndsTyped ==
    ASSUME TypeOK, NEW r \in Requests, Ends(r)
    PROVE  request' \in [Requests -> Busies \union {Idle}]
BY DEF Ends, TypeOK

LEMMA SellsTyped ==
    ASSUME TypeOK, NEW r \in Requests, Busy(r), Sells(r), request[r].no # 0,
           request[r].kind \in {"push", "release", "invoice", "ethanol"}
    PROVE  /\ invoices' \in Seq([no : Nat \ {0}, of : Keys \union Tankers,
                         by : {"push", "release", "invoice", "ethanol"}, live : BOOLEAN])
           /\ Len(invoices') = Len(invoices) + 1
           /\ \A i \in 1..Len(invoices) : invoices'[i] = invoices[i]
           /\ invoices'[Len(invoices) + 1] = [no |-> request[r].no, of |-> Key(r),
                                              by |-> request[r].kind, live |-> TRUE]
           /\ counter' \in Nat
<1> DEFINE Sold == [no : Nat \ {0}, of : Keys \union Tankers,
                    by : {"push", "release", "invoice", "ethanol"}, live : BOOLEAN]
           new == [no |-> request[r].no, of |-> Key(r), by |-> request[r].kind, live |-> TRUE]
<1>1. request[r] \in Busies
  BY BusyIsTyped
<1>2. new \in Sold
  BY <1>1 DEF Busies, Key
<1>3. invoices \in Seq(Sold) /\ invoices' = Append(invoices, new)
  BY DEF TypeOK, Sells
<1>4. counter' \in Nat
  BY <1>1 DEF Sells, Busies
<1> HIDE DEF Sold, new
<1>5. /\ invoices' \in Seq(Sold)
      /\ Len(invoices') = Len(invoices) + 1
      /\ \A i \in 1..Len(invoices) : invoices'[i] = invoices[i]
      /\ invoices'[Len(invoices) + 1] = new
  BY <1>2, <1>3
<1> QED BY <1>4, <1>5 DEF Sold, new

-----------------------------------------------------------------------------
(* The locks a transaction holds or has still to take.                      *)
Wants(r, l) == l \in request[r].held \/ \E k \in DOMAIN request[r].path : request[r].path[k] = l

Invoices(r) == request[r].kind \in {"release", "invoice", "ethanol"} \/ request[r].bill
Bills(r) == request[r].kind = "release" \/ (request[r].kind = "push" /\ request[r].saw # "unread")

(* What keeps requests in their lanes: one that invoices takes the counter, *)
(* one that may bill a truck takes its row.                                 *)
Lane(r) ==
    /\ Invoices(r) => Wants(r, Counter)
    /\ Bills(r) => Wants(r, RowOf(Key(r)))
    /\ request[r].kind # "push" => ~request[r].bill /\ request[r].saw = "read"
    /\ request[r].saw = "unread" => ~request[r].bill
    /\ request[r].kind \in {"push", "release"} => Key(r) \in Trucks
    /\ request[r].kind \in {"invoice", "delete"} => Key(r) \in Keys
    /\ request[r].kind = "ethanol" => Key(r) \in Tankers
Lanes == \A r \in Requests : Busy(r) => Lane(r)

(* The number drawn by who holds the counter is the next one.               *)
Drawn == \A r \in Requests : Holds(r, Counter) => request[r].no = counter + 1

Guarded == TypeOK /\ Exclusive /\ Lanes /\ Drawn

LEMMA InitGuarded == Init => Guarded
<1> SUFFICES ASSUME Init PROVE Guarded
  OBVIOUS
<1>1. TypeOK
  <2>1. 0 \in 0..MaxFailures
    BY DispatchAssumption
  <2>2. dispatch \in [Keys -> [state : {"none", "made", "deleted"}, invoice : 0..Len(invoices)]]
    BY DEF Init, NoDispatch
  <2>3. truck \in [Trucks -> [status : Status, linked : BOOLEAN]]
    BY DEF Init, NoTruck, Status
  <2> QED BY <2>1, <2>2, <2>3 DEF Init, TypeOK
<1>2. \A r \in Requests : ~Busy(r)
  BY DEF Init, Busy
<1> QED BY <1>1, <1>2 DEF Guarded, Exclusive, Lanes, Drawn, Holds

(* A transaction that is about to commit holds what it wants.               *)
LEMMA ReadyHolds ==
    ASSUME Guarded, NEW r \in Requests, NEW kind, Ready(r, kind)
    PROVE  /\ Busy(r) /\ request[r].kind = kind
           /\ Invoices(r) => Holds(r, Counter) /\ request[r].no = counter + 1
           /\ Bills(r) => Holds(r, RowOf(Key(r)))
<1>1. Busy(r) /\ request[r].kind = kind /\ request[r].path = <<>>
  BY DEF Ready, Is
<1>2. \A l : Wants(r, l) => Holds(r, l)
  BY <1>1 DEF Wants, Holds
<1> QED BY <1>1, <1>2 DEF Guarded, Lanes, Lane, Drawn

-----------------------------------------------------------------------------
(* What a step does to the requests, as far as the other invariants see it. *)
Same(r) == request'[r] = request[r]
OthersSame(r) == \A s \in Requests \ {r} : Same(s)
NowIdle(r) == request'[r] = Idle

LEMMA EndsIdle ==
    ASSUME TypeOK, NEW r \in Requests, Ends(r)
    PROVE  NowIdle(r) /\ OthersSame(r)
BY DEF Ends, TypeOK, NowIdle, OthersSame, Same

LEMMA BeginsNew ==
    ASSUME TypeOK, NEW r \in Requests, NEW kind, NEW k, NEW path, Begins(r, kind, k, path)
    PROVE  /\ request'[r] = [kind |-> kind, key |-> k, path |-> path, held |-> {}, no |-> 0,
                saw |-> IF kind = "push" THEN "unread" ELSE "read", bill |-> FALSE]
           /\ OthersSame(r)
BY DEF Begins, TypeOK, OthersSame, Same

LEMMA OthersKeepLanes ==
    ASSUME Guarded, NEW r \in Requests, OthersSame(r), Busy(r)' => Lane(r)'
    PROVE  Lanes'
<1> SUFFICES ASSUME NEW s \in Requests, Busy(s)' PROVE Lane(s)'
  BY DEF Lanes
<1>1. CASE s = r
  BY <1>1
<1>2. CASE s # r
  <2>1. request'[s] = request[s]
    BY <1>2 DEF OthersSame, Same
  <2> QED BY <2>1 DEF Guarded, Lanes, Lane, Busy, Invoices, Bills, Wants, Key
<1> QED BY <1>1, <1>2

LEMMA HoldsNothing ==
    ASSUME Guarded, NEW r \in Requests, OthersSame(r), \A l : ~Holds(r, l)',
           counter' = counter \/ Holds(r, Counter)
    PROVE  Exclusive' /\ Drawn'
<1>1. \A l : \A s \in Requests \ {r} : Holds(s, l)' <=> Holds(s, l)
  BY DEF OthersSame, Same, Holds, Busy
<1>2. Exclusive'
  BY <1>1 DEF Guarded, Exclusive
<1>3. ASSUME NEW s \in Requests, Holds(s, Counter)'
      PROVE  request'[s].no = counter' + 1
  <2>1. s # r /\ Holds(s, Counter) /\ request'[s] = request[s]
    BY <1>1, <1>3 DEF OthersSame, Same
  <2>2. counter' = counter
    BY <2>1, LockFacts DEF Guarded, Exclusive
  <2> QED BY <2>1, <2>2 DEF Guarded, Drawn
<1> QED BY <1>2, <1>3 DEF Drawn

LEMMA EndsGuarded ==
    ASSUME Guarded, NEW r \in Requests, Ends(r), TypeOK',
           counter' = counter \/ Holds(r, Counter)
    PROVE  Guarded'
<1>1. NowIdle(r) /\ OthersSame(r)
  BY EndsIdle DEF Guarded
<1>2. ~Busy(r)' /\ \A l : ~Holds(r, l)'
  BY <1>1 DEF NowIdle, Busy, Holds
<1> QED BY <1>1, <1>2, OthersKeepLanes, HoldsNothing DEF Guarded

LEMMA BeginsGuarded ==
    ASSUME Guarded, NEW r \in Requests,
           NEW kind \in {"push", "release", "invoice", "delete", "ethanol"},
           NEW k, NEW path, Begins(r, kind, k, path), TypeOK', counter' = counter,
           kind \in {"release", "invoice", "ethanol"} =>
                \E i \in DOMAIN path : path[i] = Counter,
           kind = "release" => \E i \in DOMAIN path : path[i] = RowOf(k),
           kind \in {"push", "release"} => k \in Trucks,
           kind \in {"invoice", "delete"} => k \in Keys,
           kind = "ethanol" => k \in Tankers
    PROVE  Guarded'
<1>1. /\ request'[r] = [kind |-> kind, key |-> k, path |-> path, held |-> {}, no |-> 0,
                saw |-> IF kind = "push" THEN "unread" ELSE "read", bill |-> FALSE]
      /\ OthersSame(r)
  BY BeginsNew DEF Guarded
<1>2. \A l : ~Holds(r, l)'
  BY <1>1 DEF Holds
<1>3. Lane(r)'
  BY <1>1 DEF Lane, Invoices, Bills, Wants, Key
<1> QED BY <1>1, <1>2, <1>3, OthersKeepLanes, HoldsNothing DEF Guarded

LEMMA RequestsRest ==
    ASSUME Guarded, TypeOK', UNCHANGED <<request, counter>>
    PROVE  Guarded'
<1>1. \A l : \A r \in Requests : Holds(r, l)' <=> Holds(r, l)
  BY DEF Holds, Busy
<1>2. Lanes'
  BY DEF Guarded, Lanes, Lane, Busy, Invoices, Bills, Wants, Key
<1> QED BY <1>1, <1>2 DEF Guarded, Exclusive, Drawn

-----------------------------------------------------------------------------
(* One lemma for each kind of step: it keeps the requests guarded.          *)
LEMMA StubGuarded ==
    ASSUME Guarded, NEW t \in Trucks, Stub(t)
    PROVE  Guarded'
<1>1. TypeOK'
  <2>1. PICK linked \in BOOLEAN :
          truck' = [truck EXCEPT ![t] = [status |-> "TARE_WEIGHED", linked |-> linked]]
    BY DEF Stub
  <2>2. truck' \in [Trucks -> [status : Status, linked : BOOLEAN]]
    BY <2>1 DEF Guarded, TypeOK, Status
  <2> QED BY <2>2 DEF Stub, Guarded, TypeOK
<1> QED BY <1>1, RequestsRest DEF Stub

LEMMA PushDuplicateGuarded ==
    ASSUME Guarded, NEW t \in Trucks, PushDuplicate(t)
    PROVE  Guarded'
<1>1. TypeOK'
  BY DispatchAssumption DEF PushDuplicate, Answers, Fails, Guarded, TypeOK, rows
<1> QED BY <1>1, RequestsRest DEF PushDuplicate, rows

LEMMA PushGuarded ==
    ASSUME Guarded, NEW r \in Requests, NEW t \in Trucks, Push(r, t)
    PROVE  Guarded'
<1>1. Begins(r, "push", t, <<>>)
  BY DEF Push
<1>2. TypeOK'
  <2>1. request' \in [Requests -> Busies \union {Idle}]
    <3>1. <<>> \in Seq(Lock) /\ t \in Keys \union Tankers
      BY DEF Keys
    <3> QED BY <1>1, <3>1, BeginsTyped DEF Guarded
  <2> QED BY <2>1 DEF Push, Guarded, TypeOK, rows
<1> QED BY <1>1, <1>2, BeginsGuarded DEF Push, rows

LEMMA ReadExistingGuarded ==
    ASSUME Guarded, NEW r \in Requests, ReadExisting(r)
    PROVE  Guarded'
<1> DEFINE t == Key(r)
           saw == truck[t].status
<1>1. /\ Busy(r) /\ request[r].kind = "push" /\ request[r].saw = "unread"
      /\ request[r] \in Busies /\ t \in Trucks /\ UNCHANGED <<rows, notices>>
  BY BusyIsTyped DEF ReadExisting, Is, Guarded, Lanes, Lane
<1>2. CASE Ends(r) /\ Answers(t)
  <2>1. TypeOK'
    BY <1>1, <1>2, EndsTyped, DispatchAssumption DEF Answers, Fails, Guarded, TypeOK, rows
  <2> QED BY <1>1, <1>2, <2>1, EndsGuarded DEF rows
<1>3. ASSUME NEW bill \in BOOLEAN, UNCHANGED <<acked, failures>>,
             request' = [request EXCEPT ![r].saw = saw, ![r].bill = bill,
                           ![r].path = IF bill THEN <<RowOf(t), Counter, Passes>> ELSE <<RowOf(t)>>]
      PROVE  Guarded'
  <2> DEFINE path == IF bill THEN <<RowOf(t), Counter, Passes>> ELSE <<RowOf(t)>>
  <2>1. /\ path \in Seq(Lock) /\ 1 \in DOMAIN path /\ path[1] = RowOf(t)
        /\ bill => 2 \in DOMAIN path /\ path[2] = Counter
    <3> DEFINE row == RowOf(t)
    <3>1. row \in Lock
      BY <1>1, LockFacts
    <3> HIDE DEF row
    <3> QED BY <3>1, LockFacts DEF row
  <2> HIDE DEF path
  <2>2. saw \in Status
    BY <1>1 DEF Guarded, TypeOK
  <2>3. /\ request'[r] = [request[r] EXCEPT !.saw = saw, !.bill = bill, !.path = path]
        /\ OthersSame(r)
        /\ request' \in [Requests -> Busies \union {Idle}]
    BY <1>1, <1>3, <2>1, <2>2 DEF path, Guarded, TypeOK, OthersSame, Same, Busies
  <2>4. /\ request'[r].saw = saw /\ request'[r].bill = bill /\ request'[r].path = path
        /\ request'[r].kind = "push" /\ request'[r].key = t
        /\ request'[r].held = request[r].held /\ request'[r].no = request[r].no
    BY <1>1, <2>3 DEF Busies, Key
  <2>5. TypeOK'
    BY <1>1, <1>3, <2>3 DEF Guarded, TypeOK, rows
  <2>6. Lane(r)'
    <3>1. saw # "unread"
      BY <2>2 DEF Status
    <3> QED BY <1>1, <2>1, <2>4, <3>1 DEF Lane, Invoices, Bills, Wants, Key
  <2>7. \A l : \A s \in Requests : Holds(s, l)' <=> Holds(s, l)
    <3>1. Busy(r)' <=> Busy(r)
      BY <1>1, <2>4 DEF Busy, Idle
    <3> QED BY <2>3, <2>4, <3>1 DEF OthersSame, Same, Holds, Busy
  <2>8. Exclusive' /\ Drawn'
    <3>1. Exclusive'
      BY <2>7 DEF Guarded, Exclusive
    <3>2. \A s \in Requests : request'[s].no = request[s].no
      BY <2>3, <2>4 DEF OthersSame, Same
    <3>3. counter' = counter
      BY <1>1 DEF rows
    <3>4. Drawn'
      BY <2>7, <3>2, <3>3 DEF Guarded, Drawn
    <3> QED BY <3>1, <3>4
  <2> QED BY <2>3, <2>5, <2>6, <2>8, OthersKeepLanes DEF Guarded
<1> QED BY <1>2, <1>3 DEF ReadExisting

LEMMA TakeGuarded ==
    ASSUME Guarded, NEW r \in Requests, Take(r)
    PROVE  Guarded'
<1> DEFINE q == request[r]
           l == Head(q.path)
           skip == AlreadyBilled(q, l)
           n == request'[r]
<1>1. /\ Busy(r) /\ q \in Busies /\ q.path \in Seq(Lock) /\ q.path # <<>> /\ Free(l)
      /\ UNCHANGED <<rows, acked, notices, failures>>
  BY BusyIsTyped DEF Take, Guarded, Busies
<1>2. l \in Lock /\ Tail(q.path) \in Seq(Lock)
  BY <1>1
<1>3. /\ n = [q EXCEPT !.held = @ \union {l},
                     !.path = IF skip THEN <<>> ELSE Tail(@),
                     !.bill = @ /\ ~skip,
                     !.no = IF l = Counter THEN counter + 1 ELSE @]
      /\ OthersSame(r)
  BY DEF Take, Guarded, TypeOK, OthersSame, Same
<1>4. /\ n.held = q.held \union {l} /\ n.path = (IF skip THEN <<>> ELSE Tail(q.path))
      /\ n.bill = (q.bill /\ ~skip) /\ n.no = (IF l = Counter THEN counter + 1 ELSE q.no)
      /\ n.kind = q.kind /\ n.key = q.key /\ n.saw = q.saw
  BY <1>1, <1>3 DEF Busies
<1>5. n \in Busies
  <2> DEFINE path == IF skip THEN <<>> ELSE Tail(q.path)
             bill == q.bill /\ ~skip
             no == IF l = Counter THEN counter + 1 ELSE q.no
  <2>1. n = [q EXCEPT !.held = q.held \union {l}, !.path = path, !.bill = bill, !.no = no]
    BY <1>1, <1>3 DEF Busies
  <2>2. path \in Seq(Lock) /\ bill \in BOOLEAN /\ no \in Nat
    BY <1>1, <1>2 DEF Guarded, TypeOK, Busies
  <2>3. q \in Busies /\ q.held \union {l} \in SUBSET Lock
    BY <1>1, <1>2 DEF Busies
  <2> HIDE DEF q, l, n, path, bill, no
  <2> QED BY <2>1, <2>2, <2>3 DEF Busies
<1>6. TypeOK'
  <2>1. request' \in [Requests -> Busies \union {Idle}]
    <3>1. \A s \in Requests \ {r} : request'[s] \in Busies \union {Idle}
      BY <1>3 DEF OthersSame, Same, Guarded, TypeOK
    <3>2. request' = [s \in Requests |-> request'[s]]
      BY DEF Take, Guarded, TypeOK
    <3> QED BY <1>5, <3>1, <3>2
  <2> QED BY <1>1, <2>1 DEF Guarded, TypeOK, rows
<1>7. Busy(r)'
  BY <1>5, IdleIsNotBusy DEF Busy
<1>8. \A k : Wants(r, k) /\ ~skip => Wants(r, k)'
  <2> SUFFICES ASSUME NEW k, Wants(r, k), ~skip PROVE Wants(r, k)'
    OBVIOUS
  <2>1. CASE k \in q.held
    BY <1>4, <2>1 DEF Wants
  <2>2. CASE \E i \in DOMAIN q.path : q.path[i] = k
    <3>1. PICK i \in 1..Len(q.path) : q.path[i] = k
      BY <1>1, <2>2
    <3>2. CASE i = 1
      <4>1. k = l
        BY <1>1, <3>1, <3>2
      <4> QED BY <1>4, <4>1 DEF Wants
    <3>3. CASE i # 1
      <4>1. i - 1 \in 1..Len(Tail(q.path)) /\ Tail(q.path)[i - 1] = k
        BY <1>1, <3>1, <3>3
      <4>2. i - 1 \in DOMAIN n.path /\ n.path[i - 1] = k
        BY <1>2, <1>4, <4>1
      <4> QED BY <4>2 DEF Wants
    <3> QED BY <3>2, <3>3
  <2> QED BY <2>1, <2>2 DEF Wants
<1>9. Lane(r)'
  <2>1. Lane(r)
    BY <1>1 DEF Guarded, Lanes
  <2>2. Key(r)' = Key(r) /\ Bills(r)' = Bills(r)
    BY <1>4 DEF Key, Bills
  <2>3. Invoices(r)' => Invoices(r) /\ ~skip
    <3>1. skip => q.kind = "push"
      BY DEF AlreadyBilled
    <3> QED BY <1>4, <3>1 DEF Invoices
  <2>4. Invoices(r)' => Wants(r, Counter)'
    BY <1>8, <2>1, <2>3 DEF Lane
  <2>5. Bills(r)' => Wants(r, RowOf(Key(r)))'
    <3>1. CASE skip
      <4>1. l = RowOf(Key(r))
        BY <3>1 DEF AlreadyBilled, Key
      <4> QED BY <1>4, <2>2, <4>1 DEF Wants
    <3>2. CASE ~skip
      <4>1. PICK k : k = RowOf(Key(r))
        OBVIOUS
      <4>2. Bills(r) => Wants(r, k)'
        BY <1>8, <2>1, <3>2, <4>1 DEF Lane
      <4>3. k = RowOf(Key(r)')
        BY <2>2, <4>1
      <4> QED BY <2>2, <4>2, <4>3 DEF Wants
    <3> QED BY <3>1, <3>2
  <2> HIDE DEF skip
  <2> QED BY <1>4, <2>1, <2>2, <2>4, <2>5 DEF Lane
<1>10. \A k : \A s \in Requests \ {r} : Holds(s, k)' <=> Holds(s, k)
  BY <1>3 DEF OthersSame, Same, Holds, Busy
<1>11. \A k : Holds(r, k)' <=> Holds(r, k) \/ k = l
  BY <1>1, <1>4, <1>7 DEF Holds
<1>12. Exclusive'
  BY <1>1, <1>10, <1>11 DEF Guarded, Exclusive, Free
<1>13. Drawn'
  <2>1. ASSUME NEW s \in Requests, Holds(s, Counter)'
        PROVE  request'[s].no = counter' + 1
    <3>1. CASE s = r
      BY <1>1, <1>4, <1>11, <2>1, <3>1 DEF Guarded, Drawn, rows
    <3>2. CASE s # r
      BY <1>1, <1>3, <1>10, <2>1, <3>2 DEF Guarded, Drawn, rows, OthersSame, Same
    <3> QED BY <3>1, <3>2
  <2> QED BY <2>1 DEF Drawn
<1> QED BY <1>3, <1>6, <1>9, <1>12, <1>13, OthersKeepLanes DEF Guarded

-----------------------------------------------------------------------------
(* Commits.  One that sells holds the counter, and draws the next number.   *)
LEMMA SellerHolds ==
    ASSUME Guarded, NEW r \in Requests, NEW kind \in {"push", "release", "invoice", "ethanol"},
           Ready(r, kind), kind = "push" => request[r].bill, Sells(r)
    PROVE  /\ Holds(r, Counter) /\ request[r].no = counter + 1 /\ counter' = counter + 1
           /\ Len(invoices') = Len(invoices) + 1
           /\ \A i \in 1..Len(invoices) : invoices'[i] = invoices[i]
           /\ invoices'[Len(invoices) + 1] = [no |-> request[r].no, of |-> Key(r),
                                              by |-> request[r].kind, live |-> TRUE]
           /\ invoices' \in Seq([no : Nat \ {0}, of : Keys \union Tankers,
                         by : {"push", "release", "invoice", "ethanol"}, live : BOOLEAN])
           /\ counter' \in Nat
<1>1. Busy(r) /\ request[r].kind = kind /\ Invoices(r)
  BY ReadyHolds DEF Invoices
<1>2. Holds(r, Counter) /\ request[r].no = counter + 1
  BY <1>1, ReadyHolds
<1>3. request[r].no # 0 /\ TypeOK
  BY <1>2 DEF Guarded, TypeOK
<1> QED BY <1>1, <1>2, <1>3, SellsTyped DEF Sells

LEMMA NewDispatchTyped ==
    ASSUME Guarded, NEW k \in Keys, NewDispatch(k, Len(invoices) + 1),
           Len(invoices') = Len(invoices) + 1
    PROVE  /\ dispatch' \in [Keys -> [state : {"none", "made", "deleted"}, invoice : 0..Len(invoices')]]
           /\ supplied' \in Int
<1>1. Len(invoices) \in Nat
  BY DEF Guarded, TypeOK
<1>2. [state |-> "made", invoice |-> Len(invoices) + 1]
        \in [state : {"none", "made", "deleted"}, invoice : 0..Len(invoices')]
  BY <1>1
<1>3. \A j \in Keys : dispatch[j] \in [state : {"none", "made", "deleted"}, invoice : 0..Len(invoices')]
  BY <1>1 DEF Guarded, TypeOK
<1> QED BY <1>2, <1>3 DEF NewDispatch, Guarded, TypeOK

LEMMA CommitPushGuarded ==
    ASSUME Guarded, NEW r \in Requests, CommitPush(r)
    PROVE  Guarded'
<1> DEFINE t == Key(r)
<1>1. Ready(r, "push") /\ Ends(r) /\ UNCHANGED <<released, notices>> /\ Answers(t)
  BY DEF CommitPush
<1>2. t \in Trucks /\ t \in Keys
  BY <1>1 DEF Guarded, Lanes, Lane, Ready, Is, Keys
<1>3. /\ request' \in [Requests -> Busies \union {Idle}]
      /\ acked' \subseteq Trucks /\ failures' \in 0..MaxFailures
  BY <1>1, <1>2, EndsTyped, DispatchAssumption DEF Answers, Fails, Guarded, TypeOK
<1>4. CASE request[r].bill
  <2>1. /\ truck' = [truck EXCEPT ![t] = [status |-> "BILLED", linked |-> TRUE]]
        /\ NewDispatch(t, Len(invoices) + 1) /\ Sells(r)
    BY <1>4 DEF CommitPush
  <2>2. Holds(r, Counter) /\ Len(invoices') = Len(invoices) + 1 /\ counter' \in Nat
        /\ invoices' \in Seq([no : Nat \ {0}, of : Keys \union Tankers,
                         by : {"push", "release", "invoice", "ethanol"}, live : BOOLEAN])
    BY <1>1, <1>4, <2>1, SellerHolds
  <2>3. truck' \in [Trucks -> [status : Status, linked : BOOLEAN]]
    BY <1>2, <2>1 DEF Guarded, TypeOK, Status
  <2>4. TypeOK'
    BY <1>1, <1>2, <1>3, <2>1, <2>2, <2>3, NewDispatchTyped DEF Guarded, TypeOK
  <2> QED BY <1>1, <2>2, <2>4, EndsGuarded
<1>5. CASE ~request[r].bill
  <2>1. PICK linked \in {TRUE, truck[t].linked} :
          truck' = [truck EXCEPT ![t] = [status |-> Upserted(r), linked |-> linked]]
    BY <1>5 DEF CommitPush
  <2>2. Upserted(r) \in Status /\ linked \in BOOLEAN
    BY <1>2, <2>1 DEF Upserted, Status, Guarded, TypeOK
  <2>3. truck' \in [Trucks -> [status : Status, linked : BOOLEAN]]
    BY <1>2, <2>1, <2>2 DEF Guarded, TypeOK
  <2>4. TypeOK' /\ counter' = counter
    BY <1>1, <1>3, <1>5, <2>3 DEF CommitPush, Guarded, TypeOK
  <2> QED BY <1>1, <2>4, EndsGuarded
<1> QED BY <1>4, <1>5

LEMMA CommitReleaseGuarded ==
    ASSUME Guarded, NEW r \in Requests, CommitRelease(r)
    PROVE  Guarded'
<1> DEFINE t == Key(r)
<1>1. Ready(r, "release") /\ Ends(r) /\ UNCHANGED <<acked, notices, failures>>
  BY DEF CommitRelease
<1>2. t \in Trucks /\ t \in Keys
  BY <1>1 DEF Guarded, Lanes, Lane, Ready, Is, Keys
<1>3. request' \in [Requests -> Busies \union {Idle}]
  BY <1>1, EndsTyped DEF Guarded
<1>4. CASE UNCHANGED rows
  <2>1. TypeOK' /\ counter' = counter
    BY <1>1, <1>3, <1>4 DEF Guarded, TypeOK, rows
  <2> QED BY <1>1, <2>1, EndsGuarded
<1>5. CASE /\ truck' = [truck EXCEPT ![t].status = "RELEASED"]
           /\ NewDispatch(t, Len(invoices) + 1) /\ Sells(r) /\ UNCHANGED released
  <2>2. Holds(r, Counter) /\ Len(invoices') = Len(invoices) + 1 /\ counter' \in Nat
        /\ invoices' \in Seq([no : Nat \ {0}, of : Keys \union Tankers,
                         by : {"push", "release", "invoice", "ethanol"}, live : BOOLEAN])
    BY <1>1, <1>5, SellerHolds
  <2>3. truck' \in [Trucks -> [status : Status, linked : BOOLEAN]]
    BY <1>2, <1>5 DEF Guarded, TypeOK, Status
  <2>4. TypeOK'
    BY <1>1, <1>2, <1>3, <1>5, <2>2, <2>3, NewDispatchTyped DEF Guarded, TypeOK
  <2> QED BY <1>1, <2>2, <2>4, EndsGuarded
<1> QED BY <1>4, <1>5 DEF CommitRelease

LEMMA CommitInvoiceGuarded ==
    ASSUME Guarded, NEW r \in Requests, CommitInvoice(r)
    PROVE  Guarded'
<1> DEFINE k == Key(r)
<1>1. Ready(r, "invoice") /\ Ends(r) /\ UNCHANGED <<acked, notices, failures>>
  BY DEF CommitInvoice
<1>2. k \in Keys
  BY <1>1 DEF Guarded, Lanes, Lane, Ready, Is
<1>3. request' \in [Requests -> Busies \union {Idle}]
  BY <1>1, EndsTyped DEF Guarded
<1>4. CASE UNCHANGED rows
  <2>1. TypeOK' /\ counter' = counter
    BY <1>1, <1>3, <1>4 DEF Guarded, TypeOK, rows
  <2> QED BY <1>1, <2>1, EndsGuarded
<1>5. CASE /\ dispatch' = [dispatch EXCEPT ![k].invoice = Len(invoices) + 1]
           /\ Sells(r) /\ UNCHANGED <<truck, supplied, released>>
  <2>2. Holds(r, Counter) /\ Len(invoices') = Len(invoices) + 1 /\ counter' \in Nat
        /\ invoices' \in Seq([no : Nat \ {0}, of : Keys \union Tankers,
                         by : {"push", "release", "invoice", "ethanol"}, live : BOOLEAN])
    BY <1>1, <1>5, SellerHolds
  <2>3. dispatch' \in [Keys -> [state : {"none", "made", "deleted"}, invoice : 0..Len(invoices')]]
    <3>1. Len(invoices) \in Nat
      BY DEF Guarded, TypeOK
    <3>2. \A j \in Keys : dispatch[j] \in [state : {"none", "made", "deleted"}, invoice : 0..Len(invoices')]
      BY <2>2, <3>1 DEF Guarded, TypeOK
    <3>3. [dispatch[k] EXCEPT !.invoice = Len(invoices) + 1]
            \in [state : {"none", "made", "deleted"}, invoice : 0..Len(invoices')]
      BY <1>2, <2>2, <3>1, <3>2
    <3>4. dispatch' = [dispatch EXCEPT ![k] = [dispatch[k] EXCEPT !.invoice = Len(invoices) + 1]]
      BY <1>2, <1>5 DEF Guarded, TypeOK
    <3> QED BY <3>2, <3>3, <3>4 DEF Guarded, TypeOK
  <2>4. TypeOK'
    BY <1>1, <1>3, <1>5, <2>2, <2>3 DEF Guarded, TypeOK
  <2> QED BY <1>1, <2>2, <2>4, EndsGuarded
<1> QED BY <1>4, <1>5 DEF CommitInvoice

LEMMA CommitTankerGuarded ==
    ASSUME Guarded, NEW r \in Requests, CommitTanker(r)
    PROVE  Guarded'
<1>1. /\ Ready(r, "ethanol") /\ Ends(r) /\ Sells(r) /\ released' = released \union {Key(r)}
      /\ UNCHANGED <<truck, dispatch, supplied, acked, notices, failures>>
  BY DEF CommitTanker
<1>2. Key(r) \in Tankers
  BY <1>1 DEF Guarded, Lanes, Lane, Ready, Is
<1>3. request' \in [Requests -> Busies \union {Idle}]
  BY <1>1, EndsTyped DEF Guarded
<1>4. Holds(r, Counter) /\ Len(invoices') = Len(invoices) + 1 /\ counter' \in Nat
      /\ invoices' \in Seq([no : Nat \ {0}, of : Keys \union Tankers,
                         by : {"push", "release", "invoice", "ethanol"}, live : BOOLEAN])
  BY <1>1, SellerHolds
<1>5. dispatch' \in [Keys -> [state : {"none", "made", "deleted"}, invoice : 0..Len(invoices')]]
  <2>1. Len(invoices) \in Nat
    BY DEF Guarded, TypeOK
  <2> QED BY <1>1, <1>4, <2>1 DEF Guarded, TypeOK
<1>6. TypeOK'
  BY <1>1, <1>2, <1>3, <1>4, <1>5 DEF Guarded, TypeOK
<1> QED BY <1>1, <1>4, <1>6, EndsGuarded

LEMMA CommitDeleteGuarded ==
    ASSUME Guarded, NEW r \in Requests, CommitDelete(r)
    PROVE  Guarded'
<1>1. Ends(r) /\ Key(r) \in Keys /\ counter' = counter
  BY DEF CommitDelete, Guarded, Lanes, Lane, Ready, Is, rows
<1>2. request' \in [Requests -> Busies \union {Idle}]
  BY <1>1, EndsTyped DEF Guarded
<1>3. /\ dispatch' \in [Keys -> [state : {"none", "made", "deleted"}, invoice : 0..Len(invoices')]]
      /\ supplied' \in Int
  <2>1. CASE UNCHANGED rows
    BY <2>1 DEF rows, Guarded, TypeOK
  <2>2. CASE /\ dispatch' = [dispatch EXCEPT ![Key(r)].state = "deleted"]
             /\ supplied' = supplied - 1 /\ UNCHANGED invoices
    BY <1>1, <2>2 DEF Guarded, TypeOK
  <2> QED BY <2>1, <2>2 DEF CommitDelete
<1>4. TypeOK'
  BY <1>2, <1>3 DEF CommitDelete, Guarded, TypeOK, rows
<1> QED BY <1>1, <1>4, EndsGuarded

-----------------------------------------------------------------------------
(* Requests of the desk that begin, and steps without a request.            *)
LEMMA Paths ==
    ASSUME NEW t \in Trucks \union Tankers
    PROVE  /\ <<Counter, Passes, RowOf(t)>> \in Seq(Lock)
           /\ <<Passes, Counter, RowOf(t)>> \in Seq(Lock)
           /\ <<Counter, Passes>> \in Seq(Lock) /\ <<Counter>> \in Seq(Lock)
           /\ <<>> \in Seq(Lock)
<1> DEFINE row == RowOf(t)
<1>1. row \in Lock
  BY LockFacts
<1> HIDE DEF row
<1>2. /\ <<Counter, Passes, row>> \in Seq(Lock)
      /\ <<Passes, Counter, row>> \in Seq(Lock)
      /\ <<Counter, Passes>> \in Seq(Lock) /\ <<Counter>> \in Seq(Lock)
  BY <1>1, LockFacts
<1> QED BY <1>2 DEF row

LEMMA ReleaseTruckGuarded ==
    ASSUME Guarded, NEW r \in Requests, NEW t \in Trucks, ReleaseTruck(r, t)
    PROVE  Guarded'
<1> DEFINE path == <<Counter, Passes, RowOf(t)>>
<1>1. Begins(r, "release", t, path)
  BY DEF ReleaseTruck
<1>2. path \in Seq(Lock) /\ t \in Keys \union Tankers
  BY Paths DEF Keys
<1>3. (\E i \in DOMAIN path : path[i] = Counter) /\ (\E i \in DOMAIN path : path[i] = RowOf(t))
  <2>1. 1 \in DOMAIN path /\ path[1] = Counter /\ 3 \in DOMAIN path /\ path[3] = RowOf(t)
    OBVIOUS
  <2> QED BY <2>1
<1> HIDE DEF path
<1>4. TypeOK'
  BY <1>1, <1>2, BeginsTyped DEF ReleaseTruck, Guarded, TypeOK, rows
<1> QED BY <1>1, <1>3, <1>4, BeginsGuarded DEF ReleaseTruck, rows

LEMMA ReleaseTankerGuarded ==
    ASSUME Guarded, NEW r \in Requests, NEW x \in Tankers, ReleaseTanker(r, x)
    PROVE  Guarded'
<1> DEFINE path == <<Passes, Counter, RowOf(x)>>
<1>1. Begins(r, "ethanol", x, path)
  BY DEF ReleaseTanker
<1>2. path \in Seq(Lock)
  BY Paths
<1>3. \E i \in DOMAIN path : path[i] = Counter
  <2>1. 2 \in DOMAIN path /\ path[2] = Counter
    OBVIOUS
  <2> QED BY <2>1
<1> HIDE DEF path
<1>4. TypeOK'
  BY <1>1, <1>2, BeginsTyped DEF ReleaseTanker, Guarded, TypeOK, rows
<1> QED BY <1>1, <1>3, <1>4, BeginsGuarded DEF ReleaseTanker, rows

LEMMA InvoicePathTakesCounter ==
    ASSUME NEW path \in {<<Counter, Passes>>, <<Counter>>}
    PROVE  path \in Seq(Lock) /\ \E i \in DOMAIN path : path[i] = Counter
<1>1. path \in Seq(Lock)
  <2>1. <<Counter, Passes>> \in Seq(Lock) /\ <<Counter>> \in Seq(Lock)
    BY LockFacts
  <2> QED BY <2>1
<1>2. 1 \in DOMAIN path /\ path[1] = Counter
  OBVIOUS
<1> QED BY <1>1, <1>2

LEMMA AddDispatchGuarded ==
    ASSUME Guarded, NEW k \in Manual, AddDispatch(k)
    PROVE  Guarded'
<1> DEFINE path == <<Counter, Passes>>
<1>1. k \in Keys /\ k \in Keys \union Tankers
  BY DEF Keys
<1>2. /\ dispatch' \in [Keys -> [state : {"none", "made", "deleted"}, invoice : 0..Len(invoices)]]
      /\ supplied' \in Int
  <2>1. [state |-> "made", invoice |-> 0]
          \in [state : {"none", "made", "deleted"}, invoice : 0..Len(invoices)]
    BY DEF Guarded, TypeOK
  <2> QED BY <1>1, <2>1 DEF AddDispatch, NewDispatch, Guarded, TypeOK
<1>3. UNCHANGED <<truck, released, invoices, counter, acked, notices, failures>>
  BY DEF AddDispatch
<1>4. CASE UNCHANGED request
  BY <1>2, <1>3, <1>4, RequestsRest DEF Guarded, TypeOK
<1>5. ASSUME NEW r \in Requests, Begins(r, "invoice", k, path)
      PROVE  Guarded'
  <2>1. path \in Seq(Lock) /\ \E i \in DOMAIN path : path[i] = Counter
    BY InvoicePathTakesCounter
  <2> HIDE DEF path
  <2>2. TypeOK'
    BY <1>1, <1>2, <1>3, <1>5, <2>1, BeginsTyped DEF Guarded, TypeOK
  <2> QED BY <1>1, <1>3, <1>5, <2>1, <2>2, BeginsGuarded
<1> QED BY <1>4, <1>5 DEF AddDispatch

LEMMA CreateInvoiceGuarded ==
    ASSUME Guarded, NEW r \in Requests, NEW k \in Keys, CreateInvoice(r, k)
    PROVE  Guarded'
<1> DEFINE path == InvoicePath(k)
<1>1. Begins(r, "invoice", k, path)
  BY DEF CreateInvoice
<1>2. path \in Seq(Lock) /\ \E i \in DOMAIN path : path[i] = Counter
  BY InvoicePathTakesCounter DEF InvoicePath
<1> HIDE DEF path
<1>3. TypeOK'
  BY <1>1, <1>2, BeginsTyped DEF CreateInvoice, Guarded, TypeOK, rows
<1> QED BY <1>1, <1>2, <1>3, BeginsGuarded DEF CreateInvoice, rows

LEMMA DeleteDispatchGuarded ==
    ASSUME Guarded, NEW r \in Requests, NEW k \in Keys, DeleteDispatch(r, k)
    PROVE  Guarded'
<1>1. Begins(r, "delete", k, <<>>)
  BY DEF DeleteDispatch
<1>2. TypeOK'
  <2>1. <<>> \in Seq(Lock)
    OBVIOUS
  <2> QED BY <1>1, <2>1, BeginsTyped DEF DeleteDispatch, Guarded, TypeOK, rows
<1> QED BY <1>1, <1>2, BeginsGuarded DEF DeleteDispatch, rows

LEMMA CancelInvoiceGuarded ==
    ASSUME Guarded, NEW i \in DOMAIN invoices, CancelInvoice(i)
    PROVE  /\ Guarded' /\ Len(invoices') = Len(invoices)
           /\ \A j \in DOMAIN invoices : /\ invoices'[j].no = invoices[j].no
                                         /\ invoices'[j].of = invoices[j].of
                                         /\ invoices'[j].by = invoices[j].by
<1> DEFINE Sold == [no : Nat \ {0}, of : Keys \union Tankers,
                    by : {"push", "release", "invoice", "ethanol"}, live : BOOLEAN]
           old == invoices[i]
<1>1. invoices \in Seq(Sold) /\ i \in 1..Len(invoices)
  BY DEF Guarded, TypeOK
<1>2. invoices' = [invoices EXCEPT ![i] = [invoices[i] EXCEPT !.live = FALSE]]
  BY <1>1 DEF CancelInvoice
<1>3. /\ [invoices[i] EXCEPT !.live = FALSE] \in Sold
      /\ [invoices[i] EXCEPT !.live = FALSE].no = invoices[i].no
      /\ [invoices[i] EXCEPT !.live = FALSE].of = invoices[i].of
      /\ [invoices[i] EXCEPT !.live = FALSE].by = invoices[i].by
  <2>1. invoices[i] \in Sold
    <3> HIDE DEF Sold
    <3> QED BY <1>1, ElementOfSeq
  <2> QED BY <2>1
<1>4. /\ invoices' \in Seq(Sold) /\ Len(invoices') = Len(invoices)
      /\ \A j \in 1..Len(invoices) : invoices'[j] =
            IF j = i THEN [invoices[i] EXCEPT !.live = FALSE] ELSE invoices[j]
  <2> HIDE DEF Sold
  <2> QED BY <1>1, <1>2, <1>3
<1>5. TypeOK'
  BY <1>4 DEF CancelInvoice, Guarded, TypeOK
<1> QED BY <1>1, <1>3, <1>4, <1>5, RequestsRest DEF CancelInvoice

-----------------------------------------------------------------------------
(* Failures.                                                                *)
LEMMA RollbackGuarded ==
    ASSUME Guarded, NEW r \in Requests, Rollback(r),
           acked' \subseteq Trucks, failures' \in 0..MaxFailures
    PROVE  Guarded'
<1>1. Ends(r) /\ UNCHANGED <<rows, issues, unheard>>
  BY DEF Rollback
<1>2. callbacks' \subseteq Trucks
  <2>1. Is(r, "push") => Key(r) \in Trucks
    BY DEF Guarded, Lanes, Lane, Is
  <2> QED BY <2>1 DEF Rollback, Guarded, TypeOK
<1>3. TypeOK'
  BY <1>1, <1>2, EndsTyped DEF Guarded, TypeOK, rows
<1> QED BY <1>1, <1>3, EndsGuarded DEF rows

(* A transaction that ends without a commit.                                *)
LEMMA FailingGuarded ==
    ASSUME Guarded, NEW r \in Requests, DeadlockVictim(r) \/ TransactionFails(r)
    PROVE  Guarded'
<1>1. Rollback(r)
  BY DEF DeadlockVictim, TransactionFails
<1>2. failures' \in 0..MaxFailures
  BY DispatchAssumption DEF DeadlockVictim, TransactionFails, Answers, Fails, Guarded, TypeOK
<1>3. acked' \subseteq Trucks
  <2>1. Is(r, "push") => Key(r) \in Trucks
    BY DEF Guarded, Lanes, Lane, Is
  <2> QED BY <2>1 DEF DeadlockVictim, TransactionFails, Answers, Guarded, TypeOK
<1> QED BY <1>1, <1>2, <1>3, RollbackGuarded

(* The callback that writes an issue touches no row and no request.         *)
LEMMA IssueGuarded ==
    ASSUME Guarded, NEW t \in Trucks, IssueSaved(t) \/ IssueLost(t)
    PROVE  Guarded'
<1>1. TypeOK'
  BY DispatchAssumption DEF IssueSaved, IssueLost, Fails, Guarded, TypeOK, rows
<1> QED BY <1>1, RequestsRest DEF IssueSaved, IssueLost, rows

LEMMA RestartGuarded ==
    ASSUME Guarded, Restart
    PROVE  Guarded'
<1>1. \A r \in Requests : ~Busy(r)'
  BY DEF Restart, Busy
<1>2. TypeOK'
  BY DispatchAssumption DEF Restart, Fails, Guarded, TypeOK, rows
<1> QED BY <1>1, <1>2 DEF Guarded, Exclusive, Lanes, Drawn, Holds

LEMMA NextGuarded ==
    ASSUME Guarded, [Next]_vars
    PROVE  Guarded'
<1>1. CASE UNCHANGED vars
  BY <1>1, RequestsRest DEF vars, rows, Guarded, TypeOK
<1>2. ASSUME NEW t \in Trucks, Stub(t) \/ Pushes(t) \/ IssueSaved(t) \/ IssueLost(t)
      PROVE  Guarded'
  BY <1>2, StubGuarded, PushDuplicateGuarded, PushGuarded, IssueGuarded DEF Pushes
<1>3. ASSUME NEW r \in Requests, Works(r) \/ TransactionFails(r)
      PROVE  Guarded'
  BY <1>3, FailingGuarded, ReadExistingGuarded, TakeGuarded, CommitPushGuarded,
     CommitReleaseGuarded, CommitInvoiceGuarded, CommitDeleteGuarded, CommitTankerGuarded DEF Works
<1>4. ASSUME NEW r \in Requests,
             \/ \E t \in Trucks : ReleaseTruck(r, t)
             \/ \E k \in Keys : CreateInvoice(r, k) \/ DeleteDispatch(r, k)
             \/ \E x \in Tankers : ReleaseTanker(r, x)
      PROVE  Guarded'
  BY <1>4, ReleaseTruckGuarded, CreateInvoiceGuarded, DeleteDispatchGuarded, ReleaseTankerGuarded
<1> QED BY <1>1, <1>2, <1>3, <1>4, AddDispatchGuarded, CancelInvoiceGuarded, RestartGuarded
        DEF Next

(* Requests keep to their lanes and locks, and numbers are drawn in order,  *)
(* whatever overlaps, fails or restarts.                                    *)
THEOREM Keeping == Spec => []Guarded
<1>1. Init => Guarded
  BY InitGuarded
<1>2. Guarded /\ [Next]_vars => Guarded'
  BY NextGuarded
<1> QED BY <1>1, <1>2, PTL DEF Spec

(* Type correctness, and no two transactions hold one lock.                 *)
THEOREM DispatchTypes == Spec => []DispatchTypeOK
<1>1. Guarded => DispatchTypeOK
  BY DEF Guarded, DispatchTypeOK
<1> QED BY <1>1, Keeping, PTL

-----------------------------------------------------------------------------
(* The series.  Who draws a number holds the counter until it commits, so   *)
(* the invoices carry their numbers in the order of the table.              *)
InOrder ==
    /\ Len(invoices) = counter
    /\ \A i \in DOMAIN invoices : invoices[i].no = i

(* What a step does to the invoices: nothing, one more, or a cancellation.  *)
Sale(r) ==
    /\ Holds(r, Counter) /\ request[r].no = counter + 1 /\ counter' = counter + 1
    /\ Len(invoices') = Len(invoices) + 1
    /\ \A i \in 1..Len(invoices) : invoices'[i] = invoices[i]
    /\ invoices'[Len(invoices) + 1] = [no |-> request[r].no, of |-> Key(r),
                                       by |-> request[r].kind, live |-> TRUE]

NoSale ==
    /\ counter' = counter /\ Len(invoices') = Len(invoices)
    /\ \A i \in DOMAIN invoices : /\ invoices'[i].no = invoices[i].no
                                  /\ invoices'[i].of = invoices[i].of
                                  /\ invoices'[i].by = invoices[i].by

LEMMA Sales ==
    ASSUME Guarded, [Next]_vars
    PROVE  NoSale \/ \E r \in Requests : Sale(r)
<1>1. CASE UNCHANGED <<invoices, counter>>
  BY <1>1 DEF NoSale
<1>2. CASE \E i \in DOMAIN invoices : CancelInvoice(i)
  BY <1>2, CancelInvoiceGuarded DEF NoSale, CancelInvoice
<1>3. ASSUME NEW r \in Requests, NEW kind \in {"push", "release", "invoice", "ethanol"},
             Ready(r, kind), kind = "push" => request[r].bill, Sells(r)
      PROVE  Sale(r)
  BY <1>3, SellerHolds DEF Sale
<1>4. ASSUME NEW r \in Requests, Works(r), ~UNCHANGED <<invoices, counter>>
      PROVE  Sale(r)
  BY <1>3, <1>4 DEF Works, ReadExisting, Take, DeadlockVictim, Rollback, CommitPush,
     CommitRelease, CommitInvoice, CommitDelete, CommitTanker, rows
<1>5. ASSUME NEW r \in Requests, TransactionFails(r)
      PROVE  UNCHANGED <<invoices, counter>>
  BY <1>5 DEF TransactionFails, Rollback, rows
<1> QED BY <1>1, <1>2, <1>4, <1>5 DEF Next, vars, rows, Stub, Pushes, PushDuplicate, Push,
        ReleaseTruck, CreateInvoice, DeleteDispatch, ReleaseTanker, AddDispatch, Restart,
        IssueSaved, IssueLost

LEMMA InOrderStep ==
    ASSUME Guarded, InOrder, [Next]_vars, Guarded'
    PROVE  InOrder'
<1>1. Len(invoices) \in Nat /\ DOMAIN invoices = 1..Len(invoices)
  BY DEF Guarded, TypeOK
<1>2. DOMAIN invoices' = 1..Len(invoices')
  BY DEF Guarded, TypeOK
<1>3. CASE NoSale
  BY <1>1, <1>2, <1>3 DEF NoSale, InOrder
<1>4. ASSUME NEW r \in Requests, Sale(r)
      PROVE  InOrder'
  <2>1. invoices'[Len(invoices) + 1].no = Len(invoices) + 1
    BY <1>4 DEF Sale, InOrder
  <2> QED BY <1>1, <1>2, <1>4, <2>1 DEF Sale, InOrder
<1> QED BY <1>3, <1>4, Sales

(* Invoice numbers are consecutive: each up to the counter is on exactly    *)
(* one invoice, whatever overlaps, is rolled back or restarted.             *)
THEOREM SeriesIsGapless == Spec => []InvoiceSeriesGapless
<1>1. Init => InOrder
  BY DEF Init, InOrder
<1>2. Guarded /\ Guarded' /\ InOrder /\ [Next]_vars => InOrder'
  BY InOrderStep
<1>3. Guarded /\ InOrder => InvoiceSeriesGapless
  BY DEF Guarded, TypeOK, InOrder, InvoiceSeriesGapless
<1> QED BY <1>1, <1>2, <1>3, Keeping, PTL DEF Spec

-----------------------------------------------------------------------------
(* Trucks are billed under the lock of their row.  A push that is about to  *)
(* bill and holds the row has seen that there is no dispatch, a dispatch of *)
(* a truck is born with its invoice, and none with an invoice is deleted.   *)
TruckRows ==
    \A t \in Trucks : /\ dispatch[t].state \in {"none", "made"}
                      /\ Exists(t) => dispatch[t].invoice > 0
BillsUnderLock(r) ==
    /\ Is(r, "delete") => Key(r) \notin Trucks
    /\ Is(r, "push") =>
        /\ request[r].saw = "unread" => request[r].path = <<>> /\ request[r].held = {}
        /\ request[r].bill /\ RowOf(Key(r)) \in request[r].held => ~Exists(Key(r))

OneBilling == TruckRows /\ \A r \in Requests : BillsUnderLock(r)

Making(r) ==        \* a push or a release bills its truck
    /\ request[r].kind \in {"push", "release"} /\ Key(r) \in Trucks
    /\ Holds(r, RowOf(Key(r))) /\ ~Exists(Key(r))
    /\ NewDispatch(Key(r), Len(invoices) + 1)
    /\ Sale(r) /\ Ends(r)

RowsKept ==
    \A t \in Trucks : /\ dispatch'[t].state = dispatch[t].state
                      /\ dispatch[t].invoice > 0 => dispatch'[t].invoice > 0
OtherSale == \E r \in Requests : Sale(r) /\ request[r].kind \notin {"push", "release"}
NoMaking == RowsKept /\ (NoSale \/ OtherSale)

LEMMA Makings ==
    ASSUME Guarded, OneBilling, [Next]_vars
    PROVE  NoMaking \/ \E r \in Requests : Making(r)
<1>1. ASSUME UNCHANGED <<dispatch, invoices, counter>>
      PROVE  NoMaking
  BY <1>1 DEF NoMaking, RowsKept, NoSale
<1>2. ASSUME NEW i \in DOMAIN invoices, CancelInvoice(i)
      PROVE  NoMaking
  BY <1>2, CancelInvoiceGuarded DEF NoMaking, RowsKept, NoSale, CancelInvoice
<1>3. ASSUME NEW r \in Requests, CommitPush(r)
      PROVE  NoMaking \/ Making(r)
  <2>1. /\ Ready(r, "push") /\ Ends(r) /\ Busy(r) /\ request[r].kind = "push"
        /\ request[r].saw # "unread"
    BY <1>3, ReadyHolds DEF CommitPush, Ready
  <2>2. CASE ~request[r].bill
    BY <1>1, <1>3, <2>2 DEF CommitPush
  <2>3. CASE request[r].bill
    <3>1. Sells(r) /\ NewDispatch(Key(r), Len(invoices) + 1)
      BY <1>3, <2>3 DEF CommitPush
    <3>2. Holds(r, RowOf(Key(r)))
      BY <2>1, ReadyHolds DEF Bills
    <3>3. ~Exists(Key(r))
      BY <2>1, <2>3, <3>2 DEF OneBilling, BillsUnderLock, Is, Holds
    <3>4. Sale(r)
      BY <2>1, <2>3, <3>1, SellerHolds DEF Sale
    <3>5. Key(r) \in Trucks
      BY <2>1 DEF Guarded, Lanes, Lane
    <3> QED BY <2>1, <3>1, <3>2, <3>3, <3>4, <3>5 DEF Making
  <2> QED BY <2>2, <2>3
<1>4. ASSUME NEW r \in Requests, CommitRelease(r)
      PROVE  NoMaking \/ Making(r)
  <2>1. Ready(r, "release") /\ Ends(r) /\ Busy(r) /\ request[r].kind = "release"
    BY <1>4, ReadyHolds DEF CommitRelease
  <2>2. CASE UNCHANGED rows
    BY <1>1, <2>2 DEF rows
  <2>3. CASE ~UniqueViolated(Key(r)) /\ NewDispatch(Key(r), Len(invoices) + 1) /\ Sells(r)
    <3>1. Holds(r, RowOf(Key(r)))
      BY <2>1, ReadyHolds DEF Bills
    <3>2. Sale(r)
      BY <2>1, <2>3, SellerHolds DEF Sale
    <3>3. Key(r) \in Trucks
      BY <2>1 DEF Guarded, Lanes, Lane
    <3> QED BY <2>1, <2>3, <3>1, <3>2, <3>3 DEF Making, UniqueViolated
  <2> QED BY <1>4, <2>2, <2>3 DEF CommitRelease
<1>5. ASSUME NEW r \in Requests, CommitInvoice(r)
      PROVE  NoMaking
  <2>1. Ready(r, "invoice") /\ Busy(r) /\ request[r].kind = "invoice"
    BY <1>5, ReadyHolds DEF CommitInvoice
  <2>2. CASE UNCHANGED rows
    BY <2>2 DEF rows, NoMaking, RowsKept, NoSale
  <2>3. CASE Sells(r) /\ dispatch' = [dispatch EXCEPT ![Key(r)].invoice = Len(invoices) + 1]
    <3>1. Sale(r)
      BY <2>1, <2>3, SellerHolds DEF Sale
    <3>2. RowsKept
      <4>1. Len(invoices) \in Nat /\ Trucks \subseteq Keys
        BY DEF Guarded, TypeOK, Keys
      <4> QED BY <2>3, <4>1 DEF Guarded, TypeOK, RowsKept
    <3>3. OtherSale
      BY <2>1, <3>1 DEF OtherSale
    <3> QED BY <3>2, <3>3 DEF NoMaking
  <2> QED BY <1>5, <2>2, <2>3 DEF CommitInvoice
<1>6. ASSUME NEW r \in Requests, CommitDelete(r)
      PROVE  NoMaking
  <2>1. Key(r) \notin Trucks
    BY <1>6 DEF CommitDelete, Ready, OneBilling, BillsUnderLock
  <2>2. UNCHANGED <<invoices, counter>> /\ \A t \in Trucks : dispatch'[t] = dispatch[t]
    <3>1. Trucks \subseteq Keys
      BY DEF Keys
    <3> QED BY <1>6, <2>1, <3>1 DEF CommitDelete, rows, Guarded, TypeOK
  <2> QED BY <2>2 DEF NoMaking, RowsKept, NoSale
<1>7. ASSUME NEW r \in Requests, CommitTanker(r)
      PROVE  NoMaking
  <2>1. Ready(r, "ethanol") /\ Busy(r) /\ request[r].kind = "ethanol" /\ Sells(r)
    BY <1>7, ReadyHolds DEF CommitTanker
  <2>2. Sale(r)
    BY <2>1, SellerHolds DEF Sale
  <2> QED BY <1>7, <2>1, <2>2 DEF CommitTanker, NoMaking, RowsKept, OtherSale
<1>8. ASSUME NEW k \in Manual, AddDispatch(k)
      PROVE  NoMaking
  <2>1. k \notin Trucks
    BY DispatchAssumption
  <2>2. Trucks \subseteq Keys
    BY DEF Keys
  <2>3. \A t \in Trucks : dispatch'[t] = dispatch[t]
    BY <1>8, <2>1, <2>2 DEF AddDispatch, NewDispatch, Guarded, TypeOK
  <2> QED BY <1>8, <2>3 DEF AddDispatch, NoMaking, RowsKept, NoSale
<1>9. ASSUME NEW r \in Requests, ReadExisting(r) \/ Take(r) \/ DeadlockVictim(r) \/ TransactionFails(r)
      PROVE  UNCHANGED <<dispatch, invoices, counter>>
  BY <1>9 DEF ReadExisting, Take, DeadlockVictim, TransactionFails, Rollback, rows
<1> QED BY <1>1, <1>2, <1>3, <1>4, <1>5, <1>6, <1>7, <1>8, <1>9 DEF Next, Works, vars, rows,
        Stub, Pushes, PushDuplicate, Push, ReleaseTruck, CreateInvoice, DeleteDispatch,
        ReleaseTanker, Restart, IssueSaved, IssueLost

(* What a step does to the requests.                                        *)
Quiet(r) ==         \* begins with nothing in hand, or ends
    \/ NowIdle(r)
    \/ \E kind, k, path : /\ Begins(r, kind, k, path)
                          /\ kind = "push" => path = <<>>
                          /\ kind = "delete" => dispatch[k].invoice = 0 /\ Exists(k)
    \/ Same(r)

LEMMA RequestSteps ==
    ASSUME Guarded, [Next]_vars
    PROVE  \/ \A r \in Requests : Quiet(r)
           \/ \E r \in Requests : (Take(r) \/ ReadExisting(r)) /\ OthersSame(r)
<1>1. ASSUME UNCHANGED request
      PROVE  \A r \in Requests : Quiet(r)
  BY <1>1 DEF Quiet, Same
<1>2. ASSUME NEW r \in Requests, Ends(r)
      PROVE  \A s \in Requests : Quiet(s)
  BY <1>2, EndsIdle DEF Quiet, OthersSame, Guarded
<1>3. ASSUME NEW r \in Requests, NEW kind, NEW k, NEW path, Begins(r, kind, k, path),
             kind = "push" => path = <<>>,
             kind = "delete" => dispatch[k].invoice = 0 /\ Exists(k)
      PROVE  \A s \in Requests : Quiet(s)
  BY <1>3, BeginsNew DEF Quiet, OthersSame, Guarded
<1>4. CASE Restart
  BY <1>4 DEF Restart, Quiet, NowIdle
<1>5. ASSUME NEW r \in Requests, Take(r) \/ ReadExisting(r)
      PROVE  OthersSame(r) \/ Ends(r)
  BY <1>5 DEF Take, ReadExisting, OthersSame, Same, Guarded, TypeOK
<1>6. ASSUME NEW r \in Requests, Works(r) \/ TransactionFails(r)
      PROVE  Ends(r) \/ ((Take(r) \/ ReadExisting(r)) /\ OthersSame(r))
  BY <1>5, <1>6 DEF Works, TransactionFails, DeadlockVictim, Rollback, CommitPush, CommitRelease,
     CommitInvoice, CommitDelete, CommitTanker
<1>7. ASSUME NEW r \in Requests,
             \/ \E t \in Trucks : Push(r, t) \/ ReleaseTruck(r, t)
             \/ \E k \in Keys : CreateInvoice(r, k) \/ DeleteDispatch(r, k)
             \/ \E x \in Tankers : ReleaseTanker(r, x)
      PROVE  \A s \in Requests : Quiet(s)
  BY <1>3, <1>7 DEF Push, ReleaseTruck, CreateInvoice, DeleteDispatch, ReleaseTanker
<1>8. ASSUME NEW k \in Manual, AddDispatch(k)
      PROVE  \A s \in Requests : Quiet(s)
  BY <1>1, <1>3, <1>8 DEF AddDispatch
<1> QED BY <1>1, <1>2, <1>4, <1>6, <1>7, <1>8 DEF Next, vars, rows, Stub, Pushes, PushDuplicate,
        CancelInvoice, IssueSaved, IssueLost

LEMMA TruckRowsStep ==
    ASSUME Guarded, OneBilling, [Next]_vars
    PROVE  /\ TruckRows'
           /\ \A t \in Trucks : Exists(t)' => Exists(t) \/ \E r \in Requests : Making(r) /\ Key(r) = t
<1>1. CASE NoMaking
  BY <1>1 DEF NoMaking, RowsKept, OneBilling, TruckRows, Exists
<1>2. ASSUME NEW r \in Requests, Making(r)
      PROVE  TruckRows' /\ \A t \in Trucks : Exists(t)' => Exists(t) \/ Key(r) = t
  <2>1. Trucks \subseteq Keys /\ Len(invoices) \in Nat
    BY DEF Keys, Guarded, TypeOK
  <2>2. \A t \in Trucks : dispatch'[t] = IF t = Key(r) THEN [state |-> "made", invoice |-> Len(invoices) + 1]
                                         ELSE dispatch[t]
    BY <1>2, <2>1 DEF Making, NewDispatch, Guarded, TypeOK
  <2> QED BY <2>1, <2>2 DEF OneBilling, TruckRows, Exists
<1> QED BY <1>1, <1>2, Makings

(* While a request holds a truck's row, no other bills the truck.           *)
LEMMA RowProtects ==
    ASSUME Guarded, OneBilling, [Next]_vars, NEW s \in Requests, NEW t \in Trucks,
           Holds(s, RowOf(t)), Busy(s)', ~Exists(t)
    PROVE  ~Exists(t)'
<1> SUFFICES ASSUME NEW r \in Requests, Making(r), Key(r) = t
             PROVE  FALSE
  BY TruckRowsStep
<1>1. Holds(r, RowOf(t)) /\ Ends(r)
  BY DEF Making
<1>2. r = s
  BY <1>1, LockFacts DEF Guarded, Exclusive
<1>3. ~Busy(r)'
  BY <1>1, EndsIdle DEF Guarded, NowIdle, Busy
<1> QED BY <1>2, <1>3

LEMMA QuietStep ==
    ASSUME Guarded, OneBilling, [Next]_vars, NEW s \in Requests, Quiet(s)
    PROVE  BillsUnderLock(s)'
<1>1. CASE NowIdle(s)
  BY <1>1 DEF NowIdle, Is, Busy, BillsUnderLock
<1>2. ASSUME NEW kind, NEW k, NEW path, Begins(s, kind, k, path),
             kind = "push" => path = <<>>,
             kind = "delete" => dispatch[k].invoice = 0 /\ Exists(k)
      PROVE  BillsUnderLock(s)'
  <2>1. request'[s] = [kind |-> kind, key |-> k, path |-> path, held |-> {}, no |-> 0,
              saw |-> IF kind = "push" THEN "unread" ELSE "read", bill |-> FALSE]
    BY <1>2, BeginsNew DEF Guarded
  <2>2. kind = "delete" => k \notin Trucks
    BY <1>2 DEF OneBilling, TruckRows
  <2> QED BY <1>2, <2>1, <2>2 DEF Is, Key, BillsUnderLock
<1>3. CASE Same(s)
  <2>1. BillsUnderLock(s) /\ request'[s] = request[s]
    BY <1>3 DEF OneBilling, Same
  <2>2. ASSUME Is(s, "push"), request[s].bill, RowOf(Key(s)) \in request[s].held
        PROVE  ~Exists(Key(s))'
    <3>1. PICK t \in Trucks : t = Key(s)
      BY <2>2 DEF Guarded, Lanes, Lane, Is
    <3>2. Holds(s, RowOf(t)) /\ Busy(s)' /\ ~Exists(t)
      BY <2>1, <2>2, <3>1 DEF Is, Holds, Busy, BillsUnderLock
    <3>3. ~Exists(t)'
      BY <3>2, RowProtects
    <3>4. Key(s)' = t
      BY <2>1, <3>1 DEF Key
    <3> QED BY <3>3, <3>4 DEF Exists
  <2> QED BY <2>1, <2>2 DEF BillsUnderLock, Is, Busy, Key
<1> QED BY <1>1, <1>2, <1>3 DEF Quiet

LEMMA TakeStep ==
    ASSUME Guarded, OneBilling, NEW r \in Requests, Take(r)
    PROVE  BillsUnderLock(r)'
<1> DEFINE q == request[r]
           l == Head(q.path)
           skip == AlreadyBilled(q, l)
           n == request'[r]
<1>1. q \in Busies /\ Busy(r) /\ q.path # <<>> /\ UNCHANGED rows
  BY BusyIsTyped DEF Take, Guarded
<1>2. n = [q EXCEPT !.held = @ \union {l},
                    !.path = IF skip THEN <<>> ELSE Tail(@),
                    !.bill = @ /\ ~skip,
                    !.no = IF l = Counter THEN counter + 1 ELSE @]
  BY DEF Take, Guarded, TypeOK
<1>3. /\ n.held = q.held \union {l} /\ n.bill = (q.bill /\ ~skip)
      /\ n.kind = q.kind /\ n.key = q.key /\ n.saw = q.saw
  BY <1>1, <1>2 DEF Busies
<1>4. BillsUnderLock(r)
  BY DEF OneBilling
<1>5. CASE q.kind = "push"
  <2>1. q.saw # "unread"
    BY <1>1, <1>4, <1>5 DEF BillsUnderLock, Is
  <2>2. ASSUME n.bill, RowOf(q.key) \in n.held
        PROVE  ~Exists(q.key)
    <3>1. CASE l = RowOf(q.key)
      BY <1>3, <1>5, <2>2, <3>1 DEF AlreadyBilled
    <3>2. CASE l # RowOf(q.key)
      BY <1>1, <1>3, <1>4, <1>5, <2>2, <3>2 DEF BillsUnderLock, Is, Key
    <3> QED BY <3>1, <3>2
  <2>3. PICK k : k = q.key
    OBVIOUS
  <2>4. n.kind = "push" /\ n.saw # "unread" /\ n.key = k /\ dispatch' = dispatch
    BY <1>1, <1>3, <1>5, <2>1, <2>3 DEF rows
  <2>5. n.bill /\ RowOf(k) \in n.held => dispatch[k].state # "made"
    BY <2>2, <2>3 DEF Exists
  <2> HIDE DEF q
  <2> QED BY <2>4, <2>5 DEF BillsUnderLock, Is, Key, Exists
<1>6. CASE q.kind # "push"
  BY <1>1, <1>3, <1>4, <1>6 DEF BillsUnderLock, Is, Key
<1> QED BY <1>5, <1>6

LEMMA OneBillingStep ==
    ASSUME Guarded, OneBilling, [Next]_vars
    PROVE  OneBilling'
<1>1. CASE \A r \in Requests : Quiet(r)
  BY <1>1, TruckRowsStep, QuietStep DEF OneBilling
<1>2. ASSUME NEW r \in Requests, Take(r) \/ ReadExisting(r), OthersSame(r)
      PROVE  OneBilling'
  <2>1. \A s \in Requests \ {r} : BillsUnderLock(s)'
    BY <1>2, QuietStep DEF OthersSame, Quiet
  <2>2. ASSUME ReadExisting(r)
        PROVE  BillsUnderLock(r)'
    <3>1. request[r].held = {} /\ request[r].kind = "push" /\ request[r] \in Busies
      BY <2>2, BusyIsTyped DEF ReadExisting, Is, OneBilling, BillsUnderLock, Guarded
    <3>2. CASE Ends(r)
      BY <3>2, EndsIdle, QuietStep DEF Guarded, Quiet
    <3>3. ASSUME NEW bill \in BOOLEAN,
                 request' = [request EXCEPT ![r].saw = truck[Key(r)].status, ![r].bill = bill,
                     ![r].path = IF bill THEN <<RowOf(Key(r)), Counter, Passes>> ELSE <<RowOf(Key(r))>>]
          PROVE  BillsUnderLock(r)'
      <4> DEFINE saw == truck[Key(r)].status
                 path == IF bill THEN <<RowOf(Key(r)), Counter, Passes>> ELSE <<RowOf(Key(r))>>
      <4>1. saw # "unread"
        <5>1. Key(r) \in Trucks
          BY <2>2 DEF ReadExisting, Is, Guarded, Lanes, Lane
        <5> QED BY <5>1 DEF Guarded, TypeOK, Status
      <4>2. request'[r] = [request[r] EXCEPT !.saw = saw, !.bill = bill, !.path = path]
        BY <3>3 DEF Guarded, TypeOK
      <4> HIDE DEF saw, path
      <4>3. request'[r].held = {} /\ request'[r].saw = saw /\ request'[r].kind = "push"
        BY <3>1, <4>2 DEF Busies
      <4> QED BY <4>1, <4>3 DEF BillsUnderLock, Is
    <3> QED BY <2>2, <3>2, <3>3 DEF ReadExisting
  <2> QED BY <1>2, <2>1, <2>2, TakeStep, TruckRowsStep DEF OneBilling
<1> QED BY <1>1, <1>2, RequestSteps

-----------------------------------------------------------------------------
(* An invoice of a push or a release is of a truck with a dispatch, and no  *)
(* other is of the same truck.                                              *)
ByTruck(i) == invoices[i].by \in {"push", "release"}
BilledOnce ==
    \A i \in DOMAIN invoices : ByTruck(i) =>
        /\ invoices[i].of \in Trucks /\ Exists(invoices[i].of)
        /\ \A j \in DOMAIN invoices : ByTruck(j) /\ invoices[j].of = invoices[i].of => i = j

LEMMA DispatchesStay ==
    ASSUME Guarded, OneBilling, [Next]_vars, NEW t \in Trucks, Exists(t)
    PROVE  dispatch'[t].state = "made"
<1>1. CASE NoMaking
  BY <1>1 DEF NoMaking, RowsKept, Exists
<1>2. ASSUME NEW r \in Requests, Making(r)
      PROVE  dispatch'[t].state = "made"
  BY <1>2 DEF Making, NewDispatch, Guarded, TypeOK, Exists, Keys
<1> QED BY <1>1, <1>2, Makings

LEMMA BilledOnceStep ==
    ASSUME Guarded, Guarded', OneBilling, BilledOnce, [Next]_vars
    PROVE  BilledOnce'
<1>1. Len(invoices) \in Nat /\ DOMAIN invoices = 1..Len(invoices) /\ DOMAIN invoices' = 1..Len(invoices')
  BY DEF Guarded, TypeOK
<1>2. \A t \in Trucks : Exists(t) => dispatch'[t].state = "made"
  BY DispatchesStay
<1>3. CASE NoSale
  BY <1>1, <1>2, <1>3 DEF NoSale, BilledOnce, ByTruck, Exists
<1>4. CASE OtherSale
  <2>1. PICK r \in Requests : Sale(r) /\ request[r].kind \notin {"push", "release"}
    BY <1>4 DEF OtherSale
  <2>2. /\ \A i \in 1..Len(invoices) : invoices'[i] = invoices[i]
        /\ Len(invoices') = Len(invoices) + 1
        /\ invoices'[Len(invoices) + 1].by \notin {"push", "release"}
    BY <2>1 DEF Sale
  <2> QED BY <1>1, <1>2, <2>2 DEF BilledOnce, ByTruck, Exists
<1>5. ASSUME NEW r \in Requests, Making(r)
      PROVE  BilledOnce'
  <2>1. /\ \A i \in 1..Len(invoices) : invoices'[i] = invoices[i]
        /\ Len(invoices') = Len(invoices) + 1
        /\ invoices'[Len(invoices) + 1].of = Key(r)
    BY <1>5 DEF Making, Sale
  <2>2. /\ Key(r) \in Trucks /\ ~Exists(Key(r)) /\ dispatch'[Key(r)].state = "made"
    <3>1. Key(r) \in Trucks /\ Key(r) \in Keys
      BY <1>5 DEF Making, Keys
    <3> QED BY <1>5, <3>1 DEF Making, NewDispatch, Guarded, TypeOK
  <2>3. \A i \in 1..Len(invoices) : ByTruck(i) => invoices[i].of # Key(r)
    BY <1>1, <2>2 DEF BilledOnce
  <2> QED BY <1>1, <1>2, <2>1, <2>2, <2>3 DEF BilledOnce, ByTruck, Exists
<1> QED BY <1>3, <1>4, <1>5, Makings DEF NoMaking

LEMMA AtMostOne ==
    ASSUME NEW S, \A x, y \in S : x = y
    PROVE  Cardinality(S) <= 1
<1>1. CASE S = {}
  BY <1>1, FS_EmptySet
<1>2. CASE S # {}
  <2>1. PICK x \in S : TRUE
    BY <1>2
  <2>2. S = {x}
    BY <2>1
  <2> QED BY <2>2, FS_Singleton
<1> QED BY <1>1, <1>2

(* However pushes of a truck and releases at the desk overlap, they invoice *)
(* it once.                                                                 *)
THEOREM TrucksInvoicedOnce == Spec => []InvoicedOnce
<1>1. Init => OneBilling
  <2> SUFFICES ASSUME Init PROVE OneBilling
    OBVIOUS
  <2>1. \A r \in Requests : ~Busy(r)
    BY DEF Init, Busy
  <2> QED BY <2>1 DEF Init, OneBilling, TruckRows, BillsUnderLock, Is, Exists, NoDispatch, Keys
<1>2. Init => BilledOnce
  BY DEF Init, BilledOnce
<1>3. Guarded /\ OneBilling /\ [Next]_vars => OneBilling'
  BY OneBillingStep
<1>4. Guarded /\ Guarded' /\ OneBilling /\ BilledOnce /\ [Next]_vars => BilledOnce'
  BY BilledOnceStep
<1>5. BilledOnce => InvoicedOnce
  <2> SUFFICES ASSUME BilledOnce, NEW t \in Trucks
               PROVE  Cardinality(Invoiced(t, {"push", "release"})) <= 1
    BY DEF InvoicedOnce
  <2>1. \A i, j \in Invoiced(t, {"push", "release"}) : i = j
    BY DEF Invoiced, BilledOnce, ByTruck
  <2> QED BY <2>1, AtMostOne
<1> QED BY <1>1, <1>2, <1>3, <1>4, <1>5, Keeping, PTL DEF Spec

-----------------------------------------------------------------------------
(* The contract's total.                                                    *)
Made == {k \in Keys : Exists(k)}
Counted == IsFiniteSet(Made) /\ supplied = Cardinality(Made)

LEMMA CountedOneMore ==
    ASSUME Guarded, Counted, NEW k \in Keys, ~Exists(k), NEW i, NewDispatch(k, i)
    PROVE  Counted'
<1>1. Made' = Made \union {k} /\ k \notin Made
  BY DEF Made, Exists, NewDispatch, Guarded, TypeOK
<1> QED BY <1>1, FS_AddElement DEF Counted, NewDispatch

LEMMA CountedSame ==
    ASSUME Counted, supplied' = supplied, \A k \in Keys : dispatch'[k].state = dispatch[k].state
    PROVE  Counted'
<1>1. Made' = Made
  BY DEF Made, Exists
<1> QED BY <1>1 DEF Counted

LEMMA CountedStep ==
    ASSUME Guarded, OneBilling, Counted, [Next]_vars
    PROVE  Counted'
<1>1. ASSUME UNCHANGED <<dispatch, supplied>>
      PROVE  Counted'
  BY <1>1, CountedSame
<1>2. ASSUME NEW r \in Requests, CommitPush(r)
      PROVE  Counted'
  <2>1. CASE ~request[r].bill
    BY <1>1, <1>2, <2>1 DEF CommitPush
  <2>2. CASE request[r].bill
    <3>1. NewDispatch(Key(r), Len(invoices) + 1) /\ Ready(r, "push")
      BY <1>2, <2>2 DEF CommitPush
    <3>2. Key(r) \in Keys /\ Holds(r, RowOf(Key(r)))
      BY <3>1, ReadyHolds DEF Guarded, Lanes, Lane, Ready, Keys, Bills
    <3>3. ~Exists(Key(r))
      BY <2>2, <3>1, <3>2 DEF OneBilling, BillsUnderLock, Ready, Holds
    <3> QED BY <3>1, <3>2, <3>3, CountedOneMore
  <2> QED BY <2>1, <2>2
<1>3. ASSUME NEW r \in Requests, CommitRelease(r)
      PROVE  Counted'
  <2>1. Key(r) \in Keys
    BY <1>3, ReadyHolds DEF CommitRelease, Guarded, Lanes, Lane, Keys
  <2> QED BY <1>1, <1>3, <2>1, CountedOneMore DEF CommitRelease, UniqueViolated, rows
<1>4. ASSUME NEW r \in Requests, CommitInvoice(r)
      PROVE  Counted'
  <2>1. CASE UNCHANGED rows
    BY <1>1, <2>1 DEF rows
  <2>2. CASE /\ dispatch' = [dispatch EXCEPT ![Key(r)].invoice = Len(invoices) + 1]
             /\ supplied' = supplied
    <3>1. \A k \in Keys : dispatch'[k].state = dispatch[k].state
      BY <2>2 DEF Guarded, TypeOK
    <3> QED BY <2>2, <3>1, CountedSame
  <2> QED BY <1>4, <2>1, <2>2 DEF CommitInvoice
<1>5. ASSUME NEW r \in Requests, CommitDelete(r)
      PROVE  Counted'
  <2>1. CASE UNCHANGED rows
    BY <1>1, <2>1 DEF rows
  <2>2. CASE /\ StillThere(Key(r)) /\ supplied' = supplied - 1
             /\ dispatch' = [dispatch EXCEPT ![Key(r)].state = "deleted"]
    <3>1. Key(r) \in Keys
      BY <1>5 DEF CommitDelete, Ready, Is, Guarded, Lanes, Lane
    <3>2. Made' = Made \ {Key(r)} /\ Key(r) \in Made
      BY <2>2, <3>1 DEF Made, Exists, StillThere, Guarded, TypeOK
    <3> QED BY <2>2, <3>2, FS_RemoveElement DEF Counted
  <2> QED BY <1>5, <2>1, <2>2 DEF CommitDelete
<1>6. ASSUME NEW k \in Manual, AddDispatch(k)
      PROVE  Counted'
  BY <1>6, CountedOneMore DEF AddDispatch, Exists, Keys
<1>7. ASSUME NEW r \in Requests,
             ReadExisting(r) \/ Take(r) \/ DeadlockVictim(r) \/ TransactionFails(r) \/ CommitTanker(r)
      PROVE  UNCHANGED <<dispatch, supplied>>
  BY <1>7 DEF ReadExisting, Take, DeadlockVictim, TransactionFails, Rollback, CommitTanker, rows
<1> QED BY <1>1, <1>2, <1>3, <1>4, <1>5, <1>6, <1>7 DEF Next, Works, vars, rows, Stub, Pushes,
        PushDuplicate, Push, ReleaseTruck, CreateInvoice, DeleteDispatch, ReleaseTanker, Restart,
        IssueSaved, IssueLost, CancelInvoice

(* What the contract counts as supplied is what its dispatches carry.       *)
THEOREM SuppliedIsDispatched == Spec => []SuppliedMatchesDispatches
<1>1. Init => OneBilling
  <2> SUFFICES ASSUME Init PROVE OneBilling
    OBVIOUS
  <2>1. \A r \in Requests : ~Busy(r)
    BY DEF Init, Busy
  <2> QED BY <2>1 DEF Init, OneBilling, TruckRows, BillsUnderLock, Is, Exists, NoDispatch, Keys
<1>2. Init => Counted
  <2> SUFFICES ASSUME Init PROVE Counted
    OBVIOUS
  <2>1. Made = {}
    BY DEF Init, Made, Exists, NoDispatch
  <2> QED BY <2>1, FS_EmptySet DEF Init, Counted
<1>3. Guarded /\ OneBilling /\ [Next]_vars => OneBilling'
  BY OneBillingStep
<1>4. Guarded /\ OneBilling /\ Counted /\ [Next]_vars => Counted'
  BY CountedStep
<1>5. Counted => SuppliedMatchesDispatches
  BY DEF Counted, Made, SuppliedMatchesDispatches
<1> QED BY <1>1, <1>2, <1>3, <1>4, <1>5, Keeping, PTL DEF Spec
-----------------------------------------------------------------------------
(* Ethanol tankers.  Their release checks the status before its transaction *)
(* only, so the requests that have passed the check count with the invoices. *)
Leaving(x) == {r \in Requests : Is(r, "ethanol") /\ Key(r) = x}
Left(x) == Invoiced(x, {"ethanol"})

LeftIsReleased ==
    \A i \in DOMAIN invoices : invoices[i].by = "ethanol" => invoices[i].of \in released
RoomToLeave ==
    \A x \in Tankers : /\ IsFiniteSet(Left(x))
                       /\ Cardinality(Left(x)) + Cardinality(Leaving(x)) <= Cardinality(Requests)

NoneJoins == \A r \in Requests : Is(r, "ethanol")' => Is(r, "ethanol") /\ Key(r)' = Key(r)
NoneLeaves ==
    /\ UNCHANGED released
    /\ NoSale \/ \E r \in Requests : Sale(r) /\ request[r].kind # "ethanol"

LEMMA EndsJoinsNone ==
    ASSUME Guarded, NEW r \in Requests, Ends(r)
    PROVE  NoneJoins
<1>1. NowIdle(r) /\ OthersSame(r)
  BY EndsIdle DEF Guarded
<1> QED BY <1>1 DEF NoneJoins, NowIdle, OthersSame, Same, Is, Busy, Key

LEMMA BeginsJoinsNone ==
    ASSUME Guarded, NEW r \in Requests, NEW kind, NEW k, NEW path, Begins(r, kind, k, path),
           kind # "ethanol"
    PROVE  NoneJoins
<1>1. /\ request'[r] = [kind |-> kind, key |-> k, path |-> path, held |-> {}, no |-> 0,
                        saw |-> IF kind = "push" THEN "unread" ELSE "read", bill |-> FALSE]
      /\ OthersSame(r)
  BY BeginsNew DEF Guarded
<1>2. request'[r].kind = kind
  BY <1>1
<1> QED BY <1>1, <1>2 DEF NoneJoins, OthersSame, Same, Is, Busy, Key

LEMMA ReadingJoinsNone ==
    ASSUME Guarded, NEW r \in Requests, Take(r) \/ ReadExisting(r)
    PROVE  NoneJoins
<1>1. Busy(r) /\ request[r] \in Busies
  BY BusyIsTyped DEF Take, ReadExisting, Is, Guarded
<1>2. CASE Ends(r)
  BY <1>2, EndsJoinsNone
<1>3. CASE Take(r)
  <2>1. OthersSame(r) /\ request'[r].kind = request[r].kind /\ request'[r].key = request[r].key
    BY <1>1, <1>3 DEF Take, Guarded, TypeOK, Busies, OthersSame, Same
  <2> QED BY <1>1, <2>1 DEF NoneJoins, OthersSame, Same, Is, Busy, Key
<1>4. ASSUME NEW bill \in BOOLEAN, NEW saw, NEW path,
             request' = [request EXCEPT ![r].saw = saw, ![r].bill = bill, ![r].path = path]
      PROVE  NoneJoins
  <2>1. OthersSame(r) /\ request'[r].kind = request[r].kind /\ request'[r].key = request[r].key
    BY <1>1, <1>4 DEF Guarded, TypeOK, Busies, OthersSame, Same
  <2> QED BY <1>1, <2>1 DEF NoneJoins, OthersSame, Same, Is, Busy, Key
<1> QED BY <1>2, <1>3, <1>4 DEF ReadExisting

LEMMA SalesOfOthers ==
    ASSUME Guarded, NEW r \in Requests,
           CommitPush(r) \/ CommitRelease(r) \/ CommitInvoice(r) \/ CommitDelete(r)
    PROVE  NoneLeaves /\ Ends(r)
<1>1. UNCHANGED released /\ Ends(r)
  BY DEF CommitPush, CommitRelease, CommitInvoice, CommitDelete, rows
<1>2. CASE UNCHANGED <<invoices, counter>>
  BY <1>1, <1>2 DEF NoneLeaves, NoSale
<1>3. ASSUME NEW kind \in {"push", "release", "invoice"}, Ready(r, kind),
             kind = "push" => request[r].bill, Sells(r)
      PROVE  NoneLeaves
  <2>1. Sale(r)
    BY <1>3, SellerHolds DEF Sale
  <2>2. request[r].kind # "ethanol"
    BY <1>3 DEF Ready, Is
  <2> QED BY <1>1, <2>1, <2>2 DEF NoneLeaves
<1> QED BY <1>1, <1>2, <1>3 DEF CommitPush, CommitRelease, CommitInvoice, CommitDelete, rows

(* A step starts the release of a tanker, or completes one, or has nothing   *)
(* to do with tankers, except that it may end requests.                     *)
LEMMA TankerSteps ==
    ASSUME Guarded, [Next]_vars
    PROVE  \/ NoneLeaves /\ NoneJoins
           \/ \E r \in Requests, x \in Tankers : ReleaseTanker(r, x)
           \/ \E r \in Requests : CommitTanker(r)
<1>1. ASSUME UNCHANGED <<released, invoices, counter>>
      PROVE  NoneLeaves
  BY <1>1 DEF NoneLeaves, NoSale
<1>2. ASSUME UNCHANGED request
      PROVE  NoneJoins
  BY <1>2 DEF NoneJoins, Is, Busy, Key
<1>3. CASE Restart
  BY <1>1, <1>3 DEF Restart, rows, NoneJoins, Is, Busy
<1>4. ASSUME NEW i \in DOMAIN invoices, CancelInvoice(i)
      PROVE  NoneLeaves /\ NoneJoins
  BY <1>2, <1>4, CancelInvoiceGuarded DEF CancelInvoice, NoneLeaves, NoSale
<1>5. ASSUME NEW r \in Requests, Works(r), ~CommitTanker(r)
      PROVE  NoneLeaves /\ NoneJoins
  <2>1. CASE ReadExisting(r) \/ Take(r)
    BY <1>1, <2>1, ReadingJoinsNone DEF ReadExisting, Take, rows
  <2>2. CASE DeadlockVictim(r)
    BY <1>1, <2>2, EndsJoinsNone DEF DeadlockVictim, Rollback, rows
  <2> QED BY <1>5, <2>1, <2>2, SalesOfOthers, EndsJoinsNone DEF Works
<1>6. ASSUME NEW r \in Requests, TransactionFails(r)
      PROVE  NoneLeaves /\ NoneJoins
  BY <1>1, <1>6, EndsJoinsNone DEF TransactionFails, Rollback, rows
<1>7. ASSUME NEW r \in Requests,
             \/ \E t \in Trucks : Push(r, t) \/ ReleaseTruck(r, t)
             \/ \E k \in Keys : CreateInvoice(r, k) \/ DeleteDispatch(r, k)
      PROVE  NoneLeaves /\ NoneJoins
  BY <1>1, <1>7, BeginsJoinsNone DEF Push, ReleaseTruck, CreateInvoice, DeleteDispatch, rows
<1>8. ASSUME NEW k \in Manual, AddDispatch(k)
      PROVE  NoneLeaves /\ NoneJoins
  BY <1>1, <1>2, <1>8, BeginsJoinsNone DEF AddDispatch
<1>9. ASSUME NEW t \in Trucks, Stub(t) \/ PushDuplicate(t) \/ IssueSaved(t) \/ IssueLost(t)
      PROVE  NoneLeaves /\ NoneJoins
  BY <1>1, <1>2, <1>9 DEF Stub, PushDuplicate, IssueSaved, IssueLost, rows
<1>10. CASE UNCHANGED vars
  BY <1>1, <1>2, <1>10 DEF vars, rows
<1> QED BY <1>3, <1>4, <1>5, <1>6, <1>7, <1>8, <1>9, <1>10 DEF Next, Pushes

LEMMA LeavingFinite ==
    ASSUME IsFiniteSet(Requests), NEW x
    PROVE  /\ IsFiniteSet(Leaving(x)) /\ Cardinality(Leaving(x)) \in Nat
           /\ Cardinality(Leaving(x)) <= Cardinality(Requests) /\ Cardinality(Requests) \in Nat
<1>1. Leaving(x) \in SUBSET Requests
  BY DEF Leaving
<1> QED BY <1>1, FS_Subset, FS_CardinalityType

LEMMA FewerLeaving ==
    ASSUME IsFiniteSet(Requests), NEW x, Leaving(x)' \subseteq Leaving(x)
    PROVE  Cardinality(Leaving(x)') \in Nat /\ Cardinality(Leaving(x)') <= Cardinality(Leaving(x))
BY LeavingFinite, FS_Subset, FS_CardinalityType

(* A step that completes no release. *)
LEMMA TankersStay ==
    ASSUME Guarded, Guarded', LeftIsReleased, NoneLeaves
    PROVE  LeftIsReleased' /\ \A x \in Tankers : Left(x)' = Left(x)
<1>1. /\ Len(invoices) \in Nat /\ DOMAIN invoices = 1..Len(invoices)
      /\ DOMAIN invoices' = 1..Len(invoices')
  BY DEF Guarded, TypeOK
<1>2. CASE NoSale
  BY <1>1, <1>2 DEF NoneLeaves, NoSale, LeftIsReleased, Left, Invoiced
<1>3. ASSUME NEW r \in Requests, Sale(r), request[r].kind # "ethanol"
      PROVE  LeftIsReleased' /\ \A x \in Tankers : Left(x)' = Left(x)
  <2>1. invoices'[Len(invoices) + 1].by # "ethanol"
    BY <1>3 DEF Sale
  <2> QED BY <1>1, <1>3, <2>1 DEF NoneLeaves, Sale, LeftIsReleased, Left, Invoiced
<1> QED BY <1>2, <1>3 DEF NoneLeaves

LEMMA RoomToLeaveStep ==
    ASSUME Guarded, Guarded', LeftIsReleased, RoomToLeave, [Next]_vars, IsFiniteSet(Requests)
    PROVE  LeftIsReleased' /\ RoomToLeave'
<1>1. ASSUME NEW x \in Tankers
      PROVE  Cardinality(Left(x)) \in Nat
  BY FS_CardinalityType DEF RoomToLeave
<1>2. ASSUME NoneLeaves, NEW x \in Tankers, Leaving(x)' \subseteq Leaving(x)
      PROVE  (/\ IsFiniteSet(Left(x))
              /\ Cardinality(Left(x)) + Cardinality(Leaving(x)) <= Cardinality(Requests))'
  <2>1. Left(x)' = Left(x)
    BY <1>2, TankersStay
  <2>2. Cardinality(Left(x)) + Cardinality(Leaving(x)') <= Cardinality(Requests)
    BY <1>1, <1>2, FewerLeaving, LeavingFinite DEF RoomToLeave
  <2> QED BY <2>1, <2>2 DEF RoomToLeave
<1>3. CASE NoneLeaves /\ NoneJoins
  <2>1. \A x \in Tankers : Leaving(x)' \subseteq Leaving(x)
    BY <1>3 DEF NoneJoins, Leaving
  <2> QED BY <1>2, <1>3, <2>1, TankersStay DEF RoomToLeave
<1>4. ASSUME NEW r \in Requests, NEW y \in Tankers, ReleaseTanker(r, y)
      PROVE  LeftIsReleased' /\ RoomToLeave'
  <2>1. NoneLeaves
    BY <1>4 DEF ReleaseTanker, rows, NoneLeaves, NoSale
  <2>2. request'[r].key = y /\ OthersSame(r)
    <3> DEFINE path == <<Passes, Counter, RowOf(y)>>
    <3>1. Begins(r, "ethanol", y, path)
      BY <1>4 DEF ReleaseTanker
    <3> HIDE DEF path
    <3>2. /\ request'[r] = [kind |-> "ethanol", key |-> y, path |-> path, held |-> {}, no |-> 0,
                            saw |-> IF "ethanol" = "push" THEN "unread" ELSE "read", bill |-> FALSE]
          /\ OthersSame(r)
      BY <3>1, BeginsNew DEF Guarded
    <3> QED BY <3>2
  <2>3. ASSUME NEW x \in Tankers, x # y
        PROVE  Leaving(x)' \subseteq Leaving(x)
    BY <2>2, <2>3 DEF Leaving, OthersSame, Same, Is, Busy, Key
  <2>4. (/\ IsFiniteSet(Left(y))
         /\ Cardinality(Left(y)) + Cardinality(Leaving(y)) <= Cardinality(Requests))'
    <3>1. Left(y) = {}
      BY <1>4 DEF ReleaseTanker, LeftIsReleased, Left, Invoiced
    <3>2. Left(y)' = {}
      BY <2>1, <3>1, TankersStay
    <3>3. Cardinality(Left(y)') = 0 /\ IsFiniteSet(Left(y)')
      BY <3>2, FS_EmptySet
    <3>4. Leaving(y)' \in SUBSET Requests
      BY DEF Leaving
    <3>5. Cardinality(Leaving(y)') <= Cardinality(Requests) /\ Cardinality(Leaving(y)') \in Nat
      BY <3>4, FS_Subset, FS_CardinalityType
    <3>6. Cardinality(Left(y)') + Cardinality(Leaving(y)') <= Cardinality(Requests)
      BY <3>3, <3>5
    <3> QED BY <3>3, <3>6
  <2>5. ASSUME NEW x \in Tankers
        PROVE  (/\ IsFiniteSet(Left(x))
                /\ Cardinality(Left(x)) + Cardinality(Leaving(x)) <= Cardinality(Requests))'
    BY <1>2, <2>1, <2>3, <2>4
  <2> QED BY <2>1, <2>5, TankersStay DEF RoomToLeave
<1>5. ASSUME NEW r \in Requests, CommitTanker(r)
      PROVE  LeftIsReleased' /\ RoomToLeave'
  <2>1. Ready(r, "ethanol") /\ Busy(r) /\ request[r].kind = "ethanol" /\ Sells(r) /\ Ends(r)
    BY <1>5, ReadyHolds DEF CommitTanker
  <2>2. Sale(r)
    BY <2>1, SellerHolds DEF Sale
  <2>3. /\ Len(invoices) \in Nat /\ DOMAIN invoices = 1..Len(invoices)
        /\ DOMAIN invoices' = 1..Len(invoices')
    BY DEF Guarded, TypeOK
  <2>4. /\ Len(invoices') = Len(invoices) + 1
        /\ \A i \in 1..Len(invoices) : invoices'[i] = invoices[i]
        /\ invoices'[Len(invoices) + 1].of = Key(r)
        /\ invoices'[Len(invoices) + 1].by = "ethanol"
    BY <2>1, <2>2 DEF Sale
  <2>5. LeftIsReleased'
    BY <1>5, <2>3, <2>4 DEF CommitTanker, LeftIsReleased
  <2>6. NowIdle(r) /\ OthersSame(r)
    BY <2>1, EndsIdle DEF Guarded
  <2>7. ASSUME NEW x \in Tankers, x # Key(r)
        PROVE  Left(x)' = Left(x) /\ Leaving(x)' \subseteq Leaving(x)
    <3>1. Left(x)' = Left(x)
      BY <2>3, <2>4, <2>7 DEF Left, Invoiced
    <3>2. Leaving(x)' \subseteq Leaving(x)
      BY <2>6 DEF Leaving, NowIdle, OthersSame, Same, Is, Busy, Key
    <3> QED BY <3>1, <3>2
  <2>8. ASSUME NEW x \in Tankers
        PROVE  (/\ IsFiniteSet(Left(x))
                /\ Cardinality(Left(x)) + Cardinality(Leaving(x)) <= Cardinality(Requests))'
    <3>1. CASE x # Key(r)
      <4>1. Cardinality(Left(x)) + Cardinality(Leaving(x)') <= Cardinality(Requests)
        BY <1>1, <2>7, <3>1, FewerLeaving, LeavingFinite DEF RoomToLeave
      <4> QED BY <2>7, <3>1, <4>1 DEF RoomToLeave
    <3>2. CASE x = Key(r)
      <4>1. Left(x)' = Left(x) \union {Len(invoices) + 1} /\ Len(invoices) + 1 \notin Left(x)
        BY <2>3, <2>4, <3>2 DEF Left, Invoiced
      <4>2. IsFiniteSet(Left(x)') /\ Cardinality(Left(x)') = Cardinality(Left(x)) + 1
        BY <4>1, FS_AddElement DEF RoomToLeave
      <4>3. r \in Leaving(x) /\ Leaving(x)' \subseteq Leaving(x) \ {r}
        BY <2>1, <2>6, <3>2 DEF Leaving, NowIdle, OthersSame, Same, Is, Busy, Key
      <4>4. /\ IsFiniteSet(Leaving(x) \ {r})
            /\ Cardinality(Leaving(x) \ {r}) = Cardinality(Leaving(x)) - 1
        BY <4>3, LeavingFinite, FS_RemoveElement
      <4>5. Cardinality(Leaving(x)') <= Cardinality(Leaving(x) \ {r}) /\ Cardinality(Leaving(x)') \in Nat
        BY <4>3, <4>4, FS_Subset, FS_CardinalityType
      <4>6. Cardinality(Left(x)') + Cardinality(Leaving(x)') <= Cardinality(Requests)
        BY <1>1, <4>2, <4>4, <4>5, LeavingFinite DEF RoomToLeave
      <4> QED BY <4>2, <4>6
    <3> QED BY <3>1, <3>2
  <2> QED BY <2>5, <2>8 DEF RoomToLeave
<1> QED BY <1>3, <1>4, <1>5, TankerSteps

(* A tanker leaves with no more invoices than there were requests at once.  *)
LeftWithinRequests == \A x \in Tankers : Cardinality(Left(x)) <= Cardinality(Requests)

(* The release of ethanolGatePass.ts can only repeat what overlaps: however  *)
(* often a tanker's release is asked for, one that begins after another is   *)
(* done finds the tanker released.                                          *)
THEOREM TankerReleasedAgainByOverlapOnly ==
    ASSUME IsFiniteSet(Requests)
    PROVE  Spec => []LeftWithinRequests
<1>1. Init => LeftIsReleased /\ RoomToLeave
  <2> SUFFICES ASSUME Init, NEW x \in Tankers
               PROVE  /\ IsFiniteSet(Left(x))
                      /\ Cardinality(Left(x)) + Cardinality(Leaving(x)) <= Cardinality(Requests)
    BY DEF Init, LeftIsReleased, RoomToLeave
  <2>1. Left(x) = {} /\ Leaving(x) = {}
    BY DEF Init, Left, Invoiced, Leaving, Is, Busy
  <2>2. Cardinality(Left(x)) = 0 /\ Cardinality(Leaving(x)) = 0 /\ IsFiniteSet(Left(x))
    BY <2>1, FS_EmptySet
  <2> QED BY <2>2, LeavingFinite
<1>2. /\ Guarded /\ Guarded' /\ LeftIsReleased /\ RoomToLeave /\ [Next]_vars
      => LeftIsReleased' /\ RoomToLeave'
  BY RoomToLeaveStep
<1>3. RoomToLeave => LeftWithinRequests
  <2> SUFFICES ASSUME RoomToLeave, NEW x \in Tankers
               PROVE  Cardinality(Left(x)) <= Cardinality(Requests)
    BY DEF LeftWithinRequests
  <2>1. Cardinality(Left(x)) \in Nat
    BY FS_CardinalityType DEF RoomToLeave
  <2> QED BY <2>1, LeavingFinite DEF RoomToLeave
<1> QED BY <1>1, <1>2, <1>3, Keeping, PTL DEF Spec
=============================================================================
