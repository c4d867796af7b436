--------------------------- MODULE DispatchBilling ---------------------------
(***************************************************************************)
(* Dispatch and billing in the cloud: DDGS trucks pushed by the factory    *)
(* (weighbridge/pre-phase.ts, weighbridge/handlers/ddgsOutbound.ts), the   *)
(* contract desk (routes/ddgsContracts.ts), the cancellation of invoices   *)
(* (routes/invoices.ts) and the release of ethanol tankers                 *)
(* (routes/ethanolGatePass.ts), which share one series of invoice numbers  *)
(* (utils/invoiceCounter.ts).                                              *)
(*                                                                         *)
(* A request reads, then takes row locks one after the other in its        *)
(* transaction, then commits.  Reads are those of READ COMMITTED: they do  *)
(* not wait, and what they saw may be gone when the locks are held.  The   *)
(* database kills a transaction of a circle that wait for each other.      *)
(*                                                                         *)
(* Every truck, dispatch and tanker carries one unit of weight.  GATE_IN   *)
(* and TARE_WEIGHED, which all of the code treats alike, are one status.   *)
(* The rows of the two counters of passes and challans, always taken       *)
(* together, are one lock.                                                 *)
(***************************************************************************)
EXTENDS Integers, Sequences, FiniteSets

CONSTANTS
    Trucks,         \* DDGS trucks, by weighment
    Manual,         \* dispatches entered at the contract desk
    Tankers,        \* ethanol trucks, weighed and linked to a contract
    Requests,       \* requests the server works at together
    MaxCancelled,   \* bound on cancelled invoices
    MaxFailures     \* bound on lost answers, failed transactions and restarts

ASSUME DispatchAssumption ==
    /\ {MaxCancelled, MaxFailures} \subseteq Nat
    /\ Trucks \intersect Manual = {} /\ (Trucks \union Manual) \intersect Tankers = {}

VARIABLES
    truck,      \* rows of DDGSDispatchTruck
    dispatch,   \* rows of DDGSContractDispatch
    supplied,   \* totalSuppliedMT of the DDGS contract
    released,   \* tankers in status RELEASED
    invoices,   \* rows of Invoice
    counter,    \* counter:INV/ETH
    request,
    acked,      \* weighments the factory got an ack for
    callbacks,  \* weighments whose PlantIssue is still to be written
    issues,     \* weighments a PlantIssue was raised for
    unheard,    \* history: those whose PlantIssue was lost before it was written
    failures

rows == <<truck, dispatch, supplied, released, invoices, counter>>
notices == <<callbacks, issues, unheard>>
vars == <<rows, request, acked, notices, failures>>

-----------------------------------------------------------------------------
Keys == Trucks \union Manual
Lock == {<<"counter">>, <<"passes">>} \union {<<"row", k>> : k \in Trucks \union Tankers}
Counter == <<"counter">>
Passes == <<"passes">>
RowOf(k) == <<"row", k>>

NoTruck == [status |-> "none", linked |-> FALSE]
NoDispatch == [state |-> "none", invoice |-> 0]

Idle == [kind |-> "idle"]
Begins(r, kind, k, path) ==
    /\ request[r] = Idle
    /\ request' = [request EXCEPT ![r] =
                     [kind |-> kind, key |-> k, path |-> path, held |-> {}, no |-> 0,
                      saw |-> IF kind = "push" THEN "unread" ELSE "read", bill |-> FALSE]]
Busy(r) == request[r] # Idle
Is(r, kind) == Busy(r) /\ request[r].kind = kind
Key(r) == request[r].key
Ends(r) == request' = [request EXCEPT ![r] = Idle]
Holds(r, l) == Busy(r) /\ l \in request[r].held

(* INSERT ... ON CONFLICT DO UPDATE waits for the row's lock; a counter     *)
(* that is read first and written then would not.                           *)
CounterUnlocked(l) == l = Counter \/ \A r \in Requests : ~Holds(r, l)      \* fault
Free(l) == \A r \in Requests : ~Holds(r, l)

Fails == failures < MaxFailures /\ failures' = failures + 1

(* The answer of a push reaches the factory, or is lost.                    *)
Answers(t) ==
    \/ acked' = acked \union {t} /\ UNCHANGED failures
    \/ Fails /\ UNCHANGED acked

Sells(r) ==         \* the invoice of request r, with the number it drew
    /\ invoices' = Append(invoices, [no |-> request[r].no, of |-> Key(r),
                                     by |-> request[r].kind, live |-> TRUE])
    /\ counter' = request[r].no

Exists(k) == dispatch[k].state = "made"

NewDispatch(k, invoice) ==
    /\ dispatch' = [dispatch EXCEPT ![k] = [state |-> "made", invoice |-> invoice]]
    /\ supplied' = supplied + 1

-----------------------------------------------------------------------------
(* A push at GATE_ENTRY or FIRST_DONE: an upsert that only creates.  It is  *)
(* over before the push of the complete weighment begins.                   *)
Stub(t) ==
    /\ truck[t] = NoTruck /\ \A r \in Requests : Is(r, "push") => Key(r) # t
    /\ \E linked \in BOOLEAN :
        truck' = [truck EXCEPT ![t] = [status |-> "TARE_WEIGHED", linked |-> linked]]
    /\ UNCHANGED <<dispatch, supplied, released, invoices, counter,
                   request, acked, notices, failures>>

(* A push of the complete weighment.  checkWbDuplicate knows it by a truck  *)
(* that is beyond its stub.                                                 *)
AnyRow(t) == truck[t] # NoTruck                                     \* fault
Processed(t) == truck[t].status \notin {"none", "TARE_WEIGHED"}

PushDuplicate(t) ==
    /\ t \notin acked /\ Processed(t)
    /\ Answers(t)
    /\ UNCHANGED <<rows, request, notices>>

Push(r, t) ==
    /\ t \notin acked /\ ~Processed(t)
    /\ Begins(r, "push", t, <<>>)
    /\ UNCHANGED <<rows, acked, notices, failures>>

(* The status guard, on a read that does not wait.  Whether the push can    *)
(* bill (its contract has a rate and a customer) was read before.           *)
ReadExisting(r) ==
    /\ Is(r, "push") /\ request[r].saw = "unread"
    /\ LET t == Key(r)
           saw == truck[t].status IN
        IF saw \in {"BILLED", "RELEASED"}
        THEN Ends(r) /\ Answers(t)
        ELSE /\ \E bill \in BOOLEAN :
                request' = [request EXCEPT ![r].saw = saw, ![r].bill = bill,
                              ![r].path = IF bill THEN <<RowOf(t), Counter, Passes>> ELSE <<RowOf(t)>>]
             /\ UNCHANGED <<acked, failures>>
    /\ UNCHANGED <<rows, notices>>

-----------------------------------------------------------------------------
(* One lock of the transaction.  With the truck's row in hand a push reads  *)
(* its dispatch, and does not bill one that has an invoice.                 *)
AlreadyBilled(q, l) == q.kind = "push" /\ l = RowOf(q.key) /\ Exists(q.key)

Take(r) ==
    /\ Busy(r) /\ request[r].path # <<>>
    /\ LET q == request[r]
           l == Head(q.path)
           skip == AlreadyBilled(q, l) IN
        /\ Free(l)
        /\ request' = [request EXCEPT ![r].held = @ \union {l},
                                      ![r].path = IF skip THEN <<>> ELSE Tail(@),
                                      ![r].bill = @ /\ ~skip,
                                      ![r].no = IF l = Counter THEN counter + 1 ELSE @]
    /\ UNCHANGED <<rows, acked, notices, failures>>

Ready(r, kind) == Is(r, kind) /\ request[r].path = <<>> /\ request[r].saw # "unread"

(* The status that was read decides whether the upsert moves the status.    *)
Upserted(r) ==
    LET t == Key(r) IN
    IF truck[t] = NoTruck \/ request[r].saw = "TARE_WEIGHED" THEN "GROSS_WEIGHED"
    ELSE truck[t].status

CommitPush(r) ==
    /\ Ready(r, "push")
    /\ LET t == Key(r) IN
        /\ Answers(t)
        /\ IF request[r].bill
           THEN /\ truck' = [truck EXCEPT ![t] = [status |-> "BILLED", linked |-> TRUE]]
                /\ NewDispatch(t, Len(invoices) + 1)
                /\ Sells(r)
           ELSE /\ \E linked \in {TRUE, truck[t].linked} :
                    truck' = [truck EXCEPT ![t] = [status |-> Upserted(r), linked |-> linked]]
                /\ UNCHANGED <<dispatch, supplied, invoices, counter>>
    /\ Ends(r)
    /\ UNCHANGED <<released, notices>>

-----------------------------------------------------------------------------
(* The contract desk.  A transaction that throws writes nothing.            *)
ReleaseTruck(r, t) ==
    /\ truck[t].status = "GROSS_WEIGHED" /\ truck[t].linked
    /\ Begins(r, "release", t, <<Counter, Passes, RowOf(t)>>)
    /\ UNCHANGED <<rows, acked, notices, failures>>

(* ddgsDispatchTruckId is unique: creating a second row fails.              *)
NoUniqueIndex(t) == FALSE                                           \* fault
UniqueViolated(t) == Exists(t)

CommitRelease(r) ==
    /\ Ready(r, "release")
    /\ LET t == Key(r) IN
        IF UniqueViolated(t) THEN UNCHANGED rows
        ELSE /\ truck' = [truck EXCEPT ![t].status = "RELEASED"]
             /\ NewDispatch(t, Len(invoices) + 1)
             /\ Sells(r)
             /\ UNCHANGED <<released>>
    /\ Ends(r)
    /\ UNCHANGED <<acked, notices, failures>>

(* The contract may ask for an invoice right away; that request checks      *)
(* nothing.                                                                 *)
InvoicePath(k) == IF dispatch[k].invoice = 0 THEN <<Counter, Passes>> ELSE <<Counter>>

AddDispatch(k) ==
    /\ dispatch[k].state = "none"
    /\ NewDispatch(k, 0)
    /\ \/ UNCHANGED request
       \/ \E r \in Requests : Begins(r, "invoice", k, <<Counter, Passes>>)
    /\ UNCHANGED <<truck, released, invoices, counter, acked, notices, failures>>

LiveInvoice(k) == dispatch[k].invoice > 0 /\ invoices[dispatch[k].invoice].live

CreateInvoice(r, k) ==
    /\ Exists(k) /\ ~LiveInvoice(k)
    /\ Begins(r, "invoice", k, InvoicePath(k))
    /\ UNCHANGED <<rows, acked, notices, failures>>

CommitInvoice(r) ==
    /\ Ready(r, "invoice")
    /\ IF Exists(Key(r))
       THEN /\ dispatch' = [dispatch EXCEPT ![Key(r)].invoice = Len(invoices) + 1]
            /\ Sells(r)
            /\ UNCHANGED <<truck, supplied, released>>
       ELSE UNCHANGED rows
    /\ Ends(r)
    /\ UNCHANGED <<acked, notices, failures>>

DeleteDispatch(r, k) ==
    /\ Exists(k) /\ dispatch[k].invoice = 0
    /\ Begins(r, "delete", k, <<>>)
    /\ UNCHANGED <<rows, acked, notices, failures>>

(* delete of a row that is gone throws, and the decrement with it.          *)
EvenIfGone(k) == dispatch[k].state # "none"                         \* fault: deleteMany
StillThere(k) == Exists(k)

CommitDelete(r) ==
    /\ Ready(r, "delete")
    /\ IF StillThere(Key(r))
       THEN /\ dispatch' = [dispatch EXCEPT ![Key(r)].state = "deleted"]
            /\ supplied' = supplied - 1
            /\ UNCHANGED <<truck, released, invoices, counter>>
       ELSE UNCHANGED rows
    /\ Ends(r)
    /\ UNCHANGED <<acked, notices, failures>>

CancelInvoice(i) ==
    /\ invoices[i].live
    /\ Cardinality({j \in DOMAIN invoices : ~invoices[j].live}) < MaxCancelled
    /\ invoices' = [invoices EXCEPT ![i].live = FALSE]
    /\ UNCHANGED <<truck, dispatch, supplied, released, counter,
                   request, acked, notices, failures>>

-----------------------------------------------------------------------------
(* The release of an ethanol tanker: passes first, then the invoice number. *)
ReleaseTanker(r, x) ==
    /\ x \notin released
    /\ Begins(r, "ethanol", x, <<Passes, Counter, RowOf(x)>>)
    /\ UNCHANGED <<rows, acked, notices, failures>>

CommitTanker(r) ==
    /\ Ready(r, "ethanol")
    /\ released' = released \union {Key(r)}
    /\ Sells(r)
    /\ Ends(r)
    /\ UNCHANGED <<truck, dispatch, supplied, acked, notices, failures>>

-----------------------------------------------------------------------------
(* A transaction that fails.  A push is acked all the same, and the issue   *)
(* that tells of it is left to a setImmediate callback.                     *)
Rollback(r) ==
    /\ Ends(r)
    /\ callbacks' = IF Is(r, "push") THEN callbacks \union {Key(r)} ELSE callbacks
    /\ UNCHANGED <<rows, issues, unheard>>

Waits(r, s) ==
    /\ Busy(r) /\ request[r].path # <<>>
    /\ Holds(s, Head(request[r].path))

(* The database picks a victim among transactions that wait in a circle.    *)
DeadlockVictim(r) ==
    /\ \E S \in SUBSET Requests :
        r \in S /\ \A p \in S : \E q \in S : Waits(p, q)
    /\ Rollback(r)
    /\ IF Is(r, "push") THEN Answers(Key(r)) ELSE UNCHANGED <<acked, failures>>

TransactionFails(r) ==
    /\ Busy(r) /\ Fails
    /\ Rollback(r)
    /\ acked' = IF Is(r, "push") THEN acked \union {Key(r)} ELSE acked

(* The callback.  A create that fails is only logged, and nothing looks for *)
(* stubs of DDGS trucks later.                                              *)
IssueSaved(t) ==
    /\ t \in callbacks
    /\ callbacks' = callbacks \ {t}
    /\ issues' = issues \union {t}
    /\ UNCHANGED <<rows, request, acked, unheard, failures>>

IssueLost(t) ==
    /\ t \in callbacks /\ Fails
    /\ callbacks' = callbacks \ {t}
    /\ unheard' = unheard \union {t}
    /\ UNCHANGED <<rows, request, acked, issues>>

Restart ==
    /\ Fails
    /\ request' = [r \in Requests |-> Idle]
    /\ callbacks' = {}
    /\ unheard' = unheard \union callbacks
    /\ UNCHANGED <<rows, acked, issues>>

-----------------------------------------------------------------------------
Init ==
    /\ truck = [t \in Trucks |-> NoTruck]
    /\ dispatch = [k \in Keys |-> NoDispatch]
    /\ supplied = 0
    /\ released = {}
    /\ invoices = <<>>
    /\ counter = 0
    /\ request = [r \in Requests |-> Idle]
    /\ acked = {}
    /\ callbacks = {}
    /\ issues = {}
    /\ unheard = {}
    /\ failures = 0

Works(r) ==
    \/ ReadExisting(r) \/ Take(r) \/ DeadlockVictim(r)
    \/ CommitPush(r) \/ CommitRelease(r) \/ CommitInvoice(r) \/ CommitDelete(r) \/ CommitTanker(r)

Pushes(t) == PushDuplicate(t) \/ \E r \in Requests : Push(r, t)

Next ==
    \/ \E t \in Trucks : Stub(t) \/ Pushes(t) \/ IssueSaved(t) \/ IssueLost(t)
    \/ \E r \in Requests :
        \/ Works(r) \/ TransactionFails(r)
        \/ \E t \in Trucks : ReleaseTruck(r, t)
        \/ \E k \in Keys : CreateInvoice(r, k) \/ DeleteDispatch(r, k)
        \/ \E x \in Tankers : ReleaseTanker(r, x)
    \/ \E k \in Manual : AddDispatch(k)
    \/ \E i \in DOMAIN invoices : CancelInvoice(i)
    \/ Restart

Spec == Init /\ [][Next]_vars

(* The factory pushes until it has an ack, whatever else the server does;   *)
(* locks are granted in the order they were asked for, and callbacks run.   *)
FairSpec ==
    /\ Spec
    /\ \A t \in Trucks : SF_vars(Pushes(t)) /\ WF_vars(IssueSaved(t))
    /\ \A r \in Requests : SF_vars(Works(r))

-----------------------------------------------------------------------------
Status == {"none", "TARE_WEIGHED", "GROSS_WEIGHED", "BILLED", "RELEASED"}
Busies ==
    [kind : {"push", "release", "invoice", "delete", "ethanol"},
     key : Keys \union Tankers, path : Seq(Lock), held : SUBSET Lock, no : Nat,
     saw : Status \union {"unread", "read"}, bill : BOOLEAN]

TypeOK ==
    /\ truck \in [Trucks -> [status : Status, linked : BOOLEAN]]
    /\ dispatch \in [Keys -> [state : {"none", "made", "deleted"}, invoice : 0..Len(invoices)]]
    /\ supplied \in Int
    /\ released \subseteq Tankers
    /\ invoices \in Seq([no : Nat \ {0}, of : Keys \union Tankers,
                         by : {"push", "release", "invoice", "ethanol"}, live : BOOLEAN])
    /\ counter \in Nat
    /\ request \in [Requests -> Busies \union {Idle}]
    /\ acked \subseteq Trucks /\ callbacks \subseteq Trucks
    /\ issues \subseteq Trucks /\ unheard \subseteq Trucks
    /\ failures \in 0..MaxFailures

(* No two transactions hold a lock.                                         *)
Exclusive == \A r, s \in Requests : r # s => \A l \in Lock : ~(Holds(r, l) /\ Holds(s, l))

DispatchTypeOK == TypeOK /\ Exclusive

(* Invoice numbers are consecutive over all products: each number up to the *)
(* counter is on exactly one invoice, through overlapping transactions,     *)
(* rolled back ones and restarts.                                           *)
InvoiceSeriesGapless ==
    /\ Len(invoices) = counter
    /\ \A i, j \in DOMAIN invoices :
        invoices[i].no \in 1..counter /\ (i # j => invoices[i].no # invoices[j].no)

Invoiced(k, by) == {i \in DOMAIN invoices : invoices[i].of = k /\ invoices[i].by \in by}

(* Overlapping pushes of a truck and releases at the desk invoice it once.  *)
InvoicedOnce == \A t \in Trucks : Cardinality(Invoiced(t, {"push", "release"})) <= 1

(* What the contract counts as supplied is what its dispatches carry.       *)
SuppliedMatchesDispatches == supplied = Cardinality({k \in Keys : Exists(k)})

(* A pushed truck does not stay a stub in silence: it is weighed, or an     *)
(* issue about it is written, unless a failed write or a restart took away  *)
(* the callback that was to write it.  (Then nothing repeats it: the truck  *)
(* is acked, and a stub that nobody hears of.)                              *)
StubsReported ==
    \A t \in Trucks :
        <>(\/ truck[t].status \in {"GROSS_WEIGHED", "BILLED", "RELEASED"}
          \/ t \in issues \union unheard)

(* "Re-check status inside transaction to prevent double-release race"      *)
(* (ethanolGatePass.ts): a tanker leaves with one invoice.                  *)
TankerReleasedOnce == \A x \in Tankers : Cardinality(Invoiced(x, {"ethanol"})) <= 1
=============================================================================
