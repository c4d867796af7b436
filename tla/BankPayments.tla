---------------------------- MODULE BankPayments ----------------------------
(***************************************************************************)
(* Paying vendors through the bank's file exchange                         *)
(* (backend/src/routes/bankPayments.ts, services/bankSftp.ts) next to the  *)
(* payments the desk records by hand (routes/vendorPayments.ts).           *)
(*                                                                         *)
(* A maker puts outstanding invoices into a batch, a checker approves or   *)
(* rejects it, a releaser uploads a file of it to the bank.  The bank pays *)
(* the lines of a file and answers with an ACK or a NACK file, which a     *)
(* poll moves to the archive and then applies: item by item it creates a   *)
(* VendorPayment and adds it to the invoice.                               *)
(*                                                                         *)
(* A request is a chain of awaits; requests interleave and can die between *)
(* any two of them.  A transaction is atomic when it commits, but what it  *)
(* has read may be outdated by then (READ COMMITTED).                      *)
(***************************************************************************)
EXTENDS Integers, FiniteSets

CONSTANTS
    Invoices,
    Net,            \* netPayable of each invoice
    Account,        \* bank account of the vendor of each invoice
    Batches,
    Makers, Checkers, Releasers,    \* users by paymentRole; an ADMIN is in all
    Nobody,
    Requests,       \* requests the server handles at the same time
    MaxUploads,     \* bound on the files that reach the bank
    MaxByHand,      \* bound on the amount recorded by hand for an invoice
    MaxFailures     \* bound on requests that die and restarts

Users == Makers \union Checkers \union Releasers
Admins == Makers \intersect Checkers \intersect Releasers

ASSUME NetAssumption == Net \in [Invoices -> Nat \ {0}]
ASSUME NobodyAssumption == Nobody \notin Users
ASSUME BankBoundAssumption ==
    {MaxUploads, MaxByHand, MaxFailures} \subseteq Nat /\ Batches # {}

VARIABLES
    paid,       \* paidAmount of each VendorInvoice
    batches,    \* BankPaymentBatch
    items,      \* BankPaymentItem of each batch and invoice
    files,      \* payment files at the bank, with the bank's answer
    booked,     \* VendorPayments created for each line of each file
    byHand,     \* the VendorPayments of the desk for each invoice, added up
    reqs,       \* the requests in progress
    died        \* requests that died and restarts

bankVars == <<paid, batches, items, files, booked, byHand, reqs, died>>

-----------------------------------------------------------------------------
FileNos == 1..MaxUploads

ItemStates == {"NONE", "PENDING", "APPROVED", "REJECTED", "SENT", "SUCCESS", "FAILED"}
BatchStates == {"NONE", "DRAFT", "APPROVED", "REJECTED", "SENT_TO_BANK", "COMPLETED", "FAILED"}

Item == [status : ItemStates, amount : Nat]
Batch == [status : BatchStates, maker : Users \union {Nobody}, checker : Users \union {Nobody}]
File == [state : {"NONE", "IN", "ACK", "NACK"}, archived : BOOLEAN, batch : Batches,
         by : Users \union {Nobody}, lines : SUBSET Invoices, paid : SUBSET Invoices]

(* A request between two awaits, with what it has read so far.              *)
Applying == [at : {"ACK", "NACK"}, got : SUBSET FileNos, file : FileNos, lines : SUBSET Invoices]
Booking == [at : {"book", "read"}, got : SUBSET FileNos, file : FileNos,
            lines : SUBSET Invoices, item : Invoices]
Request ==
    [at : {"idle"}]
    \union [at : {"create"}, user : Makers, amounts : [Invoices -> Nat]]
    \union [at : {"remove"}, batch : Batches, item : Invoices]
    \union [at : {"check"}, user : Checkers, batch : Batches, verdict : {"APPROVED", "REJECTED"}]
    \union [at : {"upload"}, user : Releasers, batch : Batches, lines : SUBSET Invoices]
    \union [at : {"mark"}, batch : Batches]
    \union [at : {"fetch"}, listed : SUBSET FileNos, got : SUBSET FileNos]
    \union [at : {"files"}, got : SUBSET FileNos]
    \union Applying \union Booking
    \union [at : {"add"}, got : SUBSET FileNos, file : FileNos, lines : SUBSET Invoices,
            item : Invoices, seen : Nat]
    \union [at : {"hand"}, item : Invoices, amount : Nat, seen : Nat]

(* balanceAmount is written together with paidAmount. *)
Outstanding(i) == IF Net[i] > paid[i] THEN Net[i] - paid[i] ELSE 0

Lines(b, s) == {i \in Invoices : items[b][i].status = s}

(* parseAckFile yields one record per paid line, with account and amount;   *)
(* an item takes the first record that agrees with it in both.              *)
Matched(b, i, n) ==
    \E j \in files[n].paid :
        /\ Account[j] = Account[i]
        /\ items[b][j].amount = items[b][i].amount

Idle == [at |-> "idle"]
Goto(q, r) == reqs' = [reqs EXCEPT ![q] = r]
Done(q) == Goto(q, Idle)
SetItems(b, S, s) ==
    items' = [items EXCEPT ![b] = [i \in Invoices |->
                IF i \in S THEN [@[i] EXCEPT !.status = s] ELSE @[i]]]

-----------------------------------------------------------------------------
(* POST /batches: the invoices are read, then a transaction creates the     *)
(* batch and an item for each with its balance of before.                   *)
ReadInvoices(q, u, S) ==
    /\ reqs[q] = Idle
    /\ \E i \in S : Outstanding(i) > 0
    /\ Goto(q, [at |-> "create", user |-> u,
                amounts |-> [i \in Invoices |-> IF i \in S THEN Outstanding(i) ELSE 0]])
    /\ UNCHANGED <<paid, batches, items, files, booked, byHand, died>>

CreateBatch(q, b) ==
    LET r == reqs[q] IN
    /\ r.at = "create" /\ batches[b].status = "NONE"
    /\ batches' = [batches EXCEPT ![b].status = "DRAFT", ![b].maker = r.user]
    /\ items' = [items EXCEPT ![b] = [i \in Invoices |->
                    IF r.amounts[i] > 0
                    THEN [status |-> "PENDING", amount |-> r.amounts[i]] ELSE @[i]]]
    /\ Done(q)
    /\ UNCHANGED <<paid, files, booked, byHand, died>>

(* DELETE /batches/:id/items/:itemId checks the batch, then deletes the     *)
(* item by its id; an item that is gone by then throws.                     *)
ReadForRemoval(q, u, b, i) ==
    /\ reqs[q] = Idle
    /\ batches[b].status = "DRAFT"
    /\ u = batches[b].maker \/ u \in Admins
    /\ items[b][i].status # "NONE"
    /\ Goto(q, [at |-> "remove", batch |-> b, item |-> i])
    /\ UNCHANGED <<paid, batches, items, files, booked, byHand, died>>

RemoveItem(q) ==
    LET r == reqs[q] IN
    /\ r.at = "remove"
    /\ SetItems(r.batch, {r.item}, "NONE")
    /\ Done(q)
    /\ UNCHANGED <<paid, batches, files, booked, byHand, died>>

(* POST /batches/:id/approve and /reject: the batch is read and checked,     *)
(* then written by its id.  The items are taken by their status.            *)
ReadForCheck(q, u, b, verdict) ==
    /\ reqs[q] = Idle
    /\ batches[b].status = "DRAFT"
    /\ verdict = "APPROVED" => u # batches[b].maker
    /\ Goto(q, [at |-> "check", user |-> u, batch |-> b, verdict |-> verdict])
    /\ UNCHANGED <<paid, batches, items, files, booked, byHand, died>>

AllItems(b) == {i \in Invoices : items[b][i].status # "NONE"}   \* fault
Checkable(b) == Lines(b, "PENDING")

Check(q) ==
    LET r == reqs[q] IN
    /\ r.at = "check"
    /\ batches' = [batches EXCEPT ![r.batch].status = r.verdict, ![r.batch].checker = r.user]
    /\ SetItems(r.batch, Checkable(r.batch), r.verdict)
    /\ Done(q)
    /\ UNCHANGED <<paid, files, booked, byHand, died>>

-----------------------------------------------------------------------------
(* POST /batches/:id/release, after the PIN: the batch and its approved     *)
(* items are read, the file is uploaded, a transaction marks batch and      *)
(* items.                                                                   *)
ReadForRelease(q, u, b) ==
    /\ reqs[q] = Idle
    /\ batches[b].status = "APPROVED"
    /\ Lines(b, "APPROVED") # {}
    /\ u \notin {batches[b].maker, batches[b].checker}
    /\ Goto(q, [at |-> "upload", user |-> u, batch |-> b, lines |-> Lines(b, "APPROVED")])
    /\ UNCHANGED <<paid, batches, items, files, booked, byHand, died>>

(* The file arrives, or the connection breaks before or after it does.      *)
Arrives(q) ==
    \E n \in FileNos :
        /\ files[n].state = "NONE" /\ \A m \in 1..(n - 1) : files[m].state # "NONE"
        /\ files' = [files EXCEPT ![n] =
                       [@ EXCEPT !.state = "IN", !.batch = reqs[q].batch,
                                 !.by = reqs[q].user, !.lines = reqs[q].lines]]

Upload(q) ==
    /\ reqs[q].at = "upload"
    /\ \/ /\ Arrives(q)
          /\ Goto(q, [at |-> "mark", batch |-> reqs[q].batch])
          /\ UNCHANGED died
       \/ /\ died < MaxFailures /\ died' = died + 1
          /\ Arrives(q) \/ UNCHANGED files
          /\ Done(q)
    /\ UNCHANGED <<paid, batches, items, booked, byHand>>

MarkSent(q) ==
    LET b == reqs[q].batch IN
    /\ reqs[q].at = "mark"
    /\ batches' = [batches EXCEPT ![b].status = "SENT_TO_BANK"]
    /\ SetItems(b, Lines(b, "APPROVED"), "SENT")
    /\ Done(q)
    /\ UNCHANGED <<paid, files, booked, byHand, died>>

(* The bank: it answers a file with the lines it has paid, or with none.    *)
BankAnswers(n) ==
    /\ files[n].state = "IN"
    /\ \/ \E S \in SUBSET files[n].lines :
            S # {} /\ files' = [files EXCEPT ![n].state = "ACK", ![n].paid = S]
       \/ files' = [files EXCEPT ![n].state = "NACK"]
    /\ UNCHANGED <<paid, batches, items, booked, byHand, reqs, died>>

-----------------------------------------------------------------------------
(* POST /check-status: checkAckNack lists the answers and moves one after   *)
(* the other to the archive.  One that another poll has moved meanwhile     *)
(* makes it throw, and the poll ends with nothing.                          *)
Waiting == {n \in FileNos : files[n].state \in {"ACK", "NACK"} /\ ~files[n].archived}

ListAnswers(q) ==
    /\ reqs[q] = Idle
    /\ Waiting # {}
    /\ Goto(q, [at |-> "fetch", listed |-> Waiting, got |-> {}])
    /\ UNCHANGED <<paid, batches, items, files, booked, byHand, died>>

CopiedOnly(q, n) == reqs[q].at = "fetch"        \* fault: no file is moved away
Moved(q, n) == ~files[n].archived

FetchAnswer(q) ==
    LET r == reqs[q] IN
    /\ r.at = "fetch"
    /\ \/ \E n \in r.listed :
            IF Moved(q, n)
            THEN /\ files' = [files EXCEPT ![n].archived = TRUE]
                 /\ Goto(q, [r EXCEPT !.listed = @ \ {n}, !.got = @ \union {n}])
            ELSE Done(q) /\ UNCHANGED files
       \/ /\ r.listed = {}
          /\ Goto(q, [at |-> "files", got |-> r.got])
          /\ UNCHANGED files
    /\ UNCHANGED <<paid, batches, items, booked, byHand, died>>

(* The batch of the file's name, if it waits for an answer, with the items  *)
(* that were sent.                                                          *)
OpenBatch(q) ==
    LET r == reqs[q] IN
    /\ r.at = "files"
    /\ \/ r.got = {} /\ Done(q)
       \/ \E n \in r.got :
            LET b == files[n].batch IN
            Goto(q, IF batches[b].status = "SENT_TO_BANK"
                    THEN [at |-> files[n].state, got |-> r.got \ {n}, file |-> n,
                          lines |-> Lines(b, "SENT")]
                    ELSE [r EXCEPT !.got = @ \ {n}])
    /\ UNCHANGED <<paid, batches, items, files, booked, byHand, died>>

(* The next item of the batch.  One that was removed throws.                *)
AckLine(q) ==
    LET r == reqs[q]  b == files[r.file].batch IN
    /\ r.at = "ACK"
    /\ \E i \in r.lines :
         \/ /\ ~Matched(b, i, r.file)
            /\ Goto(q, [r EXCEPT !.lines = @ \ {i}])
            /\ UNCHANGED items
         \/ /\ Matched(b, i, r.file)
            /\ IF items[b][i].status = "NONE"
               THEN Done(q) /\ UNCHANGED items
               ELSE /\ SetItems(b, {i}, "SUCCESS")
                    /\ Goto(q, [at |-> "book", got |-> r.got, file |-> r.file,
                                lines |-> r.lines, item |-> i])
    /\ UNCHANGED <<paid, batches, files, booked, byHand, died>>

BookOrNot(q) ==                         \* fault: a failed insert is ignored
    LET r == reqs[q] IN
    /\ r.at = "book"
    /\ booked' = [booked EXCEPT ![r.file][r.item] = @ + 1] \/ UNCHANGED booked
    /\ Goto(q, [r EXCEPT !.at = "read"])
    /\ UNCHANGED <<paid, batches, items, files, byHand, died>>
BookPayment(q) ==
    LET r == reqs[q] IN
    /\ r.at = "book"
    /\ booked' = [booked EXCEPT ![r.file][r.item] = @ + 1]
    /\ Goto(q, [r EXCEPT !.at = "read"])
    /\ UNCHANGED <<paid, batches, items, files, byHand, died>>

ReadPaid(q) ==
    LET r == reqs[q] IN
    /\ r.at = "read"
    /\ Goto(q, [at |-> "add", got |-> r.got, file |-> r.file, lines |-> r.lines,
                item |-> r.item, seen |-> paid[r.item]])
    /\ UNCHANGED <<paid, batches, items, files, booked, byHand, died>>

AddPaid(q) ==
    LET r == reqs[q]  b == files[r.file].batch IN
    /\ r.at = "add"
    /\ paid' = [paid EXCEPT ![r.item] = r.seen + items[b][r.item].amount]
    /\ IF items[b][r.item].status = "NONE"     \* the item's link to the payment throws
       THEN Done(q)
       ELSE Goto(q, [at |-> "ACK", got |-> r.got, file |-> r.file,
                     lines |-> r.lines \ {r.item}])
    /\ UNCHANGED <<batches, items, files, booked, byHand, died>>

NackLine(q) ==
    LET r == reqs[q]  b == files[r.file].batch IN
    /\ r.at = "NACK"
    /\ \E i \in r.lines :
         IF items[b][i].status = "NONE"
         THEN Done(q) /\ UNCHANGED items
         ELSE SetItems(b, {i}, "FAILED") /\ Goto(q, [r EXCEPT !.lines = @ \ {i}])
    /\ UNCHANGED <<paid, batches, files, booked, byHand, died>>

AnswerItself(answer) == answer          \* fault: the column of ackStatus
Outcome(answer) == IF answer = "ACK" THEN "COMPLETED" ELSE "FAILED"

CloseBatch(q) ==
    LET r == reqs[q]  b == files[r.file].batch IN
    /\ r.at \in {"ACK", "NACK"} /\ r.lines = {}
    /\ batches' = [batches EXCEPT ![b].status = Outcome(r.at)]
    /\ Goto(q, [at |-> "files", got |-> r.got])
    /\ UNCHANGED <<paid, items, files, booked, byHand, died>>

-----------------------------------------------------------------------------
(* POST /vendor-payments: a transaction creates the payment, reads the      *)
(* invoice and writes the sum back.                                         *)
PayByHand(q, i, amount) ==
    /\ reqs[q] = Idle
    /\ byHand[i] + amount <= MaxByHand
    /\ Goto(q, [at |-> "hand", item |-> i, amount |-> amount, seen |-> paid[i]])
    /\ UNCHANGED <<paid, batches, items, files, booked, byHand, died>>

CommitByHand(q) ==
    LET r == reqs[q] IN
    /\ r.at = "hand"
    /\ byHand' = [byHand EXCEPT ![r.item] = @ + r.amount]
    /\ paid' = [paid EXCEPT ![r.item] = r.seen + r.amount]
    /\ Done(q)
    /\ UNCHANGED <<batches, items, files, booked, died>>

(* A write fails and ends its request, or a restart ends all of them.       *)
Die(Q) ==
    /\ died < MaxFailures /\ died' = died + 1
    /\ \E q \in Q : reqs[q] # Idle
    /\ reqs' = [q \in Requests |-> IF q \in Q THEN Idle ELSE reqs[q]]
    /\ UNCHANGED <<paid, batches, items, files, booked, byHand>>

-----------------------------------------------------------------------------
BankInit ==
    /\ paid = [i \in Invoices |-> 0]
    /\ batches = [b \in Batches |-> [status |-> "NONE", maker |-> Nobody, checker |-> Nobody]]
    /\ items = [b \in Batches |-> [i \in Invoices |-> [status |-> "NONE", amount |-> 0]]]
    /\ files = [n \in FileNos |-> [state |-> "NONE", archived |-> FALSE,
                  batch |-> CHOOSE b \in Batches : TRUE, by |-> Nobody,
                  lines |-> {}, paid |-> {}]]
    /\ booked = [n \in FileNos |-> [i \in Invoices |-> 0]]
    /\ byHand = [i \in Invoices |-> 0]
    /\ reqs = [q \in Requests |-> Idle]
    /\ died = 0

Maker(q) ==
    \/ \E u \in Makers, S \in SUBSET Invoices : ReadInvoices(q, u, S)
    \/ \E b \in Batches : CreateBatch(q, b)
    \/ \E u \in Makers, b \in Batches, i \in Invoices : ReadForRemoval(q, u, b, i)
    \/ RemoveItem(q)

Checker(q) ==
    \/ \E u \in Checkers, b \in Batches, v \in {"APPROVED", "REJECTED"} : ReadForCheck(q, u, b, v)
    \/ Check(q)

Releaser(q) ==
    \/ \E u \in Releasers, b \in Batches : ReadForRelease(q, u, b)
    \/ Upload(q)
    \/ MarkSent(q)

Poll(q) ==
    \/ ListAnswers(q) \/ FetchAnswer(q) \/ OpenBatch(q)
    \/ AckLine(q) \/ BookPayment(q) \/ ReadPaid(q) \/ AddPaid(q)
    \/ NackLine(q) \/ CloseBatch(q)

Hand(q) ==
    \/ \E i \in Invoices : \E amount \in 1..Net[i] : PayByHand(q, i, amount)
    \/ CommitByHand(q)

BankNext ==
    \/ \E q \in Requests : Maker(q) \/ Checker(q) \/ Releaser(q) \/ Poll(q) \/ Hand(q)
    \/ \E q \in Requests : Die({q})
    \/ Die(Requests)
    \/ \E n \in FileNos : BankAnswers(n)

BankSpec == BankInit /\ [][BankNext]_bankVars

-----------------------------------------------------------------------------
(* Every table holds values of its columns: statuses the code knows,        *)
(* amounts that never go below zero.                                        *)
BankTypeOK ==
    /\ paid \in [Invoices -> Nat]
    /\ batches \in [Batches -> Batch]
    /\ items \in [Batches -> [Invoices -> Item]]
    /\ files \in [FileNos -> File]
    /\ booked \in [FileNos -> [Invoices -> Nat]]
    /\ byHand \in [Invoices -> Nat]
    /\ reqs \in [Requests -> Request]
    /\ died \in Nat

(* Every line the bank answered as paid is booked as a VendorPayment at     *)
(* most once, and a line it did not pay is never booked, however many polls *)
(* run and whatever dies: a file is applied by the one poll that moved it.  *)
BookedOnceIfPaid ==
    \A n \in FileNos, i \in Invoices :
        booked[n][i] <= IF i \in files[n].paid THEN 1 ELSE 0

Amount(n, i) == booked[n][i] * items[files[n].batch][i].amount

(* The sum of a function over the files, as the size of a set that has so   *)
(* many elements for each of them.                                          *)
Pile(a) == UNION {{n} \X (1..a[n]) : n \in FileNos}
Total(a) == Cardinality(Pile(a))

(* An invoice never shows more paid than its VendorPayments add up to: an   *)
(* overlapping or dying request can lose an addition, never count one twice.*)
PaidNotOverstated ==
    \A i \in Invoices : paid[i] <= byHand[i] + Total([n \in FileNos |-> Amount(n, i)])

(* An item the checker rejected is in no file the bank got, however         *)
(* approval, rejection and release interleave.                              *)
RejectedNotSent ==
    \A n \in FileNos : \A i \in files[n].lines :
        items[files[n].batch][i].status # "REJECTED"
=============================================================================
