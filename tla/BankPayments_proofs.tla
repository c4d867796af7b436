------------------------ MODULE BankPayments_proofs ------------------------
(***************************************************************************)
(* Proofs about BankPayments, for any invoices, batches, users, requests   *)
(* and uploads: the types, that a line of a file is booked at most once    *)
(* and only for a vendor the bank paid, that no rejected item is sent, and *)
(* that no invoice shows more paid than its payments.                      *)
(***************************************************************************)
EXTENDS BankPayments, FiniteSetTheorems, TLAPS

-----------------------------------------------------------------------------
(* What a request remembers, by where it stands.                            *)
Creating == [at : {"create"}, user : Makers, amounts : [Invoices -> Nat]]
Removing == [at : {"remove"}, batch : Batches, item : Invoices]
Checking == [at : {"check"}, user : Checkers, batch : Batches, verdict : {"APPROVED", "REJECTED"}]
Uploading == [at : {"upload"}, user : Releasers, batch : Batches, lines : SUBSET Invoices]
Marking == [at : {"mark"}, batch : Batches]
Fetching == [at : {"fetch"}, listed : SUBSET FileNos, got : SUBSET FileNos]
Opening == [at : {"files"}, got : SUBSET FileNos]
Adding == [at : {"add"}, got : SUBSET FileNos, file : FileNos, lines : SUBSET Invoices,
           item : Invoices, seen : Nat]
Handing == [at : {"hand"}, item : Invoices, amount : Nat, seen : Nat]

LEMMA ByPlace ==
    ASSUME NEW r \in Request
    PROVE  /\ r.at = "create" => r \in Creating
           /\ r.at = "remove" => r \in Removing
           /\ r.at = "check" => r \in Checking
           /\ r.at = "upload" => r \in Uploading
           /\ r.at = "mark" => r \in Marking
           /\ r.at = "fetch" => r \in Fetching
           /\ r.at = "files" => r \in Opening
           /\ r.at \in {"ACK", "NACK"} => r \in Applying
           /\ r.at \in {"book", "read"} => r \in Booking
           /\ r.at = "add" => r \in Adding
           /\ r.at = "hand" => r \in Handing
           /\ r.at \notin {"create", "remove", "check", "upload", "mark", "fetch", "files",
                           "ACK", "NACK", "book", "read", "add", "hand"} => r = Idle
BY DEF Request, Creating, Removing, Checking, Uploading, Marking, Fetching, Opening, Applying,
       Booking, Adding, Handing, Idle

LEMMA Places ==
    /\ Idle \in Request /\ Creating \subseteq Request /\ Removing \subseteq Request
    /\ Checking \subseteq Request /\ Uploading \subseteq Request /\ Marking \subseteq Request
    /\ Fetching \subseteq Request /\ Opening \subseteq Request /\ Applying \subseteq Request
    /\ Booking \subseteq Request /\ Adding \subseteq Request /\ Handing \subseteq Request
BY DEF Request, Creating, Removing, Checking, Uploading, Marking, Fetching, Opening, Applying,
       Booking, Adding, Handing, Idle

(* A request that goes on is the only one that does. *)
LEMMA GoesOn ==
    ASSUME reqs \in [Requests -> Request], NEW q \in Requests, NEW s \in Request, Goto(q, s)
    PROVE  /\ reqs' \in [Requests -> Request] /\ reqs'[q] = s
           /\ \A p \in Requests \ {q} : reqs'[p] = reqs[p]
BY DEF Goto

LEMMA ItemsSet ==
    ASSUME items \in [Batches -> [Invoices -> Item]], NEW b \in Batches, NEW S,
           NEW s \in ItemStates, SetItems(b, S, s)
    PROVE  /\ items' \in [Batches -> [Invoices -> Item]]
           /\ \A c \in Batches, i \in Invoices :
                items'[c][i].status = IF c = b /\ i \in S THEN s ELSE items[c][i].status
<1>1. \A i \in Invoices : items[b][i] \in Item
  OBVIOUS
<1>2. \A i \in Invoices : [items[b][i] EXCEPT !.status = s] \in Item
                       /\ [items[b][i] EXCEPT !.status = s].status = s
  BY <1>1 DEF Item
<1>3. items' = [items EXCEPT ![b] = [i \in Invoices |->
                  IF i \in S THEN [items[b][i] EXCEPT !.status = s] ELSE items[b][i]]]
  BY DEF SetItems
<1>4. [i \in Invoices |-> IF i \in S THEN [items[b][i] EXCEPT !.status = s] ELSE items[b][i]]
        \in [Invoices -> Item]
  BY <1>1, <1>2
<1>5. items' \in [Batches -> [Invoices -> Item]]
  BY <1>3, <1>4
<1>6. ASSUME NEW c \in Batches, NEW i \in Invoices
      PROVE  items'[c][i].status = IF c = b /\ i \in S THEN s ELSE items[c][i].status
  BY <1>2, <1>3
<1> QED BY <1>5, <1>6

-----------------------------------------------------------------------------
(* Types. *)

LEMMA AtPlace ==
    ASSUME BankTypeOK, NEW q \in Requests
    PROVE  reqs[q] \in Request /\ reqs \in [Requests -> Request]
BY DEF BankTypeOK

LEMMA BankTypesInit == BankInit => BankTypeOK
<1> SUFFICES ASSUME BankInit PROVE BankTypeOK
  OBVIOUS
<1>1. (CHOOSE b \in Batches : TRUE) \in Batches
  BY BankBoundAssumption
<1>2. [state |-> "NONE", archived |-> FALSE, batch |-> CHOOSE b \in Batches : TRUE, by |-> Nobody,
       lines |-> {}, paid |-> {}] \in File
  BY <1>1 DEF File
<1>3. [status |-> "NONE", amount |-> 0] \in Item
  BY DEF Item, ItemStates
<1>4. [status |-> "NONE", maker |-> Nobody, checker |-> Nobody] \in Batch
  BY DEF Batch, BatchStates
<1> QED BY <1>2, <1>3, <1>4, Places DEF BankInit, BankTypeOK

LEMMA Balances ==
    ASSUME BankTypeOK, NEW i \in Invoices
    PROVE  Outstanding(i) \in Nat /\ paid[i] \in Nat
<1>1. paid[i] \in Nat /\ Net[i] \in Nat
  BY NetAssumption DEF BankTypeOK
<1> QED BY <1>1 DEF Outstanding

LEMMA MakerTypes == ASSUME BankTypeOK, NEW q \in Requests, Maker(q) PROVE BankTypeOK'
<1> DEFINE r == reqs[q]
<1>1. CASE \E u \in Makers, S \in SUBSET Invoices : ReadInvoices(q, u, S)
  <2>1. PICK u \in Makers, S \in SUBSET Invoices : ReadInvoices(q, u, S)
    BY <1>1
  <2> DEFINE s == [at |-> "create", user |-> u,
                   amounts |-> [i \in Invoices |-> IF i \in S THEN Outstanding(i) ELSE 0]]
  <2>2. s \in Request
    BY Balances, Places DEF Creating
  <2>3. Goto(q, s)
    BY <2>1 DEF ReadInvoices
  <2> HIDE DEF s
  <2> QED BY <2>1, <2>2, <2>3, GoesOn, AtPlace DEF ReadInvoices, BankTypeOK
<1>2. CASE \E b \in Batches : CreateBatch(q, b)
  <2>1. PICK b \in Batches : CreateBatch(q, b)
    BY <1>2
  <2>2. r \in Creating
    BY <2>1, AtPlace, ByPlace DEF CreateBatch
  <2>3. reqs' \in [Requests -> Request]
    BY <2>1, AtPlace, GoesOn, Places DEF CreateBatch, Done
  <2>4. batches' \in [Batches -> Batch]
    <3>1. r.user \in Users
      BY <2>2 DEF Creating, Users
    <3>2. batches[b] \in Batch
      BY DEF BankTypeOK
    <3>3. [batches[b] EXCEPT !.status = "DRAFT", !.maker = r.user] \in Batch
      BY <3>1, <3>2 DEF Batch, BatchStates
    <3> QED BY <2>1, <3>3 DEF CreateBatch, BankTypeOK
  <2>5. items' \in [Batches -> [Invoices -> Item]]
    <3>1. \A i \in Invoices : /\ r.amounts[i] \in Nat
                              /\ [status |-> "PENDING", amount |-> r.amounts[i]] \in Item
      BY <2>2 DEF Creating, Item, ItemStates
    <3> QED BY <2>1, <3>1 DEF CreateBatch, BankTypeOK
  <2> QED BY <2>1, <2>3, <2>4, <2>5 DEF CreateBatch, BankTypeOK
<1>3. CASE \E u \in Makers, b \in Batches, i \in Invoices : ReadForRemoval(q, u, b, i)
  <2>1. PICK u \in Makers, b \in Batches, i \in Invoices : ReadForRemoval(q, u, b, i)
    BY <1>3
  <2>2. [at |-> "remove", batch |-> b, item |-> i] \in Request
    BY Places DEF Removing
  <2> QED BY <2>1, <2>2, GoesOn, AtPlace DEF ReadForRemoval, BankTypeOK
<1>4. CASE RemoveItem(q)
  <2>1. r \in Removing
    BY <1>4, AtPlace, ByPlace DEF RemoveItem
  <2>2. items' \in [Batches -> [Invoices -> Item]]
    BY <1>4, <2>1, ItemsSet DEF RemoveItem, BankTypeOK, Removing, ItemStates
  <2> QED BY <1>4, <2>2, GoesOn, AtPlace, Places DEF RemoveItem, BankTypeOK, Done
<1> QED BY <1>1, <1>2, <1>3, <1>4 DEF Maker

LEMMA CheckerTypes == ASSUME BankTypeOK, NEW q \in Requests, Checker(q) PROVE BankTypeOK'
<1> DEFINE r == reqs[q]
<1>1. CASE \E u \in Checkers, b \in Batches, v \in {"APPROVED", "REJECTED"} :
             ReadForCheck(q, u, b, v)
  <2>1. PICK u \in Checkers, b \in Batches, v \in {"APPROVED", "REJECTED"} :
             ReadForCheck(q, u, b, v)
    BY <1>1
  <2>2. [at |-> "check", user |-> u, batch |-> b, verdict |-> v] \in Request
    BY Places DEF Checking
  <2> QED BY <2>1, <2>2, GoesOn, AtPlace DEF ReadForCheck, BankTypeOK
<1>2. CASE Check(q)
  <2>1. r \in Checking
    BY <1>2, AtPlace, ByPlace DEF Check
  <2>2. items' \in [Batches -> [Invoices -> Item]]
    BY <1>2, <2>1, ItemsSet DEF Check, BankTypeOK, Checking, ItemStates
  <2>3. batches' \in [Batches -> Batch]
    <3>1. r.user \in Users /\ r.verdict \in BatchStates
      BY <2>1 DEF Checking, Users, BatchStates
    <3>2. batches[r.batch] \in Batch
      BY <2>1 DEF BankTypeOK, Checking
    <3>3. [batches[r.batch] EXCEPT !.status = r.verdict, !.checker = r.user] \in Batch
      BY <3>1, <3>2 DEF Batch
    <3> QED BY <1>2, <2>1, <3>3 DEF Check, BankTypeOK
  <2> QED BY <1>2, <2>2, <2>3, GoesOn, AtPlace, Places DEF Check, BankTypeOK, Done
<1> QED BY <1>1, <1>2 DEF Checker

LEMMA ArrivesTypes ==
    ASSUME BankTypeOK, NEW q \in Requests, reqs[q].at = "upload", Arrives(q)
    PROVE  files' \in [FileNos -> File]
<1>1. reqs[q] \in Uploading
  BY AtPlace, ByPlace
<1>2. PICK n \in FileNos : files' = [files EXCEPT ![n] =
                              [@ EXCEPT !.state = "IN", !.batch = reqs[q].batch,
                                        !.by = reqs[q].user, !.lines = reqs[q].lines]]
  BY DEF Arrives
<1>3. [files[n] EXCEPT !.state = "IN", !.batch = reqs[q].batch,
                       !.by = reqs[q].user, !.lines = reqs[q].lines] \in File
  <2>1. reqs[q].batch \in Batches /\ reqs[q].user \in Users /\ reqs[q].lines \in SUBSET Invoices
    BY <1>1 DEF Uploading, Users
  <2>2. files[n] \in File
    BY DEF BankTypeOK
  <2> QED BY <2>1, <2>2 DEF File
<1> QED BY <1>2, <1>3 DEF BankTypeOK

LEMMA ReleaserTypes == ASSUME BankTypeOK, NEW q \in Requests, Releaser(q) PROVE BankTypeOK'
<1> DEFINE r == reqs[q]
<1>1. CASE \E u \in Releasers, b \in Batches : ReadForRelease(q, u, b)
  <2>1. PICK u \in Releasers, b \in Batches : ReadForRelease(q, u, b)
    BY <1>1
  <2>2. [at |-> "upload", user |-> u, batch |-> b, lines |-> Lines(b, "APPROVED")] \in Request
    BY Places DEF Uploading, Lines
  <2> QED BY <2>1, <2>2, GoesOn, AtPlace DEF ReadForRelease, BankTypeOK
<1>2. CASE Upload(q)
  <2>1. r \in Uploading
    BY <1>2, AtPlace, ByPlace DEF Upload
  <2>2. files' \in [FileNos -> File]
    BY <1>2, ArrivesTypes DEF Upload, BankTypeOK
  <2>3. [at |-> "mark", batch |-> r.batch] \in Request
    BY <2>1, Places DEF Marking, Uploading
  <2>4. reqs' \in [Requests -> Request]
    BY <1>2, <2>3, AtPlace, GoesOn, Places DEF Upload, Done
  <2>5. died' \in Nat
    BY <1>2 DEF Upload, BankTypeOK
  <2> QED BY <1>2, <2>2, <2>4, <2>5 DEF Upload, BankTypeOK
<1>3. CASE MarkSent(q)
  <2>1. r \in Marking
    BY <1>3, AtPlace, ByPlace DEF MarkSent
  <2>2. items' \in [Batches -> [Invoices -> Item]]
    BY <1>3, <2>1, ItemsSet DEF MarkSent, BankTypeOK, Marking, ItemStates
  <2>3. batches' \in [Batches -> Batch]
    <3>1. batches[r.batch] \in Batch
      BY <2>1 DEF BankTypeOK, Marking
    <3>2. [batches[r.batch] EXCEPT !.status = "SENT_TO_BANK"] \in Batch
      BY <3>1 DEF Batch, BatchStates
    <3> QED BY <1>3, <2>1, <3>2 DEF MarkSent, BankTypeOK
  <2> QED BY <1>3, <2>2, <2>3, GoesOn, AtPlace, Places DEF MarkSent, BankTypeOK, Done
<1> QED BY <1>1, <1>2, <1>3 DEF Releaser

(* The answers a poll has listed or moved.                                   *)
Known(r) ==
    CASE r.at = "fetch" -> r.listed \union r.got
      [] r.at = "files" -> r.got
      [] r.at \in {"ACK", "NACK", "book", "read", "add"} -> r.got \union {r.file}
      [] OTHER -> {}

(* A file a poll knows of has its answer, for good.                          *)
Answered == \A q \in Requests : \A n \in Known(reqs[q]) : files[n].state \in {"ACK", "NACK"}

LEMMA PollTypes == ASSUME BankTypeOK, Answered, NEW q \in Requests, Poll(q) PROVE BankTypeOK'
<1> DEFINE r == reqs[q]
<1>1. CASE ListAnswers(q)
  <2>1. [at |-> "fetch", listed |-> Waiting, got |-> {}] \in Request
    BY Places DEF Fetching, Waiting
  <2> QED BY <1>1, <2>1, GoesOn, AtPlace DEF ListAnswers, BankTypeOK
<1>2. CASE FetchAnswer(q)
  <2>1. r \in Fetching
    BY <1>2, AtPlace, ByPlace DEF FetchAnswer
  <2>2. files' \in [FileNos -> File]
    <3>1. \A n \in FileNos : [files[n] EXCEPT !.archived = TRUE] \in File
      <4>1. \A n \in FileNos : files[n] \in File
        BY DEF BankTypeOK
      <4> QED BY <4>1 DEF File
    <3>2. \/ files' = files
          \/ \E n \in FileNos : files' = [files EXCEPT ![n] = [files[n] EXCEPT !.archived = TRUE]]
      BY <1>2, <2>1 DEF FetchAnswer, Fetching
    <3> QED BY <3>1, <3>2 DEF BankTypeOK
  <2>3. reqs' \in [Requests -> Request]
    <3>1. \A n \in r.listed : [r EXCEPT !.listed = @ \ {n}, !.got = @ \union {n}] \in Request
      BY <2>1, Places DEF Fetching
    <3>2. [at |-> "files", got |-> r.got] \in Request
      BY <2>1, Places DEF Fetching, Opening
    <3>3. \/ \E n \in r.listed : Goto(q, [r EXCEPT !.listed = @ \ {n}, !.got = @ \union {n}])
          \/ Goto(q, Idle) \/ Goto(q, [at |-> "files", got |-> r.got])
      BY <1>2 DEF FetchAnswer, Done
    <3> QED BY <3>1, <3>2, <3>3, AtPlace, GoesOn, Places
  <2> QED BY <1>2, <2>2, <2>3 DEF FetchAnswer, BankTypeOK
<1>3. CASE OpenBatch(q)
  <2>1. r \in Opening
    BY <1>3, AtPlace, ByPlace DEF OpenBatch
  <2>2. CASE Goto(q, Idle)
    BY <1>3, <2>2, AtPlace, GoesOn, Places DEF OpenBatch, BankTypeOK
  <2>3. CASE \E n \in r.got : Goto(q, [r EXCEPT !.got = @ \ {n}])
    <3>1. \A n \in r.got : [r EXCEPT !.got = @ \ {n}] \in Request
      BY <2>1, Places DEF Opening
    <3> QED BY <1>3, <2>3, <3>1, AtPlace, GoesOn DEF OpenBatch, BankTypeOK
  <2>4. CASE \E n \in r.got : /\ batches[files[n].batch].status = "SENT_TO_BANK"
                             /\ files[n].state \in {"ACK", "NACK"}
                             /\ Goto(q, [at |-> files[n].state, got |-> r.got \ {n}, file |-> n,
                                         lines |-> Lines(files[n].batch, "SENT")])
    <3>1. PICK n \in r.got : /\ files[n].state \in {"ACK", "NACK"}
                             /\ Goto(q, [at |-> files[n].state, got |-> r.got \ {n}, file |-> n,
                                         lines |-> Lines(files[n].batch, "SENT")])
      BY <2>4
    <3>2. [at |-> files[n].state, got |-> r.got \ {n}, file |-> n,
           lines |-> Lines(files[n].batch, "SENT")] \in Request
      BY <2>1, <3>1, Places DEF Opening, Applying, Lines
    <3> QED BY <1>3, <3>1, <3>2, AtPlace, GoesOn DEF OpenBatch, BankTypeOK
  <2>5. \A n \in r.got : files[n].state \in {"ACK", "NACK"}
    BY <1>3 DEF Answered, Known, OpenBatch
  <2> QED BY <1>3, <2>2, <2>3, <2>4, <2>5 DEF OpenBatch, Done
<1>4. CASE AckLine(q)
  <2>1. r \in Applying /\ files[r.file].batch \in Batches
    <3>1. r \in Applying
      BY <1>4, AtPlace, ByPlace DEF AckLine
    <3> QED BY <3>1 DEF BankTypeOK, File, Applying
  <2>2. PICK i \in r.lines :
           \/ Goto(q, [r EXCEPT !.lines = @ \ {i}]) /\ UNCHANGED items
           \/ Goto(q, Idle) /\ UNCHANGED items
           \/ /\ SetItems(files[r.file].batch, {i}, "SUCCESS")
              /\ Goto(q, [at |-> "book", got |-> r.got, file |-> r.file,
                         lines |-> r.lines, item |-> i])
    BY <1>4 DEF AckLine, Done
  <2>3. items' \in [Batches -> [Invoices -> Item]]
    BY <2>1, <2>2, ItemsSet DEF BankTypeOK, ItemStates
  <2>4. [r EXCEPT !.lines = @ \ {i}] \in Request
    BY <2>1, Places DEF Applying
  <2>5. [at |-> "book", got |-> r.got, file |-> r.file, lines |-> r.lines, item |-> i] \in Request
    BY <2>1, Places DEF Applying, Booking
  <2>6. reqs' \in [Requests -> Request]
    BY <2>2, <2>4, <2>5, AtPlace, GoesOn, Places
  <2> QED BY <1>4, <2>3, <2>6 DEF AckLine, BankTypeOK
<1>5. CASE BookPayment(q)
  <2>1. r \in Booking
    BY <1>5, AtPlace, ByPlace DEF BookPayment
  <2>2. [r EXCEPT !.at = "read"] \in Request
    BY <2>1, Places DEF Booking
  <2>3. booked' \in [FileNos -> [Invoices -> Nat]]
    BY <1>5, <2>1 DEF BookPayment, Booking, BankTypeOK
  <2> QED BY <1>5, <2>2, <2>3, GoesOn, AtPlace DEF BookPayment, BankTypeOK
<1>6. CASE ReadPaid(q)
  <2>1. r \in Booking
    BY <1>6, AtPlace, ByPlace DEF ReadPaid
  <2>2. [at |-> "add", got |-> r.got, file |-> r.file, lines |-> r.lines,
         item |-> r.item, seen |-> paid[r.item]] \in Request
    BY <2>1, Places DEF Booking, Adding, BankTypeOK
  <2> QED BY <1>6, <2>2, GoesOn, AtPlace DEF ReadPaid, BankTypeOK
<1>7. CASE AddPaid(q)
  <2>1. r \in Adding
    BY <1>7, AtPlace, ByPlace DEF AddPaid
  <2>2. [at |-> "ACK", got |-> r.got, file |-> r.file, lines |-> r.lines \ {r.item}] \in Request
    BY <2>1, Places DEF Adding, Applying
  <2>3. reqs' \in [Requests -> Request]
    BY <1>7, <2>2, AtPlace, GoesOn, Places DEF AddPaid, Done
  <2>4. r.seen + items[files[r.file].batch][r.item].amount \in Nat
    <3>1. files[r.file] \in File /\ r.item \in Invoices /\ r.seen \in Nat
      BY <2>1 DEF Adding, BankTypeOK
    <3>2. items[files[r.file].batch][r.item] \in Item
      BY <3>1 DEF File, BankTypeOK
    <3> QED BY <3>1, <3>2 DEF Item
  <2>5. paid' \in [Invoices -> Nat]
    BY <1>7, <2>1, <2>4 DEF AddPaid, Adding, BankTypeOK
  <2> QED BY <1>7, <2>3, <2>5 DEF AddPaid, BankTypeOK
<1>8. CASE NackLine(q)
  <2>1. r \in Applying /\ files[r.file].batch \in Batches
    <3>1. r \in Applying
      BY <1>8, AtPlace, ByPlace DEF NackLine
    <3> QED BY <3>1 DEF BankTypeOK, File, Applying
  <2>2. PICK i \in r.lines :
           \/ Goto(q, Idle) /\ UNCHANGED items
           \/ /\ SetItems(files[r.file].batch, {i}, "FAILED")
              /\ Goto(q, [r EXCEPT !.lines = @ \ {i}])
    BY <1>8 DEF NackLine, Done
  <2>3. items' \in [Batches -> [Invoices -> Item]]
    BY <2>1, <2>2, ItemsSet DEF BankTypeOK, ItemStates
  <2>4. [r EXCEPT !.lines = @ \ {i}] \in Request
    BY <2>1, Places DEF Applying
  <2>5. reqs' \in [Requests -> Request]
    BY <2>2, <2>4, AtPlace, GoesOn, Places
  <2> QED BY <1>8, <2>3, <2>5 DEF NackLine, BankTypeOK
<1>9. CASE CloseBatch(q)
  <2>1. r \in Applying
    BY <1>9, AtPlace, ByPlace DEF CloseBatch
  <2>2. [at |-> "files", got |-> r.got] \in Request
    BY <2>1, Places DEF Applying, Opening
  <2>3. batches' \in [Batches -> Batch]
    <3>1. files[r.file].batch \in Batches
      BY <2>1 DEF BankTypeOK, File, Applying
    <3>2. batches[files[r.file].batch] \in Batch
      BY <3>1 DEF BankTypeOK
    <3>3. [batches[files[r.file].batch] EXCEPT !.status = Outcome(r.at)] \in Batch
      BY <3>2 DEF Batch, BatchStates, Outcome
    <3> QED BY <1>9, <3>1, <3>3 DEF CloseBatch, BankTypeOK
  <2> QED BY <1>9, <2>2, <2>3, GoesOn, AtPlace DEF CloseBatch, BankTypeOK
<1> QED BY <1>1, <1>2, <1>3, <1>4, <1>5, <1>6, <1>7, <1>8, <1>9 DEF Poll

LEMMA HandTypes == ASSUME BankTypeOK, NEW q \in Requests, Hand(q) PROVE BankTypeOK'
<1> DEFINE r == reqs[q]
<1>1. CASE \E i \in Invoices : \E amount \in 1..Net[i] : PayByHand(q, i, amount)
  <2>1. PICK i \in Invoices : \E amount \in 1..Net[i] : PayByHand(q, i, amount)
    BY <1>1
  <2>2. PICK amount \in 1..Net[i] : PayByHand(q, i, amount)
    BY <2>1
  <2>3. amount \in Nat
    BY <2>2, NetAssumption
  <2>4. [at |-> "hand", item |-> i, amount |-> amount, seen |-> paid[i]] \in Request
    BY <2>3, Balances, Places DEF Handing
  <2> QED BY <2>2, <2>4, GoesOn, AtPlace DEF PayByHand, BankTypeOK
<1>2. CASE CommitByHand(q)
  <2>1. r \in Handing
    BY <1>2, AtPlace, ByPlace DEF CommitByHand
  <2>2. paid' \in [Invoices -> Nat] /\ byHand' \in [Invoices -> Nat]
    BY <1>2, <2>1 DEF CommitByHand, Handing, BankTypeOK
  <2> QED BY <1>2, <2>2, GoesOn, AtPlace, Places DEF CommitByHand, BankTypeOK, Done
<1> QED BY <1>1, <1>2 DEF Hand

LEMMA DieTypes == ASSUME BankTypeOK, NEW Q, Die(Q) PROVE BankTypeOK'
<1>1. reqs' \in [Requests -> Request]
  BY Places DEF Die, BankTypeOK
<1> QED BY <1>1 DEF Die, BankTypeOK

LEMMA AnswerTypes == ASSUME BankTypeOK, NEW n \in FileNos, BankAnswers(n) PROVE BankTypeOK'
<1>1. files[n] \in File
  BY DEF BankTypeOK
<1>2. \A S \in SUBSET files[n].lines : [files[n] EXCEPT !.state = "ACK", !.paid = S] \in File
  BY <1>1 DEF File
<1>3. [files[n] EXCEPT !.state = "NACK"] \in File
  BY <1>1 DEF File
<1>4. files' \in [FileNos -> File]
  BY <1>2, <1>3 DEF BankAnswers, BankTypeOK
<1> QED BY <1>4 DEF BankAnswers, BankTypeOK

LEMMA TypesKept == BankTypeOK /\ Answered /\ [BankNext]_bankVars => BankTypeOK'
<1> SUFFICES ASSUME BankTypeOK, Answered, [BankNext]_bankVars PROVE BankTypeOK'
  OBVIOUS
<1>1. CASE UNCHANGED bankVars
  BY <1>1 DEF BankTypeOK, bankVars
<1> QED BY <1>1, MakerTypes, CheckerTypes, ReleaserTypes, PollTypes, HandTypes, DieTypes,
           AnswerTypes DEF BankNext
(* What the bank has answered stays as it is, and so does the archive. *)
FilesGoOn ==
    \A n \in FileNos :
        /\ files[n].state \in {"ACK", "NACK"} =>
             files'[n].state = files[n].state /\ files'[n].paid = files[n].paid
        /\ files[n].state = "NONE" => files'[n].paid = files[n].paid
        /\ files[n].archived => files'[n].archived
        /\ files'[n].state = "NONE" => files[n].state = "NONE"

LEMMA OneAnswered ==
    ASSUME BankTypeOK, NEW m \in FileNos, BankAnswers(m)
    PROVE  \A n \in FileNos \ {m} : files'[n] = files[n]
<1> DEFINE paidFile(S) == [files[m] EXCEPT !.state = "ACK", !.paid = S]
<1>1. \/ files' = [files EXCEPT ![m] = [files[m] EXCEPT !.state = "NACK"]]
      \/ \E S \in SUBSET files[m].lines : files' = [files EXCEPT ![m] = paidFile(S)]
  BY DEF BankAnswers
<1> HIDE DEF paidFile
<1> QED BY <1>1 DEF BankTypeOK

LEMMA FilesKept == ASSUME BankTypeOK, [BankNext]_bankVars PROVE FilesGoOn
<1>1. \A n \in FileNos : files[n] \in File
  BY DEF BankTypeOK
<1>2. CASE files' = files
  BY <1>2 DEF FilesGoOn
<1>3. ASSUME NEW q \in Requests, Arrives(q) PROVE FilesGoOn
  <2>1. PICK m \in FileNos :
          /\ files[m].state = "NONE"
          /\ files' = [files EXCEPT ![m] =
                         [files[m] EXCEPT !.state = "IN", !.batch = reqs[q].batch,
                                          !.by = reqs[q].user, !.lines = reqs[q].lines]]
    BY <1>3 DEF Arrives
  <2>2. \A n \in FileNos \ {m} : files'[n] = files[n]
    BY <2>1
  <2>3. /\ files'[m].state = "IN" /\ files'[m].paid = files[m].paid
        /\ files'[m].archived = files[m].archived
    BY <1>1, <2>1 DEF BankTypeOK, File
  <2> QED BY <2>1, <2>2, <2>3 DEF FilesGoOn
<1>4. ASSUME NEW q \in Requests, FetchAnswer(q) PROVE FilesGoOn
  <2>1. reqs[q] \in Fetching
    BY <1>4, AtPlace, ByPlace DEF FetchAnswer
  <2>2. CASE \E m \in FileNos : files' = [files EXCEPT ![m] = [files[m] EXCEPT !.archived = TRUE]]
    <3>1. PICK m \in FileNos : files' = [files EXCEPT ![m] = [files[m] EXCEPT !.archived = TRUE]]
      BY <2>2
    <3>2. \A n \in FileNos \ {m} : files'[n] = files[n]
      BY <3>1
    <3>3. /\ files'[m].state = files[m].state /\ files'[m].paid = files[m].paid
          /\ files'[m].archived
      BY <1>1, <3>1 DEF BankTypeOK, File
    <3> QED BY <3>2, <3>3 DEF FilesGoOn
  <2> QED BY <1>2, <1>4, <2>1, <2>2 DEF FetchAnswer, Fetching
<1>5. ASSUME NEW m \in FileNos, BankAnswers(m) PROVE FilesGoOn
  <2>1. \A n \in FileNos \ {m} : files'[n] = files[n]
    BY <1>5, OneAnswered
  <2>2. files[m].state = "IN"
    BY <1>5 DEF BankAnswers
  <2>3. files'[m].archived = files[m].archived /\ files'[m].state # "NONE"
    BY <1>1, <1>5 DEF BankAnswers, BankTypeOK, File
  <2> QED BY <2>1, <2>2, <2>3 DEF FilesGoOn
<1>6. ASSUME NEW q \in Requests, Upload(q) PROVE FilesGoOn
  BY <1>2, <1>3, <1>6 DEF Upload
<1>7. ASSUME NEW q \in Requests, Poll(q) PROVE FilesGoOn
  BY <1>2, <1>4, <1>7 DEF Poll, ListAnswers, OpenBatch, AckLine, BookPayment, ReadPaid, AddPaid,
                          NackLine, CloseBatch
<1>8. ASSUME NEW q \in Requests, Maker(q) \/ Checker(q) \/ Hand(q) PROVE files' = files
  BY <1>8 DEF Maker, Checker, Hand, ReadInvoices, CreateBatch, ReadForRemoval, RemoveItem,
              ReadForCheck, Check, PayByHand, CommitByHand
<1>9. ASSUME NEW q \in Requests, Releaser(q) PROVE FilesGoOn
  BY <1>2, <1>6, <1>9 DEF Releaser, ReadForRelease, MarkSent
<1>10. ASSUME NEW Q, Die(Q) PROVE files' = files
  BY <1>10 DEF Die
<1>11. CASE UNCHANGED bankVars
  BY <1>2, <1>11 DEF bankVars
<1> QED BY <1>2, <1>5, <1>7, <1>8, <1>9, <1>10, <1>11 DEF BankNext

(* A request that is not a poll knows of no answer.                          *)
Quiet(r) == r.at \in {"idle", "create", "remove", "check", "upload", "mark", "hand"}
QuietStep ==
    /\ booked' = booked
    /\ \A p \in Requests : reqs'[p] = reqs[p] \/ Quiet(reqs'[p])

LEMMA QuietGoto ==
    ASSUME BankTypeOK, NEW q \in Requests, NEW s, Goto(q, s), Quiet(s), booked' = booked
    PROVE  QuietStep
BY DEF Goto, BankTypeOK, QuietStep

LEMMA OthersQuiet ==
    ASSUME BankTypeOK, NEW q \in Requests, Maker(q) \/ Checker(q) \/ Releaser(q) \/ Hand(q)
    PROVE  QuietStep
<1>1. CASE Maker(q)
  <2>1. CASE \E u \in Makers, S \in SUBSET Invoices : ReadInvoices(q, u, S)
    BY <2>1, QuietGoto DEF ReadInvoices, Quiet
  <2>2. CASE \E b \in Batches : CreateBatch(q, b)
    BY <2>2, QuietGoto DEF CreateBatch, Done, Idle, Quiet
  <2>3. CASE \E u \in Makers, b \in Batches, i \in Invoices : ReadForRemoval(q, u, b, i)
    BY <2>3, QuietGoto DEF ReadForRemoval, Quiet
  <2>4. CASE RemoveItem(q)
    BY <2>4, QuietGoto DEF RemoveItem, Done, Idle, Quiet
  <2> QED BY <1>1, <2>1, <2>2, <2>3, <2>4 DEF Maker
<1>2. CASE Checker(q)
  <2>1. CASE Check(q)
    BY <2>1, QuietGoto DEF Check, Done, Idle, Quiet
  <2>2. CASE \E u \in Checkers, b \in Batches, v \in {"APPROVED", "REJECTED"} :
               ReadForCheck(q, u, b, v)
    BY <2>2, QuietGoto DEF ReadForCheck, Quiet
  <2> QED BY <1>2, <2>1, <2>2 DEF Checker
<1>3. CASE Releaser(q)
  <2>1. CASE \E u \in Releasers, b \in Batches : ReadForRelease(q, u, b)
    BY <2>1, QuietGoto DEF ReadForRelease, Quiet
  <2>2. CASE Upload(q)
    <3>1. \/ Goto(q, [at |-> "mark", batch |-> reqs[q].batch]) \/ Goto(q, Idle)
      BY <2>2 DEF Upload, Done
    <3> QED BY <2>2, <3>1, QuietGoto DEF Upload, Idle, Quiet
  <2>3. CASE MarkSent(q)
    BY <2>3, QuietGoto DEF MarkSent, Done, Idle, Quiet
  <2> QED BY <1>3, <2>1, <2>2, <2>3 DEF Releaser
<1>4. CASE Hand(q)
  <2>1. CASE \E i \in Invoices : \E amount \in 1..Net[i] : PayByHand(q, i, amount)
    BY <2>1, QuietGoto DEF PayByHand, Quiet
  <2>2. CASE CommitByHand(q)
    BY <2>2, QuietGoto DEF CommitByHand, Done, Idle, Quiet
  <2> QED BY <1>4, <2>1, <2>2 DEF Hand
<1> QED BY <1>1, <1>2, <1>3, <1>4

LEMMA QuietOrPoll ==
    ASSUME BankTypeOK, [BankNext]_bankVars
    PROVE  QuietStep \/ \E q \in Requests : Poll(q)
<1>1. ASSUME NEW Q, Die(Q) PROVE QuietStep
  BY <1>1 DEF Die, Idle, Quiet, QuietStep
<1>2. ASSUME NEW n \in FileNos, BankAnswers(n) PROVE QuietStep
  BY <1>2 DEF BankAnswers, QuietStep
<1>3. CASE UNCHANGED bankVars
  BY <1>3 DEF bankVars, QuietStep
<1> QED BY <1>1, <1>2, <1>3, OthersQuiet DEF BankNext

(* A poll learns of answers only by listing those that wait.                 *)
LEMMA PollKnows ==
    ASSUME BankTypeOK, NEW q \in Requests, Poll(q)
    PROVE  /\ \A p \in Requests \ {q} : reqs'[p] = reqs[p]
           /\ Known(reqs'[q]) \subseteq Known(reqs[q]) \union Waiting
<1> DEFINE r == reqs[q]
<1>1. ASSUME NEW s, Goto(q, s), Known(s) \subseteq Known(reqs[q]) \union Waiting
      PROVE  /\ \A p \in Requests \ {q} : reqs'[p] = reqs[p]
             /\ Known(reqs'[q]) \subseteq Known(reqs[q]) \union Waiting
  BY <1>1 DEF Goto, BankTypeOK
<1>2. Known(Idle) = {}
  BY DEF Known, Idle
<1>3. CASE ListAnswers(q)
  BY <1>1, <1>3 DEF ListAnswers, Known
<1>4. CASE FetchAnswer(q)
  <2>1. r \in Fetching
    BY <1>4, AtPlace, ByPlace DEF FetchAnswer
  <2>2. \A n \in r.listed :
          Known([r EXCEPT !.listed = @ \ {n}, !.got = @ \union {n}]) \subseteq Known(r)
    BY <2>1 DEF Fetching, Known
  <2>3. Known([at |-> "files", got |-> r.got]) \subseteq Known(r)
    BY <2>1 DEF Fetching, Known
  <2> QED BY <1>1, <1>2, <1>4, <2>2, <2>3 DEF FetchAnswer, Done
<1>5. CASE OpenBatch(q)
  <2>1. r \in Opening
    BY <1>5, AtPlace, ByPlace DEF OpenBatch
  <2>2. \A n \in r.got : Known([r EXCEPT !.got = @ \ {n}]) \subseteq Known(r)
    BY <2>1 DEF Opening, Known
  <2>3. \A n \in r.got : \A x \in {"NONE", "IN", "ACK", "NACK"} : \A y :
          Known([at |-> x, got |-> r.got \ {n}, file |-> n, lines |-> y]) \subseteq Known(r)
    BY <2>1 DEF Opening, Known
  <2>4. \A n \in r.got : files[n].state \in {"NONE", "IN", "ACK", "NACK"}
    <3>1. \A n \in r.got : files[n] \in File
      BY <2>1 DEF Opening, BankTypeOK
    <3> QED BY <3>1 DEF File
  <2> QED BY <1>1, <1>2, <1>5, <2>2, <2>3, <2>4 DEF OpenBatch, Done
<1>6. CASE AckLine(q) \/ NackLine(q)
  <2>1. r \in Applying
    BY <1>6, AtPlace, ByPlace DEF AckLine, NackLine
  <2>2. \A i \in r.lines :
          /\ Known([r EXCEPT !.lines = @ \ {i}]) \subseteq Known(r)
          /\ Known([at |-> "book", got |-> r.got, file |-> r.file, lines |-> r.lines, item |-> i])
               \subseteq Known(r)
    BY <2>1 DEF Applying, Known
  <2> QED BY <1>1, <1>2, <1>6, <2>2 DEF AckLine, NackLine, Done
<1>7. CASE BookPayment(q)
  <2>1. r \in Booking
    BY <1>7, AtPlace, ByPlace DEF BookPayment
  <2>2. Known([r EXCEPT !.at = "read"]) \subseteq Known(r)
    BY <2>1 DEF Booking, Known
  <2> QED BY <1>1, <1>7, <2>2 DEF BookPayment
<1>8. CASE ReadPaid(q)
  BY <1>1, <1>8 DEF ReadPaid, Known
<1>9. CASE AddPaid(q)
  <2>1. Known([at |-> "ACK", got |-> r.got, file |-> r.file, lines |-> r.lines \ {r.item}])
          \subseteq Known(r)
    BY <1>9 DEF AddPaid, Known
  <2> QED BY <1>1, <1>2, <1>9, <2>1 DEF AddPaid, Done
<1>10. CASE CloseBatch(q)
  <2>1. Known([at |-> "files", got |-> r.got]) \subseteq Known(r)
    BY <1>10 DEF CloseBatch, Known
  <2> QED BY <1>1, <1>10, <2>1 DEF CloseBatch
<1> QED BY <1>3, <1>4, <1>5, <1>6, <1>7, <1>8, <1>9, <1>10 DEF Poll

LEMMA AnsweredKept ==
    ASSUME BankTypeOK, Answered, [BankNext]_bankVars
    PROVE  Answered'
<1>1. FilesGoOn
  BY FilesKept
<1>2. \A q \in Requests : Known(reqs[q]) \subseteq FileNos
  <2> SUFFICES ASSUME NEW q \in Requests PROVE Known(reqs[q]) \subseteq FileNos
    OBVIOUS
  <2> QED BY AtPlace, ByPlace DEF Known, Fetching, Opening, Applying, Booking, Adding
<1>3. \A q \in Requests : Known(reqs'[q]) \subseteq Known(reqs[q]) \union Waiting
  <2>1. CASE QuietStep
    BY <2>1 DEF QuietStep, Quiet, Known
  <2>2. CASE \E q \in Requests : Poll(q)
    BY <2>2, PollKnows
  <2> QED BY <2>1, <2>2, QuietOrPoll
<1> QED BY <1>1, <1>2, <1>3 DEF Answered, FilesGoOn, Waiting

(* No request, file or table ever leaves its type, and every answer a poll  *)
(* works on is one the bank gave.                                           *)
THEOREM BankTypes == BankSpec => [](BankTypeOK /\ Answered)
<1>1. BankInit => BankTypeOK /\ Answered
  BY BankTypesInit DEF BankInit, Answered, Known, Idle
<1>2. BankTypeOK /\ Answered /\ [BankNext]_bankVars => BankTypeOK' /\ Answered'
  BY TypesKept, AnsweredKept
<1> QED BY <1>1, <1>2, PTL DEF BankSpec
-----------------------------------------------------------------------------
(* A paid line is booked once. *)

(* An item takes a paid record of its vendor's: its own, if the vendor has   *)
(* no other invoice, else maybe that of another with an equal amount.        *)
Due(f, n, i) == \E j \in f[n].paid : Account[j] = Account[i]

BookedOnceIfDue ==
    \A n \in FileNos, i \in Invoices : booked[n][i] <= IF Due(files, n, i) THEN 1 ELSE 0
BookedAtMostOnce == \A n \in FileNos, i \in Invoices : booked[n][i] <= 1

(* The answers a request has moved to the archive and has yet to finish, and *)
(* the lines of the one it works on that it has yet to book.                 *)
Held(r) ==
    CASE r.at \in {"fetch", "files"} -> r.got
      [] r.at \in {"ACK", "NACK", "book", "read", "add"} -> r.got \union {r.file}
      [] OTHER -> {}
Unopened(r) == IF Quiet(r) THEN {} ELSE r.got
ToBook(r) ==
    CASE r.at \in {"ACK", "book"} -> r.lines
      [] r.at \in {"read", "add"} -> r.lines \ {r.item}
      [] OTHER -> {}

HoldsOK(r, f, k) ==
    /\ \A n \in Held(r) : f[n].archived
    /\ \A n \in Unopened(r), i \in Invoices : k[n][i] = 0
    /\ r.at \in {"ACK", "NACK", "book", "read", "add"} => r.file \notin r.got
    /\ \A i \in ToBook(r) : k[r.file][i] = 0
    /\ r.at = "book" => r.item \in r.lines /\ Due(f, r.file, r.item)

FilesOK ==
    \A n \in FileNos :
        /\ files[n].archived => files[n].state \in {"ACK", "NACK"}
        /\ ~files[n].archived => \A i \in Invoices : booked[n][i] = 0

Apart == \A p, q \in Requests : p # q => Held(reqs[p]) \intersect Held(reqs[q]) = {}
EachHolds == \A q \in Requests : HoldsOK(reqs[q], files, booked)

BookInv == FilesOK /\ Apart /\ EachHolds /\ BookedOnceIfDue

LEMMA HeldKnown ==
    ASSUME NEW r \in Request
    PROVE  /\ Held(r) \subseteq Known(r) /\ Known(r) \subseteq FileNos
           /\ Unopened(r) \subseteq Held(r)
           /\ ToBook(r) \subseteq Invoices
           /\ r.at \in {"ACK", "NACK", "book", "read", "add"} => r.file \in Held(r)
           /\ Quiet(r) \/ r.at \in {"fetch", "files", "ACK", "NACK", "book", "read", "add"}
BY ByPlace DEF Held, Known, Unopened, ToBook, Quiet, Idle, Fetching, Opening, Applying, Booking,
               Adding

(* What a request holds stays so while it sleeps. *)
LEMMA HoldsOn ==
    ASSUME BankTypeOK, Answered, FilesGoOn, NEW q \in Requests,
           HoldsOK(reqs[q], files, booked),
           \A n \in Held(reqs[q]) : booked'[n] = booked[n]
    PROVE  HoldsOK(reqs[q], files', booked')
<1> DEFINE r == reqs[q]
<1>1. r \in Request
  BY AtPlace
<1>2. \A n \in Held(r) : n \in FileNos /\ files[n].state \in {"ACK", "NACK"}
  BY <1>1, HeldKnown DEF Answered
<1>3. \A n \in Held(r) : files'[n].paid = files[n].paid /\ (files[n].archived => files'[n].archived)
  BY <1>2 DEF FilesGoOn
<1>4. r.at \in {"ACK", "NACK", "book", "read", "add"} => r.file \in Held(r)
  BY <1>1, HeldKnown
<1>5. ToBook(r) # {} => r.file \in Held(r)
  BY <1>4 DEF ToBook
<1>6. Unopened(r) \subseteq Held(r)
  BY <1>1, HeldKnown
<1> HIDE DEF r
<1> QED BY <1>3, <1>4, <1>5, <1>6 DEF HoldsOK, Due, r

LEMMA QuietHolds ==
    ASSUME NEW r, Quiet(r), NEW f, NEW k
    PROVE  Held(r) = {} /\ HoldsOK(r, f, k)
BY DEF Quiet, Held, Unopened, ToBook, HoldsOK
(* Only a listed answer is moved to the archive. *)
LEMMA ArchiveKept ==
    ASSUME BankTypeOK, Answered, [BankNext]_bankVars, NEW n \in FileNos, files'[n].archived
    PROVE  files[n].archived \/ files[n].state \in {"ACK", "NACK"}
<1>1. \A m \in FileNos : files[m] \in File
  BY DEF BankTypeOK
<1>2. CASE files' = files
  BY <1>2
<1>3. ASSUME NEW q \in Requests, Arrives(q) PROVE files'[n].archived = files[n].archived
  <2>1. PICK m \in FileNos : files' = [files EXCEPT ![m] =
                         [files[m] EXCEPT !.state = "IN", !.batch = reqs[q].batch,
                                          !.by = reqs[q].user, !.lines = reqs[q].lines]]
    BY <1>3 DEF Arrives
  <2>2. files'[m].archived = files[m].archived
    BY <1>1, <2>1 DEF BankTypeOK, File
  <2> QED BY <2>1, <2>2 DEF BankTypeOK
<1>4. ASSUME NEW q \in Requests, FetchAnswer(q)
      PROVE  files[n].archived \/ files[n].state \in {"ACK", "NACK"}
  <2>1. \/ files' = files
        \/ \E m \in reqs[q].listed : files' = [files EXCEPT ![m] = [files[m] EXCEPT !.archived = TRUE]]
    BY <1>4 DEF FetchAnswer
  <2>2. \A m \in reqs[q].listed : files[m].state \in {"ACK", "NACK"}
    BY <1>4 DEF FetchAnswer, Answered, Known
  <2> QED BY <2>1, <2>2 DEF BankTypeOK
<1>5. ASSUME NEW m \in FileNos, BankAnswers(m) PROVE files'[n].archived = files[n].archived
  <2>1. files'[m].archived = files[m].archived
    BY <1>1, <1>5 DEF BankAnswers, BankTypeOK, File
  <2>2. m # n => files'[n] = files[n]
    BY <1>5, OneAnswered
  <2> QED BY <2>1, <2>2
<1>6. ASSUME NEW q \in Requests, Poll(q)
      PROVE  files[n].archived \/ files[n].state \in {"ACK", "NACK"}
  BY <1>2, <1>4, <1>6 DEF Poll, ListAnswers, OpenBatch, AckLine, BookPayment, ReadPaid, AddPaid,
                          NackLine, CloseBatch
<1>7. ASSUME NEW q \in Requests, Maker(q) \/ Checker(q) \/ Hand(q) PROVE files' = files
  BY <1>7 DEF Maker, Checker, Hand, ReadInvoices, CreateBatch, ReadForRemoval, RemoveItem,
              ReadForCheck, Check, PayByHand, CommitByHand
<1>8. ASSUME NEW q \in Requests, Releaser(q) PROVE files'[n].archived = files[n].archived
  BY <1>3, <1>8 DEF Releaser, ReadForRelease, Upload, MarkSent
<1>9. ASSUME NEW Q, Die(Q) PROVE files' = files
  BY <1>9 DEF Die
<1>10. CASE UNCHANGED bankVars
  BY <1>10 DEF bankVars
<1> QED BY <1>2, <1>5, <1>6, <1>7, <1>8, <1>9, <1>10 DEF BankNext

(* Steps that book nothing. *)
LEMMA NothingBooked ==
    ASSUME BankTypeOK, Answered, BookInv, [BankNext]_bankVars, booked' = booked
    PROVE  FilesOK' /\ BookedOnceIfDue'
<1>1. FilesGoOn
  BY FilesKept
<1>2. FilesOK'
  BY <1>1, ArchiveKept DEF BookInv, FilesOK, FilesGoOn
<1>3. ASSUME NEW n \in FileNos, NEW i \in Invoices
      PROVE  booked'[n][i] <= IF Due(files', n, i) THEN 1 ELSE 0
  <2>1. files[n].archived => files'[n].paid = files[n].paid
    BY <1>1 DEF BookInv, FilesOK, FilesGoOn
  <2>2. ~files[n].archived => booked[n][i] = 0
    BY DEF BookInv, FilesOK
  <2>3. booked[n][i] <= IF Due(files, n, i) THEN 1 ELSE 0
    BY DEF BookInv, BookedOnceIfDue
  <2> QED BY <2>1, <2>2, <2>3 DEF Due
<1> QED BY <1>2, <1>3 DEF BookedOnceIfDue

LEMMA QuietBooks ==
    ASSUME BankTypeOK, Answered, BookInv, [BankNext]_bankVars, QuietStep
    PROVE  BookInv'
<1>1. FilesOK' /\ BookedOnceIfDue'
  BY NothingBooked DEF QuietStep
<1>2. EachHolds'
  <2> SUFFICES ASSUME NEW q \in Requests PROVE HoldsOK(reqs'[q], files', booked')
    BY DEF EachHolds
  <2>1. HoldsOK(reqs[q], files', booked')
    BY HoldsOn, FilesKept DEF BookInv, EachHolds, QuietStep
  <2> QED BY <2>1, QuietHolds DEF QuietStep
<1>3. Apart'
  <2> SUFFICES ASSUME NEW p \in Requests, NEW q \in Requests, p # q
               PROVE  Held(reqs'[p]) \intersect Held(reqs'[q]) = {}
    BY DEF Apart
  <2>1. /\ Held(reqs'[p]) \subseteq Held(reqs[p])
        /\ Held(reqs'[q]) \subseteq Held(reqs[q])
    BY QuietHolds DEF QuietStep
  <2>2. Held(reqs[p]) \intersect Held(reqs[q]) = {}
    BY DEF BookInv, Apart
  <2> QED BY <2>1, <2>2
<1> QED BY <1>1, <1>2, <1>3 DEF BookInv

(* A poll that books nothing and moves nothing only has to keep to what it   *)
(* holds.                                                                    *)
LEMMA PollGoesOn ==
    ASSUME BankTypeOK, Answered, BookInv, [BankNext]_bankVars, booked' = booked,
           NEW q \in Requests, NEW s, Goto(q, s),
           HoldsOK(s, files', booked'), Held(s) \subseteq Held(reqs[q])
    PROVE  BookInv'
<1>1. FilesOK' /\ BookedOnceIfDue'
  BY NothingBooked
<1>2. reqs'[q] = s /\ \A p \in Requests \ {q} : reqs'[p] = reqs[p]
  BY DEF Goto, BankTypeOK
<1>3. EachHolds'
  <2> SUFFICES ASSUME NEW p \in Requests PROVE HoldsOK(reqs'[p], files', booked')
    BY DEF EachHolds
  <2>1. HoldsOK(reqs[p], files', booked')
    BY HoldsOn, FilesKept DEF BookInv, EachHolds
  <2> QED BY <1>2, <2>1
<1>4. Apart'
  <2> SUFFICES ASSUME NEW p1 \in Requests, NEW p2 \in Requests, p1 # p2
               PROVE  Held(reqs'[p1]) \intersect Held(reqs'[p2]) = {}
    BY DEF Apart
  <2>1. /\ Held(reqs'[p1]) \subseteq Held(reqs[p1])
        /\ Held(reqs'[p2]) \subseteq Held(reqs[p2])
    BY <1>2
  <2>2. Held(reqs[p1]) \intersect Held(reqs[p2]) = {}
    BY DEF BookInv, Apart
  <2> QED BY <2>1, <2>2
<1> QED BY <1>1, <1>3, <1>4 DEF BookInv

LEMMA FetchBooks ==
    ASSUME BankTypeOK, Answered, BookInv, [BankNext]_bankVars, NEW q \in Requests, FetchAnswer(q)
    PROVE  BookInv'
<1> DEFINE r == reqs[q]
<1>1. r \in Fetching /\ booked' = booked
  BY AtPlace, ByPlace DEF FetchAnswer
<1>2. CASE Goto(q, Idle)
  BY <1>1, <1>2, PollGoesOn, QuietHolds DEF Idle, Quiet
<1>3. CASE Goto(q, [at |-> "files", got |-> r.got])
  <2> DEFINE s == [at |-> "files", got |-> r.got]
  <2>1. HoldsOK(r, files', booked')
    BY <1>1, HoldsOn, FilesKept DEF BookInv, EachHolds
  <2>2. HoldsOK(s, files', booked') /\ Held(s) \subseteq Held(r)
    BY <1>1, <2>1 DEF HoldsOK, Held, Unopened, ToBook, Quiet, Fetching
  <2> QED BY <1>1, <1>3, <2>2, PollGoesOn
<1>4. CASE \E n \in r.listed : Moved(q, n) /\ files' = [files EXCEPT ![n].archived = TRUE]
                       /\ Goto(q, [r EXCEPT !.listed = @ \ {n}, !.got = @ \union {n}])
  <2>1. PICK n \in r.listed : Moved(q, n) /\ files' = [files EXCEPT ![n].archived = TRUE]
                       /\ Goto(q, [r EXCEPT !.listed = @ \ {n}, !.got = @ \union {n}])
    BY <1>4
  <2> DEFINE s == [r EXCEPT !.listed = @ \ {n}, !.got = @ \union {n}]
  <2>2. n \in FileNos /\ ~files[n].archived
    BY <1>1, <2>1 DEF Fetching, Moved
  <2>3. files'[n].archived
    BY <2>1, <2>2 DEF BankTypeOK, File
  <2>4. s.at = "fetch" /\ s.got = r.got \union {n}
    BY <1>1 DEF Fetching
  <2>5. reqs'[q] = s /\ \A p \in Requests \ {q} : reqs'[p] = reqs[p]
    BY <2>1 DEF Goto, BankTypeOK
  <2>6. \A p \in Requests : HoldsOK(reqs[p], files', booked')
    BY <1>1, HoldsOn, FilesKept DEF BookInv, EachHolds
  <2>7. \A i \in Invoices : booked'[n][i] = 0
    BY <1>1, <2>2 DEF BookInv, FilesOK
  <2>8. Held(r) = r.got /\ Held(s) = r.got \union {n}
    BY <1>1, <2>4 DEF Held, Fetching
  <2>9. HoldsOK(s, files', booked')
    <3>1. HoldsOK(r, files', booked')
      BY <2>6
    <3> HIDE DEF s
    <3> QED BY <1>1, <2>3, <2>4, <2>7, <3>1 DEF HoldsOK, Held, Unopened, ToBook, Quiet, Fetching
  <2>10. EachHolds'
    BY <2>5, <2>6, <2>9 DEF EachHolds
  <2>11. \A p \in Requests \ {q} : n \notin Held(reqs[p]) /\ Held(reqs[p]) \intersect r.got = {}
    BY <2>2, <2>8 DEF BookInv, EachHolds, HoldsOK, Apart
  <2>12. Apart'
    <3> SUFFICES ASSUME NEW p1 \in Requests, NEW p2 \in Requests, p1 # p2
                 PROVE  Held(reqs'[p1]) \intersect Held(reqs'[p2]) = {}
      BY DEF Apart
    <3>1. Held(reqs[p1]) \intersect Held(reqs[p2]) = {}
      BY DEF BookInv, Apart
    <3> HIDE DEF s
    <3> QED BY <2>5, <2>8, <2>11, <3>1
  <2> QED BY <1>1, <2>10, <2>12, NothingBooked DEF BookInv
<1> QED BY <1>2, <1>3, <1>4 DEF FetchAnswer, Done
LEMMA ListBooks ==
    ASSUME BankTypeOK, Answered, BookInv, [BankNext]_bankVars, NEW q \in Requests, ListAnswers(q)
    PROVE  BookInv'
<1> DEFINE s == [at |-> "fetch", listed |-> Waiting, got |-> {}]
<1>1. Held(s) = {} /\ HoldsOK(s, files', booked')
  BY DEF Held, HoldsOK, Unopened, ToBook, Quiet
<1> QED BY <1>1, PollGoesOn DEF ListAnswers

LEMMA OpenBooks ==
    ASSUME BankTypeOK, Answered, BookInv, [BankNext]_bankVars, NEW q \in Requests, OpenBatch(q)
    PROVE  BookInv'
<1> DEFINE r == reqs[q]
<1>1. r \in Opening /\ booked' = booked
  BY AtPlace, ByPlace DEF OpenBatch
<1>2. HoldsOK(r, files', booked') /\ Held(r) = r.got /\ Unopened(r) = r.got
  BY <1>1, HoldsOn, FilesKept DEF BookInv, EachHolds, Held, Unopened, Quiet, Opening
<1>3. CASE Goto(q, Idle)
  BY <1>1, <1>3, PollGoesOn, QuietHolds DEF Idle, Quiet
<1>4. CASE \E n \in r.got : Goto(q, [r EXCEPT !.got = @ \ {n}])
  <2>1. PICK n \in r.got : Goto(q, [r EXCEPT !.got = @ \ {n}])
    BY <1>4
  <2> DEFINE s == [r EXCEPT !.got = @ \ {n}]
  <2>2. s.at = "files" /\ s.got = r.got \ {n}
    BY <1>1 DEF Opening
  <2>3. Goto(q, s)
    BY <2>1
  <2> HIDE DEF s
  <2>4. HoldsOK(s, files', booked') /\ Held(s) \subseteq Held(r)
    BY <1>1, <1>2, <2>2 DEF HoldsOK, Held, Unopened, ToBook, Quiet
  <2> QED BY <1>1, <2>3, <2>4, PollGoesOn
<1>5. CASE \E n \in r.got : Goto(q, [at |-> files[n].state, got |-> r.got \ {n}, file |-> n,
                                      lines |-> Lines(files[n].batch, "SENT")])
  <2>1. PICK n \in r.got : Goto(q, [at |-> files[n].state, got |-> r.got \ {n}, file |-> n,
                                      lines |-> Lines(files[n].batch, "SENT")])
    BY <1>5
  <2> DEFINE s == [at |-> files[n].state, got |-> r.got \ {n}, file |-> n,
                   lines |-> Lines(files[n].batch, "SENT")]
  <2>2. files[n].state \in {"ACK", "NACK"}
    BY <1>1, <2>1 DEF Answered, Known, Opening
  <2>3. s.at \in {"ACK", "NACK"} /\ s.got = r.got \ {n} /\ s.file = n /\ s.lines \subseteq Invoices
    BY <2>2 DEF Lines
  <2>4. Goto(q, s)
    BY <2>1
  <2> HIDE DEF s
  <2>5. HoldsOK(s, files', booked') /\ Held(s) \subseteq Held(r)
    BY <1>1, <1>2, <2>1, <2>3 DEF HoldsOK, Held, Unopened, ToBook, Quiet
  <2> QED BY <1>1, <2>4, <2>5, PollGoesOn
<1> QED BY <1>3, <1>4, <1>5 DEF OpenBatch, Done

LEMMA AckBooks ==
    ASSUME BankTypeOK, Answered, BookInv, [BankNext]_bankVars, NEW q \in Requests,
           AckLine(q) \/ NackLine(q)
    PROVE  BookInv'
<1> DEFINE r == reqs[q]
<1>1. r \in Applying /\ booked' = booked /\ files' = files
  BY AtPlace, ByPlace DEF AckLine, NackLine
<1>2. HoldsOK(r, files', booked') /\ Held(r) = r.got \union {r.file} /\ Unopened(r) = r.got
  BY <1>1, HoldsOn, FilesKept DEF BookInv, EachHolds, Held, Unopened, Quiet, Applying
<1>3. CASE Goto(q, Idle)
  BY <1>1, <1>3, PollGoesOn, QuietHolds DEF Idle, Quiet
<1>4. CASE \E i \in r.lines : Goto(q, [r EXCEPT !.lines = @ \ {i}])
  <2>1. PICK i \in r.lines : Goto(q, [r EXCEPT !.lines = @ \ {i}])
    BY <1>4
  <2> DEFINE s == [r EXCEPT !.lines = @ \ {i}]
  <2>2. s.at = r.at /\ s.got = r.got /\ s.file = r.file /\ s.lines \subseteq r.lines
    BY <1>1 DEF Applying
  <2>3. Goto(q, s) /\ r.at \in {"ACK", "NACK"}
    BY <1>1, <2>1 DEF Applying
  <2> HIDE DEF s
  <2>4. HoldsOK(s, files', booked') /\ Held(s) \subseteq Held(r)
    BY <1>2, <2>2, <2>3 DEF HoldsOK, Held, Unopened, ToBook, Quiet
  <2> QED BY <1>1, <2>3, <2>4, PollGoesOn
<1>5. CASE r.at = "ACK" /\ \E i \in r.lines : /\ Matched(files[r.file].batch, i, r.file)
                                /\ Goto(q, [at |-> "book", got |-> r.got, file |-> r.file,
                                            lines |-> r.lines, item |-> i])
  <2>1. PICK i \in r.lines : /\ Matched(files[r.file].batch, i, r.file)
                             /\ Goto(q, [at |-> "book", got |-> r.got, file |-> r.file,
                                         lines |-> r.lines, item |-> i])
    BY <1>5
  <2> DEFINE s == [at |-> "book", got |-> r.got, file |-> r.file, lines |-> r.lines, item |-> i]
  <2>2. Due(files', r.file, i)
    <3>1. files[r.file].paid \subseteq Invoices /\ i \in Invoices
      <4>1. files[r.file] \in File
        BY <1>1 DEF Applying, BankTypeOK
      <4> QED BY <1>1, <4>1 DEF Applying, File
    <3> QED BY <1>1, <2>1, <3>1 DEF Matched, Due
  <2>3. HoldsOK(s, files', booked') /\ Held(s) \subseteq Held(r)
    BY <1>2, <1>5, <2>2 DEF HoldsOK, Held, Unopened, ToBook, Quiet
  <2> QED BY <1>1, <2>1, <2>3, PollGoesOn
<1> QED BY <1>3, <1>4, <1>5 DEF AckLine, NackLine, Done

LEMMA BookBooks ==
    ASSUME BankTypeOK, Answered, BookInv, [BankNext]_bankVars, NEW q \in Requests, BookPayment(q)
    PROVE  BookInv'
<1> DEFINE r == reqs[q]
           s == [r EXCEPT !.at = "read"]
<1>1. r \in Booking /\ r.at = "book" /\ files' = files
  BY AtPlace, ByPlace DEF BookPayment
<1>2. HoldsOK(r, files, booked)
  BY DEF BookInv, EachHolds
<1>3. Held(r) = r.got \union {r.file} /\ Unopened(r) = r.got /\ ToBook(r) = r.lines
  BY <1>1 DEF Held, Unopened, ToBook, Quiet
<1>4. /\ r.file \in FileNos /\ r.item \in Invoices /\ r.got \subseteq FileNos
      /\ r.lines \subseteq Invoices
  BY <1>1 DEF Booking
<1>5. /\ booked[r.file][r.item] = 0 /\ Due(files, r.file, r.item) /\ files[r.file].archived
      /\ r.file \notin r.got
  BY <1>1, <1>2, <1>3 DEF HoldsOK
<1>6. \A n \in FileNos, i \in Invoices :
        booked'[n][i] = IF n = r.file /\ i = r.item THEN 1 ELSE booked[n][i]
  BY <1>4, <1>5 DEF BookPayment, BankTypeOK
<1>7. \A n \in FileNos \ {r.file} : booked'[n] = booked[n]
  BY <1>4 DEF BookPayment, BankTypeOK
<1>8. s.at = "read" /\ s.got = r.got /\ s.file = r.file /\ s.lines = r.lines /\ s.item = r.item
  BY <1>1 DEF Booking
<1>9. reqs'[q] = s /\ \A p \in Requests \ {q} : reqs'[p] = reqs[p]
  BY DEF BookPayment, Goto, BankTypeOK
<1> HIDE DEF s
<1>10. FilesOK'
  BY <1>1, <1>5, <1>7 DEF BookInv, FilesOK
<1>11. BookedOnceIfDue'
  <2> SUFFICES ASSUME NEW n \in FileNos, NEW i \in Invoices
               PROVE  booked'[n][i] <= IF Due(files', n, i) THEN 1 ELSE 0
    BY DEF BookedOnceIfDue
  <2>1. booked[n][i] <= IF Due(files, n, i) THEN 1 ELSE 0
    BY DEF BookInv, BookedOnceIfDue
  <2> QED BY <1>1, <1>5, <1>6, <2>1
<1>12. HoldsOK(s, files', booked') /\ Held(s) = Held(r)
  <2>1. \A n \in r.got : booked'[n] = booked[n]
    BY <1>4, <1>5, <1>7
  <2>2. \A i \in r.lines \ {r.item} : booked'[r.file][i] = booked[r.file][i]
    BY <1>4, <1>6
  <2> QED BY <1>1, <1>2, <1>3, <1>8, <2>1, <2>2 DEF HoldsOK, Held, Unopened, ToBook, Quiet
<1>13. EachHolds'
  <2> SUFFICES ASSUME NEW p \in Requests PROVE HoldsOK(reqs'[p], files', booked')
    BY DEF EachHolds
  <2>1. CASE p # q
    <3>1. r.file \notin Held(reqs[p]) /\ Held(reqs[p]) \subseteq FileNos
      BY <1>3, <2>1, AtPlace, HeldKnown DEF BookInv, Apart
    <3>2. \A n \in Held(reqs[p]) : booked'[n] = booked[n]
      BY <1>7, <3>1
    <3> QED BY <1>9, <2>1, <3>2, HoldsOn, FilesKept DEF BookInv, EachHolds
  <2> QED BY <1>9, <1>12, <2>1
<1>14. Apart'
  <2> SUFFICES ASSUME NEW p1 \in Requests, NEW p2 \in Requests, p1 # p2
               PROVE  Held(reqs'[p1]) \intersect Held(reqs'[p2]) = {}
    BY DEF Apart
  <2>1. Held(reqs'[p1]) = Held(reqs[p1]) /\ Held(reqs'[p2]) = Held(reqs[p2])
    BY <1>9, <1>12
  <2> QED BY <2>1 DEF BookInv, Apart
<1> QED BY <1>10, <1>11, <1>13, <1>14 DEF BookInv

LEMMA PaidBooks ==
    ASSUME BankTypeOK, Answered, BookInv, [BankNext]_bankVars, NEW q \in Requests,
           ReadPaid(q) \/ AddPaid(q) \/ CloseBatch(q)
    PROVE  BookInv'
<1> DEFINE r == reqs[q]
<1>1. booked' = booked /\ r.at \in {"read", "add", "ACK", "NACK"}
  BY DEF ReadPaid, AddPaid, CloseBatch
<1>2. HoldsOK(r, files', booked') /\ Held(r) = r.got \union {r.file} /\ Unopened(r) = r.got
  BY <1>1, HoldsOn, FilesKept DEF BookInv, EachHolds, Held, Unopened, Quiet
<1>3. CASE Goto(q, Idle)
  BY <1>1, <1>3, PollGoesOn, QuietHolds DEF Idle, Quiet
<1>4. CASE r.at = "read" /\ Goto(q, [at |-> "add", got |-> r.got, file |-> r.file, lines |-> r.lines,
                                     item |-> r.item, seen |-> paid[r.item]])
  <2> DEFINE s == [at |-> "add", got |-> r.got, file |-> r.file, lines |-> r.lines,
                   item |-> r.item, seen |-> paid[r.item]]
  <2>1. HoldsOK(s, files', booked') /\ Held(s) \subseteq Held(r)
    BY <1>2, <1>4 DEF HoldsOK, Held, Unopened, ToBook, Quiet
  <2> QED BY <1>1, <1>4, <2>1, PollGoesOn
<1>5. CASE r.at = "add" /\ Goto(q, [at |-> "ACK", got |-> r.got, file |-> r.file,
                                    lines |-> r.lines \ {r.item}])
  <2> DEFINE s == [at |-> "ACK", got |-> r.got, file |-> r.file, lines |-> r.lines \ {r.item}]
  <2>1. HoldsOK(s, files', booked') /\ Held(s) \subseteq Held(r)
    BY <1>2, <1>5 DEF HoldsOK, Held, Unopened, ToBook, Quiet
  <2> QED BY <1>1, <1>5, <2>1, PollGoesOn
<1>6. CASE Goto(q, [at |-> "files", got |-> r.got])
  <2> DEFINE s == [at |-> "files", got |-> r.got]
  <2>1. HoldsOK(s, files', booked') /\ Held(s) \subseteq Held(r)
    BY <1>2 DEF HoldsOK, Held, Unopened, ToBook, Quiet
  <2> QED BY <1>1, <1>6, <2>1, PollGoesOn
<1> QED BY <1>3, <1>4, <1>5, <1>6 DEF ReadPaid, AddPaid, CloseBatch, Done

LEMMA BooksBegin == BankInit => BookInv
BY DEF BankInit, BookInv, FilesOK, Apart, EachHolds, HoldsOK, BookedOnceIfDue, Held, Unopened,
       ToBook, Quiet, Idle

LEMMA BooksGoOn == BookInv /\ BankTypeOK /\ Answered /\ [BankNext]_bankVars => BookInv'
<1> SUFFICES ASSUME BookInv, BankTypeOK, Answered, [BankNext]_bankVars PROVE BookInv'
  OBVIOUS
<1>1. ASSUME NEW q \in Requests, Poll(q) PROVE BookInv'
  BY <1>1, ListBooks, FetchBooks, OpenBooks, AckBooks, BookBooks, PaidBooks DEF Poll
<1> QED BY <1>1, QuietBooks, QuietOrPoll

(* No line of a file is booked twice, however many polls overlap and die.    *)
THEOREM NeverBookedTwice == BankSpec => []BookedAtMostOnce
<1>1. BookInv /\ BankTypeOK => BookedAtMostOnce
  <2> SUFFICES ASSUME BookInv, BankTypeOK, NEW n \in FileNos, NEW i \in Invoices
               PROVE  booked[n][i] <= 1
    BY DEF BookedAtMostOnce
  <2>1. booked[n][i] \in Nat
    BY DEF BankTypeOK
  <2>2. booked[n][i] <= IF Due(files, n, i) THEN 1 ELSE 0
    BY DEF BookInv, BookedOnceIfDue
  <2> QED BY <2>1, <2>2
<1> QED BY <1>1, BooksBegin, BooksGoOn, BankTypes, PTL DEF BankSpec

(* What is booked to a vendor the bank has paid, in that file: whatever the  *)
(* matching by account and amount makes of two lines of one vendor, no other *)
(* vendor gets it.                                                           *)
BookedToPaidVendor ==
    \A n \in FileNos, i \in Invoices :
        booked[n][i] > 0 => \E j \in files[n].paid : Account[j] = Account[i]

(* The poll of bankPayments.ts, which finds an item by account and amount,   *)
(* books none to a vendor the bank did not pay in that file.                *)
THEOREM OnlyPaidVendorsBooked == BankSpec => []BookedToPaidVendor
<1>1. BookInv /\ BankTypeOK => BookedToPaidVendor
  <2> SUFFICES ASSUME BookInv, BankTypeOK, NEW n \in FileNos, NEW i \in Invoices, booked[n][i] > 0
               PROVE  Due(files, n, i)
    BY DEF BookedToPaidVendor, Due
  <2>1. booked[n][i] \in Nat
    BY DEF BankTypeOK
  <2>2. booked[n][i] <= IF Due(files, n, i) THEN 1 ELSE 0
    BY DEF BookInv, BookedOnceIfDue
  <2> QED BY <2>1, <2>2
<1> QED BY <1>1, BooksBegin, BooksGoOn, BankTypes, PTL DEF BankSpec

(* A line whose vendor has no other invoice is booked at most once, and only *)
(* if the bank paid it, whatever the other vendors have.                     *)
OnlyInvoice(i) == \A j \in Invoices : Account[j] = Account[i] => j = i
OnlyOnesBookedOnce ==
    \A n \in FileNos, i \in Invoices :
        OnlyInvoice(i) => booked[n][i] <= IF i \in files[n].paid THEN 1 ELSE 0

(* Invoices that share an account cost no other invoice anything, however    *)
(* polls of the answers overlap and die.                                    *)
THEOREM BookedOnceElsewhere == BankSpec => []OnlyOnesBookedOnce
<1>1. BookInv /\ BankTypeOK => OnlyOnesBookedOnce
  <2> SUFFICES ASSUME BookInv, BankTypeOK, NEW n \in FileNos, NEW i \in Invoices, OnlyInvoice(i)
               PROVE  booked[n][i] <= IF i \in files[n].paid THEN 1 ELSE 0
    BY DEF OnlyOnesBookedOnce
  <2>1. files[n].paid \subseteq Invoices
    BY DEF BankTypeOK, File
  <2>2. Due(files, n, i) => i \in files[n].paid
    BY <2>1 DEF Due, OnlyInvoice
  <2>3. booked[n][i] \in Nat
    BY DEF BankTypeOK
  <2>4. booked[n][i] <= IF Due(files, n, i) THEN 1 ELSE 0
    BY DEF BookInv, BookedOnceIfDue
  <2> QED BY <2>2, <2>3, <2>4
<1> QED BY <1>1, BooksBegin, BooksGoOn, BankTypes, PTL DEF BankSpec

OwnAccounts == \A i \in Invoices : OnlyInvoice(i)

(* When no two invoices are of one vendor, every line is booked at most once *)
(* and only if the bank paid it.                                            *)
THEOREM BookedOnce == ASSUME OwnAccounts PROVE BankSpec => []BookedOnceIfPaid
<1>1. OnlyOnesBookedOnce => BookedOnceIfPaid
  BY DEF OnlyOnesBookedOnce, BookedOnceIfPaid, OwnAccounts
<1> QED BY <1>1, BookedOnceElsewhere, PTL

-----------------------------------------------------------------------------
(* A rejected item is never sent. *)

Undecided == {"PENDING", "REJECTED"}
Naming == {"remove", "check", "upload", "mark"}

EmptyUntilCreated ==
    \A b \in Batches : batches[b].status = "NONE" => \A i \in Invoices : items[b][i].status = "NONE"
NamesCreated ==
    \A q \in Requests : reqs[q].at \in Naming => batches[reqs[q].batch].status # "NONE"
UploadsDecided ==
    \A q \in Requests : reqs[q].at = "upload" =>
        \A i \in reqs[q].lines : items[reqs[q].batch][i].status \notin Undecided
SentDecided ==
    \A n \in FileNos : \A i \in files[n].lines :
        /\ batches[files[n].batch].status # "NONE"
        /\ items[files[n].batch][i].status \notin Undecided

SentInv == EmptyUntilCreated /\ NamesCreated /\ UploadsDecided /\ SentDecided

(* A batch is created once, and no item of it is ever undecided again.       *)
BatchesGoOn ==
    \A b \in Batches :
        /\ batches[b].status # "NONE" =>
             /\ batches'[b].status # "NONE"
             /\ \A i \in Invoices :
                  items[b][i].status \notin Undecided => items'[b][i].status \notin Undecided
        /\ batches'[b].status = "NONE" => \A i \in Invoices : items'[b][i].status = "NONE"

LEMMA BatchesKept ==
    ASSUME BankTypeOK, SentInv, [BankNext]_bankVars PROVE BatchesGoOn
<1>1. CASE batches' = batches /\ items' = items
  BY <1>1 DEF SentInv, EmptyUntilCreated, BatchesGoOn
<1>2. ASSUME NEW q \in Requests, NEW b \in Batches, CreateBatch(q, b) PROVE BatchesGoOn
  <2>1. batches'[b].status = "DRAFT" /\ \A c \in Batches \ {b} : batches'[c] = batches[c]
    <3>1. batches[b] \in Batch
      BY DEF BankTypeOK
    <3>2. [batches[b] EXCEPT !.status = "DRAFT", !.maker = reqs[q].user].status = "DRAFT"
      BY <3>1 DEF Batch
    <3> QED BY <1>2, <3>2 DEF CreateBatch, BankTypeOK
  <2>2. batches[b].status = "NONE" /\ \A c \in Batches \ {b} : items'[c] = items[c]
    BY <1>2 DEF CreateBatch, BankTypeOK
  <2> QED BY <2>1, <2>2 DEF SentInv, EmptyUntilCreated, BatchesGoOn
<1>3. ASSUME NEW q \in Requests, RemoveItem(q) PROVE BatchesGoOn
  <2>1. reqs[q] \in Removing
    BY <1>3, AtPlace, ByPlace DEF RemoveItem
  <2>2. \A c \in Batches, i \in Invoices :
          items'[c][i].status \in {"NONE", items[c][i].status}
    BY <1>3, <2>1, ItemsSet DEF RemoveItem, Removing, ItemStates, BankTypeOK
  <2>3. batches' = batches
    BY <1>3 DEF RemoveItem
  <2> QED BY <2>2, <2>3 DEF SentInv, EmptyUntilCreated, BatchesGoOn, Undecided
<1>4. ASSUME NEW q \in Requests, Check(q) PROVE BatchesGoOn
  <2> DEFINE r == reqs[q]
  <2>1. r \in Checking
    BY <1>4, AtPlace, ByPlace DEF Check
  <2>2. batches'[r.batch].status \in {"APPROVED", "REJECTED"}
    <3>1. batches[r.batch] \in Batch
      BY <2>1 DEF Checking, BankTypeOK
    <3>2. [batches[r.batch] EXCEPT !.status = r.verdict, !.checker = r.user].status = r.verdict
      BY <3>1 DEF Batch
    <3> QED BY <1>4, <2>1, <3>2 DEF Check, Checking, BankTypeOK
  <2>3. \A c \in Batches \ {r.batch} : batches'[c] = batches[c]
    BY <1>4 DEF Check, BankTypeOK
  <2>4. \A c \in Batches, i \in Invoices :
          items'[c][i].status = IF c = r.batch /\ i \in Checkable(r.batch) THEN r.verdict
                                ELSE items[c][i].status
    BY <1>4, <2>1, ItemsSet DEF Check, Checking, ItemStates, BankTypeOK
  <2>5. \A i \in Checkable(r.batch) : items[r.batch][i].status = "PENDING"
    BY DEF Checkable, Lines
  <2> QED BY <2>2, <2>3, <2>4, <2>5 DEF SentInv, EmptyUntilCreated, BatchesGoOn, Undecided
<1>5. ASSUME NEW q \in Requests, MarkSent(q) PROVE BatchesGoOn
  <2> DEFINE b == reqs[q].batch
  <2>1. reqs[q] \in Marking /\ b \in Batches
    <3>1. reqs[q] \in Marking
      BY <1>5, AtPlace, ByPlace DEF MarkSent
    <3> QED BY <3>1 DEF Marking
  <2>2. batches'[b].status = "SENT_TO_BANK"
    <3>1. batches[b] \in Batch
      BY <2>1 DEF BankTypeOK
    <3>2. [batches[b] EXCEPT !.status = "SENT_TO_BANK"].status = "SENT_TO_BANK"
      BY <3>1 DEF Batch
    <3> QED BY <1>5, <2>1, <3>2 DEF MarkSent, BankTypeOK
  <2>3. \A c \in Batches \ {b} : batches'[c] = batches[c]
    BY <1>5 DEF MarkSent, BankTypeOK
  <2>4. \A c \in Batches, i \in Invoices :
          items'[c][i].status = IF c = b /\ i \in Lines(b, "APPROVED") THEN "SENT"
                                ELSE items[c][i].status
    BY <1>5, <2>1, ItemsSet DEF MarkSent, ItemStates, BankTypeOK
  <2> QED BY <2>2, <2>3, <2>4 DEF SentInv, EmptyUntilCreated, BatchesGoOn, Undecided
<1>6. ASSUME NEW q \in Requests, AckLine(q) \/ NackLine(q) PROVE BatchesGoOn
  <2> DEFINE b == files[reqs[q].file].batch
  <2>1. b \in Batches /\ reqs[q].lines \subseteq Invoices
    <3>1. reqs[q] \in Applying
      BY <1>6, AtPlace, ByPlace DEF AckLine, NackLine
    <3>2. files[reqs[q].file] \in File
      BY <3>1 DEF Applying, BankTypeOK
    <3> QED BY <3>1, <3>2 DEF Applying, File
  <2>2. batches' = batches
    BY <1>6 DEF AckLine, NackLine
  <2>3. CASE \E i \in reqs[q].lines : \E s \in {"SUCCESS", "FAILED"} :
                items[b][i].status # "NONE" /\ SetItems(b, {i}, s)
    <3>1. PICK i \in reqs[q].lines, s \in {"SUCCESS", "FAILED"} :
                items[b][i].status # "NONE" /\ SetItems(b, {i}, s)
      BY <2>3
    <3>2. \A c \in Batches, j \in Invoices :
            items'[c][j].status = IF c = b /\ j \in {i} THEN s ELSE items[c][j].status
      BY <2>1, <3>1, ItemsSet DEF ItemStates, BankTypeOK
    <3>3. batches[b].status # "NONE"
      BY <2>1, <3>1 DEF SentInv, EmptyUntilCreated
    <3> QED BY <2>2, <3>2, <3>3 DEF SentInv, EmptyUntilCreated, BatchesGoOn, Undecided
  <2> QED BY <1>1, <1>6, <2>2, <2>3 DEF AckLine, NackLine
<1>7. ASSUME NEW q \in Requests, CloseBatch(q) PROVE BatchesGoOn
  <2> DEFINE b == files[reqs[q].file].batch
  <2>1. b \in Batches
    <3>1. reqs[q] \in Applying
      BY <1>7, AtPlace, ByPlace DEF CloseBatch
    <3>2. files[reqs[q].file] \in File
      BY <3>1 DEF Applying, BankTypeOK
    <3> QED BY <3>2 DEF File
  <2>2. batches'[b].status # "NONE"
    <3>1. batches[b] \in Batch
      BY <2>1 DEF BankTypeOK
    <3>2. [batches[b] EXCEPT !.status = Outcome(reqs[q].at)].status # "NONE"
      BY <3>1 DEF Batch, Outcome
    <3> QED BY <1>7, <2>1, <3>2 DEF CloseBatch, BankTypeOK
  <2>3. items' = items /\ \A c \in Batches \ {b} : batches'[c] = batches[c]
    BY <1>7 DEF CloseBatch, BankTypeOK
  <2> QED BY <2>2, <2>3 DEF SentInv, EmptyUntilCreated, BatchesGoOn
<1>8. ASSUME NEW q \in Requests, Poll(q) PROVE BatchesGoOn
  BY <1>1, <1>6, <1>7, <1>8 DEF Poll, ListAnswers, FetchAnswer, OpenBatch, BookPayment, ReadPaid,
                                AddPaid
<1>9. ASSUME NEW q \in Requests, Maker(q) \/ Checker(q) PROVE BatchesGoOn
  BY <1>1, <1>2, <1>3, <1>4, <1>9 DEF Maker, Checker, ReadInvoices, ReadForRemoval, ReadForCheck
<1>10. ASSUME NEW q \in Requests, Releaser(q) \/ Hand(q) PROVE BatchesGoOn
  BY <1>1, <1>5, <1>10 DEF Releaser, ReadForRelease, Upload, Hand, PayByHand, CommitByHand
<1>11. ASSUME NEW Q, Die(Q) PROVE BatchesGoOn
  BY <1>1, <1>11 DEF Die
<1>12. ASSUME NEW n \in FileNos, BankAnswers(n) PROVE BatchesGoOn
  BY <1>1, <1>12 DEF BankAnswers
<1>13. CASE UNCHANGED bankVars
  BY <1>1, <1>13 DEF bankVars
<1> QED BY <1>8, <1>9, <1>10, <1>11, <1>12, <1>13 DEF BankNext
(* A request that begins names a batch that exists, and reads items that are *)
(* decided.                                                                  *)
ReadsWell(r) ==
    r.at \in Naming =>
        /\ r.batch \in Batches /\ batches[r.batch].status # "NONE"
        /\ r.at = "upload" => \A i \in r.lines : items[r.batch][i].status \notin Undecided

LEMMA ReadsKept ==
    ASSUME BankTypeOK, SentInv, [BankNext]_bankVars, NEW q \in Requests
    PROVE  reqs'[q] = reqs[q] \/ ReadsWell(reqs'[q])
<1>1. ASSUME NEW p \in Requests, NEW s, Goto(p, s), ReadsWell(s)
      PROVE  reqs'[q] = reqs[q] \/ ReadsWell(reqs'[q])
  BY <1>1 DEF Goto, BankTypeOK
<1>2. ReadsWell(Idle)
  BY DEF ReadsWell, Idle, Naming
<1>3. \A p \in Requests : reqs[p].at \in Naming => reqs[p].batch \in Batches
  <2> SUFFICES ASSUME NEW p \in Requests, reqs[p].at \in Naming PROVE reqs[p].batch \in Batches
    OBVIOUS
  <2> QED BY AtPlace, ByPlace DEF Naming, Removing, Checking, Uploading, Marking
<1>4. ASSUME NEW p \in Requests, Maker(p) PROVE reqs'[q] = reqs[q] \/ ReadsWell(reqs'[q])
  <2>1. CASE \E u \in Makers, S \in SUBSET Invoices : ReadInvoices(p, u, S)
    BY <1>1, <2>1 DEF ReadInvoices, ReadsWell, Naming
  <2>2. CASE (\E b \in Batches : CreateBatch(p, b)) \/ RemoveItem(p)
    BY <1>1, <1>2, <2>2 DEF CreateBatch, RemoveItem, Done
  <2>3. CASE \E u \in Makers, b \in Batches, i \in Invoices : ReadForRemoval(p, u, b, i)
    BY <1>1, <2>3 DEF ReadForRemoval, ReadsWell
  <2> QED BY <1>4, <2>1, <2>2, <2>3 DEF Maker
<1>5. ASSUME NEW p \in Requests, Checker(p) PROVE reqs'[q] = reqs[q] \/ ReadsWell(reqs'[q])
  <2>1. CASE \E u \in Checkers, b \in Batches, v \in {"APPROVED", "REJECTED"} :
               ReadForCheck(p, u, b, v)
    BY <1>1, <2>1 DEF ReadForCheck, ReadsWell
  <2>2. CASE Check(p)
    BY <1>1, <1>2, <2>2 DEF Check, Done
  <2> QED BY <1>5, <2>1, <2>2 DEF Checker
<1>6. ASSUME NEW p \in Requests, Releaser(p) PROVE reqs'[q] = reqs[q] \/ ReadsWell(reqs'[q])
  <2>1. CASE \E u \in Releasers, b \in Batches : ReadForRelease(p, u, b)
    BY <1>1, <2>1 DEF ReadForRelease, ReadsWell, Lines, Undecided
  <2>2. CASE Upload(p)
    <3>1. ReadsWell([at |-> "mark", batch |-> reqs[p].batch])
      BY <1>3, <2>2 DEF Upload, ReadsWell, SentInv, NamesCreated, Naming
    <3> QED BY <1>1, <1>2, <2>2, <3>1 DEF Upload, Done
  <2>3. CASE MarkSent(p)
    BY <1>1, <1>2, <2>3 DEF MarkSent, Done
  <2> QED BY <1>6, <2>1, <2>2, <2>3 DEF Releaser
<1>7. ASSUME NEW p \in Requests, Hand(p) PROVE reqs'[q] = reqs[q] \/ ReadsWell(reqs'[q])
  BY <1>1, <1>2, <1>7 DEF Hand, PayByHand, CommitByHand, Done, ReadsWell, Naming
<1>8. ASSUME NEW p \in Requests, Poll(p) PROVE reqs'[q] = reqs[q] \/ ReadsWell(reqs'[q])
  <2> DEFINE r == reqs[p]
  <2>1. CASE ListAnswers(p)
    BY <1>1, <2>1 DEF ListAnswers, ReadsWell, Naming
  <2>2. CASE FetchAnswer(p)
    <3>1. r \in Fetching
      BY <2>2, AtPlace, ByPlace DEF FetchAnswer
    <3>2. \A n \in r.listed : ReadsWell([r EXCEPT !.listed = @ \ {n}, !.got = @ \union {n}])
      BY <3>1 DEF Fetching, ReadsWell, Naming
    <3>3. ReadsWell([at |-> "files", got |-> r.got])
      BY DEF ReadsWell, Naming
    <3> QED BY <1>1, <1>2, <2>2, <3>2, <3>3 DEF FetchAnswer, Done
  <2>3. CASE OpenBatch(p)
    <3>1. r \in Opening
      BY <2>3, AtPlace, ByPlace DEF OpenBatch
    <3>2. \A n \in r.got : ReadsWell([r EXCEPT !.got = @ \ {n}])
      BY <3>1 DEF Opening, ReadsWell, Naming
    <3>3. \A n \in r.got : files[n].state \in {"NONE", "IN", "ACK", "NACK"}
      <4>1. \A n \in r.got : files[n] \in File
        BY <3>1 DEF Opening, BankTypeOK
      <4> QED BY <4>1 DEF File
    <3>4. \A n \in r.got : ReadsWell([at |-> files[n].state, got |-> r.got \ {n}, file |-> n,
                                      lines |-> Lines(files[n].batch, "SENT")])
      BY <3>3 DEF ReadsWell, Naming
    <3> QED BY <1>1, <1>2, <2>3, <3>2, <3>4 DEF OpenBatch, Done
  <2>4. CASE AckLine(p) \/ NackLine(p)
    <3>1. r \in Applying
      BY <2>4, AtPlace, ByPlace DEF AckLine, NackLine
    <3>2. \A i \in r.lines :
            /\ ReadsWell([r EXCEPT !.lines = @ \ {i}])
            /\ ReadsWell([at |-> "book", got |-> r.got, file |-> r.file, lines |-> r.lines,
                          item |-> i])
      BY <3>1 DEF Applying, ReadsWell, Naming
    <3> QED BY <1>1, <1>2, <2>4, <3>2 DEF AckLine, NackLine, Done
  <2>5. CASE BookPayment(p)
    <3>1. r \in Booking
      BY <2>5, AtPlace, ByPlace DEF BookPayment
    <3>2. ReadsWell([r EXCEPT !.at = "read"])
      BY <3>1 DEF Booking, ReadsWell, Naming
    <3> QED BY <1>1, <2>5, <3>2 DEF BookPayment
  <2>6. CASE ReadPaid(p)
    BY <1>1, <2>6 DEF ReadPaid, ReadsWell, Naming
  <2>7. CASE AddPaid(p)
    <3>1. ReadsWell([at |-> "ACK", got |-> r.got, file |-> r.file, lines |-> r.lines \ {r.item}])
      BY DEF ReadsWell, Naming
    <3> QED BY <1>1, <1>2, <2>7, <3>1 DEF AddPaid, Done
  <2>8. CASE CloseBatch(p)
    BY <1>1, <2>8 DEF CloseBatch, ReadsWell, Naming
  <2> QED BY <1>8, <2>1, <2>2, <2>3, <2>4, <2>5, <2>6, <2>7, <2>8 DEF Poll
<1>9. ASSUME NEW Q, Die(Q) PROVE reqs'[q] = reqs[q] \/ ReadsWell(reqs'[q])
  BY <1>2, <1>9 DEF Die
<1>10. ASSUME NEW n \in FileNos, BankAnswers(n) PROVE reqs'[q] = reqs[q]
  BY <1>10 DEF BankAnswers
<1>11. CASE UNCHANGED bankVars
  BY <1>11 DEF bankVars
<1> QED BY <1>4, <1>5, <1>6, <1>7, <1>8, <1>9, <1>10, <1>11 DEF BankNext

(* The lines of a file are those of an upload. *)
LEMMA LinesKept ==
    ASSUME BankTypeOK, [BankNext]_bankVars, NEW n \in FileNos
    PROVE  \/ files'[n].lines = files[n].lines /\ files'[n].batch = files[n].batch
           \/ \E q \in Requests : /\ reqs[q].at = "upload"
                                 /\ files'[n].lines = reqs[q].lines
                                 /\ files'[n].batch = reqs[q].batch
<1> DEFINE Same == files'[n].lines = files[n].lines /\ files'[n].batch = files[n].batch
<1>1. \A m \in FileNos : files[m] \in File
  BY DEF BankTypeOK
<1>2. CASE files' = files
  BY <1>2
<1>3. ASSUME NEW q \in Requests, reqs[q].at = "upload", Arrives(q)
      PROVE  Same \/ (files'[n].lines = reqs[q].lines /\ files'[n].batch = reqs[q].batch)
  <2>1. PICK m \in FileNos : files' = [files EXCEPT ![m] =
                         [files[m] EXCEPT !.state = "IN", !.batch = reqs[q].batch,
                                          !.by = reqs[q].user, !.lines = reqs[q].lines]]
    BY <1>3 DEF Arrives
  <2>2. files'[m].lines = reqs[q].lines /\ files'[m].batch = reqs[q].batch
    BY <1>1, <2>1 DEF BankTypeOK, File
  <2> QED BY <2>1, <2>2 DEF BankTypeOK
<1>4. ASSUME NEW q \in Requests, FetchAnswer(q) PROVE Same
  <2>1. \/ files' = files
        \/ \E m \in reqs[q].listed : files' = [files EXCEPT ![m] = [files[m] EXCEPT !.archived = TRUE]]
    BY <1>4 DEF FetchAnswer
  <2>2. [files[n] EXCEPT !.archived = TRUE].lines = files[n].lines
        /\ [files[n] EXCEPT !.archived = TRUE].batch = files[n].batch
    BY <1>1 DEF File
  <2> QED BY <2>1, <2>2 DEF BankTypeOK
<1>5. ASSUME NEW m \in FileNos, BankAnswers(m) PROVE Same
  <2>1. files'[m].lines = files[m].lines /\ files'[m].batch = files[m].batch
    BY <1>1, <1>5 DEF BankAnswers, BankTypeOK, File
  <2> QED BY <1>5, <2>1, OneAnswered
<1>6. ASSUME NEW q \in Requests, Poll(q) PROVE Same
  BY <1>2, <1>4, <1>6 DEF Poll, ListAnswers, OpenBatch, AckLine, BookPayment, ReadPaid, AddPaid,
                          NackLine, CloseBatch
<1>7. ASSUME NEW q \in Requests, Maker(q) \/ Checker(q) \/ Hand(q) PROVE files' = files
  BY <1>7 DEF Maker, Checker, Hand, ReadInvoices, CreateBatch, ReadForRemoval, RemoveItem,
              ReadForCheck, Check, PayByHand, CommitByHand
<1>8. ASSUME NEW q \in Requests, Releaser(q)
      PROVE  \/ Same
             \/ /\ reqs[q].at = "upload" /\ files'[n].lines = reqs[q].lines
                /\ files'[n].batch = reqs[q].batch
  BY <1>2, <1>3, <1>8 DEF Releaser, ReadForRelease, Upload, MarkSent
<1>9. ASSUME NEW Q, Die(Q) PROVE files' = files
  BY <1>9 DEF Die
<1>10. CASE UNCHANGED bankVars
  BY <1>10 DEF bankVars
<1> QED BY <1>2, <1>5, <1>6, <1>7, <1>8, <1>9, <1>10 DEF BankNext

LEMMA SentKept ==
    ASSUME BankTypeOK, Answered, SentInv, [BankNext]_bankVars PROVE SentInv'
<1>1. BatchesGoOn
  BY BatchesKept
<1>2. EmptyUntilCreated'
  BY <1>1 DEF BatchesGoOn, EmptyUntilCreated
<1>3. \A q \in Requests : reqs[q].at = "upload" => reqs[q].lines \subseteq Invoices
  <2> SUFFICES ASSUME NEW q \in Requests, reqs[q].at = "upload" PROVE reqs[q].lines \subseteq Invoices
    OBVIOUS
  <2> QED BY AtPlace, ByPlace DEF Uploading
<1>4. \A q \in Requests : reqs[q].at \in Naming => reqs[q].batch \in Batches
  <2> SUFFICES ASSUME NEW q \in Requests, reqs[q].at \in Naming PROVE reqs[q].batch \in Batches
    OBVIOUS
  <2> QED BY AtPlace, ByPlace DEF Naming, Removing, Checking, Uploading, Marking
<1>5. \A q \in Requests : ReadsWell(reqs[q])
  BY <1>4 DEF SentInv, NamesCreated, UploadsDecided, ReadsWell
<1>6. \A q \in Requests : ReadsWell(reqs'[q])
  BY <1>5, ReadsKept
<1>7. \A q \in Requests : reqs'[q].at = "upload" => reqs'[q].lines \subseteq Invoices
  <2> SUFFICES ASSUME NEW q \in Requests, reqs'[q].at = "upload"
               PROVE  reqs'[q].lines \subseteq Invoices
    OBVIOUS
  <2>1. reqs'[q] \in Request
    BY TypesKept DEF BankTypeOK
  <2> QED BY <2>1, ByPlace DEF Uploading
<1>8. NamesCreated'
  BY <1>1, <1>6 DEF NamesCreated, ReadsWell, BatchesGoOn
<1>9. UploadsDecided'
  BY <1>1, <1>6, <1>7 DEF UploadsDecided, ReadsWell, BatchesGoOn, Naming
<1>10. SentDecided'
  <2> SUFFICES ASSUME NEW n \in FileNos, NEW i \in files'[n].lines
               PROVE  /\ batches'[files'[n].batch].status # "NONE"
                      /\ items'[files'[n].batch][i].status \notin Undecided
    BY DEF SentDecided
  <2>1. CASE files'[n].lines = files[n].lines /\ files'[n].batch = files[n].batch
    <3>1. files[n] \in File
      BY DEF BankTypeOK
    <3>2. files[n].batch \in Batches /\ i \in Invoices
      BY <2>1, <3>1 DEF File
    <3> QED BY <1>1, <2>1, <3>2 DEF SentInv, SentDecided, BatchesGoOn
  <2>2. CASE \E q \in Requests : /\ reqs[q].at = "upload"
                               /\ files'[n].lines = reqs[q].lines
                               /\ files'[n].batch = reqs[q].batch
    BY <1>1, <1>3, <1>5, <2>2 DEF ReadsWell, BatchesGoOn, Naming
  <2> QED BY <2>1, <2>2, LinesKept
<1> QED BY <1>2, <1>8, <1>9, <1>10 DEF SentInv

(* An item the checker rejected is in no file the bank got, whatever the     *)
(* users do at the same time and whatever dies.                              *)
THEOREM RejectedStays == BankSpec => []RejectedNotSent
<1>1. BankInit => SentInv
  BY BankBoundAssumption DEF BankInit, SentInv, EmptyUntilCreated, NamesCreated, UploadsDecided,
         SentDecided, Idle, Naming
<1>2. SentInv /\ BankTypeOK /\ Answered /\ [BankNext]_bankVars => SentInv'
  BY SentKept
<1>3. SentInv => RejectedNotSent
  BY DEF SentInv, SentDecided, RejectedNotSent, Undecided
<1> QED BY <1>1, <1>2, <1>3, BankTypes, PTL DEF BankSpec
-----------------------------------------------------------------------------
(* Sums over the files. *)
Slice(a, n) == {n} \X (1..a[n])

LEMMA SliceSize ==
    ASSUME NEW a \in [FileNos -> Nat], NEW n \in FileNos
    PROVE  IsFiniteSet(Slice(a, n)) /\ Cardinality(Slice(a, n)) = a[n]
<1>1. a[n] \in Nat
  OBVIOUS
<1>2. IsFiniteSet(1..a[n]) /\ Cardinality(1..a[n]) = a[n]
  BY <1>1, FS_Interval
<1>3. IsFiniteSet({n}) /\ Cardinality({n}) = 1
  BY FS_Singleton
<1>4. /\ IsFiniteSet({n} \X (1..a[n]))
      /\ Cardinality({n} \X (1..a[n])) = Cardinality({n}) * Cardinality(1..a[n])
  BY <1>2, <1>3, FS_Product, Zenon
<1> QED BY <1>1, <1>2, <1>3, <1>4 DEF Slice

LEMMA PileMembers ==
    ASSUME NEW a
    PROVE  /\ \A x : x \in Pile(a) <=> \E n \in FileNos : x \in Slice(a, n)
           /\ \A n, k, x : x \in Slice(a, n) => x \notin Slice(a, k) \/ n = k
<1>1. \A x : x \in Pile(a) <=> \E n \in FileNos : x \in Slice(a, n)
  BY Zenon DEF Pile, Slice
<1>2. \A n, k, x : x \in Slice(a, n) => x \notin Slice(a, k) \/ n = k
  BY DEF Slice
<1> QED BY <1>1, <1>2

LEMMA TotalTyped ==
    ASSUME NEW a \in [FileNos -> Nat]
    PROVE  IsFiniteSet(Pile(a)) /\ Total(a) \in Nat
<1> DEFINE cut == [n \in FileNos |-> Slice(a, n)]
           cuts == {Slice(a, n) : n \in FileNos}
<1>1. IsFiniteSet(FileNos)
  <2>1. MaxUploads \in Nat
    BY BankBoundAssumption
  <2> QED BY <2>1, FS_Interval DEF FileNos
<1>2. cut \in Surjection(FileNos, cuts)
  BY DEF Surjection
<1>3. IsFiniteSet(cuts)
  <2> HIDE DEF cut, cuts
  <2> QED BY <1>1, <1>2, FS_Surjection
<1>4. \A c \in cuts : IsFiniteSet(c)
  BY SliceSize
<1>5. Pile(a) = UNION cuts
  BY DEF Pile, Slice
<1>6. IsFiniteSet(Pile(a))
  <2> HIDE DEF cuts
  <2> QED BY <1>3, <1>4, <1>5, FS_UNION
<1> QED BY <1>6, FS_CardinalityType DEF Total

LEMMA TotalGrows ==
    ASSUME NEW a \in [FileNos -> Nat], NEW c \in [FileNos -> Nat],
           \A n \in FileNos : a[n] <= c[n]
    PROVE  Total(a) <= Total(c)
<1>1. \A n \in FileNos : 1..a[n] \subseteq 1..c[n]
  OBVIOUS
<1>2. Pile(a) \subseteq Pile(c)
  <2>1. \A n \in FileNos : Slice(a, n) \subseteq Slice(c, n)
    BY <1>1, Zenon DEF Slice
  <2> QED BY <2>1, PileMembers
<1> QED BY <1>2, TotalTyped, FS_Subset DEF Total

(* What joins a sum at a file that had nothing. *)
LEMMA TotalAdds ==
    ASSUME NEW a \in [FileNos -> Nat], NEW c \in [FileNos -> Nat], NEW m \in FileNos,
           a[m] = 0, \A n \in FileNos \ {m} : c[n] = a[n]
    PROVE  Total(c) = Total(a) + c[m]
<1>1. \A n \in FileNos \ {m} : Slice(c, n) = Slice(a, n)
  BY DEF Slice
<1>2. Slice(a, m) = {}
  <2>1. 1..a[m] = {}
    OBVIOUS
  <2> QED BY <2>1 DEF Slice
<1>3. Pile(c) = Pile(a) \union Slice(c, m)
  BY <1>1, <1>2, PileMembers
<1>4. Pile(a) \intersect Slice(c, m) = {}
  <2> SUFFICES ASSUME NEW x \in Pile(a), x \in Slice(c, m) PROVE FALSE
    OBVIOUS
  <2>1. PICK n \in FileNos : x \in Slice(a, n)
    BY PileMembers
  <2>2. n # m
    BY <1>2, <2>1
  <2>3. x \in Slice(c, n)
    BY <1>1, <2>1, <2>2
  <2> QED BY <2>2, <2>3, PileMembers
<1>5. /\ IsFiniteSet(Pile(a)) /\ IsFiniteSet(Slice(c, m)) /\ Cardinality(Slice(c, m)) = c[m]
      /\ Cardinality(Pile(a)) \in Nat /\ c[m] \in Nat
  BY TotalTyped, SliceSize DEF Total
<1>6. Cardinality(Pile(a) \union Slice(c, m))
        = Cardinality(Pile(a)) + Cardinality(Slice(c, m)) - Cardinality(Pile(a) \intersect Slice(c, m))
  BY <1>5, FS_Union
<1>7. Cardinality(Pile(a) \intersect Slice(c, m)) = 0
  BY <1>4, FS_EmptySet
<1> QED BY <1>3, <1>5, <1>6, <1>7 DEF Total

-----------------------------------------------------------------------------
(* What an invoice shows as paid, and what a request has read of it, is      *)
(* backed by payments that no request is about to add.                       *)
InFlight(n, i) ==
    \E q \in Requests :
        reqs[q].at \in {"read", "add"} /\ reqs[q].file = n /\ reqs[q].item = i
Counted(i) == [n \in FileNos |-> IF InFlight(n, i) THEN 0 ELSE Amount(n, i)]
Backed(i) == byHand[i] + Total(Counted(i))

InFlightBooked ==
    \A q \in Requests : reqs[q].at \in {"read", "add"} => booked[reqs[q].file][reqs[q].item] = 1
SentCreated ==
    \A n \in FileNos : files[n].state # "NONE" => batches[files[n].batch].status # "NONE"
PaidBacked == \A i \in Invoices : paid[i] <= Backed(i)
SeenBacked ==
    \A q \in Requests, i \in Invoices :
        reqs[q].at \in {"add", "hand"} /\ reqs[q].item = i => reqs[q].seen <= Backed(i)

PaidInv == InFlightBooked /\ SentCreated /\ PaidBacked /\ SeenBacked

(* Everything that is known of the requests by now.                          *)
KnownInv == BankTypeOK /\ Answered /\ BookInv /\ SentInv

(* A batch that was created keeps its amounts, and a file that was sent      *)
(* keeps its batch.                                                          *)
LEMMA AmountsStay ==
    ASSUME BankTypeOK, [BankNext]_bankVars, NEW b \in Batches, batches[b].status # "NONE",
           NEW i \in Invoices
    PROVE  items'[b][i].amount = items[b][i].amount
<1>1. CASE items' = items
  BY <1>1
<1>2. ASSUME NEW c, NEW S, NEW s, SetItems(c, S, s) PROVE items'[b][i].amount = items[b][i].amount
  <2>1. items[b][i] \in Item
    BY DEF BankTypeOK
  <2>2. [items[b][i] EXCEPT !.status = s].amount = items[b][i].amount
    BY <2>1 DEF Item
  <2>3. CASE c = b
    <3>1. items'[b] = [j \in Invoices |->
                          IF j \in S THEN [items[b][j] EXCEPT !.status = s] ELSE items[b][j]]
      BY <1>2, <2>3 DEF SetItems, BankTypeOK
    <3> QED BY <2>2, <3>1
  <2>4. CASE c # b
    BY <1>2, <2>4 DEF SetItems, BankTypeOK
  <2> QED BY <2>3, <2>4
<1>3. ASSUME NEW q \in Requests, NEW c \in Batches, CreateBatch(q, c) PROVE items'[b] = items[b]
  BY <1>3 DEF CreateBatch, BankTypeOK
<1>4. ASSUME NEW q \in Requests, Maker(q) \/ Checker(q) \/ Releaser(q) \/ Hand(q)
      PROVE  items'[b][i].amount = items[b][i].amount
  BY <1>1, <1>2, <1>3, <1>4
     DEF Maker, Checker, Releaser, Hand, ReadInvoices, ReadForRemoval, RemoveItem, ReadForCheck, Check,
         ReadForRelease, Upload, MarkSent, PayByHand, CommitByHand
<1>5. ASSUME NEW q \in Requests, Poll(q) PROVE items'[b][i].amount = items[b][i].amount
  BY <1>1, <1>2, <1>5 DEF Poll, ListAnswers, FetchAnswer, OpenBatch, AckLine, BookPayment, ReadPaid,
                          AddPaid, NackLine, CloseBatch
<1>6. ASSUME NEW Q, Die(Q) PROVE items' = items
  BY <1>6 DEF Die
<1>7. ASSUME NEW n \in FileNos, BankAnswers(n) PROVE items' = items
  BY <1>7 DEF BankAnswers
<1>8. CASE UNCHANGED bankVars
  BY <1>1, <1>8 DEF bankVars
<1> QED BY <1>1, <1>4, <1>5, <1>6, <1>7, <1>8 DEF BankNext

(* A file that reaches the bank names a batch that exists, and one that has  *)
(* keeps its batch.                                                          *)
LEMMA SentStays ==
    ASSUME KnownInv, SentCreated, [BankNext]_bankVars
    PROVE  /\ SentCreated'
           /\ \A n \in FileNos : files[n].state # "NONE" => files'[n].batch = files[n].batch
<1> DEFINE Stays(n) ==
              /\ files[n].state # "NONE" => files'[n].batch = files[n].batch
              /\ files'[n].state # "NONE" =>
                    \/ files[n].state # "NONE"
                    \/ \E q \in Requests : reqs[q].at = "upload" /\ files'[n].batch = reqs[q].batch
<1>1. \A n \in FileNos : files[n] \in File
  BY DEF KnownInv, BankTypeOK
<1>2. ASSUME files' = files, NEW n \in FileNos PROVE Stays(n)
  BY <1>2
<1>3. ASSUME NEW q \in Requests, reqs[q].at = "upload", Arrives(q), NEW n \in FileNos PROVE Stays(n)
  <2>1. PICK m \in FileNos :
          /\ files[m].state = "NONE"
          /\ files' = [files EXCEPT ![m] =
                         [files[m] EXCEPT !.state = "IN", !.batch = reqs[q].batch,
                                          !.by = reqs[q].user, !.lines = reqs[q].lines]]
    BY <1>3 DEF Arrives
  <2>2. files'[m].batch = reqs[q].batch
    BY <1>1, <2>1 DEF KnownInv, BankTypeOK, File
  <2>3. n # m => files'[n] = files[n]
    BY <2>1
  <2> QED BY <1>3, <2>1, <2>2, <2>3
<1>4. ASSUME NEW q \in Requests, FetchAnswer(q), NEW n \in FileNos PROVE Stays(n)
  <2>1. \/ files' = files
        \/ \E m \in reqs[q].listed : files' = [files EXCEPT ![m] = [files[m] EXCEPT !.archived = TRUE]]
    BY <1>4 DEF FetchAnswer
  <2>2. /\ [files[n] EXCEPT !.archived = TRUE].state = files[n].state
        /\ [files[n] EXCEPT !.archived = TRUE].batch = files[n].batch
    BY <1>1 DEF File
  <2> QED BY <2>1, <2>2 DEF KnownInv, BankTypeOK
<1>5. ASSUME NEW m \in FileNos, BankAnswers(m), NEW n \in FileNos PROVE Stays(n)
  <2>1. files'[m].batch = files[m].batch /\ files[m].state = "IN"
    BY <1>1, <1>5 DEF BankAnswers, KnownInv, BankTypeOK, File
  <2> QED BY <1>5, <2>1, OneAnswered DEF KnownInv
<1>6. ASSUME NEW q \in Requests, Poll(q), NEW n \in FileNos PROVE Stays(n)
  BY <1>2, <1>4, <1>6 DEF Poll, ListAnswers, OpenBatch, AckLine, BookPayment, ReadPaid, AddPaid,
                          NackLine, CloseBatch
<1>7. ASSUME NEW q \in Requests, Maker(q) \/ Checker(q) \/ Hand(q) PROVE files' = files
  BY <1>7 DEF Maker, Checker, Hand, ReadInvoices, CreateBatch, ReadForRemoval, RemoveItem,
              ReadForCheck, Check, PayByHand, CommitByHand
<1>8. ASSUME NEW q \in Requests, Releaser(q), NEW n \in FileNos PROVE Stays(n)
  BY <1>2, <1>3, <1>8 DEF Releaser, ReadForRelease, Upload, MarkSent
<1>9. ASSUME NEW Q, Die(Q) PROVE files' = files
  BY <1>9 DEF Die
<1>10. ASSUME UNCHANGED bankVars PROVE files' = files
  BY <1>10 DEF bankVars
<1>11. ASSUME NEW n \in FileNos PROVE Stays(n)
  <2> HIDE DEF Stays
  <2> QED BY <1>2, <1>5, <1>6, <1>7, <1>8, <1>9, <1>10 DEF BankNext
<1>12. ASSUME NEW n \in FileNos, files'[n].state # "NONE"
       PROVE  batches'[files'[n].batch].status # "NONE"
  <2>1. files[n].batch \in Batches
    BY <1>1 DEF File
  <2>2. \A q \in Requests : reqs[q].at = "upload" => reqs[q].batch \in Batches
    <3> SUFFICES ASSUME NEW q \in Requests, reqs[q].at = "upload" PROVE reqs[q].batch \in Batches
      OBVIOUS
    <3> QED BY AtPlace, ByPlace DEF Uploading, KnownInv
  <2>3. BatchesGoOn
    BY BatchesKept DEF KnownInv
  <2> QED BY <1>11, <1>12, <2>1, <2>2, <2>3
          DEF SentCreated, BatchesGoOn, KnownInv, SentInv, NamesCreated, Naming
<1> QED BY <1>11, <1>12 DEF SentCreated

(* The types of sums and of what requests have read, now and after a step.   *)
AmountsFit ==
    \A n \in FileNos, i \in Invoices :
        /\ booked[n][i] \in Nat /\ items[files[n].batch][i].amount \in Nat
        /\ Amount(n, i) \in Nat
CountedFits ==
    \A i \in Invoices :
        /\ Counted(i) \in [FileNos -> Nat] /\ Total(Counted(i)) \in Nat
        /\ Backed(i) \in Nat /\ paid[i] \in Nat /\ byHand[i] \in Nat
SeenFits ==
    \A q \in Requests :
        /\ reqs[q].at \in {"add", "hand"} => reqs[q].item \in Invoices /\ reqs[q].seen \in Nat
        /\ reqs[q].at \in {"book", "read", "add"} =>
              /\ reqs[q].file \in FileNos /\ reqs[q].item \in Invoices
              /\ reqs[q].file \in Held(reqs[q])

LEMMA AllFit == BankTypeOK => AmountsFit /\ CountedFits /\ SeenFits
<1> SUFFICES ASSUME BankTypeOK PROVE AmountsFit /\ CountedFits /\ SeenFits
  OBVIOUS
<1>1. ASSUME NEW n \in FileNos, NEW i \in Invoices
      PROVE  /\ booked[n][i] \in Nat /\ items[files[n].batch][i].amount \in Nat
             /\ Amount(n, i) \in Nat
  <2>1. files[n].batch \in Batches
    BY DEF BankTypeOK, File
  <2>2. items[files[n].batch][i] \in Item
    BY <2>1 DEF BankTypeOK
  <2>3. booked[n][i] \in Nat /\ items[files[n].batch][i].amount \in Nat
    BY <2>2 DEF BankTypeOK, Item
  <2> QED BY <2>3 DEF Amount
<1>2. ASSUME NEW i \in Invoices
      PROVE  /\ Counted(i) \in [FileNos -> Nat] /\ Total(Counted(i)) \in Nat
             /\ Backed(i) \in Nat /\ paid[i] \in Nat /\ byHand[i] \in Nat
  <2>1. Counted(i) \in [FileNos -> Nat]
    BY <1>1 DEF Counted
  <2>2. paid[i] \in Nat /\ byHand[i] \in Nat
    BY DEF BankTypeOK
  <2> QED BY <2>1, <2>2, TotalTyped DEF Backed
<1>3. SeenFits
  BY AtPlace, ByPlace, HeldKnown DEF SeenFits, Adding, Handing, Booking
<1> QED BY <1>1, <1>2, <1>3 DEF AmountsFit, CountedFits

LEMMA AllFitNext == BankTypeOK' => AmountsFit' /\ CountedFits' /\ SeenFits'
BY AllFit, PTL

(* What a booked line adds does not change any more.                         *)
LEMMA AmountsKept ==
    ASSUME KnownInv, KnownInv', SentCreated, [BankNext]_bankVars,
           NEW n \in FileNos, NEW i \in Invoices, booked'[n][i] = booked[n][i]
    PROVE  Amount(n, i)' = Amount(n, i)
<1>1. CASE booked[n][i] = 0
  <2>1. /\ items[files[n].batch][i].amount \in Nat
        /\ (items[files[n].batch][i].amount)' \in Nat
    BY AllFit, AllFitNext DEF AmountsFit, KnownInv
  <2> QED BY <1>1, <2>1 DEF Amount
<1>2. CASE booked[n][i] # 0
  <2>1. files[n].state \in {"ACK", "NACK"} /\ files[n].batch \in Batches
    BY <1>2 DEF KnownInv, BookInv, FilesOK, BankTypeOK, File
  <2>2. files'[n].batch = files[n].batch
    BY <2>1, SentStays
  <2>3. items'[files[n].batch][i].amount = items[files[n].batch][i].amount
    BY <2>1, AmountsStay DEF SentCreated, KnownInv
  <2> QED BY <2>2, <2>3 DEF Amount
<1> QED BY <1>1, <1>2

LEMMA BackedGrows ==
    ASSUME KnownInv, KnownInv', SentCreated, [BankNext]_bankVars, NEW i \in Invoices,
           byHand[i] <= byHand'[i],
           \A n \in FileNos : \/ booked[n][i] = 0 \/ InFlight(n, i)
                              \/ booked'[n][i] = booked[n][i] /\ ~InFlight(n, i)'
    PROVE  Backed(i) <= Backed(i)'
<1>1. /\ Counted(i) \in [FileNos -> Nat] /\ Counted(i)' \in [FileNos -> Nat]
      /\ Total(Counted(i)) \in Nat /\ Total(Counted(i)') \in Nat
  BY AllFit, AllFitNext DEF CountedFits, KnownInv
<1>2. ASSUME NEW n \in FileNos PROVE Counted(i)[n] <= Counted(i)'[n]
  <2>1. CASE booked[n][i] = 0 \/ InFlight(n, i)
    <3>1. booked[n][i] = 0 => Amount(n, i) = 0
      BY AllFit DEF AmountsFit, Amount, KnownInv
    <3>2. Counted(i)[n] = 0
      BY <2>1, <3>1 DEF Counted
    <3> QED BY <1>1, <3>2
  <2>2. CASE booked'[n][i] = booked[n][i] /\ ~InFlight(n, i)' /\ ~InFlight(n, i)
    <3>1. Amount(n, i)' = Amount(n, i)
      BY <2>2, AmountsKept
    <3>2. Counted(i)[n] = Amount(n, i) /\ Counted(i)'[n] = Amount(n, i)'
      BY <2>2 DEF Counted
    <3> QED BY <1>1, <3>1, <3>2
  <2> QED BY <2>1, <2>2
<1>3. Total(Counted(i)) <= Total(Counted(i)')
  BY <1>1, <1>2, TotalGrows
<1>4. byHand[i] \in Nat /\ byHand'[i] \in Nat
  BY AllFit, AllFitNext DEF CountedFits, KnownInv
<1> QED BY <1>1, <1>3, <1>4 DEF Backed

(* A step of the others: nothing is booked or paid, and a request can at     *)
(* most have read what is paid.                                              *)
Reads(r, s) ==
    \/ s = r
    \/ s.at \notin {"read", "add", "hand"}
    \/ s.at = "hand" /\ s.seen = paid[s.item]
    \/ /\ r.at = "read" /\ s.at = "add" /\ s.file = r.file /\ s.item = r.item
       /\ s.seen = paid[s.item]
ReadsOnly ==
    /\ UNCHANGED <<booked, byHand, paid>>
    /\ \A q \in Requests : Reads(reqs[q], reqs'[q])

LEMMA GotoReads ==
    ASSUME BankTypeOK, NEW q \in Requests, NEW s, Goto(q, s), Reads(reqs[q], s),
           UNCHANGED <<booked, byHand, paid>>
    PROVE  ReadsOnly
BY DEF Goto, BankTypeOK, ReadsOnly, Reads

LEMMA OtherSteps ==
    ASSUME BankTypeOK, [BankNext]_bankVars,
           ~\E q \in Requests : BookPayment(q) \/ AddPaid(q) \/ CommitByHand(q)
    PROVE  ReadsOnly
<1>1. ASSUME NEW q \in Requests, Maker(q) PROVE ReadsOnly
  <2>1. CASE \E u \in Makers, S \in SUBSET Invoices : ReadInvoices(q, u, S)
    BY <2>1, GotoReads DEF ReadInvoices, Reads
  <2>2. CASE (\E b \in Batches : CreateBatch(q, b)) \/ RemoveItem(q)
    BY <2>2, GotoReads DEF CreateBatch, RemoveItem, Done, Idle, Reads
  <2>3. CASE \E u \in Makers, b \in Batches, i \in Invoices : ReadForRemoval(q, u, b, i)
    BY <2>3, GotoReads DEF ReadForRemoval, Reads
  <2> QED BY <1>1, <2>1, <2>2, <2>3 DEF Maker
<1>2. ASSUME NEW q \in Requests, Checker(q) PROVE ReadsOnly
  <2>1. CASE Check(q)
    BY <2>1, GotoReads DEF Check, Done, Idle, Reads
  <2>2. CASE \E u \in Checkers, b \in Batches, v \in {"APPROVED", "REJECTED"} :
               ReadForCheck(q, u, b, v)
    BY <2>2, GotoReads DEF ReadForCheck, Reads
  <2> QED BY <1>2, <2>1, <2>2 DEF Checker
<1>3. ASSUME NEW q \in Requests, Releaser(q) PROVE ReadsOnly
  <2>1. CASE \E u \in Releasers, b \in Batches : ReadForRelease(q, u, b)
    BY <2>1, GotoReads DEF ReadForRelease, Reads
  <2>2. CASE Upload(q)
    <3>1. Goto(q, [at |-> "mark", batch |-> reqs[q].batch]) \/ Goto(q, Idle)
      BY <2>2 DEF Upload, Done
    <3> QED BY <2>2, <3>1, GotoReads DEF Upload, Idle, Reads
  <2>3. CASE MarkSent(q)
    BY <2>3, GotoReads DEF MarkSent, Done, Idle, Reads
  <2> QED BY <1>3, <2>1, <2>2, <2>3 DEF Releaser
<1>4. ASSUME NEW q \in Requests, \E i \in Invoices : \E amount \in 1..Net[i] : PayByHand(q, i, amount)
      PROVE  ReadsOnly
  <2>1. PICK i \in Invoices : \E amount \in 1..Net[i] : PayByHand(q, i, amount)
    BY <1>4
  <2>2. PICK amount \in 1..Net[i] : PayByHand(q, i, amount)
    BY <2>1
  <2> QED BY <2>2, GotoReads DEF PayByHand, Reads
<1>5. ASSUME NEW q \in Requests, Poll(q) PROVE ReadsOnly
  <2> DEFINE r == reqs[q]
  <2>0. ASSUME NEW s, s.at \notin {"read", "add", "hand"}, Goto(q, s),
               UNCHANGED <<booked, byHand, paid>>
        PROVE  ReadsOnly
    BY <2>0, GotoReads DEF Reads
  <2>1. CASE ListAnswers(q)
    BY <2>0, <2>1 DEF ListAnswers
  <2>2. CASE FetchAnswer(q)
    <3>1. r \in Fetching
      BY <2>2, AtPlace, ByPlace DEF FetchAnswer
    <3>2. \A n \in r.listed : [r EXCEPT !.listed = @ \ {n}, !.got = @ \union {n}].at = "fetch"
      BY <3>1 DEF Fetching
    <3>3. UNCHANGED <<booked, byHand, paid>>
      BY <2>2 DEF FetchAnswer
    <3>4. CASE Goto(q, Idle)
      BY <2>0, <3>3, <3>4 DEF Idle
    <3>5. CASE Goto(q, [at |-> "files", got |-> r.got])
      BY <2>0, <3>3, <3>5
    <3>6. ASSUME NEW n \in r.listed, Goto(q, [r EXCEPT !.listed = @ \ {n}, !.got = @ \union {n}])
          PROVE  ReadsOnly
      BY <2>0, <3>2, <3>3, <3>6
    <3> QED BY <2>2, <3>4, <3>5, <3>6 DEF FetchAnswer, Done
  <2>3. CASE OpenBatch(q)
    <3>1. r \in Opening
      BY <2>3, AtPlace, ByPlace DEF OpenBatch
    <3>2. \A n \in r.got : [r EXCEPT !.got = @ \ {n}].at = "files"
      BY <3>1 DEF Opening
    <3>3. UNCHANGED <<booked, byHand, paid>>
      BY <2>3 DEF OpenBatch
    <3>4. \A n \in r.got : files[n].state \in {"NONE", "IN", "ACK", "NACK"}
      <4>1. \A n \in r.got : files[n] \in File
        BY <3>1 DEF Opening, BankTypeOK
      <4> QED BY <4>1 DEF File
    <3>5. CASE Goto(q, Idle)
      BY <2>0, <3>3, <3>5 DEF Idle
    <3>6. ASSUME NEW n \in r.got, Goto(q, [r EXCEPT !.got = @ \ {n}]) PROVE ReadsOnly
      BY <2>0, <3>2, <3>3, <3>6
    <3>7. ASSUME NEW n \in r.got,
                 Goto(q, [at |-> files[n].state, got |-> r.got \ {n}, file |-> n,
                          lines |-> Lines(files[n].batch, "SENT")])
          PROVE  ReadsOnly
      BY <2>0, <3>3, <3>4, <3>7
    <3> QED BY <2>3, <3>5, <3>6, <3>7 DEF OpenBatch, Done
  <2>4. CASE AckLine(q) \/ NackLine(q)
    <3>1. r \in Applying
      BY <2>4, AtPlace, ByPlace DEF AckLine, NackLine
    <3>2. \A i \in r.lines : [r EXCEPT !.lines = @ \ {i}].at \in {"ACK", "NACK"}
      BY <3>1 DEF Applying
    <3>3. UNCHANGED <<booked, byHand, paid>>
      BY <2>4 DEF AckLine, NackLine
    <3>4. CASE Goto(q, Idle)
      BY <2>0, <3>3, <3>4 DEF Idle
    <3>5. ASSUME NEW i \in r.lines, Goto(q, [r EXCEPT !.lines = @ \ {i}]) PROVE ReadsOnly
      BY <2>0, <3>2, <3>3, <3>5
    <3>6. ASSUME NEW i \in r.lines, Goto(q, [at |-> "book", got |-> r.got, file |-> r.file,
                                             lines |-> r.lines, item |-> i])
          PROVE  ReadsOnly
      BY <2>0, <3>3, <3>6
    <3> QED BY <2>4, <3>4, <3>5, <3>6 DEF AckLine, NackLine, Done
  <2>5. CASE ReadPaid(q)
    BY <2>5, GotoReads DEF ReadPaid, Reads
  <2>6. CASE CloseBatch(q)
    BY <2>0, <2>6 DEF CloseBatch
  <2> QED BY <1>5, <2>1, <2>2, <2>3, <2>4, <2>5, <2>6 DEF Poll
<1>6. ASSUME NEW Q, Die(Q) PROVE ReadsOnly
  BY <1>6 DEF Die, Idle, Reads, ReadsOnly
<1>7. ASSUME NEW n \in FileNos, BankAnswers(n) PROVE ReadsOnly
  BY <1>7 DEF BankAnswers, Reads, ReadsOnly
<1>8. CASE UNCHANGED bankVars
  BY <1>8 DEF bankVars, Reads, ReadsOnly
<1> QED BY <1>1, <1>2, <1>3, <1>4, <1>5, <1>6, <1>7, <1>8 DEF BankNext, Hand

LEMMA OthersPay ==
    ASSUME KnownInv, KnownInv', PaidInv, [BankNext]_bankVars, ReadsOnly
    PROVE  PaidInv'
<1>1. ASSUME NEW n, NEW i, InFlight(n, i)' PROVE InFlight(n, i)
  <2>1. PICK q \in Requests : reqs'[q].at \in {"read", "add"} /\ reqs'[q].file = n /\ reqs'[q].item = i
    BY <1>1 DEF InFlight
  <2>2. reqs[q].at \in {"read", "add"} /\ reqs[q].file = n /\ reqs[q].item = i
    BY <2>1 DEF ReadsOnly, Reads
  <2> QED BY <2>2 DEF InFlight
<1>2. ASSUME NEW i \in Invoices PROVE Backed(i) <= Backed(i)'
  <2>1. byHand[i] \in Nat
    BY DEF KnownInv, BankTypeOK
  <2> QED BY <1>1, <2>1, BackedGrows DEF ReadsOnly, PaidInv
<1>3. \A i \in Invoices : Backed(i) \in Nat /\ Backed(i)' \in Nat /\ paid[i] \in Nat
  BY AllFit, AllFitNext DEF CountedFits, KnownInv
<1>4. InFlightBooked'
  BY DEF PaidInv, InFlightBooked, ReadsOnly, Reads
<1>5. PaidBacked'
  <2> SUFFICES ASSUME NEW i \in Invoices PROVE paid'[i] <= Backed(i)'
    BY DEF PaidBacked
  <2> QED BY <1>2, <1>3 DEF PaidInv, PaidBacked, ReadsOnly
<1>6. SeenBacked'
  <2> SUFFICES ASSUME NEW q \in Requests, NEW i \in Invoices,
                      reqs'[q].at \in {"add", "hand"}, reqs'[q].item = i
               PROVE  reqs'[q].seen <= Backed(i)'
    BY DEF SeenBacked
  <2>1. reqs'[q].seen \in Nat
    BY AllFitNext DEF SeenFits, KnownInv
  <2>2. reqs'[q].seen <= Backed(i)
    <3>1. CASE reqs'[q] = reqs[q]
      BY <3>1 DEF PaidInv, SeenBacked
    <3>2. CASE reqs'[q].seen = paid[reqs'[q].item]
      BY <3>2 DEF PaidInv, PaidBacked
    <3> QED BY <3>1, <3>2 DEF ReadsOnly, Reads
  <2> QED BY <1>2, <1>3, <2>1, <2>2
<1>7. SentCreated'
  BY SentStays DEF PaidInv
<1> QED BY <1>4, <1>5, <1>6, <1>7 DEF PaidInv

(* A line that is booked is on its way from then on; it was worth nothing.   *)
LEMMA BookingPays ==
    ASSUME KnownInv, KnownInv', PaidInv, [BankNext]_bankVars, NEW q \in Requests, BookPayment(q)
    PROVE  PaidInv'
<1> DEFINE r == reqs[q]
<1>1. r \in Booking /\ r.at = "book"
  BY AtPlace, ByPlace DEF BookPayment, KnownInv
<1>2. booked[r.file][r.item] = 0 /\ r.file \in FileNos /\ r.item \in Invoices
  <2>1. HoldsOK(r, files, booked)
    BY DEF KnownInv, BookInv, EachHolds
  <2> QED BY <1>1, <2>1 DEF HoldsOK, ToBook, Booking
<1>3. /\ reqs'[q].at = "read" /\ reqs'[q].file = r.file /\ reqs'[q].item = r.item
      /\ \A p \in Requests \ {q} : reqs'[p] = reqs[p]
      /\ UNCHANGED <<paid, byHand>>
  BY <1>1 DEF BookPayment, Goto, KnownInv, BankTypeOK, Booking
<1>4. \A n \in FileNos, i \in Invoices :
        booked'[n][i] = IF n = r.file /\ i = r.item THEN 1 ELSE booked[n][i]
  BY <1>2 DEF BookPayment, KnownInv, BankTypeOK
<1>5. ASSUME NEW i \in Invoices PROVE Backed(i) <= Backed(i)'
  <2>1. ASSUME NEW n \in FileNos
        PROVE  \/ booked[n][i] = 0 \/ InFlight(n, i)
               \/ booked'[n][i] = booked[n][i] /\ ~InFlight(n, i)'
    <3>1. CASE n = r.file /\ i = r.item
      BY <1>2, <3>1
    <3>2. CASE ~(n = r.file /\ i = r.item)
      <4>1. booked'[n][i] = booked[n][i]
        BY <1>4, <3>2
      <4>2. InFlight(n, i)' => InFlight(n, i)
        BY <1>3, <3>2 DEF InFlight
      <4> QED BY <4>1, <4>2
    <3> QED BY <3>1, <3>2
  <2>2. byHand[i] <= byHand'[i]
    BY <1>3, AllFit DEF CountedFits, KnownInv
  <2> QED BY <2>1, <2>2, BackedGrows DEF PaidInv
<1>6. \A i \in Invoices : Backed(i) \in Nat /\ Backed(i)' \in Nat /\ paid[i] \in Nat
  BY AllFit, AllFitNext DEF CountedFits, KnownInv
<1>7. InFlightBooked'
  <2> SUFFICES ASSUME NEW p \in Requests, reqs'[p].at \in {"read", "add"}
               PROVE  booked'[reqs'[p].file][reqs'[p].item] = 1
    BY DEF InFlightBooked
  <2>1. reqs'[p].file \in FileNos /\ reqs'[p].item \in Invoices
    BY AllFitNext DEF SeenFits, KnownInv
  <2>2. CASE p = q
    BY <1>2, <1>3, <1>4, <2>2
  <2>3. CASE p # q
    BY <1>3, <1>4, <2>1, <2>3 DEF PaidInv, InFlightBooked
  <2> QED BY <2>2, <2>3
<1>8. PaidBacked'
  <2> SUFFICES ASSUME NEW i \in Invoices PROVE paid'[i] <= Backed(i)'
    BY DEF PaidBacked
  <2> QED BY <1>3, <1>5, <1>6 DEF PaidInv, PaidBacked
<1>9. SeenBacked'
  <2> SUFFICES ASSUME NEW p \in Requests, NEW i \in Invoices,
                      reqs'[p].at \in {"add", "hand"}, reqs'[p].item = i
               PROVE  reqs'[p].seen <= Backed(i)'
    BY DEF SeenBacked
  <2>1. reqs'[p] = reqs[p] /\ reqs'[p].seen \in Nat
    BY <1>3, AllFitNext DEF SeenFits, KnownInv
  <2>2. reqs'[p].seen <= Backed(i)
    BY <2>1 DEF PaidInv, SeenBacked
  <2> QED BY <1>5, <1>6, <2>1, <2>2
<1>10. SentCreated'
  BY SentStays DEF PaidInv
<1> QED BY <1>7, <1>8, <1>9, <1>10 DEF PaidInv

(* What is added was on its way, and only this request was at it.            *)
LEMMA AddingPays ==
    ASSUME KnownInv, KnownInv', PaidInv, [BankNext]_bankVars, NEW q \in Requests, AddPaid(q)
    PROVE  PaidInv'
<1> DEFINE r == reqs[q]
<1>0. r.at = "add" /\ r.file \in FileNos /\ r.item \in Invoices
  <2>1. r.at = "add"
    BY DEF AddPaid
  <2> QED BY <2>1, AllFit DEF SeenFits, KnownInv
<1> SUFFICES ASSUME NEW m \in FileNos, NEW k \in Invoices, m = r.file, k = r.item PROVE PaidInv'
  BY <1>0
<1>1. r.at = "add" /\ m \in Held(r) /\ r.seen \in Nat /\ booked[m][k] = 1
  BY <1>0, AllFit DEF SeenFits, KnownInv, PaidInv, InFlightBooked
<1>2. /\ booked' = booked /\ byHand' = byHand
      /\ paid' = [paid EXCEPT ![k] = r.seen + items[files[m].batch][k].amount]
      /\ reqs'[q].at \in {"idle", "ACK"}
      /\ \A p \in Requests \ {q} : reqs'[p] = reqs[p]
  BY DEF AddPaid, Done, Idle, Goto, KnownInv, BankTypeOK
<1>3. ASSUME NEW n, NEW i, InFlight(n, i)' PROVE InFlight(n, i) /\ n # m
  <2>1. PICK p \in Requests : reqs'[p].at \in {"read", "add"} /\ reqs'[p].file = n /\ reqs'[p].item = i
    BY <1>3 DEF InFlight
  <2>2. p # q /\ reqs'[p] = reqs[p]
    BY <1>2, <2>1
  <2>3. n \in Held(reqs[p])
    BY <2>1, <2>2, AllFit DEF SeenFits, KnownInv
  <2> QED BY <1>1, <2>1, <2>2, <2>3 DEF InFlight, KnownInv, BookInv, Apart
<1>4. \A i \in Invoices : Backed(i) \in Nat /\ Backed(i)' \in Nat /\ paid[i] \in Nat /\ byHand[i] \in Nat
  BY AllFit, AllFitNext DEF CountedFits, KnownInv
<1>5. ASSUME NEW i \in Invoices PROVE Backed(i) <= Backed(i)'
  <2>1. byHand[i] <= byHand'[i]
    BY <1>2, <1>4
  <2> QED BY <1>2, <1>3, <2>1, BackedGrows DEF PaidInv
<1>6. Backed(k)' = Backed(k) + items[files[m].batch][k].amount
  <2>1. ASSUME NEW n \in FileNos PROVE Amount(n, k)' = Amount(n, k)
    BY <1>1, <1>2, AmountsKept DEF PaidInv
  <2>2. Counted(k)[m] = 0
    BY <1>1 DEF Counted, InFlight
  <2>3. Amount(m, k) = items[files[m].batch][k].amount
    <3>1. items[files[m].batch][k].amount \in Nat
      BY <1>1, AllFit DEF AmountsFit, KnownInv
    <3> QED BY <1>1, <3>1 DEF Amount
  <2>4. Counted(k)'[m] = items[files[m].batch][k].amount
    <3>1. ~InFlight(m, k)'
      BY <1>3
    <3>2. Counted(k)'[m] = Amount(m, k)'
      BY <1>1, <3>1 DEF Counted
    <3> QED BY <1>1, <2>1, <2>3, <3>2
  <2>5. ASSUME NEW n \in FileNos \ {m} PROVE Counted(k)'[n] = Counted(k)[n]
    <3>1. InFlight(n, k) => InFlight(n, k)'
      BY <1>2 DEF InFlight
    <3>2. InFlight(n, k)' <=> InFlight(n, k)
      BY <1>3, <3>1
    <3>3. /\ Counted(k)'[n] = IF InFlight(n, k)' THEN 0 ELSE Amount(n, k)'
          /\ Counted(k)[n] = IF InFlight(n, k) THEN 0 ELSE Amount(n, k)
      BY DEF Counted
    <3> QED BY <2>1, <3>2, <3>3
  <2>6. /\ Counted(k) \in [FileNos -> Nat] /\ Counted(k)' \in [FileNos -> Nat]
        /\ Total(Counted(k)) \in Nat
    BY <1>1, AllFit, AllFitNext DEF CountedFits, KnownInv
  <2>7. Total(Counted(k)') = Total(Counted(k)) + Counted(k)'[m]
    BY <1>1, <2>2, <2>5, <2>6, TotalAdds
  <2>8. Backed(k)' = byHand'[k] + Total(Counted(k)')
    BY DEF Backed
  <2>9. items[files[m].batch][k].amount \in Nat /\ byHand[k] \in Nat
    BY <1>1, <1>4, AllFit DEF AmountsFit, KnownInv
  <2> QED BY <1>2, <2>4, <2>6, <2>7, <2>8, <2>9 DEF Backed
<1>7. InFlightBooked'
  <2> SUFFICES ASSUME NEW p \in Requests, reqs'[p].at \in {"read", "add"}
               PROVE  booked'[reqs'[p].file][reqs'[p].item] = 1
    BY DEF InFlightBooked
  <2> QED BY <1>2 DEF PaidInv, InFlightBooked
<1>8. PaidBacked'
  <2> SUFFICES ASSUME NEW i \in Invoices PROVE paid'[i] <= Backed(i)'
    BY DEF PaidBacked
  <2>1. CASE i = k
    <3>1. r.seen <= Backed(k)
      BY <1>1 DEF PaidInv, SeenBacked
    <3>2. items[files[m].batch][k].amount \in Nat
      BY <1>1, AllFit DEF AmountsFit, KnownInv
    <3>3. paid'[i] = r.seen + items[files[m].batch][k].amount
      BY <1>1, <1>2, <2>1 DEF KnownInv, BankTypeOK
    <3> QED BY <1>1, <1>4, <1>6, <2>1, <3>1, <3>2, <3>3
  <2>2. CASE i # k
    <3>1. paid'[i] = paid[i]
      BY <1>2, <2>2 DEF KnownInv, BankTypeOK
    <3> QED BY <1>4, <1>5, <3>1 DEF PaidInv, PaidBacked
  <2> QED BY <2>1, <2>2
<1>9. SeenBacked'
  <2> SUFFICES ASSUME NEW p \in Requests, NEW i \in Invoices,
                      reqs'[p].at \in {"add", "hand"}, reqs'[p].item = i
               PROVE  reqs'[p].seen <= Backed(i)'
    BY DEF SeenBacked
  <2>1. reqs'[p] = reqs[p] /\ reqs'[p].seen \in Nat
    BY <1>2, AllFitNext DEF SeenFits, KnownInv
  <2>2. reqs'[p].seen <= Backed(i)
    BY <2>1 DEF PaidInv, SeenBacked
  <2> QED BY <1>4, <1>5, <2>1, <2>2
<1>10. SentCreated'
  BY SentStays DEF PaidInv
<1> QED BY <1>7, <1>8, <1>9, <1>10 DEF PaidInv

LEMMA HandPays ==
    ASSUME KnownInv, KnownInv', PaidInv, [BankNext]_bankVars, NEW q \in Requests, CommitByHand(q)
    PROVE  PaidInv'
<1> DEFINE r == reqs[q]
<1>0. r.at = "hand" /\ r.item \in Invoices /\ r.seen \in Nat /\ r.amount \in Nat
  BY AtPlace, ByPlace DEF CommitByHand, KnownInv, Handing
<1> SUFFICES ASSUME NEW k \in Invoices, k = r.item PROVE PaidInv'
  BY <1>0
<1>1. r.at = "hand" /\ r.seen \in Nat /\ r.amount \in Nat
  BY <1>0
<1>2. /\ booked' = booked
      /\ byHand' = [byHand EXCEPT ![k] = @ + r.amount]
      /\ paid' = [paid EXCEPT ![k] = r.seen + r.amount]
      /\ reqs'[q].at = "idle"
      /\ \A p \in Requests \ {q} : reqs'[p] = reqs[p]
  BY DEF CommitByHand, Done, Idle, Goto, KnownInv, BankTypeOK
<1>3. \A n, i : InFlight(n, i)' => InFlight(n, i)
  BY <1>2 DEF InFlight
<1>4. \A i \in Invoices : Backed(i) \in Nat /\ Backed(i)' \in Nat /\ paid[i] \in Nat /\ byHand[i] \in Nat
  BY AllFit, AllFitNext DEF CountedFits, KnownInv
<1>5. \A i \in Invoices : byHand'[i] = IF i = k THEN byHand[i] + r.amount ELSE byHand[i]
  BY <1>1, <1>2 DEF KnownInv, BankTypeOK
<1>6. ASSUME NEW i \in Invoices PROVE Backed(i) <= Backed(i)'
  <2>1. byHand[i] <= byHand'[i]
    BY <1>1, <1>4, <1>5
  <2> QED BY <1>2, <1>3, <2>1, BackedGrows DEF PaidInv
<1>7. Backed(k) + r.amount <= Backed(k)'
  <2>1. /\ Counted(k) \in [FileNos -> Nat] /\ Counted(k)' \in [FileNos -> Nat]
        /\ Total(Counted(k)) \in Nat /\ Total(Counted(k)') \in Nat
    BY <1>1, AllFit, AllFitNext DEF CountedFits, KnownInv
  <2>2. ASSUME NEW n \in FileNos PROVE Counted(k)[n] <= Counted(k)'[n]
    <3>1. Amount(n, k)' = Amount(n, k)
      BY <1>1, <1>2, AmountsKept DEF PaidInv
    <3>2. /\ Counted(k)'[n] = IF InFlight(n, k)' THEN 0 ELSE Amount(n, k)'
          /\ Counted(k)[n] = IF InFlight(n, k) THEN 0 ELSE Amount(n, k)
      BY DEF Counted
    <3> QED BY <1>3, <2>1, <3>1, <3>2
  <2>3. Total(Counted(k)) <= Total(Counted(k)')
    BY <2>1, <2>2, TotalGrows
  <2>4. Backed(k)' = byHand'[k] + Total(Counted(k)') /\ Backed(k) = byHand[k] + Total(Counted(k))
    BY DEF Backed
  <2> QED BY <1>1, <1>4, <1>5, <2>1, <2>3, <2>4
<1>8. InFlightBooked'
  <2> SUFFICES ASSUME NEW p \in Requests, reqs'[p].at \in {"read", "add"}
               PROVE  booked'[reqs'[p].file][reqs'[p].item] = 1
    BY DEF InFlightBooked
  <2> QED BY <1>2 DEF PaidInv, InFlightBooked
<1>9. PaidBacked'
  <2> SUFFICES ASSUME NEW i \in Invoices PROVE paid'[i] <= Backed(i)'
    BY DEF PaidBacked
  <2>1. CASE i = k
    <3>1. r.seen <= Backed(k)
      BY <1>1 DEF PaidInv, SeenBacked
    <3>2. paid'[i] = r.seen + r.amount
      BY <1>1, <1>2, <2>1 DEF KnownInv, BankTypeOK
    <3> QED BY <1>1, <1>4, <1>7, <2>1, <3>1, <3>2
  <2>2. CASE i # k
    <3>1. paid'[i] = paid[i]
      BY <1>2, <2>2 DEF KnownInv, BankTypeOK
    <3> QED BY <1>4, <1>6, <3>1 DEF PaidInv, PaidBacked
  <2> QED BY <2>1, <2>2
<1>10. SeenBacked'
  <2> SUFFICES ASSUME NEW p \in Requests, NEW i \in Invoices,
                      reqs'[p].at \in {"add", "hand"}, reqs'[p].item = i
               PROVE  reqs'[p].seen <= Backed(i)'
    BY DEF SeenBacked
  <2>1. reqs'[p] = reqs[p] /\ reqs'[p].seen \in Nat
    BY <1>2, AllFitNext DEF SeenFits, KnownInv
  <2>2. reqs'[p].seen <= Backed(i)
    BY <2>1 DEF PaidInv, SeenBacked
  <2> QED BY <1>4, <1>6, <2>1, <2>2
<1>11. SentCreated'
  BY SentStays DEF PaidInv
<1> QED BY <1>8, <1>9, <1>10, <1>11 DEF PaidInv

LEMMA PaidBegins == BankInit => PaidInv
<1> SUFFICES ASSUME BankInit PROVE PaidInv
  OBVIOUS
<1>1. \A i \in Invoices : paid[i] = 0 /\ Backed(i) \in Nat
  BY AllFit, BankTypesInit DEF BankInit, CountedFits
<1>2. PaidBacked
  BY <1>1 DEF PaidBacked
<1>3. InFlightBooked /\ SentCreated /\ SeenBacked
  BY DEF BankInit, InFlightBooked, SentCreated, SeenBacked, Idle
<1> QED BY <1>2, <1>3 DEF PaidInv

LEMMA PaidGoesOn ==
    ASSUME KnownInv, KnownInv', PaidInv, [BankNext]_bankVars PROVE PaidInv'
<1>1. CASE \E q \in Requests : BookPayment(q) \/ AddPaid(q) \/ CommitByHand(q)
  BY <1>1, BookingPays, AddingPays, HandPays
<1>2. CASE ~\E q \in Requests : BookPayment(q) \/ AddPaid(q) \/ CommitByHand(q)
  <2>1. ReadsOnly
    BY <1>2, OtherSteps DEF KnownInv
  <2> QED BY <2>1, OthersPay
<1> QED BY <1>1, <1>2

(* Types, bookings and batches, all invariants so far.                       *)
THEOREM BankKnown == BankSpec => []KnownInv
<1>1. BankInit => BankTypeOK /\ Answered /\ BookInv /\ SentInv
  <2>1. BankInit => SentInv
    BY BankBoundAssumption DEF BankInit, SentInv, EmptyUntilCreated, NamesCreated, UploadsDecided,
           SentDecided, Idle, Naming
  <2>2. BankInit => BankTypeOK /\ Answered
    BY BankTypesInit DEF BankInit, Answered, Known, Idle
  <2> QED BY <2>1, <2>2, BooksBegin
<1>2. KnownInv /\ [BankNext]_bankVars => KnownInv'
  BY TypesKept, AnsweredKept, BooksGoOn, SentKept DEF KnownInv
<1> QED BY <1>1, <1>2, PTL DEF BankSpec, KnownInv

(* An invoice never shows more paid than its VendorPayments add up to: an    *)
(* addition can be lost to another request or a crash, none counts twice.    *)
THEOREM PaidNeverOverstated == BankSpec => []PaidNotOverstated
<1>1. ASSUME BankTypeOK, PaidInv PROVE PaidNotOverstated
  <2> SUFFICES ASSUME NEW i \in Invoices
               PROVE  paid[i] <= byHand[i] + Total([n \in FileNos |-> Amount(n, i)])
    BY DEF PaidNotOverstated
  <2> DEFINE all == [n \in FileNos |-> Amount(n, i)]
  <2>1. all \in [FileNos -> Nat] /\ Counted(i) \in [FileNos -> Nat]
    BY <1>1, AllFit DEF AmountsFit, CountedFits
  <2>2. \A n \in FileNos : Counted(i)[n] <= all[n]
    BY <1>1, AllFit DEF AmountsFit, Counted
  <2> HIDE DEF all
  <2>3. Total(Counted(i)) <= Total(all)
    BY <2>1, <2>2, TotalGrows
  <2>4. paid[i] <= byHand[i] + Total(Counted(i))
    BY <1>1 DEF PaidInv, PaidBacked, Backed
  <2>5. paid[i] \in Nat /\ byHand[i] \in Nat /\ Total(Counted(i)) \in Nat /\ Total(all) \in Nat
    BY <1>1, <2>1, AllFit, TotalTyped DEF CountedFits
  <2>6. paid[i] <= byHand[i] + Total(all)
    BY <2>3, <2>4, <2>5
  <2> QED BY <2>6 DEF all
<1>2. KnownInv => BankTypeOK
  BY DEF KnownInv
<1> QED BY <1>1, <1>2, PaidBegins, PaidGoesOn, BankKnown, PTL DEF BankSpec
=============================================================================
