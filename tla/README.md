# Formal models of the ethanol ERP

The repository is the ERP of an ethanol plant: a cloud backend (`backend/`), a
server inside the factory that keeps working without internet
(`factory-server/`), the PCs of the weighbridges (`weighbridge/`), bridges for
biometric devices and OPC sensors, and two frontends. What makes the business
depend on it are a few chains that cross machines, a bad connection, concurrent
HTTP handlers and background loops: a truck is weighed at the factory, the
weighment travels to the cloud, the cloud turns it into a goods receipt and
stock or into a dispatch and an invoice, and a bank pays the vendor; a finger
on a device becomes a day's attendance. The repository's comments are full of
incidents in these chains, and the models are about them.

Four parts: the inventory, the models, the proofs, the plan.

## 1. Inventory

| Component | State it keeps | Operations | Hard behaviour | Right when | Model |
|---|---|---|---|---|---|
| Factory weighment handlers (`factory-server/src/routes/weighbridge.ts`) | `Weighment`, `Counter`, `WeighmentCorrectionLog` | gate entry, gross, tare, lab, `/push` and `/wb-push` from PCs, `/correction` from the cloud | handlers await between reading a row and writing it; PCs repeat and reorder | weights add up, final tickets stay final, ticket numbers have no gap | `FactoryWeighment` |
| Scale rules (`services/ruleEngine.ts`, `pcMonitor.ts`) | the poller's view of the scale, the last captures | poll, heartbeat, check, clear with a PIN | the view is old, blind or lost in a restart | one truck is not weighed for two tickets | `ScaleRules` |
| Sync worker (`services/syncWorker.ts`, `routes/sync.ts`) | `cloudSynced` of each row, one push in flight | push 20 rows, mark what was acked, resync | edits during the round trip, lost and partial replies, restarts | nothing is marked synced that the cloud has not got | `SyncWorker`, `Delivery` |
| Raw mirror (same file, `routes/weighmentSync.ts`) | `mirrorPushedAt`, the mirror table | push due rows, upsert row by row, stamp | late requests, partial failures | the mirror has every row as it is | `RawMirror` |
| Weighbridge PC (`weighbridge/*.py`) | SQLite rows and a queue of snapshots | weigh, enqueue, post, retry, give up | threads, dead letters, factory or cloud as target | nothing queued is lost | `PcQueue` |
| Cloud push, PO inbound (`backend/src/routes/weighbridge/`) | goods receipts, order lines, grain trucks, plant issues | pre-phase, dedup, receive, move stock | several pushes at once, partial failure, retries | each truck counts once | `PoInbound` |
| Orphan watchdog (`services/orphanGrnWatchdog.ts`) | plant issues, stock movements | flag unreceived trucks, heal missing stock | runs beside the pushes it repairs | heals once | `PoInbound` |
| Dispatch and billing (`handlers/ddgsOutbound.ts`, `ddgsContracts.ts`, `ethanolGatePass.ts`, `invoices.ts`) | trucks, dispatches, contracts, invoices, counters | push, manual dispatch, invoice, delete, release, cancel | row locks in different orders, reads without locks | one invoice for a truck, a gapless series | `DispatchBilling` |
| Bank payments (`bankPayments.ts`, `bankSftp.ts`, `vendorPayments.ts`) | batches, items, files at the bank, payments | make, check, release, poll, book; pay by hand | a timed-out upload, two polls, a request that dies half-way | a line is booked once and only if paid | `BankPayments` |
| Biometric punches (`biometricScheduler.ts`, `biometricSync.ts`, `biometricFactory.ts`) | cursor, factory and cloud punches, mapping of users | pull, push, deduplicate, map | outages, time that passes during a pull, partial acks | no punch is missed or doubled | `AttendancePunches` |
| Receiving desk (`goodsReceipts.ts` and kin) | goods receipts | open, edit, confirm, cancel | check-then-write on statuses | reversals match | only the PARTIAL receipt, in `PoInbound` |
| Corrections (`weighbridgeAdmin.ts`) | `WeighmentCorrection`, receipts, factory rows | correct or cancel on both sides | two databases, no common transaction | both sides agree | the factory's half, in `FactoryWeighment` |
| Trader, spot and fallback inbound | monthly orders | find or create, receive | find-then-create | one order a month | - |
| Purchase orders, requisitions, RFQ | orders and lines | create, approve, amend, close | status written by several routes | quantities match receipts | receiving only |
| Inventory | stock levels, movements, average cost | move, count, adjust | read-then-write of the average | level is the sum of movements | one movement a receipt |
| Accounting (`autoJournal.ts`) | journals | post, reverse | hooks run after the commit they account for | one journal for each event | - |
| E-invoice, e-way bill | numbers from a government service | generate, cancel | answers lost after success | one number for each invoice | - |
| Production and fermentation | batches, phases, levels | detect phase, record fill | late and repeated readings | phases in order | - |
| HR and payroll, master data cache, backup, messaging, AI, OPC, webhooks, documents, admin, frontends | logs, caches, deliveries | send, render, read | retries | - | - |

How they interact: PCs POST to the factory server, or to the cloud when it is
unreachable; the factory's worker POSTs weighments, mirror rows and punches to
the cloud; the cloud POSTs corrections to the factory; the factory server polls
the PCs and the biometric bridge; the cloud exchanges files with the bank.
Within the cloud, handlers, desks and watchdogs share tables and nothing else.
No component calls another one under a lock.

`PROJECT.json` lists the components one by one with what is modelled of each,
and the hazards, each at its line, with the properties that are about it.

## 2. Models

| Module | What it is |
|---|---|
| `FactoryWeighment` | the factory's weighment table and its handlers |
| `ScaleRules` | the poller of the scale, the rules before a capture, the capture itself |
| `Delivery` | what the factory promises about a record it has to bring to the cloud |
| `SyncWorker` | extends `FactoryWeighment` with the worker, the connection and the cloud's ear; implements `Delivery` |
| `PcQueue` | a weighbridge PC, its queue and loop, and the factory rows it writes |
| `RawMirror` | extends `PcQueue` with the mirror push and the cloud's mirror table |
| `PoInbound` | the cloud receiving trucks against one purchase order, the desk and the watchdog |
| `DispatchBilling` | DDGS trucks, the contract desk, tankers, and the invoice series they share |
| `BankPayments` | a batch of vendor payments from its maker to the bank's answer, and the payment desk |
| `AttendancePunches` | the way of a punch from the device to the cloud |
| `..._proofs` | theorems about `FactoryWeighment`, `ScaleRules`, `SyncWorker`, `RawMirror`, `PoInbound`, `DispatchBilling`, `BankPayments`, `AttendancePunches` |
| `MC...` | the instances TLC runs |

A definition marked `\* fault` (or standing just before the one it varies) is a
variant of it with a plausible mistake; no specification uses it. `PROJECT.json`
pairs each property with one of them: with the variant in place, TLC finds the
property violated.

In every model a handler that awaits between a read and a write is two actions,
and other requests run in between; a database transaction is one action where
nothing it read can be outdated when it commits, and otherwise a read and a
commit (Postgres runs READ COMMITTED). A restart ends whatever is in flight.

### FactoryWeighment

`rows` is the table, cut to the columns that the properties tell apart;
`counter` the ticket counter; `fixLog` the ids of the corrections applied;
`reqs` what each request in flight remembers; `shots` the photos still being
taken. `clock` counts edits and serves as `updatedAt`: no two edits of a row
share a stamp, and the worker's own writes have stamp 0. Weights are numbers, 0
is NULL.

A handler is a `...Begin` (the peek and the checks on it) and a `...Commit` (the
write, with the WHERE the code has). Gross and tare write `where {id, status:
peek.status}` (`Unmoved`), lab and correction write by id. `Refuse` is every
early return after the peek, a rule's verdict included. Gate entry is one
transaction and one action. `/wb-push` is one upsert for each item and one
action; its items are independent.

Rows come in three kinds: `WebTickets` are created at the gate page,
`PcTickets` arrive through `/wb-push`, `PushTickets` are also written by
`/push`. `FactoryOwned` are those that no PC writes. What a PC may send
(`PcSnaps`) follows its own code: weights appear leg by leg.

Properties: net is gross less tare (`NetIsGrossLessTare`); no weight is captured
twice (`WeighedOnce`); cancelled stays cancelled (`CancelledForGood`); final
weights are frozen (`FinalWeightsFrozen`); the ticket series has no gap
(`TicketsGapless`). The first two are about `FactoryOwned` rows, whose weights
only the handlers write; a PC may send any pair of weights to a row it owns. The
next two leave `PcTickets` out: the relay overwrites the row with whatever the
PC sent, so an old snapshot retried late takes a COMPLETE row back to
GATE_ENTRY. `TicketsGapless` is about the numbers the gate draws; the relay
writes PC numbers into the same unique column, and while one of them is the
number the counter wants next, every gate entry fails.

### ScaleRules

Weights are classes: two readings of one class are within the tolerance of the
delta rule, two of different classes are not, 0 is an empty scale. A stay is one
truck from driving on to driving off; the code knows no stays, so only readings
carry them and no guard looks at them. `poll` is the poll in flight, `status`
the monitor's view, `zeroAt` the time it last saw an empty scale, `bootAt` the
start of the process. A capture is `Press` (the button takes the weight that the
page shows, which is the monitor's last reading, alive or not), `Begin` (the
handler peeks and takes its stamp), `Check` (the rules, cleared by a human or
not) and `Commit` (`updateMany` on the status that was peeked).

`StandingTruckSigned`: a truck that stands on the scale since its first weight
was stored is not weighed as the first weight of another ticket unless a human
has cleared it; if its weight changed, the zero rule may be excused: the truck
left, the scale cannot be seen, the server has started since, or the last
capture is too old. `NearPreviousSigned` is the same as the comment of the delta
rule puts it, for every ticket, and fails: run `scale_last`.

Left out: manual weights and captures of other `pcId`s, which these rules do not
compare; the rules' switches, which are on as seeded; the page's preflight (the
same query); audit events; a second poll beside one whose answer has begun and
does not end (the 5 s timer stops at the headers, `pcMonitor.ts:93`).

### SyncWorker and Delivery

`worker` is the push in flight: the rows as they were read (`sent`, with the
`updatedAt` of each), what the cloud has yet to process (`inbox`), its acks,
and the rows yet to be marked (`left`). `seen` is what the cloud has processed
of each row. `ConnLost` and `Crash` leave the rest of a request with the cloud,
which may still process it later (`zombies`). `AckRow` is the conditional
`updateMany` on `updatedAt`; a row the cloud left out, or a failed cycle, is
written too (attempts and error text), which changes the stamp. Writing the
whole table in one action would hide the races, so rows are marked one by one.

`Delivery` has records, what they say now, what the cloud has heard, and which
are settled. Settling demands that the cloud has heard the record as it is now.
`DeliveryContract` is the refinement: `current` is the payload of each row,
`heard` is `seen`, `settled` the synced rows, of the rows that `/push` does not
write (`Announced`). Its one step to `SyncWorker`'s
invariant is `SyncedIsDelivered`.

Liveness: `BacklogDrains` and `CompleteReachesCloud` under weak fairness of
`Progress`, the worker's own steps: the timer is set again in the `finally` of
every cycle (`syncWorker.ts` 618-622), and a connected cloud answers. Failures
are bounded, so they stop; edits stop with `MaxClock`. Nothing is assumed of
operators or PCs.

### PcQueue and RawMirror

`pc` are the rows of the PC, reduced to status, lab result and a revision that
counts changes; which weights matters to no property, which state of the row
arrives does. Pages replace (`Requeue`) or delete entries while the loop
(`pusher`) holds some of them in memory. The loop posts to the factory, falls
back to the cloud, counts attempts, stops after `MaxConsecutiveFailures`, and
leaves entries with `MaxAttempts` alone. A post that was given up on may still
be handled (`late`). `Rejected` tickets get a permanent 4xx from the cloud,
`Conflicting` ones a refused upsert from the factory, or an item the cloud could
not parse or process (`push.ts` acks it all the same): answers the PC takes for
success. `RawMirror` adds the factory's mirror push: due rows, one upsert
after the other, partial answers, stamps with the `updatedAt` that was read,
requests given up on (`abandoned`).

`NeverLosesData`, the claim in the header of `cloud_sync.py`: the newest
snapshot of a ticket waits in the queue or has arrived, but for `Conflicting`
tickets, of which the run has none. `NewestLast`: without failures the order is
kept. `UpToDateIsMirrored`: a row that counts as up to date is in the mirror as
it is; only a late request of before can have put an older version over it.
`HealthyTicketsArrive` and `MirrorCatchesUp` are liveness under weak fairness of
the PC's loop and the mirror's (both run on timers that are set again after
every round).

Left out: the pages' reads outside the write transaction, modelled as atomic;
the queue's order by `created_at`, here by id; a batch that the cloud's schema
rejects as a whole; the cleanup of sent entries.

### PoInbound

One order with one line and a `cap` out of `Caps` (0 for none), `Trucks` that are COMPLETE at the factory, and `Runs`
pushes that the cloud handles at once. A run goes through `Push` (pre-phase and
dedup), `ReadOrder` (outside the transaction), `TxRead` and `TxCommit` (what it
read may be outdated when it commits; the row lock on the order line serialises
the rest), `SyncStock` (a second transaction) and `Done`. Every step can fail,
before the commit and, where the GrainTruck row is looked up (`LooksUpTruck`),
after it, which leaves the stock to the watchdog;
`Restart` ends all runs, callbacks and the watchdog's round. `callbacks` are the
`setImmediate` closures that write a `PlantIssue` after the ack.

`Push` requires, unless `Overlap` is set, that no other push of the same truck
is running. Overlap is possible in the code (the factory gives up on a
connection and pushes again; a PC pushes to the cloud itself when the factory
is unreachable) and then a truck is received twice, against the idempotence that
`docs/adr/003-weighment-handler-pattern.md:27` asks of handlers. The runs show
what holds when it does not happen.

The watchdog's 30 minutes are `Age`: a receipt becomes old when no push works on
it. A receipt the desk opened (`OpenPartial`) is old from the start, since it
waits for its truck for days; with such receipts a scan that meets the push of
the truck moves its stock twice.

`CapNearlyRespected`: the cap is counted inside the transaction, which the code
calls the fix of the race (`poInbound.ts:11`, `:145`); nothing is locked, so two
trucks that are pushed at once both find room. What holds is that the cap is
exceeded by fewer receipts than pushes run at once.

Fairness (`FairPoSpec`): an unacked truck is pushed again (strong, because the
bounded number of slots can be taken by others), a push that is not interrupted
goes on, callbacks run, time passes and the watchdog ticks.

### DispatchBilling

Tables: `truck` (DDGS trucks by weighment), `dispatch` (dispatches of the
contract, with or without a truck), `supplied` (the contract's total),
`released` tankers, `invoices` and their `counter`. A request reads, takes row
locks one by one, and commits; `Free` is the lock of a row or counter, and the
database kills one of a circle of waiting transactions. Requests: the push of a
truck (upsert, automatic invoice, dispatch), the stub at gate entry, release,
manual dispatch, invoice and deletion at the contract desk, cancellation, and
the release of an ethanol tanker.

`InvoiceSeriesGapless`: invoices carry 1 to the counter, each once, through
rollbacks and deadlocks. `InvoicedOnce`: pushes and releases bill a truck once.
`SuppliedMatchesDispatches`: the total is the number of the dispatches.
A push whose transaction is rolled back is acked all the same, and a
`setImmediate` callback (`callbacks`) writes the issue about it later
(`IssueSaved`); its create can fail (`IssueLost`) or a restart can drop it, and
no watchdog looks for DDGS stubs (`unheard`). `StubsReported`: but for those, a
truck is weighed or before a human, under strong fairness of the push (an
unacked weighment is pushed again by the worker, whose slots other requests can
take) and of a request's own steps (locks are granted in the order they were
asked for) and weak fairness of the callback. `TankerReleasedOnce` fails: run `dispatch_twice`.

Left out: amounts (one unit of weight for each truck), GATE_IN against
TARE_WEIGHED, a late stub overlapping the complete push, the manual routes of
`ddgsDispatch.ts`, the cascade of a changed rate.

### BankPayments

`batches`, `items`, `files` at the bank with the bank's answer, `booked` (the
VendorPayments of each line), `byHand` (those of the desk), `paid` (the
invoices' `paidAmount`). A request is a chain of awaits with what it has read so
far; it can die between any two. An upload may have arrived although it failed.

`BookedOnceIfPaid`: a line is booked at most once, and only if the bank paid it.
`PaidNotOverstated`: an invoice never shows more than its payments; that it can
show less is the lost update at `vendorPayments.ts:413`. `RejectedNotSent`: an
item the checker rejected is in no file.

Left out: PINs, `totalAmount` and `recordCount`, status and balance of an
invoice (functions of `paid`), the tolerance below one rupee (equality here),
collisions of file names, edits of invoices, split payments, advances, cash.

### AttendancePunches

`log` is the device's memory, `cursor` the end of the last good pull, `pull` the
pull in flight, `stored` and `synced` the factory's table, `push` and `request`
the batch on its way, `cloud` the cloud's rows, `owner` the mapping of users to
workers. Time passes while a pull runs, without a bound on how long one takes;
`Drift` bounds how far the device's clock is off. `blind` records the times a
pull was too slow for: after its reading (less the drift) and before the window
of the next one (`Unseen`).

`HolesOnlyInSlowPulls`: a punch no later pull asks for is stored, unless its time
is one of those (or its insert was refused, which the code logs and passes
over). `SyncedIsInCloud`: what is marked
synced is there. `OneRowPerWorker`: a worker has one row for a time, whatever is
repeated or mapped in between. `EveryPunchArrives`, with the same two exceptions, under weak fairness of the
pull, the push and its handling (all on timers or driven by the request).

Left out: a second device, the takeover of the pull by the cloud, clearing the
device's log, its capacity, enrollment and the job queue, fingerprints, the day
roll-up; employees and labourers are both "workers".

### Runs

| Run | Question | Outcome |
|---|---|---|
| `factory` | two requests on a gate ticket, one known to a PC or a relayed one, with a correction | holds |
| `sync` | one row a batch, edits, lost replies, a restart: is everything synced delivered, does the worker implement `Delivery`, does the backlog drain, does the final weight arrive? | holds |
| `sync_push` | is everything synced delivered with a PC on `/push`? | no |
| `po_serial` | three trucks, two pushes together, an order with and one without a cap, failures, restarts and the watchdog: one receipt a truck, exact line, one stock movement, the cap exceeded by overlap only | holds |
| `po_live` | one push at a time, capped or not, receipts by the desk: every truck accounted for, every receipt in stock | holds |
| `bank` | two requests of any role, a death, an upload in doubt: booked once and only if paid, never overstated, rejected never sent | holds |
| `relay` | PC, factory and mirror with a failure: nothing newest lost, order kept, mirror right, rejected entries starve nobody | holds |
| `dispatch` | two requests out of pushes, desk, cancellation and release, with locks, a failure or a restart: gapless series, one invoice, exact total, no truck left a stub in silence but by a lost callback | holds |
| `dispatch_twice` | is a tanker released once? | no |
| `punches` | taps during pulls of any length, failures, a mapping on the way: holes behind slow pulls only, synced is there, one row, all others arrive | holds |
| `scale` | trucks, polls, signal losses, captures and a restart: a truck standing on the scale is not weighed for two tickets unsigned | holds |
| `scale_last` | is every near weight compared with the previous capture? | no |

The three failing runs are the findings of `PROJECT.json`, each against a
comment or document that promises the opposite.

Behaviours of the code that the models contain, or that reading for them turned
up, and that no run is about:

- Factory: a relayed row goes back after a failed request; a ticket number is
  taken by a relayed row; of two overlapping lab results the last one wins; a
  correction is not retried although its comment says so
  (`weighbridgeAdmin.ts:485`), and two of them can arrive in reverse order.
- PC: an entry out of attempts stays a dead letter; a snapshot counts as sent on
  any 2xx, one that processed none of it included (`Conflicting`).
- Scale rules: without signal the zero rule lets everything pass, and after a
  restart too, before the live check that its comment calls "the final safety
  net" (`ruleEngine.ts:274`).
- Receiving: overlapping pushes of a truck make two receipts; two trucks of one
  order exceed it, or its cap, together, although the comments at
  `poInbound.ts:11` and `:145` call the race of the cap fixed; a lab FAIL that comes after the receipt
  leaves receipt and stock; the desk can open two partial receipts for one
  order, and partially confirmed receipts are moved again; a weighment with a
  `purchase_type` the schema does not know is acked and dropped; the average
  cost is computed from a read that may be outdated; `PARTIALLY_RECEIVED`
  (`weighbridgeAdmin.ts:405`) is a status no order has.
- Billing: a DDGS truck whose push failed is acked, and if the issue about it is
  lost (`push.ts:275-293`) it stays a stub of which nobody hears, against "no
  silent billing loss on crash" (`ddgsOutbound.ts:24`) and "never lose a truck
  again" (`push.ts:198`); a deletion that overlaps the automatic invoice leaves an invoice
  without a dispatch; a retry that overlaps a billing push takes a BILLED truck
  back to GROSS_WEIGHED.
- Bank: a poll that dies after archiving an answer leaves its batch waiting for
  ever (`bankSftp.ts:153`; `docs/design/ubi-h2h-banking.md:28` says answers are
  archived after processing), and so does an answer that comes before the
  release has marked its batch; a second release after a timed-out upload sends
  the bank a second file; an approval that overlaps a rejection can win for some
  items; a desk payment and the bank's booking can lose one addition. An answer
  is matched to items by account and amount (`bankPayments.ts:730`): of two
  invoices of one vendor with equal balances in one batch, the payment of one
  books both. The instance gives each invoice an account of its own.
- Attendance: a pull slower than the window misses punches, which its comment
  says it does not (`biometricScheduler.ts:206`); an insert that fails
  is passed by the cursor; a punch stored for nobody and repeated after its user
  was mapped has two rows.

### Bounds

- `Requests`, `Runs`: two are enough for a lost update or a check that is
  outdated when its write comes; every such race in the code is between two
  requests. `sync`, `punches` and `scale` have one beside a worker or a poller:
  the race there is between an edit and a push, or a reading and a capture.
- `Weights`: two values give a positive net and an inverted pair. `Loads`: two
  classes, the same weight again and another one.
- `MaxClock`: in `factory`, 3 is a ticket with both legs, or one with a leg, a
  correction and a push; in `sync`, 2 is a row and an edit of it around a push,
  or two rows; in `sync_push`, 4 is a whole ticket with its push. In `punches`, 3
  lets two pulls pass with a tap between reading and cursor; in `scale`, 4 is a
  capture, a tick in which the empty scale is seen or the window expires, and a
  second capture; in `scale_last`, 5 is a tare and two further captures.
- The constraint of `factory` keeps a PC's ticket alone in the table with ticket
  number 1; `sync` has it beside a ticket of the gate.
- `Take` in `sync`: 1, the head of the queue matters. `Take` 2 and
  `RawMirrorBatch` 2 in `relay`: replies can be partial. `MaxChanges` 4: a row
  with both legs, a lab result or a second row. `MaxAttempts` and
  `MaxConsecutiveFailures` 1: an entry is dead, and a round ends, after one.
- `Load`, `Ordered`: trucks of two against an order of three (the second truck
  over-delivers, the line is clamped); `Open` keeps a fuel order receivable when
  it is full. `Caps` {0, 1}: without a cap a repeated push would find room, so
  the dedup decides; with a cap of one, three trucks are enough to exceed it by
  more than two pushes at once can. `MaxGrns`: a receipt for each truck, and one
  more when the desk opens receipts.
- `MaxUploads` 2: a file sent again. `MaxByHand` 1: one desk payment beside the
  bank's. `MaxCancelled` 1. `MaxPunches` 2, `Batch` 2: a part of a batch can be
  accepted. `Window` 1, `Drift` 0 with `MaxClock` 3: pulls within the window
  and pulls of up to three windows; the theorem has any.
- `MaxFailures`: one, so that there is a failure and a recovery; none where a
  finding needs none. A second failure in `po_serial` is beyond what TLC does in
  minutes; the theorems have any number.
- `MaxStays` 2: a truck that stays and one that replaces it.

Deadlock is not checked: edits, clocks and failures are bounded, so every
instance runs out of them. Symmetry is used only for safety: requests, runs and
trucks, and the inbound tickets of `ScaleRules`, carry nothing but their names.

## 3. Proofs

Each theorem holds for all values of the constants, under the assumptions named
in the modules (bounds are numbers, weights positive, sets disjoint) and, where
said, a proviso. Every proof module follows one scheme: an inductive invariant
as a conjunction of named parts, one lemma for an action or a group of actions
with the same effect, a step lemma, and a temporal last step.

`FactoryWeighment_proofs`

- `FactoryTypes`: the type invariant. It is inductive as it stands; the step for
  the second leg needs the check that net is positive, which keeps it in `Nat`.
- `NetWeightCorrect`: `NetIsGrossLessTare` is not inductive: a second leg in
  flight writes a net computed from a weight peeked earlier. The strengthening
  `Legs` adds `LegsInOrder`: an open row has exactly the weights of its legs,
  and a leg in flight was the right one when it was peeked, the row never falls
  back behind it, and as long as the row is where it was, the weight the request
  remembers is still the row's.
- `NoWeightWeighedAgain`, `CancellationIsFinal`, `FinalWeightsStay`: action
  properties, from the same invariants.
- `SeriesHasNoGap`: the counter and the create are one transaction.

`ScaleRules_proofs`

- `ScaleIsTyped`: the type invariant.
- `StandingTruckIsSigned`: with inbound tickets only (`Outbound = {}`) and one
  capture at a time. The first proviso is needed (run `scale_last`), the second
  because two captures on one scale can pass the rules before either is stored.
  The inductive invariant `Guarded` says that readings name stays of the past
  (`Named`), stamps lie in the past and one in flight above all stored ones
  (`Stamped`), a truck that stands there while an empty scale is the last thing
  read has not been read itself (`NewTruck`), once the scale was seen empty after
  a capture that truck is gone (`ZeroIsGone`), the gross comes first
  (`GrossFirst`), the last first weight is the newest gross (`LastIsNewest`), and
  a capture that was let through keeps its word until it is written (`Cleared`).
  `RulesSeeLast` is the lemma that makes the rules' queries return that capture.

`SyncWorker_proofs`

- `SyncIsTyped`: the type invariant.
- `AnnouncedRowsDelivered`: a synced row that no PC writes through `/push`
  (`Announced`) was heard by the cloud as it is, whatever `/push` does to other
  rows meanwhile. `SyncedRowsDelivered` is its corollary: `SyncedIsDelivered`,
  which is about every row, provided that `PushTickets` is empty. The proviso is
  needed: `/push` writes weights without clearing `cloudSynced`, run `sync_push`.
  The inductive invariant `Honest` adds four facts: no stamp lies in the future,
  so that every edit changes the stamp of its row (`StampsArePast`); a row still
  to be marked that has the stamp which was read says what was read
  (`SameStampSameRow`); an ack is for something the cloud has processed
  (`AcksAreHeard`); a `/push` in flight is for one of its own rows
  (`PushesOwn`). The one fact about the handlers it takes is `FactoryEdits`:
  whatever they write clears `cloudSynced` under a new stamp, or changes nothing
  that is sent.
- `WorkerImplementsDelivery`, without a proviso, for the announced rows: from the
  same invariant, the initial state maps to an initial state of `Delivery`, an
  edit to `Edit`, the cloud's work to `Hear`, a mark to `Settle`, a resync to
  `Reopen`, and the rest to a stutter.

`RawMirror_proofs` (about `PcQueue` too)

- `RelayTypes`, from `QueueSafe` (types, revisions of the past, ids used once,
  what the loop holds is as it was queued, the entry at work is not in the rest
  of the list) and `MirrorSafe`.
- `NothingLostElsewhere`: the newest snapshot of every ticket that factory
  and cloud do not refuse behind an ok is queued or has arrived. `NothingLost`, its
  corollary, is `NeverLosesData` if `Conflicting = {}`. The proviso is needed: the
  factory answers 2xx for a row its database refused, and the cloud for an item
  it could not process, and the PC marks it sent.
  The strengthening is that what is about to be marked has arrived
  (`MarkedArrived`).
- `SnapshotsInOrder`, whatever fails: `Ordered` says that of one ticket a later
  entry is a newer snapshot, none is newer than the last one made, and the loop
  works on the first entry of its list.
- `NothingOlderFollows` and `NewestIsLast` (`NewestLast`, if `Conflicting = {}`), as
  long as no request has failed and the factory is preferred: once the newest
  snapshot of a ticket is no longer pending, it is what the factory shows and no
  older one is on its way. `Flow` adds to the order that the loop skips nothing:
  what is queued before an entry it holds, it holds too (`InTurn`). Both provisos
  are needed: a request that timed out may arrive later, over a newer one.
- `UpToDateMirrored`: `MirrorSafe` says that what a request carries are versions
  the factory's rows had (`FromFactory`), each row once (`OncePerRow`), ahead of
  the row's stamp (`AheadOfStamp`), that a stamp is a version the mirror has held
  (`StampHeld`), and that without failures nothing old is under way
  (`Undisturbed`).

`PoInbound_proofs`

- `PoTypes`, from `PoSafe` (types, a run with a truck is at work, one that moves
  stock has its receipt).
- `ReceivedOnce`, if `Overlap = FALSE`: no two runs have one truck (`Alone`), one
  before its commit has no receipt yet (`Unreceived`), receipts are single.
- `LineAddsUp`, if `Desk = FALSE`, for any overlap: the row lock makes each
  addition exact, and there is no partial receipt to fill (`NoneToFill`).
- `MovedOnce`, if `Desk = FALSE`: `OneMover` says who may move a receipt's stock:
  one run, or the watchdog once the receipt is old.
- What is left of these without the provisos. `ReceivedTwiceByOverlapOnly`: a truck
  has at most as many receipts as pushes run at once, since one that begins
  after a commit finds the receipt (`RoomForAll` counts a truck's receipts with
  its pushes that have looked). `MovedAgainByOverlapOnly`: a receipt moves the
  stock once, and again at most once for each overlapping push that had found
  it PARTIAL and once for the watchdog (`RoomToMove` counts its movements, the
  pushes that carry it and the watchdog's errand). `LineNeverShort`: with the desk two pushes can
  fill one receipt, so the line may count more than the receipts; it never
  counts less, and what is pending always fits what is received.
- `CapExceededByOverlapOnly`: `CapNearlyRespected`. `CapHeld` counts the receipts
  with the pushes between the check and the commit.

`DispatchBilling_proofs`

- `DispatchTypes`: types, and no lock is held twice (`Exclusive`), each kind of
  request in its lane (`Lanes`), a request that holds the counter has drawn the
  next number (`Drawn`).
- `SeriesIsGapless`: the i-th invoice has number i (`InOrder`).
- `TrucksInvoicedOnce`: a truck's invoice, its link and the decision to bill are
  made under the truck's lock (`OneBilling`), so it is billed once (`BilledOnce`).
- `SuppliedIsDispatched`: `Counted`, with cardinalities of finite sets.
- `TankerReleasedAgainByOverlapOnly`: a tanker has at most as many invoices as
  requests run at once. A release that begins finds a tanker that has left
  (`LeftIsReleased`); `RoomToLeave` counts a tanker's invoices with the requests
  that have passed that check: what run `dispatch_twice` shows is the work of
  two at once and of nothing else.

`BankPayments_proofs`

- `BankTypes`: types, with `Answered`: every file a poll has listed, moved or
  works on is one the bank has answered, for good.
- `NeverBookedTwice` and `OnlyPaidVendorsBooked` (what is booked, is booked to a
  vendor the bank paid in that file) without any proviso; `BookedOnceElsewhere`:
  an invoice whose vendor has no other is booked at most once and only if paid;
  `BookedOnce`, its corollary: `BookedOnceIfPaid` if no two invoices have one account
  (`OwnAccounts`). The proviso is needed, see the bank's behaviours under "Runs".
  `BookInv` says that what requests have moved to the
  archive is theirs alone (`Apart`), that a file that is not archived, or moved
  and not opened, has nothing booked, and which lines of the opened one are still
  to be booked (`HoldsOK`).
- `RejectedStays`: `RejectedNotSent`. `SentInv`: a batch without a status has no
  items and no request names it, and the items of an upload or a file are past
  PENDING and REJECTED, to which nothing brings an item back.
- `PaidNeverOverstated`: `PaidNotOverstated` for any number of files and polls. That
  an addition can be lost makes an equation false; the invariant is an
  inequality with a reserve: what an invoice shows, and what a request has read
  of it, is covered by the payments that no request is still about to add
  (`PaidBacked`, `SeenBacked`), and a request that is about to add has made its
  payment (`InFlightBooked`). The sum over the files is stated as the cardinality
  of a set of units (`Total`), with lemmas for what one more booking adds: of a
  fold or a recursive sum nothing could be proved.

`AttendancePunches_proofs`

- `PunchTypes`.
- `HolesAreBehindSlowPulls`: `HolesOnlyInSlowPulls`, for pulls of any length.
  `Gapless` adds what a pull in flight has read or will still ask for (`Reading`)
  and that a tap the drift can still put behind the window falls in a time the
  last pull was blind to (`DriftIsBlind`).
- `SyncedAreThere`: an ack is for a punch the cloud has (`Honest`), with any
  number of requests at once.
- `OncePerWorker`, if `Overlap = FALSE`: `Single` adds that what was looked up
  stays looked up while nobody else inserts (`Looked`).
- `CountedAgainByOverlapOnly`, without the proviso: a worker has at most as many
  rows for one time as pushes are handled at once (`RoomForRows` counts the rows
  with the requests that have not found one and are about to insert).

Every safety property of a passing run is stated by one of these theorems. Only
model-checked: all liveness (`BacklogDrains`, `CompleteReachesCloud`,
`EveryTruckAccounted`, `EveryReceiptStocked`, `HealthyTicketsArrive`,
`MirrorCatchesUp`, `StubsReported`, `EveryPunchArrives`), which is out of TLAPS's
reach, as is ENABLED; and that the three findings are violations.

## 4. Plan

Done: the modules above and the proofs listed. Next, in this order:

1. Proofs: what is left of `StandingTruckIsSigned` without its provisos; an
   abstract specification of a stock ledger and of a booking that `PoInbound` and
   `BankPayments` implement.
2. `ReceiptDesk`: status transitions, edits, partial confirmation and reversals
   of goods receipts, and the stock they move; composes with `PoInbound`.
3. `Corrections`: both halves of a correction and the receipt it reverses.
4. `TraderOrder`: the running monthly order of a trader.
5. `Journals`: the hooks of `autoJournal.ts`, their reversal and idempotence.
6. `FermentFill`: the fill detector and the phases of a fermenter.
7. The push of audit events, and the takeover of the pull by the cloud, next to
   `SyncWorker` and `AttendancePunches`.
8. The ethanol and scrap handlers, the e-invoice numbers, webhook delivery.

### Not modelled

- Out of scope for good: rendering, reports, tax and payroll arithmetic, mass
  balances (functions of decimals, which tests cover better), AI and messaging
  (no table of the core depends on their outcome), cameras, serial ports, OPC
  readings and backups (pure I/O), settings and users (single-row edits), the
  frontends except where a page decides what a handler gets (`ScaleRules`,
  `PcSnaps`). They are most of the repository's lines, so the models cover a
  small share of them.
- Not yet: what the plan lists, and the parts the components marked "partly" in
  `PROJECT.json` name.
