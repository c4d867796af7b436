------------------------------ MODULE RawMirror ------------------------------
(***************************************************************************)
(* The raw mirror: the factory server pushes its weighment rows to the     *)
(* cloud's mirror table (factory-server/src/services/syncWorker.ts         *)
(* pushRawToCloud, backend/src/routes/weighmentSync.ts), here next to a    *)
(* weighbridge PC whose relayed snapshots edit those rows (PcQueue).       *)
(*                                                                         *)
(* A row is due when mirrorPushedAt is null or older than updatedAt.  The  *)
(* cloud upserts row after row and answers with those it stored; the       *)
(* worker stamps them with the updatedAt it had read.  The worker waits    *)
(* for one request at a time, but one it gave up on may still be running.  *)
(***************************************************************************)
EXTENDS PcQueue

CONSTANT RawMirrorBatch     \* RAW_MIRROR_BATCH, 200 in the code

ASSUME BatchAssumption == RawMirrorBatch \in Nat \ {0}

VARIABLES
    stamp,      \* mirrorPushedAt of each row, 0 when null
    mirror,     \* the cloud's mirror rows
    mirrored,   \* versions of each row the mirror has held
    request,    \* the request the worker waits for
    abandoned   \* rows of requests given up on that the cloud still works at

mirrorVars == <<stamp, mirror, mirrored, request, abandoned>>
relayVars == <<pcVars, mirrorVars>>

-----------------------------------------------------------------------------
NoRequest == [sent |-> FALSE, todo |-> {}, stored |-> {}]
MirrorRow(t) == [ticket |-> t, row |-> factory[t].row, updatedAt |-> factory[t].updatedAt]

Unstamped == {t \in Tickets : factory[t].updatedAt > 0 /\ stamp[t] = 0}     \* fault
DueRows == {t \in Tickets : factory[t].updatedAt > 0 /\ stamp[t] < factory[t].updatedAt}

(* The rows are taken by updatedAt, which between rows the model leaves     *)
(* open: any batch of due rows.                                             *)
PushRaw ==
    /\ ~request.sent /\ DueRows # {}
    /\ \E S \in SUBSET DueRows :
        /\ S # {} /\ Cardinality(S) <= RawMirrorBatch
        /\ request' = [sent |-> TRUE, todo |-> {MirrorRow(t) : t \in S}, stored |-> {}]
    /\ UNCHANGED <<pcVars, stamp, mirror, mirrored, abandoned>>

(* prisma.weighment.upsert where localId, for the next row of a request.    *)
Upsert(r) ==
    /\ mirror' = [mirror EXCEPT ![r.ticket] = r]
    /\ mirrored' = [mirrored EXCEPT ![r.ticket] = @ \union {r.updatedAt}]

MirrorUpsert(r) ==
    /\ \/ /\ Upsert(r)
          /\ request' = [request EXCEPT !.todo = @ \ {r}, !.stored = @ \union {r}]
          /\ UNCHANGED failures
       \/ /\ Fails                              \* goes to failed of the answer
          /\ request' = [request EXCEPT !.todo = @ \ {r}]
          /\ UNCHANGED <<mirror, mirrored>>
    /\ UNCHANGED <<preferFactory, queueVars, pusher, factory, late, delivered, stamp, abandoned>>

AbandonedUpsert(r) ==
    /\ Upsert(r)
    /\ abandoned' = abandoned \ {r}
    /\ UNCHANGED <<pcVars, stamp, request>>

(* The answer: stamped with the updatedAt that was read.                    *)
CurrentStamp(r) == factory[r.ticket].updatedAt      \* fault: the row's updatedAt of now
ReadStamp(r) == r.updatedAt

Answered ==
    /\ request.sent /\ request.todo = {}
    /\ stamp' = [t \in Tickets |->
                    IF \E r \in request.stored : r.ticket = t
                    THEN ReadStamp(CHOOSE r \in request.stored : r.ticket = t)
                    ELSE stamp[t]]
    /\ request' = NoRequest
    /\ UNCHANGED <<pcVars, mirror, mirrored, abandoned>>

(* The answer is lost, or the factory server starts again: the cloud may    *)
(* never have got the request, or may go on with the rest of it.            *)
GiveUp ==
    /\ request.sent /\ Fails
    /\ abandoned' = abandoned \union request.todo \/ UNCHANGED abandoned
    /\ request' = NoRequest
    /\ UNCHANGED <<preferFactory, queueVars, pusher, factory, late, delivered, stamp, mirror, mirrored>>

-----------------------------------------------------------------------------
RelayInit ==
    /\ PcInit
    /\ stamp = [t \in Tickets |-> 0]
    /\ mirror = [t \in Tickets |-> [ticket |-> t, row |-> NoRow, updatedAt |-> 0]]
    /\ mirrored = [t \in Tickets |-> {}]
    /\ request = NoRequest
    /\ abandoned = {}

MirrorLoop == PushRaw \/ (\E r \in request.todo : MirrorUpsert(r)) \/ Answered

RelayNext ==
    \/ PcNext /\ UNCHANGED mirrorVars
    \/ MirrorLoop
    \/ \E r \in abandoned : AbandonedUpsert(r)
    \/ GiveUp

RelaySpec == RelayInit /\ [][RelayNext]_relayVars

(* Both loops run on timers, and the cloud works through what it is sent.   *)
FairRelaySpec ==
    /\ RelaySpec
    /\ WF_relayVars(PushLoop /\ UNCHANGED mirrorVars)
    /\ WF_relayVars(MirrorLoop)

-----------------------------------------------------------------------------
RelayRow == [ticket : Tickets, row : Snapshot \union {NoRow}, updatedAt : Nat]
RelayTypeOK ==
    /\ PcTypeOK
    /\ stamp \in [Tickets -> Nat]
    /\ mirror \in [Tickets -> RelayRow]
    /\ mirrored \in [Tickets -> SUBSET Nat]
    /\ request \in [sent : BOOLEAN, todo : SUBSET RelayRow, stored : SUBSET RelayRow]
    /\ abandoned \subseteq RelayRow

(* "Correct by construction": a row that counts as up to date is in the     *)
(* mirror as it is, through edits during a push, rows the cloud failed to   *)
(* store and lost answers.  Only a request that was given up on and is      *)
(* still at work can have put an older version over it.                     *)
UpToDateIsMirrored ==
    \A t \in Tickets :
        stamp[t] > 0 /\ stamp[t] = factory[t].updatedAt =>
            /\ stamp[t] \in mirrored[t]
            /\ mirror[t] = MirrorRow(t) \/ failures > 0

(* No row is forgotten: once its edits rest, the mirror has had its latest  *)
(* version, after failed upserts, lost answers and edits during a push.     *)
MirrorCatchesUp ==
    \A t \in Tickets : []<>(factory[t].updatedAt > 0 => factory[t].updatedAt \in mirrored[t])
=============================================================================
