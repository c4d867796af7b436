------------------------- MODULE AttendancePunches -------------------------
(***************************************************************************)
(* The way of a punch from a biometric device to the attendance of the     *)
(* cloud: the factory server pulls the device's log through the bridge     *)
(* (services/biometricScheduler.ts, biometric-bridge/bridge.py), keeps the *)
(* punches in its database and pushes them in batches                      *)
(* (services/biometricSync.ts); the cloud resolves whose they are and      *)
(* inserts those it does not have (routes/biometricFactory.ts), while an   *)
(* admin maps users of the device to employees (routes/biometric.ts).      *)
(*                                                                         *)
(* One device.  A pull asks for the punches since a while before the end   *)
(* of the last good pull, and time passes while it runs, so what the       *)
(* overlap covers is a matter of how long a pull takes and how far the     *)
(* device's clock is off: neither has a bound here.                        *)
(***************************************************************************)
EXTENDS Integers, Sequences, FiniteSets

CONSTANTS
    Users,          \* users of the device
    Workers,        \* employees and labourers of the cloud
    Nobody,         \* the worker of a user that is not mapped
    Requests,       \* pushes the cloud handles at once
    Window,         \* a pull goes back this far behind the last one: 30 s
    Drift,          \* the device's clock is off by at most this
    Batch,          \* punches of one push
    Overlap,        \* a push may start while the cloud still handles an older one
    MaxClock,       \* bound on time
    MaxPunches,     \* bound on the device's log
    MaxFailures     \* bound on failed pulls, inserts, connections and restarts

ASSUME PunchAssumption ==
    /\ {Window, Drift, MaxClock, MaxPunches, MaxFailures} \subseteq Nat
    /\ Batch \in Nat \ {0} /\ Overlap \in BOOLEAN /\ Nobody \notin Workers

VARIABLES
    clock,      \* the factory server's
    log,        \* punches in the device
    cursor,     \* lastPullAt of the device, 0 for NULL
    pull,       \* the autoPull in flight
    stored,     \* AttendancePunch of the factory, by createdAt
    refused,    \* punches that a pull could not insert and went on
    blind,      \* history: times that a slow pull saw nothing of
    synced,     \* those with cloudSynced
    push,       \* the request that the factory waits for, or none
    request,    \* what the cloud does with each push
    cloud,      \* AttendancePunch of the cloud
    owner,      \* deviceUserId of the workers, by user
    failures

factory == <<cursor, pull, stored, refused, blind, synced, push>>
vars == <<clock, log, factory, request, cloud, owner, failures>>

-----------------------------------------------------------------------------
Punch == [user : Users, at : Nat]
Stored == {stored[i] : i \in DOMAIN stored}
Backlog == Stored \ synced

NoPull == [state |-> "idle", since |-> 0, got |-> {}, readAt |-> 0]
NoRequest == [state |-> "idle", batch |-> {}, left |-> {},
              whose |-> [u \in Users |-> Nobody], looked |-> {}, accepted |-> {}]
NoPush == "none"

Fails == failures < MaxFailures /\ failures' = failures + 1

(* A finger on the device, stamped with the device's own clock.  The device *)
(* keeps one entry for a user and a second.                                 *)
Tap(u) ==
    /\ Cardinality(log) < MaxPunches
    /\ \E at \in (clock - Drift) .. (clock + Drift) :
        at >= 0 /\ log' = log \union {[user |-> u, at |-> at]}
    /\ UNCHANGED <<clock, factory, request, cloud, owner, failures>>

(* Time passes, also between the reading of the log and the new cursor: the *)
(* bridge may take 60 s to answer, and the inserts run one by one.          *)
Tick ==
    /\ clock < MaxClock
    /\ clock' = clock + 1
    /\ UNCHANGED <<log, factory, request, cloud, owner, failures>>

-----------------------------------------------------------------------------
(* autoPull.  inFlight keeps it from running twice.                         *)
FromCursor == cursor                                                \* fault
Since == cursor - Window

PullBegin ==
    /\ pull.state = "idle"
    /\ pull' = [NoPull EXCEPT !.state = "asking", !.since = Since]
    /\ UNCHANGED <<clock, log, cursor, stored, refused, blind, synced, push, request, cloud, owner, failures>>

(* The bridge reads the log and drops what is older than since.             *)
PullRead ==
    /\ pull.state = "asking"
    /\ pull' = [pull EXCEPT !.state = "storing", !.readAt = clock,
                            !.got = {p \in log : p.at >= pull.since}]
    /\ UNCHANGED <<clock, log, cursor, stored, refused, blind, synced, push, request, cloud, owner, failures>>

(* The bridge or the device does not answer.                                *)
MoveOn == clock                                                     \* fault
DeviceTime == clock + 1                                             \* fault
CursorAfterFailure == cursor

PullFails ==
    /\ pull.state = "asking" /\ Fails
    /\ pull' = NoPull /\ cursor' = CursorAfterFailure
    /\ UNCHANGED <<clock, log, stored, refused, blind, synced, push, request, cloud, owner>>

(* One insert.  A unique violation is a punch of an earlier pull; any other *)
(* error is logged, and the pull goes on.                                   *)
PullStores(p) ==
    /\ pull.state = "storing" /\ p \in pull.got
    /\ pull' = [pull EXCEPT !.got = @ \ {p}]
    /\ \/ /\ p \in Stored
          /\ UNCHANGED <<stored, refused, failures>>
       \/ /\ p \notin Stored
          /\ stored' = Append(stored, p)
          /\ UNCHANGED <<refused, failures>>
       \/ /\ p \notin Stored /\ Fails
          /\ refused' = refused \union {p}
          /\ UNCHANGED stored
    /\ UNCHANGED <<clock, log, cursor, blind, synced, push, request, cloud, owner>>

(* The new cursor.  A finger after the reading, by the device's clock from  *)
(* readAt - Drift on, is not in this pull, and the next one asks for the    *)
(* window before the cursor.                                                *)
Unseen(readAt) == {x \in 0 .. clock : readAt - Drift <= x /\ x < clock - Window}

PullEnd ==
    /\ pull.state = "storing" /\ pull.got = {}
    /\ pull' = NoPull /\ cursor' = clock
    /\ blind' = blind \union Unseen(pull.readAt)
    /\ UNCHANGED <<clock, log, stored, refused, synced, push, request, cloud, owner, failures>>

-----------------------------------------------------------------------------
(* pushBiometricPunches.  The worker's cycle awaits it, so the factory has  *)
(* one at a time; the cloud may still be at work on one given up.           *)
Oldest(n) ==
    {stored[i] : i \in {j \in DOMAIN stored :
        /\ stored[j] \notin synced
        /\ Cardinality({k \in 1 .. j - 1 : stored[k] \notin synced}) < n}}

PushBegin(r) ==
    /\ push = NoPush /\ Backlog # {}
    /\ request[r].state = "idle"
    /\ Overlap \/ \A q \in Requests : request[q].state = "idle"
    /\ push' = r
    /\ request' = [request EXCEPT ![r] =
                     [NoRequest EXCEPT !.state = "sent", !.batch = Oldest(Batch)]]
    /\ UNCHANGED <<clock, log, cursor, pull, stored, refused, blind, synced, cloud, owner, failures>>

(* The cloud looks the workers of the batch up, once.                       *)
Resolve(r) ==
    /\ request[r].state = "sent"
    /\ request' = [request EXCEPT ![r].state = "working", ![r].whose = owner,
                                  ![r].left = request[r].batch]
    /\ UNCHANGED <<clock, log, factory, cloud, owner, failures>>

(* The lookup that finds duplicates.  A worker's punch is known by worker   *)
(* and time; one of nobody by user and time, whoever has it.                *)
MappedOnly(p, w) == w # Nobody /\ [punch |-> p, worker |-> w] \in {cloud[i] : i \in DOMAIN cloud}   \* fault
Known(p, w) ==
    \E i \in DOMAIN cloud :
        IF w = Nobody THEN cloud[i].punch = p
                      ELSE cloud[i].worker = w /\ cloud[i].punch.at = p.at

LookUp(r, p) ==
    /\ request[r].state = "working" /\ request[r].looked = {} /\ p \in request[r].left
    /\ request' = [request EXCEPT
         ![r].left = @ \ {p},
         ![r].looked = IF Known(p, request[r].whose[p.user]) THEN {} ELSE {p},
         ![r].accepted = IF Known(p, request[r].whose[p.user]) THEN @ \union {p} ELSE @]
    /\ UNCHANGED <<clock, log, factory, cloud, owner, failures>>

(* The insert of one that was not there when it was looked up.              *)
Create(r, p) ==
    /\ p \in request[r].looked
    /\ \/ /\ cloud' = Append(cloud, [punch |-> p, worker |-> request[r].whose[p.user]])
          /\ request' = [request EXCEPT ![r].looked = {}, ![r].accepted = @ \union {p}]
          /\ UNCHANGED failures
       \/ /\ Fails
          /\ request' = [request EXCEPT ![r].looked = {}]
          /\ UNCHANGED cloud
    /\ UNCHANGED <<clock, log, factory, owner>>

(* The answer: the factory marks what is accepted, in one statement.        *)
Everything(r) == request[r].batch                                   \* fault
Acked(r) == request[r].accepted

Finished(r) == request[r].state = "working" /\ request[r].left = {} /\ request[r].looked = {}

Answer(r) ==
    /\ Finished(r)
    /\ request' = [request EXCEPT ![r] = NoRequest]
    /\ IF push = r THEN push' = NoPush /\ synced' = synced \union Acked(r)
                   ELSE UNCHANGED <<push, synced>>
    /\ UNCHANGED <<clock, log, cursor, pull, stored, refused, blind, cloud, owner, failures>>

(* The connection breaks; the cloud goes on with what it has.               *)
ConnLost ==
    /\ push # NoPush /\ Fails
    /\ push' = NoPush
    /\ UNCHANGED <<clock, log, cursor, pull, stored, refused, blind, synced, request, cloud, owner>>

CloudRestart ==
    /\ \E r \in Requests : request[r].state # "idle"
    /\ Fails
    /\ request' = [r \in Requests |-> NoRequest] /\ push' = NoPush
    /\ UNCHANGED <<clock, log, cursor, pull, stored, refused, blind, synced, cloud, owner>>

FactoryRestart ==
    /\ pull # NoPull \/ push # NoPush
    /\ Fails
    /\ pull' = NoPull /\ push' = NoPush
    /\ UNCHANGED <<clock, log, cursor, stored, refused, blind, synced, request, cloud, owner>>

(* An admin gives a free user to a worker, who loses the one they had, or   *)
(* takes it back.  Punches that are there already keep their worker.        *)
Map(u) ==
    /\ \/ /\ owner[u] = Nobody
          /\ \E w \in Workers :
                owner' = [v \in Users |-> IF v = u THEN w
                                         ELSE IF owner[v] = w THEN Nobody ELSE owner[v]]
       \/ /\ owner[u] # Nobody
          /\ owner' = [owner EXCEPT ![u] = Nobody]
    /\ UNCHANGED <<clock, log, factory, request, cloud, failures>>

-----------------------------------------------------------------------------
Init ==
    /\ clock = 0 /\ log = {} /\ cursor = 0 /\ pull = NoPull
    /\ stored = <<>> /\ refused = {} /\ blind = {} /\ synced = {} /\ push = NoPush
    /\ owner = [u \in Users |-> Nobody]
    /\ request = [r \in Requests |-> NoRequest]
    /\ cloud = <<>> /\ failures = 0

Pulling ==
    \/ PullBegin \/ PullRead \/ PullEnd
    \/ \E p \in pull.got : PullStores(p)

Handling(r) ==
    \/ Resolve(r) \/ Answer(r)
    \/ \E p \in request[r].left : LookUp(r, p)
    \/ \E p \in request[r].looked : Create(r, p)

Next ==
    \/ Tick
    \/ \E u \in Users : Tap(u) \/ Map(u)
    \/ Pulling \/ PullFails
    \/ \E r \in Requests : PushBegin(r) \/ Handling(r)
    \/ ConnLost \/ CloudRestart \/ FactoryRestart

Spec == Init /\ [][Next]_vars

(* The scheduler ticks every minute, the worker's cycle starts again in its *)
(* finally, and the cloud's handler runs to its end.                        *)
Fairness ==
    /\ WF_vars(Pulling)
    /\ WF_vars(\E r \in Requests : PushBegin(r))
    /\ \A r \in Requests : WF_vars(Handling(r))

FairSpec == Spec /\ Fairness

-----------------------------------------------------------------------------
PunchTypeOK ==
    /\ clock \in Nat /\ cursor \in 0 .. clock /\ failures \in Nat /\ blind \subseteq 0 .. clock
    /\ log \subseteq Punch /\ refused \subseteq Punch /\ synced \subseteq Punch
    /\ pull \in [state : {"idle", "asking", "storing"}, since : Int,
                 got : SUBSET Punch, readAt : Nat]
    /\ stored \in Seq(Punch)
    /\ push \in Requests \union {NoPush}
    /\ owner \in [Users -> Workers \union {Nobody}]
    /\ request \in [Requests ->
          [state : {"idle", "sent", "working"}, batch : SUBSET Punch, left : SUBSET Punch,
           whose : [Users -> Workers \union {Nobody}], looked : SUBSET Punch,
           accepted : SUBSET Punch]]
    /\ cloud \in Seq([punch : Punch, worker : Workers \union {Nobody}])

(* A punch that no later pull will ask for is in the factory's database,    *)
(* but for those whose insert failed: no outage, failed pull or restart     *)
(* leaves a hole behind the cursor, and a pull only where it took longer    *)
(* than the window, from its reading (less the drift of the device's clock) *)
(* to where the window begins.                                              *)
HolesOnlyInSlowPulls ==
    \A p \in log : p.at < Since /\ p.at \notin blind => p \in Stored \union refused

(* The cloud has a row of the punch, or of somebody for that time.          *)
InCloud(p) ==
    \E i \in DOMAIN cloud :
        \/ cloud[i].punch = p
        \/ cloud[i].worker # Nobody /\ cloud[i].punch.at = p.at

(* What is marked synced, and never sent again, the cloud has: whichever    *)
(* part of a batch it could insert, whatever got lost.                      *)
SyncedIsInCloud == \A p \in synced : InCloud(p)

(* However often a punch is sent, a worker has one row for its time, and a  *)
(* user that is nobody's one as well, as long as the cloud handles one push *)
(* at a time.                                                               *)
OneRowPerWorker ==
    \A i, j \in DOMAIN cloud :
        i # j /\ cloud[i].worker = cloud[j].worker =>
            IF cloud[i].worker = Nobody THEN cloud[i].punch # cloud[j].punch
                                        ELSE cloud[i].punch.at # cloud[j].punch.at

(* When failures stop, every punch of the device reaches the cloud, but for *)
(* those whose insert failed in the factory and those a slow pull missed.   *)
EveryPunchArrives ==
    \A u \in Users, at \in 0 .. MaxClock + Drift :
        LET p == [user |-> u, at |-> at]
        IN (p \in log) ~> (p \in refused \/ p.at \in blind \/ InCloud(p))
=============================================================================
