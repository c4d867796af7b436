---------------------- MODULE AttendancePunches_proofs ----------------------
(***************************************************************************)
(* Proofs about AttendancePunches, for any users, workers, requests, sizes *)
(* of batches and numbers of failures: no pull leaves a hole when the      *)
(* window covers a pull and the drift, what is synced is in the cloud, and *)
(* pushes that follow one another count a punch once for a worker.         *)
(***************************************************************************)
EXTENDS AttendancePunches, FiniteSetTheorems, SequenceTheorems, TLAPS

-----------------------------------------------------------------------------
Req == [state : {"idle", "sent", "working"}, batch : SUBSET Punch, left : SUBSET Punch,
        whose : [Users -> Workers \union {Nobody}], looked : SUBSET Punch,
        accepted : SUBSET Punch]
Pull == [state : {"idle", "asking", "storing"}, since : Int, got : SUBSET Punch, readAt : Nat]

LEMMA Blanks == NoRequest \in Req /\ NoPull \in Pull
BY DEF NoRequest, Req, NoPull, Pull

(* What an appended sequence has. *)
LEMMA Appended ==
    ASSUME NEW S, NEW s \in Seq(S), NEW x \in S
    PROVE  /\ Append(s, x) \in Seq(S)
           /\ Len(Append(s, x)) = Len(s) + 1
           /\ DOMAIN Append(s, x) = DOMAIN s \union {Len(s) + 1}
           /\ Len(s) + 1 \notin DOMAIN s
           /\ \A i \in DOMAIN s : Append(s, x)[i] = s[i]
           /\ Append(s, x)[Len(s) + 1] = x
OBVIOUS

LEMMA StoredPunches == ASSUME PunchTypeOK PROVE Stored \subseteq Punch /\ Oldest(Batch) \subseteq Punch
<1>1. stored \in Seq(Punch)
  BY DEF PunchTypeOK
<1>2. \A i \in DOMAIN stored : stored[i] \in Punch
  BY <1>1
<1> QED BY <1>2 DEF Stored, Oldest

-----------------------------------------------------------------------------
LEMMA TypesInit == Init => PunchTypeOK
BY Blanks, PunchAssumption DEF Init, PunchTypeOK, Req, Pull

LEMMA TypesPreserved ==
    ASSUME PunchTypeOK, [Next]_vars
    PROVE  PunchTypeOK'
<1> USE PunchAssumption
<1>1. CASE Tick
  <2>1. clock' \in Nat /\ cursor' \in 0 .. clock'
    BY <1>1 DEF Tick, PunchTypeOK, factory
  <2> QED BY <1>1, <2>1 DEF Tick, PunchTypeOK, factory
<1>2. CASE \E u \in Users : Tap(u)
  <2>1. PICK u \in Users, at \in (clock - Drift) .. (clock + Drift) :
          at >= 0 /\ log' = log \union {[user |-> u, at |-> at]}
    BY <1>2 DEF Tap
  <2>2. at \in Nat
    BY <2>1 DEF PunchTypeOK
  <2>3. log' \subseteq Punch
    BY <2>1, <2>2 DEF PunchTypeOK, Punch
  <2> QED BY <1>2, <2>3 DEF Tap, PunchTypeOK, factory
<1>3. CASE \E u \in Users : Map(u)
  <2>1. PICK u \in Users : Map(u)
    BY <1>3
  <2>2. owner \in [Users -> Workers \union {Nobody}]
    BY DEF PunchTypeOK
  <2>3. owner' \in [Users -> Workers \union {Nobody}]
    BY <2>1, <2>2 DEF Map
  <2> QED BY <2>1, <2>3 DEF Map, PunchTypeOK, factory
<1>4. CASE PullBegin
  <2>1. pull' \in Pull
    <3>1. Since \in Int
      BY DEF PunchTypeOK, Since
    <3>2. pull' = [NoPull EXCEPT !.state = "asking", !.since = Since]
      BY <1>4 DEF PullBegin
    <3> QED BY <3>1, <3>2, Blanks DEF Pull
  <2> QED BY <1>4, <2>1 DEF PullBegin, PunchTypeOK, Pull
<1>5. CASE PullRead
  <2> DEFINE got == {p \in log : p.at >= pull.since}
  <2>1. pull' \in Pull
    <3>1. got \subseteq Punch /\ clock \in Nat /\ pull \in Pull
      <4>1. log \subseteq Punch /\ clock \in Nat /\ pull \in Pull
        BY DEF PunchTypeOK, Pull
      <4> QED BY <4>1
    <3>2. pull' = [pull EXCEPT !.state = "storing", !.readAt = clock, !.got = got]
      BY <1>5 DEF PullRead
    <3> HIDE DEF got
    <3> QED BY <3>1, <3>2 DEF Pull
  <2> QED BY <1>5, <2>1 DEF PullRead, PunchTypeOK, Pull
<1>6. CASE PullEnd
  <2>1. blind' \subseteq 0 .. clock'
    BY <1>6 DEF PullEnd, Unseen, PunchTypeOK
  <2>2. cursor' \in 0 .. clock' /\ pull' \in Pull
    BY <1>6, Blanks DEF PullEnd, PunchTypeOK
  <2> QED BY <1>6, <2>1, <2>2 DEF PullEnd, PunchTypeOK, Pull
<1>7. CASE \E p \in pull.got : PullStores(p)
  <2>1. PICK p \in pull.got : PullStores(p)
    BY <1>7
  <2>2. p \in Punch
    BY DEF PunchTypeOK
  <2>3. pull' \in Pull
    BY <2>1 DEF PullStores, PunchTypeOK, Pull
  <2>4. stored' \in Seq(Punch)
    <3>1. stored' = stored \/ stored' = Append(stored, p)
      BY <2>1 DEF PullStores
    <3>2. stored \in Seq(Punch)
      BY DEF PunchTypeOK
    <3>3. Append(stored, p) \in Seq(Punch)
      BY <2>2, <3>2, Appended
    <3> QED BY <3>1, <3>2, <3>3
  <2>5. refused' \subseteq Punch
    BY <2>1, <2>2 DEF PullStores, PunchTypeOK
  <2>6. failures' \in Nat
    <3>1. failures' = failures \/ failures' = failures + 1
      BY <2>1 DEF PullStores, Fails
    <3> QED BY <3>1 DEF PunchTypeOK
  <2> QED BY <2>1, <2>3, <2>4, <2>5, <2>6 DEF PullStores, PunchTypeOK, Pull
<1>8. CASE PullFails
  BY <1>8, Blanks DEF PullFails, CursorAfterFailure, Fails, PunchTypeOK, Pull
<1>9. CASE \E r \in Requests : PushBegin(r)
  <2>1. PICK r \in Requests : PushBegin(r)
    BY <1>9
  <2>2. [NoRequest EXCEPT !.state = "sent", !.batch = Oldest(Batch)] \in Req
    BY Blanks, StoredPunches DEF Req
  <2>3. request' \in [Requests -> Req]
    BY <2>1, <2>2 DEF PushBegin, PunchTypeOK, Req
  <2> QED BY <2>1, <2>3 DEF PushBegin, PunchTypeOK, Req
<1>10. CASE \E r \in Requests : Resolve(r)
  <2>1. PICK r \in Requests : Resolve(r)
    BY <1>10
  <2>2. request' \in [Requests -> Req]
    <3>1. request[r] \in Req /\ owner \in [Users -> Workers \union {Nobody}]
      BY DEF PunchTypeOK, Req
    <3>2. [request[r] EXCEPT !.state = "working", !.whose = owner, !.left = request[r].batch] \in Req
      BY <3>1 DEF Req
    <3>3. request' = [request EXCEPT ![r] = [request[r] EXCEPT !.state = "working", !.whose = owner,
                                                               !.left = request[r].batch]]
      BY <2>1 DEF Resolve, PunchTypeOK
    <3> QED BY <3>2, <3>3 DEF PunchTypeOK, Req
  <2> QED BY <2>1, <2>2 DEF Resolve, PunchTypeOK, Req, factory
<1>11. CASE \E r \in Requests : Answer(r)
  <2>1. PICK r \in Requests : Answer(r)
    BY <1>11
  <2>2. request' \in [Requests -> Req]
    BY <2>1, Blanks DEF Answer, PunchTypeOK, Req
  <2>3. synced' \subseteq Punch /\ push' \in Requests \union {NoPush}
    BY <2>1 DEF Answer, Acked, PunchTypeOK
  <2> QED BY <2>1, <2>2, <2>3 DEF Answer, PunchTypeOK, Req
<1>12. CASE \E r \in Requests : \E p \in request[r].left : LookUp(r, p)
  <2>r. PICK r \in Requests : \E p \in request[r].left : LookUp(r, p)
    BY <1>12
  <2>1. PICK p \in request[r].left : LookUp(r, p)
    BY <2>r
  <2>2. request' \in [Requests -> Req]
    <3>1. request[r] \in Req /\ p \in Punch
      BY DEF PunchTypeOK, Req
    <3> DEFINE known == Known(p, request[r].whose[p.user])
               q == [request[r] EXCEPT
                       !.left = @ \ {p},
                       !.looked = IF known THEN {} ELSE {p},
                       !.accepted = IF known THEN @ \union {p} ELSE @]
    <3>2. q \in Req
      <4> HIDE DEF known
      <4> QED BY <3>1 DEF Req
    <3>3. request' = [request EXCEPT ![r] = q]
      BY <2>1 DEF LookUp, PunchTypeOK
    <3> QED BY <3>2, <3>3 DEF PunchTypeOK, Req
  <2> QED BY <2>1, <2>2 DEF LookUp, PunchTypeOK, Req, factory
<1>13. CASE \E r \in Requests : \E p \in request[r].looked : Create(r, p)
  <2>r. PICK r \in Requests : \E p \in request[r].looked : Create(r, p)
    BY <1>13
  <2>1. PICK p \in request[r].looked : Create(r, p)
    BY <2>r
  <2>2. p \in Punch /\ request[r].whose[p.user] \in Workers \union {Nobody}
    BY DEF PunchTypeOK, Punch
  <2>3. cloud' \in Seq([punch : Punch, worker : Workers \union {Nobody}])
    <3>1. [punch |-> p, worker |-> request[r].whose[p.user]] \in [punch : Punch, worker : Workers \union {Nobody}]
      BY <2>2
    <3>2. cloud' = cloud \/ cloud' = Append(cloud, [punch |-> p, worker |-> request[r].whose[p.user]])
      BY <2>1 DEF Create
    <3> DEFINE Row == [punch : Punch, worker : Workers \union {Nobody}]
               x == [punch |-> p, worker |-> request[r].whose[p.user]]
    <3>3. cloud \in Seq(Row) /\ x \in Row
      BY <3>1 DEF PunchTypeOK
    <3>4. cloud' = cloud \/ cloud' = Append(cloud, x)
      BY <3>2
    <3>5. cloud' \in Seq(Row)
      <4> HIDE DEF Row, x
      <4> QED BY <3>3, <3>4, Appended
    <3> QED BY <3>5
  <2>4. failures' \in Nat
    <3>1. failures' = failures \/ failures' = failures + 1
      BY <2>1 DEF Create, Fails
    <3> QED BY <3>1 DEF PunchTypeOK
  <2>5. request' \in [Requests -> Req]
    <3>1. request[r] \in Req
      BY DEF PunchTypeOK, Req
    <3>2. /\ [request[r] EXCEPT !.looked = {}, !.accepted = @ \union {p}] \in Req
          /\ [request[r] EXCEPT !.looked = {}] \in Req
      BY <3>1, <2>2 DEF Req
    <3>3. \/ request' = [request EXCEPT ![r] = [request[r] EXCEPT !.looked = {}, !.accepted = @ \union {p}]]
          \/ request' = [request EXCEPT ![r] = [request[r] EXCEPT !.looked = {}]]
      BY <2>1 DEF Create, PunchTypeOK
    <3> QED BY <3>2, <3>3 DEF PunchTypeOK, Req
  <2> QED BY <2>1, <2>3, <2>4, <2>5 DEF Create, PunchTypeOK, Req, factory
<1>14. CASE ConnLost
  BY <1>14 DEF ConnLost, Fails, PunchTypeOK
<1>15. CASE CloudRestart
  BY <1>15, Blanks DEF CloudRestart, Fails, PunchTypeOK, Req
<1>16. CASE FactoryRestart
  BY <1>16, Blanks DEF FactoryRestart, Fails, PunchTypeOK, Pull
<1>17. CASE UNCHANGED vars
  BY <1>17 DEF vars, factory, PunchTypeOK
<1> QED BY <1>1, <1>2, <1>3, <1>4, <1>5, <1>6, <1>7, <1>8, <1>9, <1>10, <1>11, <1>12,
           <1>13, <1>14, <1>15, <1>16, <1>17 DEF Next, Pulling, Handling

(* The types of device, factory, pushes and cloud, for any bounds.          *)
THEOREM PunchTypes == Spec => []PunchTypeOK
<1>1. Init => PunchTypeOK
  BY TypesInit
<1>2. PunchTypeOK /\ [Next]_vars => PunchTypeOK'
  BY TypesPreserved
<1> QED BY <1>1, <1>2, PTL DEF Spec

-----------------------------------------------------------------------------
(* HolesOnlyInSlowPulls is not inductive: a pull that ends moves the cursor *)
(* past punches made while it ran.  What makes it so: a pull goes back to   *)
(* the window of the present cursor; once it has read the log, a punch that *)
(* it neither holds nor has dealt with is no older than the reading less    *)
(* the drift, unless an earlier pull was blind to it; and a stamp the drift *)
(* can still put behind the window is one the last pull was blind to.       *)
Reached(p) == p \in Stored \union refused
Reading ==
    /\ pull.state # "idle" => pull.since = Since
    /\ pull.state = "storing" =>
         /\ pull.readAt <= clock
         /\ \A p \in log : p \in pull.got \/ Reached(p) \/ p.at >= pull.readAt - Drift \/ p.at \in blind
DriftIsBlind == \A x \in Nat : cursor - Drift <= x /\ x < Since => x \in blind

Gapless == PunchTypeOK /\ HolesOnlyInSlowPulls /\ Reading /\ DriftIsBlind

LEMMA StoredGrows ==
    ASSUME PunchTypeOK, NEW p \in Punch, stored' = Append(stored, p)
    PROVE  Stored' = Stored \union {p}
<1>1. stored \in Seq(Punch)
  BY DEF PunchTypeOK
<1>2. /\ DOMAIN stored' = DOMAIN stored \union {Len(stored) + 1}
      /\ \A i \in DOMAIN stored : stored'[i] = stored[i]
      /\ stored'[Len(stored) + 1] = p
      /\ Len(stored) + 1 \notin DOMAIN stored
  BY <1>1, Appended
<1> QED BY <1>2 DEF Stored

LEMMA GaplessPreserved ==
    ASSUME Gapless, [Next]_vars
    PROVE  Gapless'
<1> USE PunchAssumption
<1>0. PunchTypeOK /\ PunchTypeOK'
  BY TypesPreserved DEF Gapless
<1>t. \A p \in log : p.at \in Nat
  BY <1>0 DEF PunchTypeOK, Punch
<1>s. /\ clock \in Nat /\ cursor \in Nat /\ cursor <= clock /\ pull.readAt \in Nat
      /\ pull.state \in {"idle", "asking", "storing"}
  BY <1>0 DEF PunchTypeOK
<1> SUFFICES HolesOnlyInSlowPulls' /\ Reading' /\ DriftIsBlind'
  BY <1>0 DEF Gapless
<1>1. CASE Tick
  <2>1. HolesOnlyInSlowPulls' /\ DriftIsBlind'
    BY <1>1 DEF Tick, factory, Gapless, HolesOnlyInSlowPulls, DriftIsBlind, Since, Stored
  <2>2. Reading'
    BY <1>1, <1>s DEF Tick, factory, Gapless, Reading, Reached, Since, Stored
  <2> QED BY <2>1, <2>2
<1>2. CASE \E u \in Users : Tap(u)
  <2>1. PICK u \in Users, at \in (clock - Drift) .. (clock + Drift) :
          at >= 0 /\ log' = log \union {[user |-> u, at |-> at]}
    BY <1>2 DEF Tap
  <2>2. UNCHANGED <<clock, cursor, pull, stored, refused, blind>>
    BY <1>2 DEF Tap, factory
  <2>3. at >= clock - Drift /\ at \in Int
    BY <2>1, <1>s
  <2>4. HolesOnlyInSlowPulls'
    <3>1. at >= cursor - Drift /\ at \in Nat
      BY <2>1, <2>3, <1>s
    <3>2. at < Since => at \in blind
      BY <3>1 DEF Gapless, DriftIsBlind
    <3> QED BY <2>1, <2>2, <3>2 DEF Gapless, HolesOnlyInSlowPulls, Since, Stored
  <2>5. Reading'
    BY <2>1, <2>2, <2>3, <1>s DEF Gapless, Reading, Reached, Since, Stored
  <2>6. DriftIsBlind'
    BY <2>2 DEF Gapless, DriftIsBlind, Since
  <2> QED BY <2>4, <2>5, <2>6
<1>3. CASE PullBegin
  BY <1>3 DEF PullBegin, NoPull, Gapless, HolesOnlyInSlowPulls, DriftIsBlind, Reading, Since, Stored
<1>4. CASE PullRead
  <2>1. HolesOnlyInSlowPulls' /\ DriftIsBlind'
    BY <1>4 DEF PullRead, Gapless, HolesOnlyInSlowPulls, DriftIsBlind, Since, Stored
  <2>2. pull' = [pull EXCEPT !.state = "storing", !.readAt = clock,
                             !.got = {p \in log : p.at >= pull.since}]
    BY <1>4 DEF PullRead
  <2>3. /\ pull'.state = "storing" /\ pull'.readAt = clock /\ pull'.since = pull.since
        /\ pull'.got = {p \in log : p.at >= pull.since}
    BY <2>2, <1>0 DEF PunchTypeOK
  <2>4. pull.since = Since
    BY <1>4 DEF PullRead, Gapless, Reading
  <2>5. \A p \in log : p \in pull'.got \/ Reached(p) \/ p.at \in blind
    BY <2>3, <2>4, <1>t, <1>s DEF Gapless, HolesOnlyInSlowPulls, Reached, Since
  <2>6. Reading'
    BY <1>4, <2>3, <2>4, <2>5, <1>s DEF PullRead, Reading, Reached, Since, Stored
  <2> QED BY <2>1, <2>6
<1>5. CASE \E p \in pull.got : PullStores(p)
  <2>1. PICK p \in pull.got : PullStores(p)
    BY <1>5
  <2>2. p \in Punch
    BY <1>0 DEF PunchTypeOK
  <2>3. Reached(p)' /\ \A q : Reached(q) => Reached(q)'
    <3>1. CASE p \in Stored /\ UNCHANGED <<stored, refused>>
      BY <3>1 DEF Reached, Stored
    <3>2. CASE stored' = Append(stored, p) /\ UNCHANGED refused
      BY <3>2, <2>2, <1>0, StoredGrows DEF Reached
    <3>3. CASE refused' = refused \union {p} /\ UNCHANGED stored
      BY <3>3 DEF Reached, Stored
    <3> QED BY <2>1, <3>1, <3>2, <3>3 DEF PullStores
  <2>4. UNCHANGED <<log, cursor, clock, blind>> /\ pull' = [pull EXCEPT !.got = @ \ {p}]
    BY <2>1 DEF PullStores
  <2>5. /\ pull'.state = pull.state /\ pull'.readAt = pull.readAt /\ pull'.since = pull.since
        /\ pull'.got = pull.got \ {p}
    BY <2>4, <1>0 DEF PunchTypeOK
  <2>6. HolesOnlyInSlowPulls' /\ DriftIsBlind'
    BY <2>3, <2>4 DEF Gapless, HolesOnlyInSlowPulls, DriftIsBlind, Reached, Since
  <2>7. Reading'
    BY <2>3, <2>4, <2>5 DEF Gapless, Reading, Since
  <2> QED BY <2>6, <2>7
<1>6. CASE PullEnd
  <2>1. /\ UNCHANGED <<log, stored, refused, clock>> /\ pull' = NoPull /\ cursor' = clock
        /\ blind' = blind \union Unseen(pull.readAt)
    BY <1>6 DEF PullEnd
  <2>2. \A p \in log :
          p \notin Stored \union refused => p.at >= pull.readAt - Drift \/ p.at \in blind
    BY <1>6 DEF PullEnd, Gapless, Reading, Reached
  <2>3. pull.readAt <= clock
    BY <1>6 DEF PullEnd, Gapless, Reading
  <2>4. \A x \in Nat : pull.readAt - Drift <= x /\ x < clock - Window => x \in blind'
    BY <2>1, <1>s DEF Unseen
  <2>5. ASSUME NEW p \in log, p.at < clock - Window, p.at \notin blind'
        PROVE  p \in Stored \union refused
    BY <2>1, <2>2, <2>4, <2>5, <1>t
  <2>6. HolesOnlyInSlowPulls'
    BY <2>1, <2>5 DEF HolesOnlyInSlowPulls, Since, Stored
  <2>7. Reading'
    BY <2>1 DEF Reading, NoPull
  <2>8. DriftIsBlind'
    BY <2>1, <2>3, <2>4, <1>s DEF DriftIsBlind, Since
  <2> QED BY <2>6, <2>7, <2>8
<1>7. CASE PullFails
  BY <1>7 DEF PullFails, CursorAfterFailure, NoPull, Gapless, HolesOnlyInSlowPulls, DriftIsBlind, Reading, Since, Stored
<1>8. CASE FactoryRestart
  BY <1>8 DEF FactoryRestart, NoPull, Gapless, HolesOnlyInSlowPulls, DriftIsBlind, Reading, Since,
              Stored
<1>9. CASE UNCHANGED <<clock, log, cursor, pull, stored, refused, blind>>
  BY <1>9 DEF Gapless, HolesOnlyInSlowPulls, DriftIsBlind, Reading, Reached, Since, Stored
<1>10. CASE \E r \in Requests : PushBegin(r) \/ Handling(r)
  BY <1>9, <1>10 DEF PushBegin, Handling, Resolve, Answer, LookUp, Create, factory
<1>11. CASE ConnLost \/ CloudRestart \/ UNCHANGED vars \/ \E u \in Users : Map(u)
  BY <1>9, <1>11 DEF ConnLost, CloudRestart, Map, vars, factory
<1> QED BY <1>1, <1>2, <1>3, <1>4, <1>5, <1>6, <1>7, <1>8, <1>10, <1>11 DEF Next, Pulling

(* However long pulls take and however far the device's clock is off, the   *)
(* only holes behind the cursor are at times a pull was blind to, through   *)
(* any outages, restarts and failed pulls.                                  *)
THEOREM HolesAreBehindSlowPulls == Spec => []HolesOnlyInSlowPulls
<1>1. Init => Gapless
  BY TypesInit, PunchAssumption
     DEF Init, Gapless, HolesOnlyInSlowPulls, DriftIsBlind, Since, Reading, NoPull
<1>2. Gapless /\ [Next]_vars => Gapless'
  BY GaplessPreserved
<1>3. Gapless => HolesOnlyInSlowPulls
  BY DEF Gapless
<1> QED BY <1>1, <1>2, <1>3, PTL DEF Spec

-----------------------------------------------------------------------------
(* What a request has accepted is in the cloud, so what the factory marks   *)
(* is.                                                                      *)
Honest ==
    /\ PunchTypeOK /\ SyncedIsInCloud
    /\ \A r \in Requests : \A p \in request[r].accepted : InCloud(p)

LEMMA CloudGrows ==
    ASSUME PunchTypeOK, NEW p \in Punch, NEW w \in Workers \union {Nobody},
           cloud' = Append(cloud, [punch |-> p, worker |-> w])
    PROVE  /\ DOMAIN cloud' = DOMAIN cloud \union {Len(cloud) + 1}
           /\ Len(cloud) + 1 \notin DOMAIN cloud
           /\ \A i \in DOMAIN cloud : cloud'[i] = cloud[i]
           /\ cloud'[Len(cloud) + 1] = [punch |-> p, worker |-> w]
<1>1. cloud \in Seq([punch : Punch, worker : Workers \union {Nobody}])
  BY DEF PunchTypeOK
<1>2. [punch |-> p, worker |-> w] \in [punch : Punch, worker : Workers \union {Nobody}]
  OBVIOUS
<1> QED BY <1>1, <1>2, Appended

LEMMA HonestPreserved ==
    ASSUME Honest, [Next]_vars
    PROVE  Honest'
<1>0. PunchTypeOK /\ PunchTypeOK'
  BY TypesPreserved DEF Honest
<1>a. request \in [Requests -> Req]
  BY <1>0 DEF PunchTypeOK, Req
<1> SUFFICES /\ SyncedIsInCloud'
             /\ \A r \in Requests : \A p \in request'[r].accepted : InCloud(p)'
  BY <1>0 DEF Honest
<1>1. CASE UNCHANGED <<synced, request, cloud>>
  BY <1>1 DEF Honest, SyncedIsInCloud, InCloud
<1>2. CASE \E r \in Requests : PushBegin(r)
  <2>1. PICK r \in Requests : PushBegin(r)
    BY <1>2
  <2>2. request'[r].accepted = {} /\ \A q \in Requests : q # r => request'[q] = request[q]
    BY <2>1, <1>a DEF PushBegin, NoRequest
  <2> QED BY <2>1, <2>2 DEF PushBegin, Honest, SyncedIsInCloud, InCloud
<1>3. CASE \E r \in Requests : Resolve(r)
  <2>1. PICK r \in Requests : Resolve(r)
    BY <1>3
  <2>2. \A q \in Requests : request'[q].accepted = request[q].accepted
    BY <2>1, <1>a DEF Resolve, Req
  <2> QED BY <2>1, <2>2 DEF Resolve, factory, Honest, SyncedIsInCloud, InCloud
<1>4. CASE \E r \in Requests : Answer(r)
  <2>1. PICK r \in Requests : Answer(r)
    BY <1>4
  <2>2. request'[r].accepted = {} /\ \A q \in Requests : q # r => request'[q] = request[q]
    BY <2>1, <1>a DEF Answer, NoRequest
  <2>3. synced' \subseteq synced \union request[r].accepted /\ UNCHANGED cloud
    BY <2>1 DEF Answer, Acked
  <2> QED BY <2>2, <2>3 DEF Honest, SyncedIsInCloud, InCloud
<1>5. CASE \E r \in Requests : \E p \in request[r].left : LookUp(r, p)
  <2>r. PICK r \in Requests : \E p \in request[r].left : LookUp(r, p)
    BY <1>5
  <2>1. PICK p \in request[r].left : LookUp(r, p)
    BY <2>r
  <2>2. \A q \in Requests : q # r => request'[q] = request[q]
    BY <2>1, <1>a DEF LookUp
  <2> DEFINE known == Known(p, request[r].whose[p.user])
  <2>3. request'[r].accepted = IF known THEN request[r].accepted \union {p} ELSE request[r].accepted
    <3> HIDE DEF known
    <3>1. request' = [request EXCEPT
            ![r].left = @ \ {p},
            ![r].looked = IF known THEN {} ELSE {p},
            ![r].accepted = IF known THEN @ \union {p} ELSE @]
      BY <2>1 DEF LookUp, known
    <3> QED BY <3>1, <1>a DEF Req
  <2>4. known => InCloud(p)
    BY DEF Known, InCloud
  <2>5. UNCHANGED <<synced, cloud>>
    BY <2>1 DEF LookUp, factory
  <2> HIDE DEF known
  <2> QED BY <2>2, <2>3, <2>4, <2>5 DEF Honest, SyncedIsInCloud, InCloud
<1>6. CASE \E r \in Requests : \E p \in request[r].looked : Create(r, p)
  <2>r. PICK r \in Requests : \E p \in request[r].looked : Create(r, p)
    BY <1>6
  <2>1. PICK p \in request[r].looked : Create(r, p)
    BY <2>r
  <2>2. p \in Punch /\ request[r].whose[p.user] \in Workers \union {Nobody}
    BY <1>0 DEF PunchTypeOK, Punch
  <2>3. UNCHANGED synced
    BY <2>1 DEF Create, factory
  <2>4. CASE cloud' = Append(cloud, [punch |-> p, worker |-> request[r].whose[p.user]])
             /\ request' = [request EXCEPT ![r].looked = {}, ![r].accepted = @ \union {p}]
    <3>1. InCloud(p)' /\ \A q : InCloud(q) => InCloud(q)'
      BY <2>4, <2>2, <1>0, CloudGrows DEF InCloud
    <3>2. /\ request'[r].accepted = request[r].accepted \union {p}
          /\ \A q \in Requests : q # r => request'[q] = request[q]
      BY <2>4, <1>a DEF Req
    <3> QED BY <3>1, <3>2, <2>3 DEF Honest, SyncedIsInCloud
  <2>5. CASE UNCHANGED cloud /\ request' = [request EXCEPT ![r].looked = {}]
    <3>1. \A q \in Requests : request'[q].accepted = request[q].accepted
      BY <2>5, <1>a DEF Req
    <3> QED BY <2>5, <3>1, <2>3 DEF Honest, SyncedIsInCloud, InCloud
  <2> QED BY <2>1, <2>4, <2>5 DEF Create
<1>7. CASE CloudRestart
  BY <1>7 DEF CloudRestart, NoRequest, Honest, SyncedIsInCloud, InCloud
<1>8. CASE Tick \/ PullFails \/ ConnLost \/ FactoryRestart \/ UNCHANGED vars
  BY <1>1, <1>8 DEF Tick, PullFails, ConnLost, FactoryRestart, vars, factory
<1>9. CASE Pulling \/ \E u \in Users : Tap(u) \/ Map(u)
  BY <1>1, <1>9 DEF Pulling, PullBegin, PullRead, PullEnd, PullStores, Tap, Map, factory
<1> QED BY <1>2, <1>3, <1>4, <1>5, <1>6, <1>7, <1>8, <1>9 DEF Next, Handling

(* What is marked synced is in the cloud, however pushes fail or overlap.   *)
THEOREM SyncedAreThere == Spec => []SyncedIsInCloud
<1>1. Init => Honest
  BY TypesInit DEF Init, Honest, SyncedIsInCloud, NoRequest
<1>2. Honest /\ [Next]_vars => Honest'
  BY HonestPreserved
<1>3. Honest => SyncedIsInCloud
  BY DEF Honest
<1> QED BY <1>1, <1>2, <1>3, PTL DEF Spec

-----------------------------------------------------------------------------
(* With one push at a time, what a request has looked up and not found is   *)
(* still not there when it inserts it.                                      *)
OneByOne ==
    \A r, q \in Requests : request[r].state # "idle" /\ request[q].state # "idle" => r = q
Looked ==
    \A r \in Requests :
        /\ request[r].state = "working" \/ request[r].looked = {}
        /\ \A p \in request[r].looked :
             request[r].looked = {p} /\ ~Known(p, request[r].whose[p.user])

Single == PunchTypeOK /\ OneByOne /\ Looked /\ OneRowPerWorker

LEMMA SinglePreserved ==
    ASSUME Overlap = FALSE, Single, [Next]_vars
    PROVE  Single'
<1>0. PunchTypeOK /\ PunchTypeOK'
  BY TypesPreserved DEF Single
<1>a. request \in [Requests -> Req]
  BY <1>0 DEF PunchTypeOK, Req
<1> SUFFICES OneByOne' /\ Looked' /\ OneRowPerWorker'
  BY <1>0 DEF Single
<1>1. CASE UNCHANGED <<request, cloud>>
  BY <1>1 DEF Single, OneByOne, Looked, OneRowPerWorker, Known
<1>2. CASE \E r \in Requests : PushBegin(r)
  <2>1. PICK r \in Requests : PushBegin(r)
    BY <1>2
  <2>2. \A q \in Requests : request[q].state = "idle"
    BY <2>1 DEF PushBegin
  <2>3. request'[r].looked = {} /\ \A q \in Requests : q # r => request'[q] = request[q]
    BY <2>1, <1>a DEF PushBegin, NoRequest
  <2>4. UNCHANGED cloud
    BY <2>1 DEF PushBegin
  <2> QED BY <2>2, <2>3, <2>4 DEF Single, OneByOne, Looked, OneRowPerWorker, Known
<1>3. CASE \E r \in Requests : Resolve(r)
  <2>1. PICK r \in Requests : Resolve(r)
    BY <1>3
  <2>2. /\ request[r].state = "sent" /\ request'[r].state = "working"
        /\ request'[r].looked = request[r].looked
        /\ \A q \in Requests : q # r => request'[q] = request[q]
    BY <2>1, <1>a DEF Resolve, Req
  <2>3. request[r].looked = {} /\ UNCHANGED cloud
    BY <2>1, <2>2 DEF Single, Looked, Resolve
  <2> QED BY <2>2, <2>3 DEF Single, OneByOne, Looked, OneRowPerWorker, Known
<1>4. CASE \E r \in Requests : Answer(r)
  <2>1. PICK r \in Requests : Answer(r)
    BY <1>4
  <2>2. /\ request'[r].looked = {} /\ request'[r].state = "idle"
        /\ \A q \in Requests : q # r => request'[q] = request[q]
    BY <2>1, <1>a DEF Answer, NoRequest
  <2>3. UNCHANGED cloud
    BY <2>1 DEF Answer
  <2> QED BY <2>2, <2>3 DEF Single, OneByOne, Looked, OneRowPerWorker, Known
<1>5. CASE \E r \in Requests : \E p \in request[r].left : LookUp(r, p)
  <2>r. PICK r \in Requests : \E p \in request[r].left : LookUp(r, p)
    BY <1>5
  <2>1. PICK p \in request[r].left : LookUp(r, p)
    BY <2>r
  <2> DEFINE known == Known(p, request[r].whose[p.user])
  <2>2. /\ request[r].state = "working" /\ request'[r].state = "working"
        /\ request'[r].whose = request[r].whose
        /\ request'[r].looked = IF known THEN {} ELSE {p}
        /\ \A q \in Requests : q # r => request'[q] = request[q]
    <3> HIDE DEF known
    <3>1. request' = [request EXCEPT
            ![r].left = @ \ {p},
            ![r].looked = IF known THEN {} ELSE {p},
            ![r].accepted = IF known THEN @ \union {p} ELSE @]
      BY <2>1 DEF LookUp, known
    <3>2. request[r].state = "working"
      BY <2>1 DEF LookUp
    <3> QED BY <3>1, <3>2, <1>a DEF Req
  <2>3. UNCHANGED cloud
    BY <2>1 DEF LookUp
  <2>4. OneByOne'
    BY <2>2 DEF Single, OneByOne
  <2>5. OneRowPerWorker'
    BY <2>3 DEF Single, OneRowPerWorker
  <2>6. Looked'
    <3>1. \A s, w : Known(s, w)' = Known(s, w)
      BY <2>3 DEF Known
    <3> QED BY <2>2, <3>1 DEF Single, Looked
  <2> QED BY <2>4, <2>5, <2>6
<1>6. CASE \E r \in Requests : \E p \in request[r].looked : Create(r, p)
  <2>r. PICK r \in Requests : \E p \in request[r].looked : Create(r, p)
    BY <1>6
  <2>1. PICK p \in request[r].looked : Create(r, p)
    BY <2>r
  <2> DEFINE w == request[r].whose[p.user]
  <2>2. p \in Punch /\ w \in Workers \union {Nobody}
    BY <1>0 DEF PunchTypeOK, Punch
  <2>3. request[r].looked = {p} /\ ~Known(p, w) /\ request[r].state = "working"
    BY <2>1 DEF Single, Looked
  <2>4. \A q \in Requests : q # r => request[q].looked = {}
    BY <2>3 DEF Single, OneByOne, Looked
  <2>5. /\ request'[r].looked = {}
        /\ \A q \in Requests : request'[q].state = request[q].state
        /\ \A q \in Requests : q # r => request'[q] = request[q]
    <3>1. CASE request' = [request EXCEPT ![r].looked = {}, ![r].accepted = @ \union {p}]
      BY <3>1, <1>a DEF Req
    <3>2. CASE request' = [request EXCEPT ![r].looked = {}]
      BY <3>2, <1>a DEF Req
    <3> QED BY <2>1, <3>1, <3>2 DEF Create
  <2>6. OneByOne' /\ Looked'
    BY <2>3, <2>4, <2>5 DEF Single, OneByOne, Looked
  <2>7. CASE cloud' = Append(cloud, [punch |-> p, worker |-> w])
    <3>1. \A i \in DOMAIN cloud :
            cloud[i].worker = w => IF w = Nobody THEN cloud[i].punch # p
                                                 ELSE cloud[i].punch.at # p.at
      BY <2>3 DEF Known
    <3>2. /\ DOMAIN cloud' = DOMAIN cloud \union {Len(cloud) + 1}
          /\ Len(cloud) + 1 \notin DOMAIN cloud
          /\ \A i \in DOMAIN cloud : cloud'[i] = cloud[i]
          /\ cloud'[Len(cloud) + 1] = [punch |-> p, worker |-> w]
      BY <2>2, <2>7, <1>0, CloudGrows
    <3> QED BY <2>6, <3>1, <3>2 DEF Single, OneRowPerWorker
  <2>8. CASE UNCHANGED cloud
    BY <2>6, <2>8 DEF Single, OneRowPerWorker
  <2> QED BY <2>1, <2>7, <2>8 DEF Create
<1>7. CASE CloudRestart
  BY <1>7 DEF CloudRestart, NoRequest, Single, OneByOne, Looked, OneRowPerWorker
<1>8. CASE Tick \/ PullFails \/ ConnLost \/ FactoryRestart \/ UNCHANGED vars
  BY <1>1, <1>8 DEF Tick, PullFails, ConnLost, FactoryRestart, vars
<1>9. CASE Pulling \/ \E u \in Users : Tap(u) \/ Map(u)
  BY <1>1, <1>9 DEF Pulling, PullBegin, PullRead, PullEnd, PullStores, Tap, Map
<1> QED BY <1>2, <1>3, <1>4, <1>5, <1>6, <1>7, <1>8, <1>9 DEF Next, Handling

(* If the cloud handles one push at a time, a punch has one row for each    *)
(* worker its user was mapped to when it was pushed, and no more.           *)
THEOREM OncePerWorker ==
    ASSUME Overlap = FALSE
    PROVE  Spec => []OneRowPerWorker
<1>1. Init => Single
  BY TypesInit DEF Init, Single, OneByOne, Looked, OneRowPerWorker, NoRequest
<1>2. Single /\ [Next]_vars => Single'
  BY SinglePreserved
<1>3. Single => OneRowPerWorker
  BY DEF Single
<1> QED BY <1>1, <1>2, <1>3, PTL DEF Spec
-----------------------------------------------------------------------------
(* With several pushes at a time: the rows a worker has for a time, and the  *)
(* requests that have looked it up, not found it, and are about to insert.  *)
Matches(x, v, p, w) == v = w /\ IF w = Nobody THEN x = p ELSE x.at = p.at
RowsOf(p, w) == {i \in DOMAIN cloud : Matches(cloud[i].punch, cloud[i].worker, p, w)}
Inserting(p, w) ==
    {r \in Requests : \E x \in request[r].looked : Matches(x, request[r].whose[x.user], p, w)}

OneInHand ==
    \A r \in Requests :
        /\ request[r].state = "working" \/ request[r].looked = {}
        /\ \A x, y \in request[r].looked : x = y
RoomForRows ==
    \A p \in Punch, w \in Workers \union {Nobody} :
        /\ IsFiniteSet(RowsOf(p, w))
        /\ Cardinality(RowsOf(p, w)) + Cardinality(Inserting(p, w)) <= Cardinality(Requests)

Bounded == PunchTypeOK /\ OneInHand /\ RoomForRows

LEMMA InsertingFinite ==
    ASSUME IsFiniteSet(Requests), NEW p, NEW w
    PROVE  /\ IsFiniteSet(Inserting(p, w))
           /\ Cardinality(Inserting(p, w)) \in Nat /\ Cardinality(Inserting(p, w)') \in Nat
           /\ Cardinality(Inserting(p, w)') <= Cardinality(Requests)
           /\ Cardinality(Requests) \in Nat
<1>1. Inserting(p, w) \in SUBSET Requests /\ Inserting(p, w)' \in SUBSET Requests
  BY DEF Inserting
<1>2. IsFiniteSet(Inserting(p, w)) /\ IsFiniteSet(Inserting(p, w)')
  BY <1>1, FS_Subset
<1>3. Cardinality(Inserting(p, w)') <= Cardinality(Requests)
  BY <1>1, FS_Subset
<1> QED BY <1>2, <1>3, FS_CardinalityType

(* The room of one worker and time, whatever a step does to it. *)
LEMMA RoomKept ==
    ASSUME IsFiniteSet(Requests), RoomForRows, NEW p \in Punch, NEW w \in Workers \union {Nobody},
           \/ RowsOf(p, w)' = RowsOf(p, w) /\ Inserting(p, w)' \subseteq Inserting(p, w)
           \/ RowsOf(p, w)' = {}
           \/ \E n, r : /\ RowsOf(p, w)' = RowsOf(p, w) \union {n} /\ r \in Inserting(p, w)
                        /\ Inserting(p, w)' \subseteq Inserting(p, w) \ {r}
    PROVE  /\ IsFiniteSet(RowsOf(p, w)')
           /\ Cardinality(RowsOf(p, w)') + Cardinality(Inserting(p, w)') <= Cardinality(Requests)
<1> DEFINE rows == RowsOf(p, w)
           more == RowsOf(p, w)'
           open == Inserting(p, w)
           left == Inserting(p, w)'
<1>1. /\ IsFiniteSet(rows) /\ Cardinality(rows) \in Nat
      /\ Cardinality(rows) + Cardinality(open) <= Cardinality(Requests)
  BY FS_CardinalityType DEF RoomForRows
<1>2. /\ IsFiniteSet(open) /\ Cardinality(open) \in Nat /\ Cardinality(left) \in Nat
      /\ Cardinality(left) <= Cardinality(Requests) /\ Cardinality(Requests) \in Nat
  BY InsertingFinite
<1>3. \/ more = rows /\ left \subseteq open
      \/ more = {}
      \/ \E n, r : more = rows \union {n} /\ r \in open /\ left \subseteq open \ {r}
  OBVIOUS
<1> HIDE DEF rows, more, open, left
<1>4. CASE more = rows /\ left \subseteq open
  <2>1. Cardinality(left) <= Cardinality(open)
    BY <1>2, <1>4, FS_Subset
  <2>2. Cardinality(more) + Cardinality(left) <= Cardinality(Requests)
    BY <1>1, <1>2, <1>4, <2>1
  <2> QED BY <1>1, <1>4, <2>2 DEF more, left
<1>5. CASE more = {}
  <2>1. IsFiniteSet(more) /\ Cardinality(more) = 0
    BY <1>5, FS_EmptySet
  <2>2. Cardinality(more) + Cardinality(left) <= Cardinality(Requests)
    BY <1>2, <2>1
  <2> QED BY <2>1, <2>2 DEF more, left
<1>6. ASSUME NEW n, NEW r, more = rows \union {n}, r \in open, left \subseteq open \ {r}
      PROVE  IsFiniteSet(more) /\ Cardinality(more) + Cardinality(left) <= Cardinality(Requests)
  <2>1. IsFiniteSet(open \ {r}) /\ Cardinality(open \ {r}) = Cardinality(open) - 1
    BY <1>2, <1>6, FS_RemoveElement
  <2>2. Cardinality(left) <= Cardinality(open \ {r})
    BY <1>6, <2>1, FS_Subset
  <2>3. /\ IsFiniteSet(more)
        /\ Cardinality(more) = Cardinality(rows) \/ Cardinality(more) = Cardinality(rows) + 1
    BY <1>1, <1>6, FS_AddElement
  <2> QED BY <1>1, <1>2, <2>1, <2>2, <2>3
<1> QED BY <1>3, <1>4, <1>5, <1>6 DEF more, left

(* A step that inserts nothing and looks nothing up. *)
LEMMA NoneInserts ==
    ASSUME IsFiniteSet(Requests), Bounded, PunchTypeOK', UNCHANGED cloud,
           \A r \in Requests :
              \/ request'[r] = request[r]
              \/ request'[r].looked = {}
    PROVE  Bounded'
<1>1. OneInHand'
  BY DEF Bounded, OneInHand
<1>2. ASSUME NEW p \in Punch, NEW w \in Workers \union {Nobody}
      PROVE  /\ IsFiniteSet(RowsOf(p, w)')
             /\ Cardinality(RowsOf(p, w)') + Cardinality(Inserting(p, w)') <= Cardinality(Requests)
  <2>1. RowsOf(p, w)' = RowsOf(p, w)
    BY DEF RowsOf, Matches
  <2>2. Inserting(p, w)' \subseteq Inserting(p, w)
    BY DEF Inserting, Matches
  <2> QED BY <2>1, <2>2, RoomKept DEF Bounded
<1>3. RoomForRows'
  BY <1>2 DEF RoomForRows
<1> QED BY <1>1, <1>3 DEF Bounded

LEMMA LookUpBounded ==
    ASSUME IsFiniteSet(Requests), Bounded, PunchTypeOK',
           NEW r \in Requests, NEW p \in request[r].left, LookUp(r, p)
    PROVE  Bounded'
<1> DEFINE v == request[r].whose[p.user]
<1>1. request \in [Requests -> Req] /\ UNCHANGED cloud
  BY DEF Bounded, PunchTypeOK, Req, LookUp
<1>2. /\ request[r].state = "working" /\ request'[r].state = "working"
      /\ request'[r].whose = request[r].whose
      /\ request'[r].looked = IF Known(p, v) THEN {} ELSE {p}
      /\ \A q \in Requests : q # r => request'[q] = request[q]
  <2> DEFINE known == Known(p, v)
  <2> HIDE DEF known
  <2>1. request' = [request EXCEPT
          ![r].left = @ \ {p},
          ![r].looked = IF known THEN {} ELSE {p},
          ![r].accepted = IF known THEN @ \union {p} ELSE @]
    BY DEF LookUp, known
  <2>2. request[r].state = "working"
    BY DEF LookUp
  <2> QED BY <1>1, <2>1, <2>2 DEF Req, known
<1>3. CASE Known(p, v)
  BY <1>1, <1>2, <1>3, NoneInserts
<1>4. CASE ~Known(p, v)
  <2>1. OneInHand'
    BY <1>2, <1>4 DEF Bounded, OneInHand
  <2>2. ASSUME NEW s \in Punch, NEW w \in Workers \union {Nobody}
        PROVE  /\ IsFiniteSet(RowsOf(s, w)')
               /\ Cardinality(RowsOf(s, w)') + Cardinality(Inserting(s, w)') <= Cardinality(Requests)
    <3>1. RowsOf(s, w)' = RowsOf(s, w)
      BY <1>1 DEF RowsOf, Matches
    <3>2. CASE Matches(p, v, s, w)
      <4>1. RowsOf(s, w) = {}
        BY <1>4, <3>2 DEF Known, RowsOf, Matches
      <4> QED BY <3>1, <4>1, RoomKept DEF Bounded
    <3>3. CASE ~Matches(p, v, s, w)
      <4>1. Inserting(s, w)' \subseteq Inserting(s, w)
        BY <1>2, <1>4, <3>3 DEF Inserting, Matches
      <4> QED BY <3>1, <4>1, RoomKept DEF Bounded
    <3> QED BY <3>2, <3>3
  <2>3. RoomForRows'
    BY <2>2 DEF RoomForRows
  <2> QED BY <2>1, <2>3 DEF Bounded
<1> QED BY <1>3, <1>4

LEMMA CreateBounded ==
    ASSUME IsFiniteSet(Requests), Bounded, PunchTypeOK',
           NEW r \in Requests, NEW p \in request[r].looked, Create(r, p)
    PROVE  Bounded'
<1> DEFINE v == request[r].whose[p.user]
<1>1. request \in [Requests -> Req] /\ p \in Punch /\ v \in Workers \union {Nobody}
  <2>1. request \in [Requests -> Req]
    BY DEF Bounded, PunchTypeOK, Req
  <2>2. p \in Punch /\ p.user \in Users
    BY <2>1 DEF Req, Punch
  <2> QED BY <2>1, <2>2 DEF Req
<1>2. /\ request'[r].looked = {}
      /\ \A q \in Requests : q # r => request'[q] = request[q]
  <2>1. CASE request' = [request EXCEPT ![r].looked = {}, ![r].accepted = @ \union {p}]
    BY <2>1, <1>1 DEF Req
  <2>2. CASE request' = [request EXCEPT ![r].looked = {}]
    BY <2>2, <1>1 DEF Req
  <2> QED BY <2>1, <2>2 DEF Create
<1>3. CASE UNCHANGED cloud
  BY <1>2, <1>3, NoneInserts
<1>4. CASE cloud' = Append(cloud, [punch |-> p, worker |-> v])
  <2> DEFINE n == Len(cloud) + 1
  <2>1. /\ DOMAIN cloud' = DOMAIN cloud \union {n}
        /\ \A i \in DOMAIN cloud : cloud'[i] = cloud[i]
        /\ cloud'[n] = [punch |-> p, worker |-> v]
    <3> HIDE DEF v
    <3> QED BY <1>1, <1>4, CloudGrows DEF Bounded
  <2> HIDE DEF n
  <2>2. OneInHand'
    BY <1>2 DEF Bounded, OneInHand
  <2>3. ASSUME NEW s \in Punch, NEW w \in Workers \union {Nobody}
        PROVE  /\ IsFiniteSet(RowsOf(s, w)')
               /\ Cardinality(RowsOf(s, w)') + Cardinality(Inserting(s, w)') <= Cardinality(Requests)
    <3>1. Inserting(s, w)' \subseteq Inserting(s, w) \ {r}
      BY <1>2 DEF Inserting, Matches
    <3>2. CASE Matches(p, v, s, w)
      <4>1. RowsOf(s, w)' = RowsOf(s, w) \union {n}
        BY <2>1, <3>2 DEF RowsOf, Matches
      <4>2. r \in Inserting(s, w)
        BY <3>2 DEF Inserting, Matches
      <4> QED BY <3>1, <4>1, <4>2, RoomKept DEF Bounded
    <3>3. CASE ~Matches(p, v, s, w)
      <4>1. RowsOf(s, w)' = RowsOf(s, w)
        <5>1. n \in DOMAIN cloud => cloud'[n] = cloud[n]
          BY <2>1
        <5> QED BY <2>1, <3>3, <5>1 DEF RowsOf, Matches
      <4> QED BY <3>1, <4>1, RoomKept DEF Bounded
    <3> QED BY <3>2, <3>3
  <2>4. RoomForRows'
    BY <2>3 DEF RoomForRows
  <2> QED BY <2>2, <2>4 DEF Bounded
<1> QED BY <1>3, <1>4 DEF Create

LEMMA BoundedPreserved ==
    ASSUME IsFiniteSet(Requests), Bounded, [Next]_vars
    PROVE  Bounded'
<1>1. PunchTypeOK'
  BY TypesPreserved DEF Bounded
<1>2. request \in [Requests -> Req]
  BY DEF Bounded, PunchTypeOK, Req
<1>3. CASE UNCHANGED <<request, cloud>>
  BY <1>1, <1>3, NoneInserts
<1>4. ASSUME NEW r \in Requests, PushBegin(r) \/ Resolve(r) \/ Answer(r)
      PROVE  Bounded'
  <2>1. UNCHANGED cloud /\ \A q \in Requests : q # r => request'[q] = request[q]
    BY <1>2, <1>4 DEF PushBegin, Resolve, Answer
  <2>2. request'[r].looked = {}
    <3>1. CASE Resolve(r)
      <4>1. request[r].looked = {}
        BY <3>1 DEF Resolve, Bounded, OneInHand
      <4>2. request'[r].looked = request[r].looked
        BY <1>2, <3>1 DEF Resolve, Req
      <4> QED BY <4>1, <4>2
    <3>2. CASE PushBegin(r)
      <4>1. request' = [request EXCEPT ![r] =
                          [NoRequest EXCEPT !.state = "sent", !.batch = Oldest(Batch)]]
        BY <3>2 DEF PushBegin
      <4>2. [NoRequest EXCEPT !.state = "sent", !.batch = Oldest(Batch)].looked = {}
        BY DEF NoRequest
      <4> QED BY <1>2, <4>1, <4>2
    <3>3. CASE Answer(r)
      BY <1>2, <3>3 DEF Answer, NoRequest
    <3> QED BY <1>4, <3>1, <3>2, <3>3
  <2> QED BY <1>1, <2>1, <2>2, NoneInserts
<1>5. CASE CloudRestart
  <2>1. UNCHANGED cloud /\ \A q \in Requests : request'[q].looked = {}
    BY <1>5 DEF CloudRestart, NoRequest
  <2> QED BY <1>1, <2>1, NoneInserts
<1>6. CASE Tick \/ PullFails \/ ConnLost \/ FactoryRestart \/ UNCHANGED vars
  BY <1>3, <1>6 DEF Tick, PullFails, ConnLost, FactoryRestart, vars
<1>7. CASE Pulling \/ \E u \in Users : Tap(u) \/ Map(u)
  BY <1>3, <1>7 DEF Pulling, PullBegin, PullRead, PullEnd, PullStores, Tap, Map
<1> QED BY <1>1, <1>4, <1>5, <1>6, <1>7, LookUpBounded, CreateBounded DEF Next, Handling

(* A worker has no more rows for one time than pushes were handled at once.  *)
RowsWithinRequests ==
    \A p \in Punch, w \in Workers \union {Nobody} :
        Cardinality(RowsOf(p, w)) <= Cardinality(Requests)

(* The cloud's /punches/push counts a punch again for a worker only through  *)
(* pushes it handles at the same time, however often the factory sends it,   *)
(* whatever is lost or restarted and whoever is mapped meanwhile.           *)
THEOREM CountedAgainByOverlapOnly ==
    ASSUME IsFiniteSet(Requests)
    PROVE  Spec => []RowsWithinRequests
<1>1. Init => Bounded
  <2> SUFFICES ASSUME Init PROVE Bounded
    OBVIOUS
  <2>1. PunchTypeOK /\ OneInHand
    BY TypesInit DEF Init, OneInHand, NoRequest
  <2>2. ASSUME NEW p \in Punch, NEW w \in Workers \union {Nobody}
        PROVE  /\ IsFiniteSet(RowsOf(p, w))
               /\ Cardinality(RowsOf(p, w)) + Cardinality(Inserting(p, w)) <= Cardinality(Requests)
    <3>1. RowsOf(p, w) = {} /\ Inserting(p, w) = {}
      BY DEF Init, RowsOf, Inserting, NoRequest
    <3>2. IsFiniteSet(RowsOf(p, w)) /\ Cardinality(RowsOf(p, w)) = 0 /\ Cardinality(Inserting(p, w)) = 0
      BY <3>1, FS_EmptySet
    <3> QED BY <3>2, InsertingFinite
  <2> QED BY <2>1, <2>2 DEF Bounded, RoomForRows
<1>2. Bounded /\ [Next]_vars => Bounded'
  BY BoundedPreserved
<1>3. Bounded => RowsWithinRequests
  <2> SUFFICES ASSUME Bounded, NEW p \in Punch, NEW w \in Workers \union {Nobody}
               PROVE  Cardinality(RowsOf(p, w)) <= Cardinality(Requests)
    BY DEF RowsWithinRequests
  <2>1. Cardinality(RowsOf(p, w)) \in Nat
    BY FS_CardinalityType DEF Bounded, RoomForRows
  <2> QED BY <2>1, InsertingFinite DEF Bounded, RoomForRows
<1> QED BY <1>1, <1>2, <1>3, PTL DEF Spec
=============================================================================
