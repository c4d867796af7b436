------------------------------ MODULE Delivery ------------------------------
(***************************************************************************)
(* What the factory promises about a record it has to bring to the cloud   *)
(* (docs/adr/002-factory-cloud-sync.md): local edits never wait for the    *)
(* cloud, the cloud may hear of a record any number of times and late, and *)
(* a record counts as settled only once the cloud has heard it as it is    *)
(* now.                                                                    *)
(***************************************************************************)
CONSTANTS Records, Payloads

VARIABLES
    current,    \* what each record says now
    heard,      \* what the cloud has heard of each record
    settled     \* the records that need no further push

deliveryVars == <<current, heard, settled>>

(* A local edit: the record says something new and is open again. *)
Edit(r) ==
    /\ current' \in [Records -> Payloads]
    /\ \A o \in Records \ {r} : current'[o] = current[o]
    /\ settled' = settled \ {r}
    /\ UNCHANGED heard

(* Asked to send some records again. *)
Reopen(S) ==
    /\ settled' = settled \ S
    /\ UNCHANGED <<current, heard>>

(* The cloud hears something of a record, not always its latest state, and *)
(* forgets nothing.                                                        *)
Hear(r) ==
    /\ heard' \in [Records -> SUBSET Payloads]
    /\ heard[r] \subseteq heard'[r]
    /\ \A o \in Records \ {r} : heard'[o] = heard[o]
    /\ UNCHANGED <<current, settled>>

Settle(r) ==
    /\ current[r] \in heard[r]
    /\ settled' = settled \union {r}
    /\ UNCHANGED <<current, heard>>

DeliveryInit ==
    /\ current \in [Records -> Payloads]
    /\ heard = [r \in Records |-> {}]
    /\ settled = {}

DeliveryNext ==
    \/ \E r \in Records : Edit(r) \/ Hear(r) \/ Settle(r)
    \/ \E S \in SUBSET Records : Reopen(S)

DeliverySpec == DeliveryInit /\ [][DeliveryNext]_deliveryVars
=============================================================================
