------------------------------ MODULE Submission ------------------------------
(***************************************************************************)
(* POST /api/v1/resolutions, as the Web process runs it: three             *)
(* transactions, one after the other, for the track observation, for the   *)
(* account's monthly quota and for the resolution request.  Handlers run   *)
(* concurrently with one another, with retries of the same idempotency key,*)
(* with the operator's subscription changes, client deletions and retention*)
(* purge, and any of them may stop at any point.                           *)
(*                                                                         *)
(* The quota transaction runs at READ COMMITTED, so each of its statements *)
(* is an action of its own; the row of quota_consumptions it inserts stays *)
(* locked until it ends, and its last statement is taken with its commit.  *)
(***************************************************************************)
EXTENDS Naturals, FiniteSets

CONSTANTS
    Client,      \* client installations
    Account,     \* customer accounts
    AccountOf,   \* per client: its account_id, or None
    Key,         \* idempotency keys
    Track,       \* client_track_ids
    Handler,     \* HTTP requests in progress
    None,        \* "no value"
    Purged,      \* a request that existed and was purged
    MaxQuota,    \* bound: monthly_quota
    MaxMonth,    \* bound: UTC months
    MaxFaults    \* bound: handlers that stop half way

ASSUME AccountAssumption == AccountOf \in [Client -> Account \cup {None}]
ASSUME DistinctAssumption ==
    /\ None \notin Account /\ None \notin Track /\ None \notin Client \X Key \X Track
    /\ Purged \notin Track /\ Purged # None
ASSUME LimitAssumption == MaxQuota \in Nat /\ MaxMonth \in Nat \ {0} /\ MaxFaults \in Nat

VARIABLES
    installed,     \* clients that have a client_installations row
    subscription,  \* per account: [active, quota]
    usage,         \* per account and month: monthly_usage.resolutions
    charged,       \* per client and key: month of its quota_consumptions row, 0 for none
    tracks,        \* track_observations rows: client and track
    aged,          \* those of them whose updated_at is 180 days back
    request,       \* per client and key: the track of its resolution_requests row
    month,         \* the current UTC month
    call,          \* per handler: its next statement; its client, key and track; the
                   \* month it charges; the quota it has read; and, as a history,
                   \* whether the account has been active while it ran
    faults,        \* handlers that stopped half way so far
    peak           \* history: the largest quota each account has had

tables  == <<installed, subscription, usage, charged, tracks, aged, request>>
vars    == <<tables, month, call, faults, peak>>

Slot  == Client \X Key
Month == 1..MaxMonth
Stage == {"idle", "consumed", "subscription", "insert", "count", "create"}

CallState ==
    [at : Stage, input : (Client \X Key \X Track) \cup {None},
     period : Month, quota : Nat, entitled : BOOLEAN]

Idle  == [at |-> "idle", input |-> None, period |-> 1, quota |-> 0,
          entitled |-> FALSE]

TypeOK ==
    /\ installed \subseteq Client
    /\ subscription \in [Account -> [active : BOOLEAN, quota : Nat]]
    /\ usage \in [Account -> [Month -> Nat]]
    /\ charged \in [Slot -> Month \cup {0}]
    /\ aged \subseteq tracks /\ tracks \subseteq Client \X Track
    /\ request \in [Slot -> Track \cup {None, Purged}]
    /\ month \in Month
    /\ call \in [Handler -> CallState]
    /\ \A h \in Handler : call[h].at # "idle" => call[h].input # None
    /\ faults \in Nat
    /\ peak \in [Account -> Nat]

Init ==
    /\ installed = Client
    /\ \E q \in 0..MaxQuota :
          /\ subscription = [a \in Account |-> [active |-> TRUE, quota |-> q]]
          /\ peak = [a \in Account |-> q]
    /\ usage = [a \in Account |-> [m \in Month |-> 0]]
    /\ charged = [s \in Slot |-> 0]
    /\ tracks = {} /\ aged = {}
    /\ request = [s \in Slot |-> None]
    /\ month = 1
    /\ call = [h \in Handler |-> Idle]
    /\ faults = 0

ClientOf(h) == call[h].input[1]
SlotOf(h)   == <<call[h].input[1], call[h].input[2]>>
TrackOf(h)  == call[h].input[3]
Payer(h)    == AccountOf[ClientOf(h)]

\* The handler's transaction holds the new quota_consumptions row of slot s.
Inserted(h, s) == call[h].at = "count" /\ SlotOf(h) = s

-------------------------------------------------------------------------------
(* The handler.                                                            *)

\* The next statement, with what it needs of the handler's locals.
Goto(h, stage) ==
    call' = [call EXCEPT ![h] =
                CASE stage = "idle"   -> Idle
                  [] stage = "create" -> [@ EXCEPT !.at = stage, !.period = 1, !.quota = 0]
                  [] OTHER            -> [@ EXCEPT !.at = stage]]

\* Mutant of UpsertTrackObservation: a row that is there keeps its updated_at.
UpsertLeavesTime(c, t) == tracks' = tracks \cup {<<c, t>>} /\ UNCHANGED aged

\* INSERT ... ON CONFLICT (client_id, client_track_id) DO UPDATE, updated_at included
UpsertTrackObservation(c, t) ==
    tracks' = tracks \cup {<<c, t>>} /\ aged' = aged \ {<<c, t>>}

\* The client is authenticated, its observation valid, and inserted or updated.
Begin(h, c, k, t) ==
    /\ call[h].at = "idle"
    /\ c \in installed
    /\ call' = [call EXCEPT ![h] =
                   [Idle EXCEPT !.at = "consumed", !.input = <<c, k, t>>,
                                !.entitled = AccountOf[c] = None \/ subscription[AccountOf[c]].active]]
    /\ UpsertTrackObservation(c, t)
    /\ UNCHANGED <<installed, subscription, usage, charged, request, month,
                   faults, peak>>

\* ConsumeQuota takes the month and reads the client's account, then whether
\* its key was charged before.  A client that has gone is an error.
ReadConsumed(h) ==
    /\ call[h].at = "consumed"
    /\ CASE ClientOf(h) \notin installed -> Goto(h, "idle")
         [] Payer(h) = None \/ charged[SlotOf(h)] # 0 -> Goto(h, "create")
         [] OTHER -> call' = [call EXCEPT ![h].at = "subscription", ![h].period = month]
    /\ UNCHANGED <<tables, month, faults, peak>>

\* An inactive subscription or a quota of zero is refused: 429.
ReadSubscription(h) ==
    /\ call[h].at = "subscription"
    /\ LET s == subscription[Payer(h)]
       IN  IF s.active /\ s.quota > 0
             THEN call' = [call EXCEPT ![h].at = "insert", ![h].quota = s.quota]
             ELSE Goto(h, "idle")
    /\ UNCHANGED <<tables, month, faults, peak>>

\* Mutant of InsertConsumption: nothing waits for an uncommitted row.
InsertWithoutWaiting(h) ==
    /\ call[h].at = "insert"
    /\ Goto(h, CASE ClientOf(h) \notin installed -> "idle"
                 [] charged[SlotOf(h)] # 0 -> "create"
                 [] OTHER -> "count")
    /\ UNCHANGED <<tables, month, faults, peak>>

\* ON CONFLICT DO NOTHING waits for a transaction that has inserted the same
\* row, and inserts nothing when there is one.
InsertConsumption(h) ==
    /\ call[h].at = "insert"
    /\ \A g \in Handler : ~Inserted(g, SlotOf(h))
    /\ Goto(h, CASE ClientOf(h) \notin installed -> "idle"
                 [] charged[SlotOf(h)] # 0 -> "create"
                 [] OTHER -> "count")
    /\ UNCHANGED <<tables, month, faults, peak>>

\* Mutants of CountAndCommit: the counter is not compared with the quota; a
\* refused count commits the row of quota_consumptions.
CountUnlimited(h) ==
    /\ call[h].at = "count"
    /\ usage' = [usage EXCEPT ![Payer(h)][call[h].period] = @ + 1]
    /\ charged' = [charged EXCEPT ![SlotOf(h)] = call[h].period]
    /\ Goto(h, "create")
    /\ UNCHANGED <<installed, subscription, tracks, aged, request, month, faults, peak>>

CountAlwaysCommitted(h) ==
    /\ call[h].at = "count"
    /\ usage' = [usage EXCEPT ![Payer(h)][call[h].period] = IF @ < call[h].quota THEN @ + 1 ELSE @]
    /\ charged' = [charged EXCEPT ![SlotOf(h)] = call[h].period]
    /\ Goto(h, IF usage[Payer(h)][call[h].period] < call[h].quota THEN "create" ELSE "idle")
    /\ UNCHANGED <<installed, subscription, tracks, aged, request, month, faults, peak>>

\* Two more: a refused count is not noticed; it leaves the transaction open.
CountRefusalIgnored(h) ==
    /\ call[h].at = "count"
    /\ IF usage[Payer(h)][call[h].period] < call[h].quota
         THEN /\ usage' = [usage EXCEPT ![Payer(h)][call[h].period] = @ + 1]
              /\ charged' = [charged EXCEPT ![SlotOf(h)] = call[h].period]
         ELSE UNCHANGED <<usage, charged>>
    /\ Goto(h, "create")
    /\ UNCHANGED <<installed, subscription, tracks, aged, request, month, faults, peak>>

CountWithoutRollback(h) ==
    /\ call[h].at = "count"
    /\ usage[Payer(h)][call[h].period] < call[h].quota
    /\ usage' = [usage EXCEPT ![Payer(h)][call[h].period] = @ + 1]
    /\ charged' = [charged EXCEPT ![SlotOf(h)] = call[h].period]
    /\ Goto(h, "create")
    /\ UNCHANGED <<installed, subscription, tracks, aged, request, month, faults, peak>>

\* The counter is compared with the quota read earlier, but as it is now; when
\* it has reached that quota the whole transaction is rolled back: 429.
CountAndCommit(h) ==
    /\ call[h].at = "count"
    /\ IF usage[Payer(h)][call[h].period] < call[h].quota
         THEN /\ usage' = [usage EXCEPT ![Payer(h)][call[h].period] = @ + 1]
              /\ charged' = [charged EXCEPT ![SlotOf(h)] = call[h].period]
              /\ Goto(h, "create")
         ELSE /\ Goto(h, "idle")
              /\ UNCHANGED <<usage, charged>>
    /\ UNCHANGED <<installed, subscription, tracks, aged, request, month, faults, peak>>

\* The request is inserted unless the key has one; either way 202 names it.  A
\* client that has gone is an error.
Create(h) ==
    /\ call[h].at = "create"
    /\ IF ClientOf(h) \in installed /\ request[SlotOf(h)] \notin Track
         THEN request' = [request EXCEPT ![SlotOf(h)] = TrackOf(h)]
         ELSE UNCHANGED request
    /\ Goto(h, "idle")
    /\ UNCHANGED <<installed, subscription, usage, charged, tracks, aged, month, faults, peak>>

\* A lost connection, a cancelled HTTP request or the end of the process: an
\* open transaction is rolled back, what was committed stays.
Stop(h) ==
    /\ call[h].at # "idle"
    /\ faults < MaxFaults
    /\ faults' = faults + 1
    /\ Goto(h, "idle")
    /\ UNCHANGED <<tables, month, peak>>

-------------------------------------------------------------------------------
(* The operator and the calendar.                                          *)

UpdateSubscription(a, active, q) ==
    /\ subscription' = [subscription EXCEPT ![a] = [active |-> active, quota |-> q]]
    /\ peak' = [peak EXCEPT ![a] = IF q > @ THEN q ELSE @]
    /\ call' = [h \in Handler |->
                   IF active /\ call[h].at # "idle" /\ Payer(h) = a
                     THEN [call[h] EXCEPT !.entitled = TRUE] ELSE call[h]]
    /\ UNCHANGED <<installed, usage, charged, tracks, aged, request, month, faults>>

\* The client's rows go in one transaction, but the account keeps its usage.
\* The foreign key of an uncommitted consumption holds the deletion up.
DeleteClient(c) ==
    /\ c \in installed
    /\ \A h \in Handler : call[h].at = "count" => ClientOf(h) # c
    /\ installed' = installed \ {c}
    /\ charged' = [s \in Slot |-> IF s[1] = c THEN 0 ELSE charged[s]]
    /\ tracks' = tracks \ ({c} \X Track)
    /\ aged' = aged \ ({c} \X Track)
    /\ request' = [s \in Slot |-> IF s[1] = c THEN None ELSE request[s]]
    /\ UNCHANGED <<subscription, usage, month, call, faults, peak>>

\* 180 days pass for a row; a handler, which has written its own, lasts seconds.
GrowOld ==
    \E x \in tracks \ aged :
       /\ \A h \in Handler : call[h].at # "idle" => x # <<ClientOf(h), TrackOf(h)>>
       /\ aged' = aged \cup {x}
       /\ UNCHANGED <<installed, subscription, usage, charged, tracks, request,
                      month, call, faults, peak>>

\* Old observations that no request refers to, once the requests in R are gone.
Orphans(R) == {x \in aged : \A s \in Slot \ R : <<s[1], request[s]>> # x}

\* Retention: requests that finished 180 days ago, and then the observations
\* left orphaned that are as old.  The consumptions of the requests stay.
Purge ==
    \E R \in SUBSET {s \in Slot : request[s] \in Track} :
       /\ request' = [s \in Slot |-> IF s \in R THEN Purged ELSE request[s]]
       /\ tracks' = tracks \ Orphans(R)
       /\ aged' = aged \ Orphans(R)
       /\ UNCHANGED <<installed, subscription, usage, charged, month, call,
                      faults, peak>>

NextMonth ==
    /\ month < MaxMonth
    /\ month' = month + 1
    /\ UNCHANGED <<tables, call, faults, peak>>

-------------------------------------------------------------------------------

Step(h) ==
    \/ ReadConsumed(h) \/ ReadSubscription(h) \/ InsertConsumption(h)
    \/ CountAndCommit(h) \/ Create(h)

Next ==
    \/ \E h \in Handler :
          \/ \E c \in Client, k \in Key, t \in Track : Begin(h, c, k, t)
          \/ Step(h) \/ Stop(h)
    \/ \E a \in Account, active \in BOOLEAN, q \in 0..MaxQuota :
          UpdateSubscription(a, active, q)
    \/ \E c \in Client : DeleteClient(c)
    \/ GrowOld \/ Purge
    \/ NextMonth

Spec == Init /\ [][Next]_vars

\* Each statement a handler issues returns; one that waits for another
\* transaction's row is woken when that transaction ends, so it is not
\* overtaken for ever.
LiveSpec ==
    Spec /\ \A h \in Handler : WF_vars(Step(h)) /\ SF_vars(InsertConsumption(h))

-------------------------------------------------------------------------------
(* Safety.                                                                 *)

ChargesOf(a, m) == {s \in Slot : charged[s] = m /\ AccountOf[s[1]] = a}

\* The counter of a month and the consumptions of that month agree however
\* transactions interleave, roll back or stop: each charge is counted, and
\* counted once; only the deletion of a client forgets consumptions
\* (account_store.go ConsumeResolutionQuota).
UsageCountsCharges ==
    \A a \in Account, m \in Month :
        /\ Cardinality(ChargesOf(a, m)) <= usage[a][m]
        /\ (\A c \in Client : AccountOf[c] = a => c \in installed)
              => Cardinality(ChargesOf(a, m)) = usage[a][m]

\* No month's counter passes the largest quota its account has had: the quota
\* is read in another statement than the one that counts, so it may be stale,
\* but concurrent submissions never add up to more than it.
UsageWithinQuota == \A a \in Account, m \in Month : usage[a][m] <= peak[a]

\* Every request of an account's client has been charged, whoever created it
\* and however often its key was retried; the charge outlives the request
\* (resolutions.go, the POST handler's order of transactions).
RequestIsCharged ==
    \A s \in Slot :
        request[s] # None /\ AccountOf[s[1]] # None => charged[s] # 0

\* A charge buys a request: one without a request is a handler's that is about
\* to create it, or was left by a handler that stopped in between, and each
\* stop leaves at most one.
Wasted ==
    {s \in Slot :
        /\ charged[s] # 0
        /\ request[s] = None
        /\ \A h \in Handler : ~(call[h].at = "create" /\ SlotOf(h) = s)}

WasteIsBounded == Cardinality(Wasted) <= faults

\* A request's observation is there (the foreign key never refuses or removes
\* it): neither purge nor deletion takes one that a request or a handler needs,
\* also when the handler's track was observed half a year ago already
\* (observation_store.go UpsertTrackObservation, operations_store.go).
RequestHasTrack ==
    /\ \A s \in Slot : request[s] \in Track => <<s[1], request[s]>> \in tracks
    /\ \A h \in Handler :
          call[h].at # "idle" /\ ClientOf(h) \in installed => <<ClientOf(h), TrackOf(h)>> \in tracks

\* docs/ACCOUNTS_BILLING.md:7: a subscription that is not active creates no new
\* request.
InactiveCreatesNothing ==
    [][\A s \in Slot : request[s] = None /\ request'[s] # None =>
          \E h \in Handler : call[h].at = "create" /\ SlotOf(h) = s /\ call[h].entitled]_vars

\* Liveness: every submission is answered; no two transactions wait for each
\* other, and none is passed over for ever.
EveryCallEnds == \A h \in Handler : call[h].at # "idle" ~> call[h].at = "idle"
===============================================================================
