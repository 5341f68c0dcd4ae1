---------------------------- MODULE ProviderCache -----------------------------
(***************************************************************************)
(* One provider behind its cache.  A search looks its query up; it is      *)
(* answered from a fresh entry, or joins the search that is asking for the *)
(* same query already, or asks the provider itself.  The adapter it asks   *)
(* through gives every request a slot of its own, a fixed interval after   *)
(* the one before, and repeats a request that failed for a while.          *)
(*                                                                         *)
(* The cache is written for concurrent callers, each with a context that   *)
(* may be cancelled, and is modelled for them: an action is a section      *)
(* under a mutex, or the wait between two.                                 *)
(***************************************************************************)
EXTENDS Naturals, FiniteSets

CONSTANTS
    Search,       \* calls of SearchRecordings, each made once
    Query,        \* what is searched for: cache keys
    QueryOf,      \* the query of each search
    None,         \* "no value": a missing map entry
    PositiveTTL,  \* how long found candidates are kept
    NegativeTTL,  \* how long the answer that there are none is kept
    Interval,     \* between the slots of two requests (1 s)
    Backoff,      \* before each repetition (250 ms, 500 ms)
    MaxCancels,   \* bound: how many contexts end early
    MaxAttempts,  \* requests per search: 3, or 1 in adapters that never repeat
    MaxClock      \* bound: when the clock stops, unless a search waits for it

ASSUME QueryAssumption == QueryOf \in [Search -> Query]
ASSUME TimeAssumption ==
    /\ PositiveTTL \in Nat \ {0} /\ NegativeTTL \in Nat \ {0}
    /\ Interval \in Nat \ {0} /\ MaxAttempts \in Nat \ {0}
    /\ Backoff \in [1..MaxAttempts -> Nat]
    /\ MaxCancels \in Nat /\ MaxClock \in Nat

VARIABLES
    clock,        \* the clock
    entry,        \* per query: the cached answer, or None
    inFlight,     \* per query: the search that is asking for it, or None
    nextRequest,  \* the time of the next free slot
    search,       \* per search: where it is, with its local variables
    answer,       \* per search: its answer; that of its providerCall if it leads
    cancelled,    \* the searches whose context is cancelled
    metrics,      \* the counters of Metrics, negative hits and error kinds left out
    asked,        \* history: the slots of the requests sent to the provider
    freshUntil    \* history, per query: until when an answer to it is fresh

vars == <<clock, entry, inFlight, nextRequest, search, answer, cancelled,
          metrics, asked, freshUntil>>

\* What a search returns.  Errors of the kinds unavailable and timeout are
\* temporary, the others (rate_limited, forbidden, ...) are not.
Good    == {"found", "empty"}
Answer  == Good \cup {"temporary", "permanent", "cancelled"}
Entry   == [answer : Good, expiresAt : Nat]
Counter == {"lookups", "hits", "coalesced", "requests", "errors"}

ASSUME NoneAssumption == None \notin Search /\ None \notin Entry

\* Where a search is that is with the adapter.
AdapterPlace == {"leading", "queueing", "sending", "asking", "resting"}

Place == {"idle", "looking", "following", "returned"} \cup AdapterPlace
Local == [at : Place, now : Nat, leader : Search \cup {None},
          attempt : 0..MaxAttempts, wakes : Nat]

\* The locals of a search, those that are not read again reset.
Behind(place, leader) ==
    [at |-> place, now |-> 0, leader |-> leader, attempt |-> 0, wakes |-> 0]
AtAdapter(s, place, attempt, wakes) ==
    [at |-> place, now |-> 0, leader |-> s, attempt |-> attempt, wakes |-> wakes]

\* The rows of the two maps, the calls and the counters are what the code's
\* types allow; in particular no error is ever in the cache
\* (docs/PROVIDER_MUSICBRAINZ.md: temporary errors are not cached).
TypeOK ==
    /\ clock \in Nat /\ nextRequest \in Nat /\ asked \subseteq Nat
    /\ entry \in [Query -> Entry \cup {None}]
    /\ inFlight \in [Query -> Search \cup {None}]
    /\ search \in [Search -> Local]
    /\ answer \in [Search -> Answer \cup {None}]
    /\ cancelled \subseteq Search
    /\ metrics \in [Counter -> Nat]
    /\ freshUntil \in [Query -> Nat]

Init ==
    /\ clock = 0
    /\ entry = [q \in Query |-> None]
    /\ inFlight = [q \in Query |-> None]
    /\ nextRequest = 0
    /\ search = [s \in Search |-> Behind("idle", None)]
    /\ answer = [s \in Search |-> None]
    /\ cancelled = {}
    /\ metrics = [c \in Counter |-> 0]
    /\ asked = {}
    /\ freshUntil = [q \in Query |-> 0]

At(s, place) == search[s].at = place
Move(s, local) == search' = [search EXCEPT ![s] = local]
Returned(s) == At(s, "returned")
Waiting(s) == At(s, "queueing") \/ At(s, "resting")

Return(s, result) ==
    /\ Move(s, Behind("returned", search[s].leader))
    /\ answer' = [answer EXCEPT ![s] = result]

Count(counters) ==
    metrics' = [c \in Counter |-> IF c \in counters THEN metrics[c] + 1 ELSE metrics[c]]

Tick ==
    /\ clock < MaxClock \/ \E s \in Search : Waiting(s) /\ clock < search[s].wakes
    /\ clock' = clock + 1
    /\ UNCHANGED <<entry, inFlight, nextRequest, search, answer, cancelled,
                   metrics, asked, freshUntil>>

\* The caller's context ends while its search is in progress.
Cancel(s) ==
    /\ ~ At(s, "idle") /\ ~ Returned(s) /\ s \notin cancelled
    /\ Cardinality(cancelled) < MaxCancels
    /\ cancelled' = cancelled \cup {s}
    /\ UNCHANGED <<clock, entry, inFlight, nextRequest, search, answer,
                   metrics, asked, freshUntil>>

-----------------------------------------------------------------------------
(* CachedProvider.SearchRecordings.                                        *)

\* The key is computed and the time is taken before the mutex.
Begin(s) ==
    /\ At(s, "idle")
    /\ Move(s, [Behind("looking", None) EXCEPT !.now = clock])
    /\ Count({"lookups"})
    /\ UNCHANGED <<clock, entry, inFlight, nextRequest, answer, cancelled,
                   asked, freshUntil>>

\* Mutant of Fresh: an entry without candidates is taken for a miss.
FreshFound(s) ==
    LET e == entry[QueryOf[s]] IN
    e # None /\ e.answer = "found" /\ search[s].now < e.expiresAt

Fresh(s) ==
    LET e == entry[QueryOf[s]] IN e # None /\ search[s].now < e.expiresAt

\* An expired entry is deleted on the way to the calls in flight.
DropExpired(s) == entry' = [entry EXCEPT ![QueryOf[s]] = None]

Hit(s) ==
    /\ At(s, "looking") /\ Fresh(s)
    /\ Return(s, entry[QueryOf[s]].answer)
    /\ Count({"hits"})
    /\ UNCHANGED <<clock, entry, inFlight, nextRequest, cancelled, asked, freshUntil>>

Follow(s) ==
    LET leader == inFlight[QueryOf[s]] IN
    /\ At(s, "looking") /\ ~ Fresh(s) /\ leader # None
    /\ DropExpired(s)
    /\ Move(s, Behind("following", leader))
    /\ Count({"coalesced"})
    /\ UNCHANGED <<clock, inFlight, nextRequest, answer, cancelled, asked, freshUntil>>

\* Mutant of Lead: the call is not registered, so that others do not join it.
LeadUnregistered(s) ==
    /\ At(s, "looking") /\ ~ Fresh(s) /\ inFlight[QueryOf[s]] = None
    /\ DropExpired(s)
    /\ Move(s, AtAdapter(s, "leading", 0, 0))
    /\ UNCHANGED <<clock, inFlight, nextRequest, answer, cancelled, metrics, asked,
                   freshUntil>>

Lead(s) ==
    LET q == QueryOf[s] IN
    /\ At(s, "looking") /\ ~ Fresh(s) /\ inFlight[q] = None
    /\ DropExpired(s)
    /\ inFlight' = [inFlight EXCEPT ![q] = s]
    /\ Move(s, AtAdapter(s, "leading", 0, 0))
    /\ UNCHANGED <<clock, nextRequest, answer, cancelled, metrics, asked, freshUntil>>

\* Mutant of Share: a follower does not wait, and reads a call that has no candidates yet.
ShareEarly(s) ==
    /\ At(s, "following")
    /\ Return(s, IF Returned(search[s].leader) THEN answer[search[s].leader] ELSE "empty")
    /\ UNCHANGED <<clock, entry, inFlight, nextRequest, cancelled, metrics,
                   asked, freshUntil>>

\* Mutant of Share: the followers of a search that failed are not released.
ShareGood(s) ==
    /\ At(s, "following") /\ Returned(search[s].leader)
    /\ answer[search[s].leader] \in Good
    /\ Return(s, answer[search[s].leader])
    /\ UNCHANGED <<clock, entry, inFlight, nextRequest, cancelled, metrics,
                   asked, freshUntil>>

\* A follower returns what its leader got, its error included ...
Share(s) ==
    /\ At(s, "following") /\ Returned(search[s].leader)
    /\ Return(s, answer[search[s].leader])
    /\ UNCHANGED <<clock, entry, inFlight, nextRequest, cancelled, metrics,
                   asked, freshUntil>>

\* ... or gives up with its own context.
GiveUp(s) ==
    /\ At(s, "following") /\ s \in cancelled
    /\ Return(s, "cancelled")
    /\ UNCHANGED <<clock, entry, inFlight, nextRequest, cancelled, metrics,
                   asked, freshUntil>>

\* Mutant of Finish: the call is taken out of the map only when it was successful.
FinishKeepsFailed(s, result) ==
    LET q == QueryOf[s] IN
    /\ IF result \in Good
       THEN /\ entry' = [entry EXCEPT ![q] = [answer |-> result, expiresAt |-> clock + PositiveTTL]]
            /\ freshUntil' = [freshUntil EXCEPT ![q] = clock + PositiveTTL]
            /\ inFlight' = [inFlight EXCEPT ![q] = None]
       ELSE UNCHANGED <<entry, freshUntil, inFlight>>
    /\ Count({"requests"})
    /\ Return(s, result)

\* The leader has the provider's answer, or the last error.  Under the mutex it
\* stores a good one, for a time that starts now, and releases its followers.
Finish(s, result) ==
    LET q   == QueryOf[s]
        ttl == IF result = "found" THEN PositiveTTL ELSE NegativeTTL IN
    /\ IF result \in Good
       THEN /\ entry' = [entry EXCEPT ![q] =
                  [answer |-> result, expiresAt |-> clock + ttl]]
            /\ freshUntil' = [freshUntil EXCEPT ![q] = clock + ttl]
            /\ Count({"requests"})
       ELSE /\ Count({"requests", "errors"})
            /\ UNCHANGED <<entry, freshUntil>>
    /\ inFlight' = [inFlight EXCEPT ![q] = None]
    /\ Return(s, result)

-----------------------------------------------------------------------------
(* The adapter's SearchRecordings, called by the leader.                   *)

\* A query the adapter cannot express is refused before anything is sent.
RefuseQuery(s) ==
    /\ At(s, "leading") /\ search[s].attempt = 0
    /\ Finish(s, "permanent")
    /\ UNCHANGED <<clock, nextRequest, cancelled, asked>>

\* Mutant of TakeSlot: a wait below zero is not made zero, so that the slots of
\* an idle time can still be taken.
TakeSlotUnused(s) ==
    /\ At(s, "leading")
    /\ nextRequest' = nextRequest + Interval
    /\ Move(s, AtAdapter(s, IF nextRequest <= clock THEN "sending" ELSE "queueing",
                         search[s].attempt, nextRequest))
    /\ UNCHANGED <<clock, entry, inFlight, answer, cancelled, metrics, asked,
                   freshUntil>>

\* waitForRateLimit: a slot is taken under the mutex, whatever comes of it.
TakeSlot(s) ==
    LET slot == IF clock < nextRequest THEN nextRequest ELSE clock IN
    /\ At(s, "leading")
    /\ nextRequest' = slot + Interval
    /\ Move(s, AtAdapter(s, IF slot = clock THEN "sending" ELSE "queueing",
                         search[s].attempt, slot))
    /\ UNCHANGED <<clock, entry, inFlight, answer, cancelled, metrics, asked,
                   freshUntil>>

\* waitForRetry returns early when the context ends ...
WaitCancelled(s) ==
    /\ Waiting(s) /\ s \in cancelled
    /\ Finish(s, "temporary")
    /\ UNCHANGED <<clock, nextRequest, cancelled, asked>>

\* ... or its timer has fired, or there was nothing to wait for.
Ready(s) == At(s, "sending") \/ (At(s, "queueing") /\ search[s].wakes <= clock)

Send(s) ==
    /\ Ready(s) /\ s \notin cancelled
    /\ asked' = asked \cup {search[s].wakes}
    /\ Move(s, AtAdapter(s, "asking", search[s].attempt, 0))
    /\ UNCHANGED <<clock, entry, inFlight, nextRequest, answer, cancelled,
                   metrics, freshUntil>>

Succeed(s) ==
    /\ At(s, "asking")
    /\ \E result \in Good : Finish(s, result)
    /\ UNCHANGED <<clock, nextRequest, cancelled, asked>>

\* The request fails: the provider cannot be reached or answers with an error,
\* or the context ended, possibly before anything was sent.  The wait that a
\* status 429 asks for is parsed into the error, and no caller looks at it.
Fails(s, kind) ==
    \/ At(s, "asking") /\ kind \in {"temporary", "permanent"}
    \/ Ready(s) /\ s \in cancelled /\ kind = "temporary"

Repeats(s, kind) == kind = "temporary" /\ search[s].attempt + 1 < MaxAttempts

Rest(s) ==
    LET attempt == search[s].attempt + 1 IN
    /\ Fails(s, "temporary") /\ Repeats(s, "temporary")
    /\ Move(s, AtAdapter(s, "resting", attempt, clock + Backoff[attempt]))
    /\ UNCHANGED <<clock, entry, inFlight, nextRequest, answer, cancelled,
                   metrics, asked, freshUntil>>

Repeat(s) ==
    /\ At(s, "resting") /\ search[s].wakes <= clock
    /\ Move(s, AtAdapter(s, "leading", search[s].attempt, 0))
    /\ UNCHANGED <<clock, entry, inFlight, nextRequest, answer, cancelled,
                   metrics, asked, freshUntil>>

\* An error of another kind, or of the last attempt, is returned.
Fail(s) ==
    /\ \E kind \in {"temporary", "permanent"} :
          Fails(s, kind) /\ ~ Repeats(s, kind) /\ Finish(s, kind)
    /\ UNCHANGED <<clock, nextRequest, cancelled, asked>>

-----------------------------------------------------------------------------
Lookup(s)  == Hit(s) \/ Follow(s) \/ Lead(s)
Adapter(s) ==
    \/ RefuseQuery(s) \/ TakeSlot(s) \/ WaitCancelled(s) \/ Send(s)
    \/ Succeed(s) \/ Rest(s) \/ Repeat(s) \/ Fail(s)
Proceed(s) == Lookup(s) \/ Share(s) \/ GiveUp(s) \/ Adapter(s)

Next ==
    \/ Tick
    \/ \E s \in Search : Begin(s) \/ Cancel(s) \/ Proceed(s)

Spec == Init /\ [][Next]_vars

\* Goroutines run, the clock advances, and a request ends by the time-out of
\* the HTTP client.
LiveSpec == Spec /\ WF_vars(Tick) /\ \A s \in Search : WF_vars(Proceed(s))

-----------------------------------------------------------------------------
Calling(s) == search[s].leader = s /\ ~ Returned(s)
Asker(s)   == search[s].leader = s

\* The calls in flight are exactly those of the map: concurrent misses of a
\* query make one call (docs/MVP.md: one access for concurrent misses), and a
\* call never stays behind in the map for later misses to wait on.
OneCallPerQuery ==
    \A q \in Query :
        {s \in Search : Calling(s) /\ QueryOf[s] = q}
            = IF inFlight[q] = None THEN {} ELSE {inFlight[q]}

\* What OneCallPerQuery and NoNeedlessCall rest on: exactly the searches with
\* the adapter and those that were there lead; a call is in the map as long as
\* it lasts; and an answer that is fresh is in the cache.
LeadersAsk ==
    \A s \in Search :
        /\ At(s, "idle") \/ At(s, "looking") => search[s].leader = None
        /\ At(s, "following") => search[s].leader \in Search \ {s}
        /\ search[s].at \in AdapterPlace => search[s].leader = s

CallsAreInMap ==
    /\ \A q \in Query :
          inFlight[q] # None => Calling(inFlight[q]) /\ QueryOf[inFlight[q]] = q
    /\ \A s \in Search : Calling(s) => inFlight[QueryOf[s]] = s

FreshIsCached ==
    /\ \A q \in Query :
          freshUntil[q] > clock =>
             entry[q] # None /\ entry[q].expiresAt = freshUntil[q]
    /\ \A s \in Search : search[s].now <= clock

CallInv == TypeOK /\ LeadersAsk /\ CallsAreInMap /\ FreshIsCached

\* What SharedAnswer rests on: whom a search followed asked for the same, and
\* what the cache holds is the answer of a search that asked for it.
Source(q, a) ==
    \E t \in Search :
        Asker(t) /\ Returned(t) /\ QueryOf[t] = q /\ answer[t] = a

AnswersComeFromAskers ==
    /\ \A s \in Search :
          search[s].leader # None =>
             Asker(search[s].leader) /\ QueryOf[search[s].leader] = QueryOf[s]
    /\ \A q \in Query : entry[q] # None => Source(q, entry[q].answer)

\* The searches that hold a slot, each until it has sent its request or gives up.
Holders == {s \in Search : At(s, "sending") \/ At(s, "queueing")}

Apart(slot, other) == slot + Interval <= other \/ other + Interval <= slot

\* What PacedRequests rests on: the slots held and those of the requests sent are
\* apart from each other and before the next free one; and who need not wait, for
\* its slot is now, finds it come.
SlotsAreApart ==
    /\ \A t \in asked : t + Interval <= nextRequest
    /\ \A s \in Holders :
          /\ search[s].wakes + Interval <= nextRequest
          /\ \A t \in asked : Apart(t, search[s].wakes)
          /\ \A other \in Holders \ {s} : Apart(search[other].wakes, search[s].wakes)
          /\ At(s, "sending") => search[s].wakes <= clock

\* A search turns to the provider only when no answer to its query is fresh,
\* whatever the order in which others took the time, looked, dropped entries
\* and stored (docs/MVP.md: a hit does not access the provider).
NoNeedlessCall ==
    [][\A q \in Query :
          inFlight'[q] \notin {None, inFlight[q]} => clock >= freshUntil[q]]_vars

\* Slots are neither taken in the past, which would let the requests after an
\* idle time go in a burst, nor used before they come, and a request is sent in a
\* slot that is an interval apart from every slot a request was sent in before,
\* although searches are cancelled as they wait, repeat, and send out of turn
\* (docs/PROVIDER_MUSICBRAINZ.md: one request a second).  Requests can come
\* closer than their slots only by the lateness of the timer of the earlier one.
PacedRequests ==
    [][\A s \in Search :
          /\ s \notin Holders /\ s \in Holders' => search'[s].wakes >= clock
          /\ s \in Holders /\ search'[s].at = "asking" =>
                /\ search[s].wakes <= clock
                /\ \A t \in asked : Apart(t, search[s].wakes)]_vars

OnTheWay == {s \in Search : At(s, "looking") \/ Calling(s)}

\* Every lookup ends up in exactly one counter: a hit, a coalesced search or a
\* provider request, or is still on its way to one.
MetricsAddUp ==
    metrics["lookups"] =
        metrics["hits"] + metrics["coalesced"] + metrics["requests"]
        + Cardinality(OnTheWay)

\* Only a search whose own context ended reports that it was cancelled, and
\* one that followed reports nothing else than its leader.
SharedAnswer ==
    \A s \in Search :
        Returned(s) /\ ~ Asker(s) =>
            \/ answer[s] = "cancelled" /\ s \in cancelled
            \/ \E t \in Search :
                  /\ Asker(t) /\ Returned(t) /\ QueryOf[t] = QueryOf[s]
                  /\ answer[s] = answer[t]
                  /\ search[s].leader = None => answer[t] \in Good

IInv == CallInv /\ AnswersComeFromAskers /\ SharedAnswer /\ SlotsAreApart

\* Every search returns: followers are released whatever becomes of their
\* leader, and no wait is endless.
EverySearchReturns ==
    \A s \in Search : At(s, "looking") ~> Returned(s)
===============================================================================
