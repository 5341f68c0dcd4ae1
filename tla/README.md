# Wildman Service: a TLA+ model of its core

Wildman Service is a central catalog that resolves music tracks. Clients submit
observations of local files, worker processes match them against the catalog and
external providers, and clients poll for ranked candidates and report what they
did with them. All durable state is in PostgreSQL; the Go processes keep nothing
but caches and counters. What can go wrong is therefore in the seams: between
two statements of a handler, between a read and the write it decides, between a
commit and its answer, between a web handler, a worker and an operator at work
on the same rows. The modules here are about those seams.

## 1. Inventory

| Component | State | Operations | Hard behaviour |
|---|---|---|---|
| Resolution queue and worker (`app/worker`, `worker_store.go`, `candidate_store.go`, `resolution_store.go`, `review_store.go`, `cmd/worker`) | `resolution_requests`, `resolution_candidates`, `resolution_reviews`; per worker the request `RunOnce` holds | create, claim, look up, query providers, save candidates, fail, review, purge | several workers, `SKIP LOCKED`, lost commit replies, crashes, rows removed while held |
| Result polling (`GetResult`) | none | read request, read candidates | two reads without a transaction |
| Submission and quota (`POST /resolutions`) | `track_observations`, `quota_consumptions`, `monthly_usage`, `subscriptions` | upsert observation, charge, create request, change subscription | READ COMMITTED transactions waiting for each other, retries, half-done submissions |
| Device authorization (`app/account`, `account_store.go`) | `device_authorizations`, sessions | start, approve, poll | racing polls and approvals, expiry against stale time stamps, a token that is answered once |
| Client installations (`app/client`, `client_store.go`, `client_auth.go`) | `client_installations`, `audit_events` | create, authenticate, touch, revoke, delete | read-decide-write without a transaction, revocation and deletion in between |
| Operators and sessions (`app/auth`, `auth_store.go`) | `users`, `sessions` | set-up, log in, authenticate, log out | set-up race, late touches, ends of sessions |
| Rate limiters (`client_rate_limit.go`, `auth_security.go`) | in-process windows | allow, clean up | window boundaries, time taken before the lock |
| Provider cache and metrics (`provider/cache.go`, `metrics.go`) | entries, in-flight calls, counters | search | coalesced misses, expiry, shared errors |
| Provider adapters (`infra/provider`) | last request time | paced, retried requests | pacing under cancellation, retry limits |
| Source observations (`source_recorder.go`, `source_observation_store.go`) | `source_observations` | record, link, purge | purge between recording and linking |
| Normalization, scoring, merge (`domain/catalog`) | none | pure functions | order dependence of the merge, thresholds |
| Catalog store (`catalog_store.go`) | `catalog_*` | upserts, search | replaced child rows |
| Operations, migrations, router, health, configuration, console, importers | see `PROJECT.json` | | |

How they interact: a client call passes `clientMiddleware` (client access, rate
limiter), then a handler. The submission handler runs three transactions in a
row. Workers and handlers never talk to each other: the queue's rows are the
only channel. The operator's deletion, revocation, subscription changes and
retention purge act on the same rows at any time.

What makes each component correct is stated as the properties of its module; the
full list of hazards, each at its line and with the properties that watch it, is
`hazards` in `PROJECT.json`.

## 2. Modules

| Module | Models | Composes |
|---|---|---|
| `Resolution` | the queue: tables, handlers, `RunOnce` of every worker, faults, operator actions | |
| `ResolutionJob` | abstract: a request is taken at most once and answered at most once, by its own worker | |
| `ResolutionRefinement` | the refinement mapping from the first to the second | `Resolution`, `ResolutionJob` |
| `ResultPolling` | `GET /resolutions/{id}` against a running queue | `Resolution` |
| `Matching` | pure: normalised texts, score, cross-source merge, ranking, tag patch | |
| `CandidateSearch` | what one worker does for one request, statement by statement: catalog, providers, source observations, merge, candidates, next to other writers and the purge | `Matching`, `Resolution` |
| `Submission` | `POST /resolutions`: observation, quota transaction, request | |
| `DeviceAuth` | device codes: start, approve, poll | |
| `RateLimiter` | the fixed windows of one limiter, with clean-up | |
| `ClientAccess` | installations, token authentication behind the limiter, audit trail | `RateLimiter` |
| `OperatorAuth` | first administrator, operator sessions | |
| `ProviderCache` | one provider behind its cache: expiry, coalescing, pacing, retries | |
| `ResolutionProofs`, `ResultPollingProofs`, `SubmissionProofs`, `DeviceAuthProofs`, `ClientAccessProofs`, `OperatorAuthProofs`, `ProviderCacheProofs`, `CandidateSearchProofs` | theorems about the module they are named after | that module |
| `MC*` | small instances for TLC | their module |

Definitions carry the names of the code where they can; `map` in `PROJECT.json`
names the lines of each.

**Resolution.** A variable per column that any decision looks at, indexed by
request (`status`, `owner`, `createdAt`, `lastError`), and the rows that hang off
a request (`candidates`, `review`). A worker is a program counter (`pc`) with the
locals of `RunOnce` (`job`, `found`, `code`). A transaction that locks what it
changes is one action, taken at its commit; only the claim is two, because other
claims look at its uncommitted row lock. `Save` is guarded, as the code is, by the
row's existence and by `UNIQUE (request_id, recording_id)`, `Fail` by
`status = 'matching'`. Every statement may fail before it takes effect
(`ClaimAborts`, `SaveAborts`, ...) or after (`ClaimReplyLost`, `SaveReplyLost`),
and the process may stop (`Crash`); each of these counts as one fault. What the
catalog and the providers answer is nondeterministic. Scores and evidence are
left out: a candidate list is the recordings it names, in rank order. Two pairs of
statements are one action each because the database leaves nothing in between that
would tell them apart. A review first looks its candidate up and then inserts
(`review_store.go`): the candidates of a finished request go only with the
request, and then the foreign key refuses the insert as the lookup would have. A
submission that inserts and then reads its request (`resolution_store.go`): the
conflicting insert waits for the winner's commit, and under READ COMMITTED the
read that follows sees the winner's row.

**ResultPolling** adds pollers that hold the request row they read in the first
statement until the second.

**Matching and CandidateSearch** open up what `Resolution` leaves to chance.
`Matching` translates `NormalizeText`, `ScoreCandidate`,
`MergeCrossSourceCandidates`, the ranking and `GenerateTagPatch` as operators. A text is a
sequence of characters because the properties are about edit distances and word
boundaries; evidence and conflicts are sets of the aspects their sentences are
about. A score counts in 1/1200, so that every weight is whole; the code's
sum `0.40 + 0.05` of floats does reach the threshold 0.45, and the other ways
to a sum of exactly 0.45 do not occur in the instance. `CandidateSearch` runs one request through `RunOnce`: every
statement that commits by itself is an action (`SaveRecording`, `SaveRelease`,
`CreateSourceObservation`, the `SELECT` after its conflict), and so are the two
reads of `FindRecordings` and the snapshot and commit of the purge. An artist's identifier is
a digest of its name, so its row is its name. `Queue == INSTANCE Resolution WITH ...` maps
this state to one request and one worker of the queue; `FollowsQueue` says that
every step is one that the queue's `Next` allows, so that the abstraction made
there covers this code. Recursion is written with recursive functions, names are
compared as bags (`ToBag`), and the stable sort is given by each candidate's rank,
so that theorems can be stated about all of it. What the code may be configured
with is assumed and no more: providers may be missing, answers are any lists of
results, and a result's texts are any sequences of characters.

**Submission.** A handler is a program counter over the statements of the three
transactions. The row inserted into `quota_consumptions` stays locked until the
transaction ends: a second insert of the key, and a deletion of the client,
wait for it. An observation is `aged` once its `updated_at` is 180 days back
(`GrowOld`), which is what the purge looks at; the upsert makes it fresh again. No
handler is under way for that long, so that an observation does not age while
the handler that upserted it goes on. `peak` and `entitled` are history variables that only the properties
look at.

**DeviceAuth.** Every call carries the time it took before its first statement.
The row lock of a poll is the program-counter value `inserting`.

**RateLimiter and ClientAccess.** `Allow` is one action, its section under the mutex, with
the time the call took before it (`AskLimiter`). Calls of clients that are not
followed appear as `OtherAllow`, which only cleans up. The limiter of the log-in
handlers is the same code with an address for the client and is not instantiated
again. `passed`, the times at which a client was let through in their order, and
`late` are histories.

**ClientAccess, OperatorAuth.** The two authentications have the same shape -
find the row, take the time, decide, then perhaps write - and differ in every
detail: the client's touch keeps the later time and refuses a revoked row, the
session's touch overwrites and does not look at what it affected; the session's
check may also revoke the row.

**ProviderCache.** A search is a program counter with the locals of
`CachedProvider.SearchRecordings` and of the adapter it leads into. A section
under a mutex is one action (`Hit`, `Follow`, `Lead`, `Finish`, `TakeSlot`), and
so is each wait (`Share`, `GiveUp`, `Ready`, `WaitCancelled`). `cmd/worker` calls
the cache from one goroutine today; the cache has a mutex, an in-flight map and a
cancellable wait for concurrent callers, and is modelled for those. The three
adapters are one: all pace their requests, MusicBrainz also repeats them; AcoustID
and Wikidata are the case `MaxAttempts = 1`. An answer is its kind: candidates, none, an
error worth repeating, another error, or the cancellation of the caller's
context. The negative-hit counter and the per-kind error counters are left out of
`metrics`, as are the candidates themselves.

## 3. Runs

Each run is one TLC configuration; the tables of `PROJECT.json` say which
properties it checks and, under `mutants`, which change of the code each of them
catches. `queue` and `provider_cache` check the inductive invariant `IInv`, whose
conjuncts include the type invariant and the smaller safety invariants; only what
is worth a question of its own is listed beside it. The type invariants of the
modules with a `*Proofs` module, and the audit trail of `ClientAccess`, are theorems
and need no run.

| Run | Instance | Shows |
|---|---|---|
| `queue` | 2 workers, 2 requests with equal or different `created_at`, 1 client, 2 keys, 1 recording, lists up to 2, 2 faults | rows and workers agree, answers are final, at most one stranded request per fault, the queue implements `ResolutionJob`, a queued request is always taken and is answered, removed or stranded |
| `queue_stranded` | 1 fault | violation: a request left in `matching` for ever |
| `polling_safety` | 2 pollers, 1 worker, 1 fault | final responses are complete and agree |
| `candidates` | 1 search, 2 observations, catalog and 3 providers, 8 recordings, 1 write by others, 1 fault, 1 import, 1 earlier search | stored candidates are ranked, complete and backed by rows that stay; history is not rewritten; the merge, the patch and the texts agree with reference definitions; the observed title suffices and nothing without evidence does; every step is one of the queue's |
| `candidates_repeated` | the same | violation: a record that comes back twice fails the whole search |
| `submission_safety` | 2 handlers, 2 clients of one account, quota 0 or 1, 2 months, 1 stop, fairness | charges are counted once, within the quota, and buy requests; every call is answered, lock waits included |
| `submission_inactive` | 1 key, 1 stop | violation: a request created after the subscription ended |
| `device` | 2 pollers, 2 approvers, 2 accounts, clock 0..2, 1 fault | one installation per code, for the account that approved, by calls begun in time |
| `client_access` | 1 client, 2 calls, 2 deletions, touch interval 2, limit 2, window 2, clock 0..3 | revocation holds, `last_seen_at` is recent and never goes back, the limiter admits at most twice its limit in a window's length and refuses only with cause |
| `operator_auth` | 2 set-up calls, 3 names, 3 calls, clock 0..6, idle 2, life 5 | a silent, over or revoked session stays unusable |
| `operator_setup` | the same | violation: two first administrators |
| `provider_cache` | 2 searches of one query and 1 of another, entries kept 2 or 1, slots 1 apart, 2 attempts, 1 cancelled context, clock to 1 and further while a search waits | one call per query, slots an interval apart and none in the past whoever is cancelled, followers get the leader's answer, a fresh answer is never asked for again, every search returns |

*Why the bounds are enough.* The races here are between two actors of one kind
(two workers, pollers, handlers, polls) and one of another (an operator, a
purge); a third adds nothing but for the out-of-order touches of `operator_auth`, where three calls
are used. Two requests or keys are needed to tell "this one" from "another one".
Two faults let a crash follow a lost reply. Clocks run just past the longest life
they are compared with; that of `client_access` spans a window, the boundary after it and
the time of a call that is late for both. `MaxCandidates = 2` lets a list name one recording twice,
which is what the unique constraint refuses. The clock of `provider_cache` goes on while a search waits, so that no wait is cut
off by the bound.

The instance of `candidates` is chosen case by case: texts that differ in case, in
signs, in a version keyword, by a distance on either side of 0.75; a sum of exactly
0.45, from the title and the keywords alone; durations
missing, within 2 s, within 10 s and beyond; results that merge by ISRC, by
version and not at all; an artist named twice, an artist whose name normalises
to nothing; a provider that answers with nothing, fails, or is skipped; the same
recording from two providers. One write of another worker may fall between any two
statements. Title similarities are exact for titles of up to six characters, and
those used have no more; no list of candidates gets longer than `MaxCandidates = 4`,
or `FollowsQueue` would not hold; of the list of version aliases two keywords with three aliases are kept.
An ISRC is folded by case like a text.

Deadlock checking is off in every
run: clients may stop sending, all clients may be deleted, a search is over, and then nothing is
left to do; that no call or request waits for ever is stated as liveness
instead. Symmetry is used in `device`, `client_access` and `operator_auth` only, where no liveness is
checked, over sets whose elements no definition tells apart.

## 4. Fairness

- `Resolution!LiveSpec`: weak fairness of `RunOnce(w)` per worker. `cmd/worker`
  calls `RunOnce` in a loop, sleeping between calls, and each call ends: its
  statements run under a context and the providers' HTTP clients have time-outs.
  Nothing is assumed of the handlers, the operator or of faults.
- `Submission!LiveSpec`: weak fairness of a handler's next statement, and strong
  fairness of the insert that may have to wait for another transaction's row:
  PostgreSQL wakes a waiter when the transaction it waits for ends, so it is not
  passed over for ever.

- `ProviderCache!LiveSpec`: weak fairness of the clock and of each search's next
  step. Goroutines are scheduled, timers fire, and a request to a provider ends
  because the HTTP clients of `cmd/worker` have a time-out.

## 5. Where the code and its documents disagree

1. `queue_stranded`. docs/MVP.md:23 calls a resolution request a persistent task.
   Once claimed it is not: after a crash, a lost claim reply, a failed write of
   the metrics or a failed `FailResolution` it stays in `matching`. No claim, no
   time-out and no purge looks there again. Run `queue` and the theorem
   `StrandedBound` show that this is all that can happen to it, at one request per
   fault.
2. `submission_inactive`. docs/ACCOUNTS_BILLING.md:7 says that only an active
   subscription creates requests; a key that was charged before is not checked
   again.
3. `operator_setup`. docs/SECURITY.md:21 calls the first administrator's creation
   atomic; two calls with different names both succeed under READ COMMITTED.
4. `candidates_repeated`. docs/PROVIDER_WIKIDATA.md:7 says that a source's repeated
   records earn no score and that conflicts stay for the user's review: a repeated
   record is foreseen, and no error. The query asks for labels
   in two languages without `DISTINCT`; a work found by both comes back twice,
   without artists and so without a merge key, and the unique constraint on
   candidates fails the whole request.

Smaller observations met while modelling, without a run.

*Queue and polling:* the recordings of stored candidates are shown as they are now, not
as they were scored; a response may say `queued` and carry candidates, because the
two reads of `GetResult` may enclose the whole match (docs/API.md:159 promises
none); a retry after a purge creates a request that is not charged again.

*Matching:* when two candidates merge, the merged one shows the conflicts of the one
whose score it has (`MergeAgrees`), but those of the one with the lower
score may be dropped, although docs/PROVIDER_WIKIDATA.md:7 keeps conflicts; the bonus
of 0.05 is lost when a later result of the same key has a better score and takes the
place of the raised one; a patch proposes artists again and again when one of them
normalises to nothing; the track number is never compared, although
docs/MVP.md:34 lists it; the Wikidata query uses the trimmed title, the catalog
the normalised one; a catalog row of the same normalised title always reaches
0.45 (`AcceptedForCause`), however much its artists and duration conflict, so that a row which only Wikidata gave keeps the providers from being asked
by later requests; recordings and artists are read in two statements, so a score may
be of a recording that never was; a source observation that is found again
keeps its old expiry; a purge is refused as a whole when one of its rows has come
to be named.

*Access:* an expired device code that was consumed is answered as invalid instead of 410
(docs/ACCOUNTS_BILLING.md:14); two concurrent authentications both write
`last_seen_at` within five minutes (docs/API.md:218); a session's `last_seen_at`
can go back, so that it ends early; two deletions at once write two audit events; a
call that took its time before the limiter's mutex may, after another call's
clean-up, open a window that is already half over.

*Providers:* the `Retry-After` of a 429 is parsed and put into the error, but no retry looks at it
(docs/PROVIDER_MUSICBRAINZ.md:26 says that the provider is paused); the one request per second of
docs/PROVIDER_MUSICBRAINZ.md:23 is kept per process, so two workers together send
two; a follower whose own context lives gets its leader's cancellation as an
error; the metrics of the console are one row that every worker process overwrites
with its own counters (`worker_store.go:15`), and the `NewMetrics()` that `cmd/server/main.go:46`
passes along is not used.

## 6. Proofs

Every theorem holds for all values of the constants, from the assumptions named in
the module it is about: identifiers are told apart, `None` is none of them, bounds
and lifetimes are naturals. In each module an invariant that TLC checks is
strengthened until every action preserves it; one lemma per action or group of
actions shows the parts it can disturb. `Matching` assumes besides (`TextAssumption`) that a blank
is no letter and that `LowerCase` leaves letters and blanks alone, and (`AliasAssumption`) that an alias
normalises to something, as each of the fixed list of `normalization.go:18-30` does.

**`ResolutionProofs`.** The safety invariants
are not inductive one by one. That `Save` writes its candidates over a row
without any (`OutcomeAgrees`) needs to know that the worker's request is still
`matching`; that needs no other worker to have it (`OneWorkerPerRequest`), which
needs the claim's lock to keep a claimed row `queued`. `IInv` (theorem `Inductive`) is their
conjunction with what a missing row looks like (`RowsAreWhole`) and that a
failing worker has a code (`FailingHasCode`). From it: `TypeCorrect`, `SingleWorker`,
`RowsAndWorkersAgree`, the action properties `FinalAnswers` and `RetentionKeepsOpen`,
`StrandedBound` (`Cardinality(Stranded) <= faults`, since only a fault adds a request to the
set, and only its own), and `Refinement`: `Spec => ImplementsJob`, each action one step of
`ResolutionJob` or a stutter, where `SingleWorker` makes the `CHOOSE` in `Assignee`
mean the worker that holds the request.

**`ResultPollingProofs`** proves `FinalResponses` and `ResponsesConsistent` on top of the
queue's proof. A poller's step leaves the queue alone, so that the queue's `IInv`
carries over. `PollInv` says that a final status that was ever seen, half read or answered, is the row's
until it is removed, and that candidates that were seen are the row's; the lemma `FinalStep`, shared with
`FinalAnswers`, keeps both.

**`SubmissionProofs`** proves `TypeCorrect`, `RequestCharged`, `QuotaRespected`,
`ChargesCounted`, `TrackKept` and `WasteBound`. The crux is the uncommitted row:
`CountHolds` says that the handler between insert and count is the only one of its slot, that
nothing is charged there yet and that its client is still there, which is what
the waits of a second insert and of a deletion amount to. The counter is the cardinality of
the month's consumptions, one step at a time; the waste is bounded by cardinality, as stranded
requests are. `TrackKept` needs that the observation of a handler under way is not old (`InUseIsFresh`, which holds
because the upsert sets `updated_at` also of a row that is there).

**`DeviceAuthProofs`** proves `TypeCorrect`, `OneInstallation`, `ExpiryRespected` and
`LostBound`. `LockHolds` says that the row a poll has locked is still approved and in time when
the installation is inserted, and locked by nobody else.

**`ClientAccessProofs`** proves `TypeCorrect`, `AuditTrail`, `RevokedRefused`, `LastSeenMoves` and
`SightIsRecent`. That the table's last use is recent although most calls write
nothing needs `SeenIsPast`: what a call has read is no later than what the row
holds now, because touches keep the later time. `TwiceTheLimitAtMost` and
`RefusalsAreEarned` rest on `LimiterInv`, which splits the calls let through at
the first one of the open window (`Opened`): those in the window are no more than the limit because
`requests` counts them, and of the earlier ones an interval of a window's length that reaches into the open window
has at most the limit, because the window before had ended when this one was opened. Both
are about an interval that holds no call whose time was older than its turn at the mutex.

**`OperatorAuthProofs`** proves `TypeCorrect`, `RevocationFinal` and `SilenceEnds`. Touches overwrite, so
`last_seen_at` may go back; what keeps a silent session dead is that every value that is or will be written is
one of its uses (`UsesArePast`, `CarriedIsPast`).

**`ProviderCacheProofs`** proves `TypeCorrect` (no error is ever cached), `OneCall` and
`NeedlessCalls` from `CallInv`, which adds to the types that
only searches that asked themselves are with the adapter (`LeadersAsk`), that such
a call and the in-flight map name each other (`CallsAreInMap`), and that an answer
that is still fresh is in the cache (`FreshIsCached`). `CallsAreInMap` is the crux:
`Finish` deletes the map's entry without looking whose it is, which is right only
because nobody else's can be there. `Sharing` needs that what is in the cache, or
was the result of a leader, was the answer of a search that asked for the same query
(`AnswersComeFromAskers`). `CountersAddUp` (`MetricsAddUp`: every lookup is in one counter or on its way to
one) follows the searches one by one, by cardinality; it is no property of the run, since the counters change
in the sections under the mutex and nothing depends on their order. `Pacing` proves the action property
`PacedRequests`. A cancelled wait leaves its slot unused and slots are not used in the order in which they
were taken, so that the time of the last request says nothing: `SlotsAreApart` keeps all the slots that were
used (`asked`) and those that searches still hold (`Holders`) an interval apart from each other and before the
next free one. `Invariance` is the whole of it, `IInv`.

**`CandidateSearchProofs`** proves every safety property of a search. Its invariant,
`Inductive`, has five parts. `Typed` adds to the types that a row is
filed under its own identifier and that what the worker has in hand is what its next
statement expects (`AnswerInHand`). `Tables` says that source rows are told apart by their numbers
(`SourcesDistinct`), that what a running purge has selected is old (`DoomedAreAged`), and that
each accepted candidate is `Grounded`: the source row it names, if it is there, is about its recording.
That is what `EvidenceIsStored` needs: `Savable` only finds that the row exists, and nothing but the order of
the statements before it makes it the right one. `Told` says that what is about to be saved, and what was
saved, tells what was found, which `AnswerIsRanked` needs after a deletion or a lost reply. `NamedOnce`, that the
lookup considers each recording once, is what makes the catalog's list one that `CatalogMatches` of the
queue allows. `EvidenceIsStored` is the fifth: it preserves itself because a purge's foreign key
sees the candidates.

The merge and the ranking are functions of a list of any length. The library's induction theorems
cannot be used, as they take a predicate for a parameter; `LeastNumber` and `SetInduction`
state induction over a *set* of numbers, from the well-foundedness of finite sets, and `StepByStep` and `Recursion`
that a recursive function is what its defining equation says. On them rest `MergeIsWell` (types), `MergeIsRight`
(the merged list is the reference definition `MergedFrom`, one candidate of the input at a time: its score is of one
of them, all of whose evidence and conflicts it shows) and `MergeTells`; `RankedTells`
shows that the ranks are a permutation that sorts. `QueueFollowed` maps each of the 22 actions to a step of
`Resolution` or to a stutter. It assumes that no list is longer than `MaxCandidates`, which
is the bound of the queue's model and none of the code.

`CauseShown` is `AcceptedForCause`: a title equal to the observed one is no edit away from it (`SelfDistance`), so
that it earns at least the 0.40 of the title and with the keywords the 0.05 that is missing (`TitleIsEnough`),
and what the other aspects say can only add to that; without evidence the titles are less than 0.75 similar, which
earns less than 0.30, and nothing else earns more than 0.05 (`NothingIsNotEnough`). That the rows at hand have the observed
title (`TitlesAgree`) joins `Inductive` there.

`TextsRight` is `TextsAgree` for all texts; each of its parts is a theorem of its own.
`DistanceIsLeast`: a cell of `editDistance`'s table is the least cost over all alignments of two beginnings, by
induction on their lengths, since an alignment leaves one of the last letters alone or pairs them
(`LastPair`), and an alignment of shorter beginnings can be continued by a pair (`OneMore`, `LeastStep`).
`NormalizedAlready`: a normalised text has its blanks between letters, one at a time (`LonelyBlanks`), and
reading such a text gives it back (`ReadingTable`). `KeywordsAreWords`: padding both sides with a blank
and looking for the padded phrase finds it exactly where it begins after some number of characters and stands
alone there, which is what a run of whole words is (`PhrasesStandAlone`, `WordsStandAlone`).

*Only model-checked:* the liveness properties `FinishedOrStranded`, `EveryCallEnds` and
`EverySearchReturns`: temporal reasoning under fairness and ENABLED are beyond the prover. That `Resolution`'s
initial states cover those of `CandidateSearch` is not claimed: a search begins with a request that was claimed.

## 7. Not modelled, and why

- Decoding of provider JSON, password hashing, token formats, cookies, CORS and
  CSRF checks, routing: stateless filters and I/O.
- The web console, the quality report, and of the importer all but the rows it
  writes: offline or presentation. An import that renames an artist is left out.
- `SaveTrack`, the tracks table and the readers of artists and releases: no part of a
  search.
- `release_context.go`, which has no caller, and `observation_validation.go`, which rejects input before
  anything is stored.
- The deletion of year-old audit events, summaries and counts of the console: nothing reads
  them to decide anything.
- Configuration, health checks and the placeholder rewriting of `dialect.go`; migrations, which run
  before anything is served, each in a transaction with its row in `schema_migrations`.
- The order of RFC 3339 texts within one second: every comparison in the code is against
  minutes or days, and a unit of the clocks here is a second or more, where the order of the texts
  is that of the times.

## 8. Plan

Done: the queue with its abstract specification, polling, submission,
device codes, client access behind its rate limiter, operator sessions, the
provider cache, the candidate search with matching, catalog and source observations, composed
with the queue; proofs for every module with state, of all safety properties of the passing
runs.

Left:

1. `SaveTrack` and the release tracks of the importer, once something reads them.
