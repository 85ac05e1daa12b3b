# go-lu in TLA+

`go-lu` is a small Go service: an HTTP API (Gin) behind which sit an identity
provider ("prep"), PostgreSQL and Redis.  This directory models the parts of it
that keep state and meet each other: the way of a request through the middleware,
its authentication, the circuit breaker in front of the provider, the caches, the
rate limiter, the translations, and the start and end of the process.  TLC checks
the models on small instances; TLAPS proves the main safety properties for every
value of the constants.

    tlc -config CircuitBreaker.cfg MCCircuitBreaker     # a run
    tlapm CircuitBreaker_proofs.tla                     # its proofs

Every action is the translation of the code named in `PROJECT.json` under
"map".  Definitions named `Bug...` are plausible mistakes, used only to see that
a property notices them; no specification refers to them.

## 1. The system

| Component | Source (under `src/`) | State it keeps | Operations | Modules |
|---|---|---|---|---|
| Circuit breaker | `internal/infrastructure/circuitbreaker` | state, counts and expiry of the current generation | `Execute` (admit, report), lazy transitions | `CircuitBreaker`; among requests: `GuardedAuth` |
| Authentication | `internal/auth`, `shared/middleware/auth.go` | token cache in Redis, `users` table, each request's stage | `Auth`, `ValidateToken`, `GetOrCreateUser`, `Upsert`, `GetMe` | `AuthFlow`, `AuthHistory`, `GuardedAuth` |
| In-memory cache | `cache/memory.go`, `cache/cache.go` | map, LRU list, sweep goroutine | `Get`, `Set`, `Delete`, `Close`, cleanup | `CacheContract`, `MemoryCache`, `MemoryCacheLRU` |
| Redis cache | `cache/redis.go` | keys in Redis | `Get`, `Set`, `Delete` | inside `TieredCache` and `AuthFlow` |
| Multi-level cache | `cache/multilevel.go` | L1 per instance, shared L2 | `Get`, `Set`, `Delete`, each two steps | `TieredCache`, `TieredCacheHistory`, `TieredDelete` |
| Loader | `cache/loader.go` | a cache and a singleflight group | `GetOrLoad`, `Set`, `Delete` | `Loader`, `LoaderSharing` |
| Rate limiter | `shared/middleware/ratelimit.go` | one bucket per key in Redis | the Lua script, fail-open, `Retry-After` | `TokenBucket`, `RateLimiter`, `RateLimiterWindow` |
| Process life cycle | `cmd/api/main.go`, `infrastructure/di`, `server/server.go` | what is open, the server goroutine, requests | start, signal, drain, clean up | `Lifecycle` |
| Router and middleware chain | `server/router.go`, `shared/middleware` | how far each request is, what it was answered and what was logged | run, abort and unwind the handlers, recover from panics, log | `Pipeline` |
| Responses and errors | `shared/response`, `shared/error` | none beyond a request | status of a code, envelope with a translated message | `Pipeline` |
| Translations | `shared/i18n` | the catalog, loaded once | `Normalize`, `FromAcceptLanguage`, `TranslateText`, the load | `Translations` |
| Device, client address, log context | `shared/common`, `shared/ctxlog` | none | pure functions | not modelled |
| Configuration, logging, tracing, Sentry, connections | `infrastructure/config`, `logging`, `tracing`, `sentry`, `database`, `redis` | none the application decides on | set-up of libraries | opened and closed in `Lifecycle` only |
| Cache metrics | `cache/metrics.go` | atomic counters | counts hits and misses | not modelled |

**How they interact.**  gin hands a request to the middleware one after the other
(headers, CORS, request id, logger, language, recovery) and then to the handlers
of its route; the logger waits for all of them and writes the last word.  Whatever
fails on the way is answered with a message in the client's language, from files
that the first such request reads while the others wait.  A protected request is
authenticated: the token is looked up in Redis (a fresh entry ends the
validation), otherwise the provider is asked *through the breaker* and the
answer is stored.  The user is then looked up in PostgreSQL and inserted or
updated.  All instances of the service share Redis and PostgreSQL; each has a
breaker and an in-memory cache of its own.  Rate limiting is a Lua script in
Redis, run before the handler, which lets the request through when Redis fails.
`main` builds all of this, runs the server in a goroutine and closes everything
after a signal.

**What is hard here, and what makes each part correct.**

* *Breaker*: callers report in any order, long after they were admitted, also
  by a panic; half-open has no expiry.  The counts must balance, probes must be
  limited and decisive, old answers must not count, and the breaker must find
  its way back to closed.
* *Authentication*: two requests of one user interleave between every two calls
  to Redis, provider and database, and each of those may fail or lose its
  answer.  Nobody may be taken for somebody else, nobody logged out by a
  failure, and a user must keep one row and one id.
* *In-memory cache*: two structures that must not come apart, the size limit,
  expiry at the boundary, entries nobody asks for again.
* *Multi-level cache*: no lock spans the levels, so a read may put back what
  another goroutine just removed; staleness must be bounded, and a goroutine
  must not lose sight of its own writes.
* *Loader*: who misses shares the load of who came first; nobody may be
  cancelled for somebody else or left waiting.
* *Rate limiter*: fractions of tokens, a clock that can go back, buckets that
  expire; the limit must hold over every window.
* *Middleware and translations*: whoever answers must stop what follows, a panic may
  come from anywhere, the logger speaks after everybody else; and the first requests
  after a start all want a catalog that one of them has to read.
* *Life cycle*: two goroutines, either of which may end the process at any
  time; nothing may be closed under a running request.

Each hazard, with its line and the properties that cover it, is listed in
`PROJECT.json`.

## 2. The models

Each component has one module with one action per operation, or per step of an
operation where other goroutines can come in between.  Data that no property
tells apart is left out: a cached token is a user and a version of the profile,
a value is a number, times are ticks.  Modules that extend a component with
history variables (`...History`, `...Window`, `...Sharing`, `...LRU`, `...Delete`) leave
its behaviour alone and only remember what a property needs to look back on.

### `CircuitBreaker`

`gen` is gobreaker's generation: state, counts, age, and `current`, the callers
it admitted and has not heard from.  gobreaker numbers its generations and
ignores reports that carry an old number; remembering the admitted callers says
the same without a counter that grows for ever.  `Admit`/`Refuse` and `Finish` are
the two halves of `Execute`, `CurrentState` is the transition that time brings
and the next caller takes, `ReadyToTrip` and `Successful` are what `NewBreaker`
configures.  gobreaker itself is external and modelled from its use.  `Possible`
ties outcomes to the provider: a provider that is up can answer 200 or 401.

### `AuthFlow`

One record per request: its stage (`cacheGet`, `prepMe`, `cacheSet`, `find`,
`upsert`, `update`, `getMe`), the token, whom it has been told the token belongs
to, and the user id.  Every call to Redis, the provider or the database is an
action; between any two of them every other request may act.  `Faults` selects
which dependencies may fail; a failed write may have been applied.  The breaker
appears as "may refuse at any time".  After `INSERT ... ON CONFLICT` the request goes
on with the id it minted (`Upsert`): gorm reads back only columns whose value the
database is to supply, and `UserModel.ID` is not one (section 3, other disagreements).

### `AuthHistory`

`AuthFlow` with `known` added, the requests whose user was registered when they came,
to say who is never told "User not found", and with two clocks, `gone`, the time since
each token was withdrawn, and `pause`, the time each request has rested between the
provider's answer and `setToCache`, to say for how long a withdrawn token is still
honoured: the cache's TTL, and one such pause, because a request that was let in just
before may write the entry back.  That a pause is no longer than `MaxPause` is the one
thing it demands of `AuthFlow`; the code sets no such limit itself, so the bound on
staleness holds with whatever pause the scheduler and Redis really take.

### `GuardedAuth`

`AuthFlow` and `CircuitBreaker` put together as `auth.NewModule` does it: the callers
of the breaker are the requests (`Call <- Request`), and one variable state holds
both.  What `AuthFlow` leaves to chance, whether the breaker refuses and whether the
provider answers, is decided by the breaker and the provider; what
`CircuitBreaker` leaves to chance, who calls and how the call ends, is decided by
the requests, which come only when the token cache has nothing.  The guarded call
is two steps, `Enter` and `Leave`, so that a generation can end in between.

### `Translations`, `Pipeline`

`Pipeline` keeps for each request the handler gin is about to run (`at`), the
language, whether it was identified, an error on its way to the client (`reply`),
the answers given and the lines logged.  `Following` is the chain `NewRouter`
installs per route; `Abort` jumps to the end of it, where the logger is.  An error
is answered in two steps, because in between `TranslateText` may have to read the
files (`Begin`, `Read`, `End`, of `Translations`) or to wait for a request that does;
each file is a step, and each may be unreadable.  `Panics` may happen in every
handler under the recovery.  What limiter, authentication and database decide is
left open here.  The logger goes by the path: any method on `/health` leaves no line
("not GET").  A path with a slash too many never gets to a handler, gin redirects it
itself (`Redirect`), and no line is logged either.  A wrong method ends in `NoRoute`, because gin's
`HandleMethodNotAllowed` is off by default and nothing turns it on; the limiter of
`/api` guards no route, because the only module registers none in the public group.

### `CacheContract`, `MemoryCache`, `MemoryCacheLRU`

`CacheContract` is the abstract specification, the `Cache` interface: a store
that may forget, never serves what has expired or was deleted, and does not
prolong life by reading.  `MemoryCache` has the map (`items`), the list (`order`)
and the sweep (`doomed`, which holds the mutex), and implements the contract with
`store <- Store`, what a caller can find.  `MemoryCacheLRU` adds which keys were
used after each key, to state what eviction promises.

### `TieredCache`, `TieredCacheHistory`, `TieredDelete`

One key, several instances, several goroutines.  `Get` is L1, then L2, then the
backfill; `Set` and `Delete` are L2, then L1; each is a step.  `FaultyL1` and
`FaultyL2` say what may fail, and a failed call to Redis may have been executed.
`TieredCacheHistory` records what each goroutine has been told, how long ago a
value left Redis and how long a goroutine rests between its two calls.

### `Loader`, `LoaderSharing`

`GetOrLoad` step by step: the look into the cache, the singleflight group (`flight`
is the leader), the second look, the load, the store, the delivery to all who
wait.  A context may be cancelled at any time; the load runs under a detached one.
`LoaderSharing` records for whom a value has been loaded and cached since the miss.

### `TokenBucket`, `RateLimiter`, `RateLimiterWindow`

`TokenBucket` is the abstract specification: a bucket that fills continuously.
Only the removal of a bucket that the store holds (`held`) makes it full at once.
`RateLimiter` is the Lua script and the clock of Redis, with tokens counted in
parts so that the script's fractions are exact; it implements `TokenBucket` with
`level <- Levels`, what the script would compute now, and `held <- Held`.  `RateLimiterWindow` adds a
window of time that opens at any moment, and the promises in `Retry-After`.

### `Lifecycle`

`main` is the next line of the main goroutine, `run` that of the goroutine in
`server.Run`, `opened` what is initialised and has not been cleaned up.  Clean-up is
tried once per resource and its failures are ignored (`persistence.go:35`,
`observability.go:50`), so that a resource out of `opened` was seen to, not necessarily
closed with success.  `Exit` is `log.Fatalf`, `logger.Fatal`,
the end of `main` or the default action of a signal that arrives before
`signal.Notify`.  `Shutdown` waits `Grace` ticks.

## 3. The runs

| Run | Shows | Bounds, and why they are enough |
|---|---|---|
| `circuit_breaker` | `Tally`, `HalfOpenLimit`, `NotWedged`, `ClosesAfterAllProbes`, `Recovers` | three callers, two probes, so that a slot is contested and an old call outlives a generation; `CountBound` 4 requests per generation lets the trip rule fire with calls outstanding |
| `breaker_as_deployed` | **violated**: `BusinessErrorsDoNotTrip` | the deployed defaults; `CountBound` 11, one more than the ten requests the trip rule needs |
| `auth_safety` | `IdentityMatchesToken`, `UnauthorizedOnlyIfRejected`, `RegisteredOnce`, `RegisteredAreFound`, `HonouredBriefly` | two requests, two users, a profile that changes once, every fault; two requests are what it takes for every race between a look and a write; TTL and `MaxPause` 1 tick, so that a late write back really prolongs what is honoured; `SYMMETRY` on requests, and on users together with their tokens (no liveness here) |
| `guarded_auth` | `CallersWait`, `OutageEnds`, `ServedAgain` | two requests with one token, so that one may probe while the other is refused or served from the cache; a breaker that needs two probes; `CountBound` 2 requests per generation, as in `circuit_breaker` the least that lets it trip and close; the profile does not change and the database does not fail: neither concerns the breaker |
| `auth_liveness` | `RevocationTakesEffect`, `ProfileConverges` | two sessions of one user, TTL 1 tick, every fault: a request that was slow to write its copy back leaves an old one in one entry after the new one has gone from the other |
| `memory_cache` | `Coherent`, `RecentlyUsedAreKept`, `ImplementsContract`, `ExpiredAreSwept` | three keys in a cache of two, one value that cannot be encoded and one that cannot be decoded; TTL 1 |
| `rate_limiter` | `WithinLimit`, `RetryAfterSuffices`, `ImplementsTokenBucket` | burst 2, five parts to a token, one part per tick, two ticks to a second: rounding up matters; `MaxClock` 14 ticks is time to empty a bucket, let it expire (`Lifetime` is 6 seconds, 12 ticks) and use it again; `MaxElapsed` 8, `MaxLost` 1 |
| `tiered_cache` | `StalenessBounded`, `SessionOrder`, `StaleFades` | an instance with two goroutines and a faulty L1, another with one, two writes: an old value, a new one, and readers of both; `MaxPause` 1 tick between the two calls of an operation |
| `tiered_delete` | **violated**: `DeletedIsNotBackfilled` | one goroutine, one write |
| `loader` | `WaitsForALoad`, `NoForeignCancellation`, `CachedLoadsAreShared`, `CallersReturn`, `CatchesUp` | leader, waiting caller and latecomer; loads that find a value, find nothing, fail and panic; the source changes once |
| `lifecycle` | `OutlivesRequests`, `OrderlyExit`, `CutOffOnlyForCause`, `StopsWhenTold` | two requests, two ticks of grace; deadlock is not checked because the process ends |
| `pipeline` | `AnsweredAndLogged`, `OnlyIdentified`, `MessagesAgree`, `MessagesFromFiles`, `RequestsEnd` | two requests, one to read the files and one to meet it doing so; two languages, one tag that has to be normalised and one that is not supported; three files, with a key that both languages have, one that is empty in one of them, one that a later file overwrites, and keys that no file has |

Each module has a type invariant `TypeOK`; all of them are proved (section 4), so the
runs spend their time on the rest.

### What the violated runs show

* `breaker_as_deployed`: `auth/module.go:35` creates the provider's breaker without
  a classifier, so a 401 for a bad token counts as a failure of the provider.  Ten
  rejected tokens in a row open the breaker, and everybody is answered 503 though
  the provider is up.  `breaker_test.go:101` says "business errors should not
  trip", of a breaker that is given a classifier.  The 503 on a cache miss is the
  `BreakerRefuses` step of `AuthFlow`.
* `tiered_delete`: the comment on `Delete` (`multilevel.go:60`) says that after a
  failed delete in L2 a read will not backfill the entry from L2.  L1 is deleted in
  any case, so the next read does just that.

### Other disagreements met while modelling

These have no run of their own; each can be read off the line given.

* `cache.go:20` says "NoExpire means entries never expire. Use
  as TTL value."; `NewMemoryCache` takes every `ttl <= 0` for "not set" and expires
  entries after a minute (`memory.go:36`).  `RedisCache` understands `NoExpire`.
* `loader.go:20` promises that on a miss the function is called "exactly once (even
  under concurrent access)".  The code does not keep that: a load that finds nothing
  stores nothing (`loader.go:45`), nor does one whose write to the cache fails, so a
  caller that missed before and reaches the group just afterwards calls it again.
  `CachedLoadsAreShared` is what does hold: nobody loads again what was loaded *and
  cached* since it missed, unless the cache fails to show it.
* First logins of one user that race (two tabs) both find no row and both insert.  The
  second insert meets the conflict and updates the row of the first
  (`user_repository.go:26`), and `user.ID = m.ID` (`:34`) reads as if it took over the
  id of that row.  gorm does not fetch it: `UserModel.ID` (`user_model.go:12`) has no
  database default and the statement no `clause.Returning`.  The request goes on with
  an id that no row has, and GetMe answers 404 "User not found" to a user who has
  just been registered.  It takes two requests of the model to see it, an `Upsert` of
  each after `FindNothing` of both; the next request finds the row.
  `RegisteredAreFound` is what holds: only requests that came before the user was
  registered can be told so.
* `app_error.go:49` gives `WithCode("FEATURE_NOT_ENTITLED")` on a 403 as an example;
  `HandleError` answers every code it does not know with 500 (`response.go:96`).
* The breaker's settings are never passed to `NewBreaker` (`auth/module.go:33`): it
  runs with its defaults whatever the environment says.
* `NoMethod` (`router.go:44`) is never reached, and the public group's rate limiter
  (`router.go:52`) guards no route.
* A translation file that cannot be read when the first message is needed stays
  missing until the process restarts (`i18n.go:95`).

### Fairness

* `CircuitBreaker`: a guarded call ends (the HTTP client has a timeout), the clock
  runs, and requests keep arriving, since the breaker moves only when called.
  `Recovers` assumes further that calls stop failing at some time.
* `AuthFlow`: each call of a request returns (client and driver timeouts), the
  clock of Redis runs, and clients go on presenting their tokens (strong fairness:
  a free request slot comes and goes).  Any call may fail, for ever even, and
  `RevocationTakesEffect` holds all the same; `ProfileConverges` assumes that from some
  time on no request ends because breaker, provider or database failed it.  Redis may
  go on failing.
* `GuardedAuth`: the same, together.  The fairness of a request is strong there only
  because `CountBound` may hold up a step for a while; nothing in the code does.
  `OutageEnds` and `ServedAgain` assume that calls stop failing, `ServedAgain` also
  that the token stays good; clients that give up count as failing calls.
* `Pipeline`: a handler goes on, and reading a file ends.
* `MemoryCache`: the cleanup ticker fires, and a sweep ends.
* `TieredCacheHistory`: a goroutine that called L2 goes on to L1 and time passes; that
  a rest lasts at most `MaxPause` ticks is a bound, which `StalenessBounded` names.
* `Loader`: loads and calls of the cache end.  The Loader has no timeout of its
  own: a load that hangs holds everyone who waits for it.
* `Lifecycle`: `main` runs and time passes; nothing is assumed of requests, which
  may hang for ever, nor of the goroutine in `server.Run`.

## 4. The proofs

TLAPS checks these for every value of the constants that meets the assumptions
stated in the modules (`...Assumption`: finite sets of callers, positive rates,
distinct `Null`, no md5 collisions).

| Module | Theorems |
|---|---|
| `CircuitBreaker_proofs` | `TypeCorrect`, `TallyHolds`, `HalfOpenLimitHolds`, `NeverWedged`, `ClosesLate`, `ProbesLeadToClosed` |
| `AuthFlow_proofs` | `TypeCorrect`, `IdentitySafe`, `RejectionsJustified`, `RegistrationIsPermanent`, `RecordsAreGenuine`, `ShownOwnRow`; of `AuthHistory`: `HistoryIsAuthFlow`, `RegisteredNeverLost`, `RevocationIsBounded`; of `GuardedAuth`: `GuardedIsAuthFlow`, `GuardedIsCircuitBreaker`, `CallsAreReported`, `GuardedIsSafe` |
| `MemoryCache_proofs` | `TypeCorrect`, `AlwaysCoherent`, `KeepsContract`, and of `MemoryCacheLRU`: `KeepsRecentlyUsed` |
| `RateLimiter_proofs` | `TypeCorrect`, `KeepsTheLimit`, and of `RateLimiterWindow`: `LimitHolds`, `RetryAfterIsHonest` |
| `TieredCacheHistory_proofs` | `TypeCorrect`, `StalenessIsBounded`, `SessionsAreOrdered` |
| `Loader_proofs` | `TypeCorrect`, `CancelledForItself`, `SharesWhatIsCached`, `NobodyWaitsForNothing`, `CallsAreShort`, `StalenessRunsOut` |
| `Lifecycle_proofs` | `TypeCorrect`, `NothingClosedEarly`, `ExitsInOrder`, `CutOffForCause`, `ShutdownShrinks` |
| `Pipeline_proofs` | `TypeCorrect`, `OneAnswerOneLine`, `ProtectedRoute`, `TranslatedFromWholeCatalog`, `SaidInAFile`, `LastFileCounts`, `ReaderStays`, `RequestsAreShort` |

* **Breaker.**  The invariants are not inductive on their own.  The strengthening
  (`GenOK`) says of a generation that its requests are its successes, its failures
  and the calls it still waits for, that an open one has admitted nobody, and that
  a half-open one has no failures and fewer successes than it needs: a generation
  with enough would be closed.  `NotWedged` is then arithmetic: a half-open
  generation with no free slot and too few successes must be waiting for
  somebody.  Each operation is shown to take such a generation to such a
  generation, by lemmas on `OnSuccess`, `OnFailure` and `CurrentState`.
* **Authentication.**  The inductive invariant is kept per request (`SoundReq`).  It
  adds to the stated properties what lies in the middle of a request: one about to
  insert carries the id minted for its own user, one about to update or to answer
  acts for a user whose row exists.  It speaks of shared state only through facts
  that nobody can undo (rows stay, under their ids: `Extends`; withdrawn tokens stay
  withdrawn), which is what carries a request's knowledge over everybody else's
  steps.  `RegisteredNeverLost` adds that a request in `known` finds the row, and so
  never gets to the insert from which it would go on with an id of its own.
* **What is kept of a user.**  `Genuine` follows what the provider said through every
  place it is copied to: the request, the token cache, the row.  Each record is traced to
  the one it was copied from (`Sources`), ids to the user they were minted for, so that
  two rows never share one; `OwnRowOnly` follows, with the losing id of a first-login
  race included.
* **Withdrawn tokens.**  `RevInv` weighs two clocks against each other: a request about
  to write the cache has paused for at least as long as its token has been gone, and
  what an entry has left to live plus the time its token has been gone never exceeds
  TTL + `MaxPause`.  A write turns a request's share into the entry's, and a tick
  takes from the entry what it adds to the other clock.
* **The composition.**  Each step of `GuardedAuth` is a step of `AuthFlow` or leaves it
  alone, and likewise for `CircuitBreaker`, so that everything proved of the parts
  holds of the whole.  `CallersWait` is inductive as it stands: a request enters and
  leaves the breaker where it enters and leaves the stage `prepMe`.  `GuardedIsSafe`
  carries what is proved of `AuthFlow` over.
* **In-memory cache.**  `TypeOK` and `Coherent` together are inductive; that the
  list holds no key twice is what lets removal by position agree with removal from
  the map.  For the refinement each operation is mapped to the contract's operation,
  and sweeps and evictions to the contract's "may forget".  For the eviction policy
  (`LRUSound`) the list is related to who used what: every key ahead of another has
  been used since that one's own last use, and an entry that is missing although due
  has seen at least `MaxSize` others.  The key evicted is the last of a full list, so
  the `MaxSize - 1` keys before it and the new one are that many others.
* **Rate limiter.**  The step that needs care is expiry: dropping an idle bucket is
  invisible because a bucket older than `Lifetime` is full by then
  (`Lifetime * Second * Rate >= Full`, where the rounding up is used).  The same
  fact makes `Level` the right refinement mapping, also when the clock is set back.
* **Window.**  Besides `WithinLimit` the invariant says that with the window
  closed nothing is counted, and that a promise is met by what the bucket will have
  refilled by then; asking too early stores the refilled bucket and a later time,
  which cancel out.

* **Multi-level cache.**  Three layers.  `Typed`; `Ordered`: values can only be older
  from Redis over what goroutines carry to what is in L1; and on top of these `Dated`,
  that a value being carried left Redis no longer ago than its goroutine has been
  resting, and `Private`, that all a lone goroutine can get is at or above its floor.
  `StalenessBounded` is not inductive without `Dated`, because a backfill brings in a
  value with a whole L1 TTL to live.
* **Loader.**  `TypeOK` is inductive: the goroutine that looks again, loads or stores is
  the leader the group knows, so each result goes where it belongs.
  `SharesWhatIsCached` rests on one fact (`Served`): for as long as there is somebody for
  whom a loaded value was cached since the miss, the cache has an entry.  The second look
  inside the group then finds it, unless that call fails.
* **Life cycle.**  For each line of `main`, what is open by then (`OpenBy`), what can
  still be (`StillOpen`), and that requests come in only while the server listens
  and are gone before `main` closes anything (`ServedWhile`).

* **Middleware.**  The invariant says for each handler what a request that is about to
  run it has behind it: how many answers (none before the end of the chain, and
  exactly one when it unwinds or an error is on its way), the user, the lines
  logged.  For the translations it says that messages are sent only once the
  catalog is loaded, which no step changes afterwards; that is what makes an answer
  given long ago agree with the catalog of today.  For the files, the catalog is compared
  with the files read so far (`FromFiles`: what it says stands in one of them, under its
  key and language; `Overlaid`: it is what the last of them says); `LastFileCounts`
  assumes that every file can be read, since an unreadable one leaves the earlier text.

* **Bounds behind the liveness properties.**  What can be proved of "eventually" without
  it is how far there is to go.  Five theorems give each a measure over the naturals that
  the steps fairness speaks of lower and no other step raises: to the end of a call of
  the Loader (`CallsAreShort`, six steps of the caller or of its leader), of a request
  (`RequestsAreShort`), of the shutdown (`ShutdownShrinks`, `Grace` + 8), of a half-open
  period (`ProbesLeadToClosed`), and of what is stale in the cache
  (`StalenessRunsOut`).  That one of those steps is enabled until the end, and
  taken under the fairness of section 3, is what TLC adds on the small instances.

**Only model-checked:** liveness (`Recovers`, `RevocationTakesEffect`, `OutageEnds`,
`ServedAgain`, `RequestsEnd`, `ProfileConverges`, `ExpiredAreSwept`, `StaleFades`,
`CallersReturn`, `CatchesUp`, `StopsWhenTold`), because the prover has neither `ENABLED`
nor induction over temporal formulas; and the violations.  For seven of the eleven the
safety half is proved: `ProbesLeadToClosed` of `Recovers`, `RevocationIsBounded` of
`RevocationTakesEffect`, `StalenessIsBounded` of `StaleFades`, `CallsAreShort` of
`CallersReturn`, `StalenessRunsOut` of `CatchesUp`, `RequestsAreShort` of `RequestsEnd`
and `ShutdownShrinks` of `StopsWhenTold`.  Every invariant and every action property of
a passing run is proved.

## 5. Not modelled

* gobreaker, singleflight, Redis, PostgreSQL, gorm and `net/http` are modelled only
  as this code uses them.
* In `AuthFlow`: the `deleted_at` column, which nothing sets; collisions of md5;
  `fetchReturnURL`, which only adds a link to a 401; the uniqueness of columns other
  than `prep_user_id`.
* In `RateLimiter`: the rounding of Lua's floating point numbers.
* `Close` of the Redis cache, which does nothing, and of the multi-level cache, which
  closes L1 (an action of `MemoryCache`).
* Eviction across keys in the multi-level cache appears as `Evict`; encoding errors
  are in `MemoryCache` only.
* In `Pipeline`: headers, the masking and the copying of logged bodies, the layout of
  the envelope, request ids, tracing (which decides nothing), and the helpers of
  `shared/response` that no route uses.
* `circuitbreaker/registry.go` (a map without a lock that nothing uses), cache
  metrics, the client's address and device (`shared/common`: text in, text out),
  log context, configuration, set-up of tracing and Sentry.
* The application itself uses neither the multi-level cache nor the Loader nor the
  in-memory cache; they are modelled as the library code they are.
  `TimeoutMiddleware` is used nowhere either and not modelled: all it does is to put
  a deadline on contexts and connections.

## 6. Plan

Written in this order, because identity and availability depend on the first ones:
`CircuitBreaker`, `AuthFlow`, `AuthHistory`, `MemoryCache` with its contract, `RateLimiter` with its
token bucket, `TieredCache`, `Loader`, `Lifecycle`; then `Translations` and
`Pipeline`, and `GuardedAuth`, which puts the first two together.  Each has its runs
and its proofs.  What could come next:

1. the limiter's keys: which address of the forwarding headers a client counts as;
2. `GuardedAuth` with several instances, each with a breaker of its own, sharing
   the token cache.
