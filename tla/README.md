# Verification of FCFeeds

FCFeeds polls RSS, Atom and JSON feeds into SQLite and serves the headlines as
JSON Feed. This directory holds TLA+ models of its concurrent core, the TLC
configurations that check them on small instances, and TLAPS proofs of what
matters most for every value of the parameters.

## 1. The system

| Part | State it keeps | Operations | Interacts with |
|---|---|---|---|
| Store (`internal/store`) | tables `feeds`, `fetch_state`, `items` | `EnsureFeed(s)`, `ClaimDue`, `ClaimFeed`, `UpsertItems`, `RecordFetchOK`, `RecordFetchError`, `PruneItems`, `EvictFeeds`, reads | called by poller and handlers; one connection, so one statement or transaction at a time |
| Poller (`internal/poll/poller.go`) | the batch being handed out, the semaphore, each fetch's locals | `Run`, `FetchOne`, `FetchNow`, `evict` | store, fetch client, host limiter; `FetchNow` is called by handlers |
| Schedule (`internal/poll/config.go`) | none; its arguments live in `poll_interval_s`, `quiet_polls`, `fail_count` | `NextInterval`, `Backoff` | called by each fetch with the columns its claim read |
| Host limiter (`internal/poll/hostlimit.go`) | a map of slots, a mutex and a time in each | `acquire`, release | held by a fetch from before its request to its end, if the feed's stored URL parses |
| Handlers (`internal/api/server.go`) | each request's locals | `GET /v1/feeds`, `GET /v1/items`, `POST /v1/discover`, `/healthz` | store statement by statement, poller for a cold feed |
| Merged timeline (`getItems`, `dedupe`) | local structures of one loop | list, drop copies, cut | reads the store once |
| Lifecycle (`cmd/feeds`) | the context that ends the loop | start, orderly shutdown | all of the above; SQLite survives it |
| Fetch client, address guard (`internal/fetch`) | the transport's idle connections | conditional GET with redirects; checks of URLs, names and addresses | publishers, DNS; called by the poller and by discovery |
| Discovery (`internal/discover`) | one call's candidates and URLs tried | `Discover`: the page, its links, conventional paths | fetch client, parsers; called by `POST /v1/discover` |
| Parsers (`internal/parse`) | none | a document's items: kept or not, time, key | called by a fetch and by discovery; the store takes the keys |
| Metrics, configuration | counters; none | count, expose; read the environment | nothing reads them back |

What is hard in it:

- **Interleaving.** The poll loop, its workers and every handler run their
  statements in any order; nothing but `locked_until` keeps two of them off one
  feed. A handler and a fetch are several statements each, without a
  transaction around them.
- **Time.** A lock is a time in a row, taken at the claim, while the holder may
  then wait for a slot of the semaphore and for its host. An on-demand fetch has
  a budget after which nothing can be recorded.
- **Failure.** Any statement may be the last (a cancelled request, a stop, a
  disk error), and the next start finds the database as it was left.
- **Identity.** Rows are written under an id read earlier; eviction deletes rows
  and SQLite gives the id of the last one out again.
- **Others' data.** Names resolve differently from one look-up to the next,
  publishers redirect, edit, drop and bring back their articles, and date them in
  the future.
- **Ends.** A signal reaches the loop in the middle of a batch, while handlers fetch
  and the store is about to be closed.
- **Arithmetic over several polls.** What a feed waits for is computed from
  columns that three kinds of outcome update in different statements.

What makes each part correct: *store and poller*: one claim at a time on a feed;
locks that end; validators and `last_ok_at` that never promise an item that is
not stored; items only under the feed they came from; nothing forgotten but by
retention; every feed polled for ever. *Schedule*: waits that are one
function of the runs of quiet and failed polls. *Host limiter*: one fetch at a
time from a host, a gap apart, nobody waiting for ever. *Handlers*: answers that
are not torn between their reads; no use of the poller it was not made for.
*Timeline*: no copy twice, no story of a short page lost. *Fetch client*: nothing requested from an
address that is not allowed, on any hop. *Discovery*: what is offered is a feed,
nothing usable is missed, the call ends. *Parsers with the store*:
an article that can be recognized is one headline whatever its publisher does to it.
*Lifecycle*: a process told to stop stops, with the store open for as long
as the poller uses it. The hazards behind each of these are in
`PROJECT.json`, each at its line, with the properties that would catch it.

## 2. Modules

    Store ──EXTENDS── Poller ──EXTENDS── Server         FeedCache
                        │                   │               ↑ implemented by Poller
                  PollerProofs ──────── ServerProofs
    FetchClient ──EXTENDS── Discovery ── DiscoveryProofs
    HostLimiter ── HostLimiterProofs      Timeline ── TimelineProofs
    Schedule ── ScheduleProofs            Intake ── IntakeProofs
    PollLoop ── PollLoopProofs

`MC<module>` instantiates `<module>` for TLC; `MC<module>_<run>.cfg` gives the
values. Definitions named `X_Something` are plausible bugs in `X`, used to see
that the properties notice them; no specification uses one.

**Store.** The tables are functions from rowid to a row or `None`. Each operator
is one statement or transaction of `store.go`, with the time it is given as a
parameter. `EnsureFeed` is two statements, so two operators (`InsertFeed`,
`InsertFetchState`); of `ClaimFeed` it has the `UPDATE`, Poller the two `SELECT`s. `NewRowid` is SQLite's rule for an `INTEGER PRIMARY KEY`
without `AUTOINCREMENT`. An item is its publisher and its publication second,
which stands for its key; `title` stands for all the metadata of a feed.
`fail_count`, `quiet_polls` and `poll_interval_s` are in Schedule.

**Poller.** The clock `now`, the publishers' documents, handlers registering
feeds, `Run`'s batch, and for each worker and each `FetchNow` caller the step its
`fetchOne` is at. A claim on demand is three statements, each committed by itself:
after the `UPDATE` (`FetchNow`) the caller is at `claimed`, after the row is read
(`SelectFeed`) at `read`, and with its state (`SelectState`) it goes on as a worker
does; evictions, records and stops fall in between. `host` is waiting in `hosts.acquire`, `get` the request,
`upsert`, `record`, `notmod`, `error`, `prune` the statement that is next. Every
statement may fail (`StoreFails`) and the process may stop between any two
(`Restart`). A caller's steps need `InBudget`: past its deadline the context fails
its request and its statements, so it can only go by `RespondError` and
`StoreFails`. The waits that Schedule computes are any of `OkWaits`, `ErrWaits`.
`Host` is `None` for a feed whose stored URL does not parse: its fetches do not wait.
`Observe`, a conjunct of every action, keeps two variables that only properties
read: `overran` (some holder outlived the lock it took) and `orphaned` (the row was
deleted under a holder).

**FeedCache.** What a client may see of the service, with no tables, claims, fetches
or failures: feeds that are there because somebody asked, items that their publisher
published, and nothing that goes but by retention or for disuse. `Poller!Cache`
instantiates it with a refinement mapping: a feed's entry is the `last_requested_at`
and the items of its row (`CacheEntry`), unless another feed's fetch may still write
under the row's id (`orphaned`).

**Server.** The callers of Poller are the handlers of `GET /v1/feeds` and
`GET /v1/items`, one statement a step: the two of `EnsureFeed`, the read of the
row, the state, the claim, fetch and second reads of a cold feed, the items.
Steps that write are Poller's actions, so `Server` adds only who takes them, when,
and what the answer is made of. `ObserveTorn`, a conjunct of every step, keeps one
variable that only properties read: `torn`, the handlers whose feed's row was evicted
between two of their statements, or may be written by a fetch of the feed that had
its id. A request for several feeds repeats these steps
and is left out, as are parameter checks, ETags and encoding.

**Schedule.** `NextInterval`, `Backoff`, `rssTTL` (as `PublisherTTL`) and
`parseRetryAfter`, and the polls of one feed: a 200 (`Document`), a 304, a failure.
Seconds. It has one claim at a time on the feed, which is what Poller shows. Its OBSERVED
variables count runs of polls the way the documentation does, so that the
properties compare the code's bookkeeping with them. The jitter is applied last, as in
the code.

**HostLimiter.** `acquire` lock by lock: the map's mutex, the slot's mutex, the
sleep, the request, the release. `fetchOne` calls it only if the feed's URL parses
(`Call`, else `CallUnparsed`: a URL posted with a blank in front is stored with it, and
`Get` trims it), and `Get` follows redirects without it (`Redirect`). `to` is where a
request is under way, so that the properties can say which requests they are about. A
past moment is kept as what is left of the gap after it, so time needs no bound.

**Timeline.** `ListItems` over the table (`stored`), `OverFetch` (3) rows for each item
asked for, one action per branch of `dedupe`'s loop, the cut. The
sequences of the code are sets: both sorts are stable, so every order it uses is
one of time and id. A normalized title is a model value.

**PollLoop.** The loop of `Run` for liveness, again without a bound on time:
distances to the future (`left`), and of what is due only who goes first (`order`, a
relation between the feeds that are `Due`). Claims, dispatch, on-demand
fetches of cold feeds, three ends of a fetch (recorded as good, as failed, not at
all). `Lifecycle` is `main.go`: the signal (or a listener that fails, which skips
`Shutdown`), `Run` leaving its select or the middle of a batch, `wg.Wait`, `Shutdown`
and its 20 s, the wait for `Run`, the close of the store under whatever handlers are
left, the next start; and a stop without any of it (`Restart`). With the context
cancelled no statement of a worker succeeds (`CanRecord`), and `Run` may still hand
out claims.

**FetchClient.** One `Get`: the URL check with a look-up of the name, an idle
connection or a dial with a second look-up, redirects (`CheckRedirect`), an answer or
an error. Every look-up may return any set of addresses. Which URLs are well formed
and which addresses allowed are constants, so `CheckURL` and `DialContext` keep their
order and their calls of `vetHost` but not the tables of suffixes and networks.

**Discovery.** `Discover` over it: the page, the links it declares (a page's body *is*
its list of links), then the probes. `Try`, `Skip`, `Rejected` and `Accepted` are the
loops' bodies; `fed` is OBSERVED.

**Intake.** One feed's document becoming rows: `finish` (keepable, clamped time, key),
`UpsertItems` with its inserted count, retention by time and rowid, the count of quiet
polls. The publisher edits, drops and brings back articles (`Edit`); a poll may fail
to be recorded or to prune. An article is a model value, an entry how a document
presents it; two articles of one feed never have the same guid, URL or title. The
table is a set: a row's id counts for its order only, which is that of the poll that
first saw it and of its place in that poll's document (`Later`).

What the models take as given, beyond the named `ASSUME`s:

- The wall clock does not go back. Seconds, as the columns have.
- One registration of a URL is between its two statements at a time; a second
  request meanwhile finds the row (`EnsureKnown`). Statements are given the time
  they run at, the code the time its request began.
- At most one item is published in a second (an item is its second).
- Schedule's durations are whole seconds. The code's are nanoseconds until the columns
  cut them; the one that can be under a second, a period over a large frequency, is a
  second here, and `MinInterval` replaces either. `MinInterval` comes from the
  environment and may be above `MaxInterval`, which `config.Load` does not check:
  `ScheduleAssumption` assumes nothing of their order.

## 3. Runs

Bounds: `MaxNow` ends the clock, `MaxPublished` the publishing, `MaxId` the rowids.
Poller and Server stop when the clock has, hence `CHECK_DEADLOCK FALSE` there; in
Timeline because the loop ends. All other runs check deadlock.

| Run | Checks | Instance, and why it is enough |
|---|---|---|
| `poller` | `TypeOK`, `LeaseExclusive`, `LocksExpire`, `ItemsOfOwnFeed`, `ValidatorCoversItems`, `FreshAsOfLastOK`, `ForgottenOnlyByRetention`, `ImplementsCache` | Two URLs of one host, one rowid, one worker and one caller; `LockFor` 1, budget 0, `KeepItems`/`KeepFor`/`EvictAfter` 1, two published items, the clock to 2: both kinds of claim, a lock that runs out in the queue and the second claim that follows, overlapping and failing fetches, retention by count and by age, and every eviction followed by a reuse of the id. A second worker does what the caller does except the statements of its claim. 1.5 million states, up to symmetry |
| `schedule` | `TypeOK`, `HealthyWait`, `FailedWait` | `DefaultConfig`; 32 quiet polls pass the cap, 9 failures pass both the cap and the pin; publishers that ask for nothing, for less than a minute, too little, a little, too much; jitters below and above 1 |
| `hosts` | `TypeOK`, `OneRequestPerHost`, `Spaced`, `Served` | three goroutines, two hosts: a queue, a host that is not in it, fetches without the limiter and redirects between the hosts in any number |
| `timeline` | `TypeOK`, `NoTwoCopies`, `Represented`, `KeptAsSpecified`, `ShortPageComplete` | every table of five items, three times, a hash or none, two titles, a window of 1, limits of 1 and 2 with an over-fetch of 2: a chain of copies by hash, title, hash; pages that are short with and without rows beyond the over-fetch. 3 million states |
| `server` | `ServerTypeOK`, `AnswerIsWhole`, `ColdAnswerIsWarm`, `ImplementsPoller` | one handler of either kind, one worker, two items with room for one in an answer; `EvictAfter` 1, so that evictions meet requests between their statements; a URL that does not parse, so that the two fetches of it never wait for each other. 1.7 million states |
| `turns` | `TypeOK`, `PolledForEver`, `WarmsUp`, `StoreOpenForPolls`, `ShutdownEnds` | two feeds, one worker, one caller, batches of one, two faults (stops, signals, failing statements): every claim is contended, and a signal meets a loop that is blocked handing out |
| `discover` | `TypeOK`, `Guarded`, `Candidates`, `NothingMissed`, `Ends` | two hosts, a public and a private address, two redirects, caps of 2; pages that are a feed, declare nothing, one feed twice, a malformed link first, or three links of which one is also a conventional path |
| `intake` | `TypeOK`, `StoredOnce`, `QuietUnlessNew` | two articles, six entries (each way to be recognized, no date, dates now, soon and too far ahead), three edits in five moments, `KeepItems` 2, `KeepFor` 2: an article may be edited, dropped and brought back after retention |
| `lock_honoured`, `id_reuse`, `registration`, `gone_pin` | one documented promise each | see section 4 |

What the passing runs show, in short. Claims made by the loop and by handlers in
any mix exclude each other as long as no holder outlives the lock it took.
Failures between the statements of a fetch never leave a validator or a
`last_ok_at` ahead of the items, because the items are written first and the time
is read before the request; so a 304 never hides a headline. The two reads of an
answer are in the order that makes it whole, though not in one transaction. The
growth of quiet intervals neither compounds nor is lost through 304s and failures.
Fetches that pass the limiter keep off each other's host and its gap, whoever makes the
slot; what does not pass it is in section 4.
Dropping by title remembers the hash, so later copies by hash may have only a
stand-in of the stand-in; `Represented` and `ShortPageComplete` say exactly that, the
latter of the whole table for as long as the over-fetch suffices.
All that the poller, the handlers and eviction do to a feed is, seen by a client, a
step of FeedCache. A name that is rebound between its check and its dial reaches no
address that is not allowed, because the dial checks again. A discovery's cap never
hides a feed that was found, and never stops the search for the first. An article is
stored once as long as what names it (its guid; without one its URL; without either
its title and date) stays the same. `main` waits for `Run` on every path to the close
of the store, which only handlers beyond `Shutdown`'s limit can outlive.

`poller` and `intake` use TLC's symmetry (feeds of one publisher; articles), which is sound
for the safety properties they check; the runs with liveness properties use none.

**Fairness.** `hosts`: time passes, a request that was sent ends (the client has a
timeout), and a goroutine waiting for a mutex is not overtaken for ever: strong
fairness of both `Lock`s, which is what `sync.Mutex` gives with its starvation mode
after 1 ms. `turns`: time passes; the loop's goroutine claims when there is
something to claim and hands out when a slot is free; each fetch ends, in one of
three ways nobody chooses. Callers are not fair: no request has to come. `WarmsUp`
asks, for the feed in question only, that its fetches do not fail for ever, as
strong fairness in the property's premise. Stops and workers' statements that fail
are finitely many (`MaxFaults`): a poll that is not recorded keeps its place at the
head of the queue, and one that is never recorded, in a loop that takes longer than
`LockFor` to come round, could keep it for ever. For the lifecycle: `Run` sees that its
context is done, `main` goes from one step to the next, `Shutdown` returns at the
latest by its own timeout, and what ended is started again; no handler is required
to end. `discover`: the handler's goroutine goes on, and every `Get` makes its next
step. The client's timeout is not used: a chain of redirects ends by its limit.

## 4. Where the code and its documentation disagree

- `lock_honoured`: `RecordFetchOK`/`RecordFetchError` clear `locked_until` without
  checking whose it is. A worker that waited past its lock erases that of the claim
  made since, and a third claim joins the second ("so a slow fetch is not
  double-claimed", `store.go:231-232`).
- `id_reuse`: a fetch under way across the eviction of its feed stores that feed's
  headlines under the next feed registered, which has its id.
- `registration`: between the two statements of `EnsureFeed` a request may end; its
  feed is never scheduled and `GET /v1/feeds` answers 500 for it from then on
  ("A brand-new feed is due immediately", `store.go:145-146`).
- `gone_pin`: four failures of any other kind and a 404 pin a feed to daily polls;
  "five 404/410s in a row" (`README.md:48`) are not needed.

More that no run is spent on. The models have them, and the property named with each
states what the code does:

- "One request at a time per host, 2 s apart" (`README.md:50`; "serializes requests per
  host and enforces a minimum gap between them", `hostlimit.go:8-9`), but not every
  request passes the limiter. `fetchOne` skips it when
  `url.Parse` fails (`poller.go:142`), which a URL with a blank in front makes it do:
  `CheckURL` trims (`ssrf.go:60`), `EnsureFeed` is given the URL as it came
  (`server.go:119`). The hops of a redirect (`client.go:77-88`) follow each other at
  once and go to hosts whose slot nobody holds. `OneRequestPerHost` and `Spaced` are about
  the fetches that do pass it. Not modelled: a hostname spelled with capitals has a slot
  of its own, and discovery does not use the limiter.
- Backoff is "capped at 6 h" and "`Retry-After` honoured" (`README.md:47-48`; "capped at
  MaxBackoff. A larger Retry-After wins", `config.go:87-89`), but the jitter is applied
  after both (`config.go:107-109`): a feed may wait 6.6 h, or be asked again after nine
  tenths of its `Retry-After`. `FailedWait` has the jitter last.
- "no https→http redirects" (`README.md:58-59`), but `CheckRedirect` compares with the
  first request only (`client.go:81`): http to https to http is followed. `Guarded`
  speaks of Gets that began over https.
- Dates far in the future are clamped because "publishers with broken clocks otherwise
  pin their item to the top of every timeline" (`normalize.go:100-101`), but an item
  without guid and URL has the clamped date in its key (`normalize.go:142-149`): each
  poll stores it again, dated now, on top. `StoredOnce` leaves it out (`Recognizable`).
- "Over-fetch so dedupe across feeds still fills the limit" (`server.go:228`) fails when
  copies use up the rows fetched in excess. `ShortPageComplete` says when.
- A headline that retention dropped and its publisher still lists is inserted again by
  the next 200 and counts as new, so that a feed which lists more than is kept is
  never quiet, though nothing is new in it ("Six consecutive polls with no new items
  double it", `README.md:43-45`). `QuietUnlessNew`: a document is quiet if and only if
  all of it is still stored.
- `MaxCandidates` "caps how many declared links are validated" (`discover.go:34`); the
  code caps how many are found (`discover.go:76`), and a page of links that are no
  feeds has all of them fetched (`NothingMissed`).

The properties of the passing runs are stated so that the cases of the four runs are
outside too (`overran`, `orphaned`, `torn`), and hold everywhere else.

## 5. Proofs

| Theorem | Says |
|---|---|
| `PollerProofs!TypeCorrect`, `ClaimsExclude`, `LocksRunOut`, `Attribution`, `NothingElseForgets` | `TypeOK`, `LeaseExclusive`, `LocksExpire`, `ItemsOfOwnFeed`, `ForgottenOnlyByRetention` of `Poller!Spec` |
| `PollerProofs!CacheImplemented` | `Poller!Spec => Cache!Spec`, the refinement of FeedCache |
| `PollerProofs!ValidatorsCover`, `FreshAsPromised` | `ValidatorCoversItems`, `FreshAsOfLastOK` of `Poller!Spec` |
| `ServerProofs!ServerTyped`, `Implementation`, `ServedClaimsExclude` | `ServerTypeOK`; `ServerSpec => Spec`; `LeaseExclusive` of the service |
| `ServerProofs!AnswersWhole`, `ColdAnswersWarm` | `AnswerIsWhole`, `ColdAnswerIsWarm` of `ServerSpec` |
| `ScheduleProofs!TypeCorrect`, `HealthyWaits`, `FailedWaits` | `TypeOK`, `HealthyWait`, `FailedWait` |
| `HostLimiterProofs!TypeCorrect`, `Exclusive`, `Apart` | `TypeOK`, `OneRequestPerHost`, `Spaced` |
| `DiscoveryProofs!TypeCorrect`, `OnlyAllowed`, `OnlyFeeds`, `NothingIsMissed` | `TypeOK`, `Guarded`, `Candidates`, `NothingMissed` |
| `TimelineProofs!TypeCorrect`, `Deduped`, `Specified`, `StandIns`, `PageComplete` | `TypeOK`, `NoTwoCopies`, `KeptAsSpecified`, `Represented`, `ShortPageComplete` |
| `IntakeProofs!TypeCorrect`, `OneHeadline`, `QuietIsNothingNew` | `TypeOK`, `StoredOnce`, `QuietUnlessNew` |
| `PollLoopProofs!TypeCorrect`, `ClosedAfterPolls` | `TypeOK`, `StoreOpenForPolls` |

All from the modules' own `ASSUME`s, which TLC evaluates on the instances.

- **The cache.** `CacheImplemented` is a step-by-step simulation. An action of Poller
  maps to `Ask`, `Collect`, `Retire`, `Forget`, `Publish`, `Pass` or a stutter, given
  that a URL has one row (`UniqueUrls`, the UNIQUE index), that what a fetch has in
  hand was published by its URL (`BodyInv`), that it is about its own feed (`OwnInv`)
  and that it started in the past (`StartedInv`).
- **Freshness.** Call an item safe if it is stored or retention dropped it. Along a
  row's life the safe items of its feed only grow (`RowLives`): pruning leaves the
  `KeepItems` newest, so that whatever had that many newer items still has
  (`RetentionKeepsNewest`, by the least rank among the items lost). `FreshInv` carries
  this through the fetches. A claim's validator covers safe items only; a fetch holds
  all that was listed before it started, or a confirmed validator that does; past
  `upsert` what it holds is safe. With these two the properties themselves are
  inductive, although another fetch may write the same row in between. TLC checked
  `FreshInv` on the instance of `poller` before it was proved.
- **Discovery.** `Guarded` is inductive with types: an address gets into a request by
  a dial, which vets it, or from the pool, whose connections were requests'. For the
  rest, `Turn` says that the Get under way is for the URL whose turn it is, `Tried`
  that of those before it all were tried unless the cap was reached, `Found` that a
  feed found is offered or its answer is just in, and `InOrder` that the candidates'
  first places in the page go up and end before the current one.

- **Claims.** The two `SELECT`s of a claim on demand change what their holder has read
  and nothing else (`ReadsRow`), and for each invariant that is one case.
  `LeaseExclusive` is not inductive: nothing in it connects a holder
  with the table. `LeaseInv` adds that a held claim's lock is still the one in
  `fetch_state` unless some holder outlived its lock, so a second claim, which
  needs `locked_until < now`, proves that it did. The proof has one step for each
  action; those that only release a holder share a lemma.
- **Attribution.** `OwnInv` adds that a holder's URL is that of the row under its id
  unless the row was deleted under it, that a batch is kept by id, and that an id
  without a feed has no items (the cascade).
- **Locks, retention.** `LockSteps` is all a step may do to a lock; retention needs
  `StartedInv`, that no fetch started in the future.
- **Handlers.** A step that takes a feed id is a step of Poller only if the id is
  one: `ServerTypeOK`, inductive with Poller's `TypeOK`. Every other step maps to the
  action it calls or to a stutter, and with `ServerSpec => Spec` each theorem of
  Poller is one of the service.
- **Host limiter.** A hostname's slot is its own, because the map's mutex makes
  look-up and insertion one step; who may request for a hostname holds its slot's mutex;
  what is left of a slot's gap is what is left of its host's. Redirects and fetches
  without a hostname touch none of this.
- **Timeline.** `Loop`: the titles are those of the kept items, the hashes those of
  the visited ones, and what was visited is before what was not. A page that
  is not full was not cut, so it is all that was kept (`Cut`, `ShortIsWhole`); with the
  over-fetch not used up, what was listed was not cut either, so it is the whole table,
  and `Represented` is about the page and the table.
- **Answers.** An answer is put together from statements with everything in between,
  so the invariant follows a request that is not torn. Its row stays (`TornInv`).
  Whatever time it read for the answer, all that was listed before is safe under its
  id, and what is safe stays safe while the row lives (`WholeInv`, by `FreshInv` and
  `RowLives`); at the read of the items, safe means in the answer, past `KeepFor`, or
  below enough newer ones. For the cold handler: a row with a validator has had a
  good fetch (`EtagInv`), no statement takes `last_ok_at` back (`RowChange`), and a
  handler has a fetch of its own only while it waits for it (`ColdOnly`); so its fetch
  is good only if the second read finds a time, even if its own record failed
  (`WarmInv`).
- **Schedule.** The waits are closed forms over runs of polls; the loops of
  `NextInterval` and `Backoff` are powers of two under a cap (`CappedDoubling`). The
  doubling is a recursive function (`Pow2`), and induction on its argument goes by the
  least element of a set of naturals (`LeastNatural`, `AllNaturals`), so no library
  theorem with an operator parameter is needed. That `poll_interval_s` is what the
  publisher asked for, or the default, and never a grown interval, is what makes the
  properties inductive. No case needs `MinInterval <= MaxInterval`.
- **Headlines.** `RowInv`: each row's key is that of something its article was polled
  as. The keys of a recognizable article are one (`OneKey`), and `item_key` is UNIQUE.
- **Close of the store.** `LifeInv`: `Run` has returned only when no worker is at
  work, and `main` closes only then. `PollLoop!TypeOK` says that `order` is a strict
  weak order of what is due, as an order by `next_poll_at` is: of two feeds in order, a
  third is behind the first or before the second. Falling due together, claims and
  returns to the queue all keep it.

Only model-checked: the liveness properties (`Served`, `PolledForEver`, `WarmsUp`,
`ShutdownEnds`, `Ends`), whose fairness needs ENABLED. Every invariant and action
property of the passing runs, and both refinements, are proved. The four runs of
section 4 show counterexamples and have nothing to prove.

## 6. Not modelled

- The text of documents: formats, dates, titles, canonical URLs, `normalizeTitle`.
- Which names and addresses the guard lets through (`IsPublicIP`, the suffixes):
  classifications without state.
- Metrics: counters under one mutex that nothing reads back. Configuration: its values
  are the constants of the modules.
- Requests for several feeds (the steps Server has, repeated), parameter checks, ETags
  of answers and their encoding, `/healthz`, `Stats`, migrations.
- How often eviction runs: its ticker starts anew with the process.
- Hostnames that differ in spelling only, and requests of discovery, which do not pass
  the host limiter: HostLimiter has the poller's, by the hostname they are limited by.

## 7. Plan

Done, in this order: Store and Poller, their proofs, Schedule, HostLimiter with
proofs, Timeline with proofs, Server with the implementation proof, PollLoop;
then FeedCache with its refinement proof, the lifecycle in PollLoop, FetchClient and
Discovery with proofs, Intake; then the proofs of Schedule, Intake and PollLoop, the
page's cut, and what an answer of Server holds.

To come:

1. Requests for several feeds in Server, with the torn registrations between them.
2. The eviction ticker, for how long a feed nobody asks for can stay.
3. Intake's key joined with Store's items, so that an edited article meets an overlap.
