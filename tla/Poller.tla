------------------------------- MODULE Poller -------------------------------
(* The poller of src/internal/poll over the store: the loop of Run (claim    *)
(* due feeds, hand them to Workers, evict), on-demand fetches by the API     *)
(* (FetchNow), every step of fetchOne, and the publishers being fetched.     *)
(* Handlers registering feeds, failing statements and restarts are part of   *)
(* it.  Time is a clock in seconds that passes between any two steps.        *)
EXTENDS Store

CONSTANTS
  Workers,      \* Config.Workers: the slots of the semaphore
  Callers,      \* API handlers that may be inside FetchNow
  Host,         \* the host of each URL, None if the stored URL does not parse
  Budget,       \* Options.ColdFetchBudget: FetchNow's deadline
  DocSize,      \* how many items a publisher's document lists
  OkWaits,      \* the waits NextInterval may choose (module Schedule)
  ErrWaits,     \* the waits Backoff may choose (module Schedule)
  MaxNow,       \* BOUND: the last second modelled
  MaxPublished  \* BOUND: how many items the publishers publish in all

Fetchers == Workers \cup Callers

PC == {"claimed", "read", "host", "get", "upsert", "record", "notmod", "error",
       "prune"}
\* The steps at which a fetch that fails in the store simply returns.
InStore == PC \ {"host", "get"}

\* One fetchOne: the claim it works for (d), where it is, the time it read
\* after acquiring the host, and the document and validator it was sent.
Fetch == [pc : PC, d : Due, started : Nat, body : SUBSET Nat, tag : BOOLEAN]

ASSUME PollerAssumption ==
  /\ Workers \cap Callers = {}
  /\ Host \in [URL -> Nat \cup {None}]
  /\ Budget \in Nat
  /\ DocSize \in Nat \ {0}
  /\ OkWaits \subseteq Nat /\ OkWaits # {}
  /\ ErrWaits \subseteq Nat /\ ErrWaits # {}
  /\ MaxNow \in Nat
  /\ MaxPublished \in Nat
  /\ None \notin Fetch
  /\ None \notin [asked : Nat, held : SUBSET Item]

VARIABLES
  now,          \* the wall clock
  upstream,     \* the publication times of each URL's items
  registering,  \* URLs whose EnsureFeed is between its two statements
  batch,        \* Run's local due: claims not yet given to a worker, by id
  fetches,      \* what each worker and each FetchNow caller is doing
  overran,      \* OBSERVED: ids with a claim that some holder outlived
  orphaned      \* OBSERVED: ids whose row was deleted under a claim

procVars == <<registering, batch, fetches>>
implVars == <<storeVars, now, upstream, procVars>>
vars     == <<implVars, overran, orphaned>>

TypeOK ==
  /\ StoreTypeOK
  /\ now \in Nat
  /\ upstream \in [URL -> SUBSET Nat]
  /\ registering \subseteq URL
  /\ batch \in [Ids -> Due \cup {None}]
  /\ fetches \in [Fetchers -> Fetch \cup {None}]
  /\ overran \subseteq Ids
  /\ orphaned \subseteq Ids

Init ==
  /\ StoreInit
  /\ now = 0
  /\ upstream = [u \in URL |-> {}]
  /\ registering = {}
  /\ batch = [i \in Ids |-> None]
  /\ fetches = [e \in Fetchers |-> None]
  /\ overran = {}
  /\ orphaned = {}

-----------------------------------------------------------------------------
(* A fetch holds its feed's claim until the statement that releases it, a     *)
(* FetchNow at most until its deadline: past it, its context fails the        *)
(* request and every statement.                                              *)
(* Observe is a conjunct of every action: it keeps the OBSERVED variables.   *)

InBudget(e) == e \in Callers => now <= fetches[e].d.lease - LockFor + Budget

At(e, pc) == fetches[e] # None /\ fetches[e].pc = pc
CanGo(e, pc) == At(e, pc) /\ InBudget(e)

Holds(e, i) ==
  fetches[e] # None /\ fetches[e].pc # "prune" /\ fetches[e].d.id = i /\ InBudget(e)

Held(i) == batch[i] # None \/ \E e \in Fetchers : Holds(e, i)

OneHolder(i) ==
  /\ \A e, g \in Fetchers : Holds(e, i) /\ Holds(g, i) => e = g
  /\ batch[i] # None => \A e \in Fetchers : ~Holds(e, i)

\* Some claim on i is still to be acted on after the lock it took ran out.
Outlived(i) ==
  \/ batch[i] # None /\ batch[i].lease < now
  \/ \E e \in Fetchers : Holds(e, i) /\ fetches[e].d.lease < now

Observe ==
  /\ overran' = {i \in Ids :
       /\ Held(i)'
       /\ i \in overran \/ Outlived(i)'}
  /\ orphaned' = {i \in Ids :
       IF feeds'[i] = None THEN Held(i)' ELSE i \in orphaned}

-----------------------------------------------------------------------------
(* The world: time, and publishers adding items to their documents.         *)

Tick ==
  /\ now < MaxNow
  /\ now' = now + 1
  /\ UNCHANGED <<storeVars, upstream, procVars>>
  /\ Observe

Publish(u) ==
  /\ \A v \in URL : now \notin upstream[v]
  /\ Cardinality(UNION {upstream[v] : v \in URL}) < MaxPublished
  /\ upstream' = [upstream EXCEPT ![u] = @ \cup {now}]
  /\ UNCHANGED <<storeVars, now, procVars>>
  /\ Observe

\* The document lists the DocSize newest items.
Doc(u) ==
  {x \in upstream[u] : Cardinality({y \in upstream[u] : y > x}) < DocSize}

EtagOf(u, doc) == [url |-> u, doc |-> doc]

-----------------------------------------------------------------------------
(* API handlers registering feeds.  Any statement may be a handler's last:  *)
(* its context may be cancelled or the process may stop.                     *)

BeginRegister(u) ==
  /\ u \notin registering
  /\ InsertFeed(u, now)
  /\ registering' = registering \cup {u}
  /\ UNCHANGED <<now, upstream, batch, fetches>>
  /\ Observe

FinishRegister(u) ==
  /\ u \in registering
  /\ \E i \in Ids : feeds[i] # None /\ feeds[i].url = u /\ InsertFetchState(i, now)
  /\ registering' = registering \ {u}
  /\ UNCHANGED <<now, upstream, batch, fetches>>
  /\ Observe

\* Cancelled, failed, or the row was evicted meanwhile: no fetch_state row.
AbandonRegister(u) ==
  /\ u \in registering
  /\ registering' = registering \ {u}
  /\ UNCHANGED <<storeVars, now, upstream, batch, fetches>>
  /\ Observe

RequestAgain(i) ==
  /\ TouchFeed(i, now)
  /\ UNCHANGED <<now, upstream, procVars>>
  /\ Observe

-----------------------------------------------------------------------------
(* Run: one goroutine that claims, then blocks on the semaphore for each     *)
(* claim; it evicts only when it has nothing left to hand out.               *)

BatchEmpty == \A i \in Ids : batch[i] = None

ClaimDueFeeds ==
  /\ BatchEmpty
  /\ \E S \in SUBSET Ids :
       /\ ClaimDue(S, now)
       /\ batch' = [i \in Ids |->
            IF i \in S THEN DueOf(i, now + LockFor) ELSE None]
  /\ UNCHANGED <<now, upstream, registering, fetches>>
  /\ Observe

StartedFetch(pc, d) ==
  [pc |-> pc, d |-> d, started |-> 0, body |-> {}, tag |-> FALSE]

Dispatch(w, i) ==
  /\ batch[i] # None
  /\ fetches[w] = None
  /\ fetches' = [fetches EXCEPT ![w] = StartedFetch("host", batch[i])]
  /\ batch' = [batch EXCEPT ![i] = None]
  /\ UNCHANGED <<storeVars, now, upstream, registering>>
  /\ Observe

Evict ==
  /\ BatchEmpty
  /\ EvictFeeds(now)
  /\ UNCHANGED <<now, upstream, procVars>>
  /\ Observe

-----------------------------------------------------------------------------
(* FetchNow: ClaimFeed, which is an UPDATE and two SELECTs, each committed on *)
(* its own, then the same FetchOne in the caller's goroutine.                *)

GoTo(e, pc) == fetches' = [fetches EXCEPT ![e] = [@ EXCEPT !.pc = pc]]
Return(e)   == fetches' = [fetches EXCEPT ![e] = None]

\* The claim; no step uses the row's columns before the SELECTs read them.
FetchNow(c, i) ==
  /\ fetches[c] = None
  /\ ClaimFeed(i, now)
  /\ fetches' = [fetches EXCEPT ![c] =
       StartedFetch("claimed", DueOf(i, now + LockFor))]
  /\ UNCHANGED <<now, upstream, registering, batch>>
  /\ Observe

\* A row that is gone is an error, and so is a SELECT that fails (StoreFails):
\* the feed is locked and not fetched.
SelectFeed(e) ==
  /\ CanGo(e, "claimed")
  /\ feeds[fetches[e].d.id] # None
  /\ fetches' = [fetches EXCEPT ![e].pc = "read",
                                ![e].d.url = feeds[fetches[e].d.id].url]
  /\ UNCHANGED <<storeVars, now, upstream, registering, batch>>
  /\ Observe

SelectState(e) ==
  /\ CanGo(e, "read")
  /\ fetch_state[fetches[e].d.id] # None
  /\ fetches' = [fetches EXCEPT ![e].pc = "host",
                                ![e].d.etag = fetch_state[fetches[e].d.id].etag]
  /\ UNCHANGED <<storeVars, now, upstream, registering, batch>>
  /\ Observe

-----------------------------------------------------------------------------
(* fetchOne, step by step.                                                   *)

\* hosts.acquire holds the host's mutex until fetchOne returns; it is not
\* called for a URL that does not parse.
HostBusy(h) ==
  /\ h # None
  /\ \E e \in Fetchers :
       /\ fetches[e] # None /\ fetches[e].pc \notin {"claimed", "read", "host"}
       /\ Host[fetches[e].d.url] = h

StartGet(e) ==
  /\ At(e, "host")
  /\ ~HostBusy(Host[fetches[e].d.url])
  /\ fetches' = [fetches EXCEPT ![e] = [@ EXCEPT !.pc = "get", !.started = now]]
  /\ UNCHANGED <<storeVars, now, upstream, registering, batch>>
  /\ Observe

RespondNotModified(e) ==
  /\ CanGo(e, "get")
  /\ LET d == fetches[e].d IN d.etag = EtagOf(d.url, Doc(d.url))
  /\ GoTo(e, "notmod")
  /\ UNCHANGED <<storeVars, now, upstream, registering, batch>>
  /\ Observe

\* A 2xx response that parses, with or without a validator.
RespondOK(e) ==
  /\ CanGo(e, "get")
  /\ \E tag \in BOOLEAN :
       fetches' = [fetches EXCEPT ![e] =
         [@ EXCEPT !.pc = "upsert", !.body = Doc(fetches[e].d.url), !.tag = tag]]
  /\ UNCHANGED <<storeVars, now, upstream, registering, batch>>
  /\ Observe

\* Blocked, timed out, too large, another status, or a body that will not parse.
RespondError(e) ==
  /\ At(e, "get")
  /\ GoTo(e, "error")
  /\ UNCHANGED <<storeVars, now, upstream, registering, batch>>
  /\ Observe

Upsert(e) ==
  /\ CanGo(e, "upsert")
  /\ LET f == fetches[e] IN
       UpsertItems(f.d.id, {[url |-> f.d.url, at |-> x] : x \in f.body})
  /\ GoTo(e, "record")
  /\ UNCHANGED <<now, upstream, registering, batch>>
  /\ Observe

RecordOK(e) ==
  /\ CanGo(e, "record")
  /\ LET f == fetches[e] IN
       \E wait \in OkWaits :
         RecordFetchOK(f.d.id, IF f.tag THEN EtagOf(f.d.url, f.body) ELSE None,
                       f.d.url, f.started, f.started + wait)
  /\ GoTo(e, "prune")
  /\ UNCHANGED <<now, upstream, registering, batch>>
  /\ Observe

\* Mutant: the time of the record, not of the request, becomes last_ok_at.
RecordNotModified_Late(e) ==
  /\ CanGo(e, "notmod")
  /\ \E wait \in OkWaits :
       RecordFetchOK(fetches[e].d.id, None, None, now, now + wait)
  /\ Return(e)
  /\ UNCHANGED <<now, upstream, registering, batch>>
  /\ Observe

RecordNotModified(e) ==
  /\ CanGo(e, "notmod")
  /\ \E wait \in OkWaits :
       RecordFetchOK(fetches[e].d.id, None, None, fetches[e].started,
                     fetches[e].started + wait)
  /\ Return(e)
  /\ UNCHANGED <<now, upstream, registering, batch>>
  /\ Observe

RecordError(e) ==
  /\ CanGo(e, "error")
  /\ \E wait \in ErrWaits :
       RecordFetchError(fetches[e].d.id, fetches[e].started + wait)
  /\ Return(e)
  /\ UNCHANGED <<now, upstream, registering, batch>>
  /\ Observe

Prune(e) ==
  /\ CanGo(e, "prune")
  /\ PruneItems(fetches[e].d.id, fetches[e].started)
  /\ Return(e)
  /\ UNCHANGED <<now, upstream, registering, batch>>
  /\ Observe

\* Mutant: an error of UpsertItems is logged and the fetch recorded as good.
StoreFails_Continues(e) ==
  /\ fetches[e] # None
  /\ fetches[e].pc \in InStore
  /\ IF fetches[e].pc = "upsert" THEN GoTo(e, "record") ELSE Return(e)
  /\ UNCHANGED <<storeVars, now, upstream, registering, batch>>
  /\ Observe

\* The store call of this step fails (the FetchNow budget is spent, the disk,
\* the foreign key, a row that is gone): fetchOne or the claim before it
\* returns, nothing is written, the lock stays.
StoreFails(e) ==
  /\ fetches[e] # None
  /\ fetches[e].pc \in InStore
  /\ Return(e)
  /\ UNCHANGED <<storeVars, now, upstream, registering, batch>>
  /\ Observe

\* The process stops anywhere and is started again on the same database.
Restart ==
  /\ registering' = {}
  /\ batch' = [i \in Ids |-> None]
  /\ fetches' = [e \in Fetchers |-> None]
  /\ procVars' # procVars
  /\ UNCHANGED <<storeVars, now, upstream>>
  /\ Observe

-----------------------------------------------------------------------------
Environment ==
  \/ Tick
  \/ \E u \in URL : \/ Publish(u)
                    \/ BeginRegister(u)
                    \/ FinishRegister(u)
                    \/ AbandonRegister(u)
  \/ \E i \in Ids : RequestAgain(i)
  \/ Restart

Scheduler ==
  \/ ClaimDueFeeds
  \/ \E w \in Workers, i \in Ids : Dispatch(w, i)
  \/ Evict
  \/ \E c \in Callers, i \in Ids : FetchNow(c, i)

FetchOne(e) ==
  \/ SelectFeed(e)
  \/ SelectState(e)
  \/ StartGet(e)
  \/ RespondNotModified(e)
  \/ RespondOK(e)
  \/ RespondError(e)
  \/ Upsert(e)
  \/ RecordOK(e)
  \/ RecordNotModified(e)
  \/ RecordError(e)
  \/ Prune(e)
  \/ StoreFails(e)

Next == Environment \/ Scheduler \/ \E e \in Fetchers : FetchOne(e)

Spec == Init /\ [][Next]_vars

-----------------------------------------------------------------------------
(* What all this is for: a client sees the rows of feeds and items as a      *)
(* FeedCache.  A row whose id another feed's fetch may still write to is not *)
(* counted as an entry.                                                      *)

Rows(u) == {i \in Ids \ orphaned : feeds[i] # None /\ feeds[i].url = u}
CacheEntry(u) ==
  IF Rows(u) = {} THEN None
  ELSE LET i == CHOOSE j \in Rows(u) : TRUE
       IN  [asked |-> feeds[i].last_requested_at, held |-> items[i]]

Cache == INSTANCE FeedCache WITH
  Absent    <- None,
  published <- [u \in URL |-> {[url |-> u, at |-> x] : x \in upstream[u]}],
  entry     <- [u \in URL |-> CacheEntry(u)]

-----------------------------------------------------------------------------
(* Properties.                                                               *)

\* The store, the poller and the handlers' statements together keep the
\* promise of FeedCache: however fetches overlap, fail, stop half-way or meet
\* eviction, every step is one a client may see, or none.
ImplementsCache == Cache!Spec

\* A feed is worked on by one claim at a time, whichever mix of the loop and
\* API handlers claims it, as long as no holder outlived its lock (nothing
\* bounds how long a fetch waits for the semaphore and its host) and the row
\* was not deleted under a holder.
LeaseExclusive ==
  \A i \in Ids \ (overran \cup orphaned) : OneHolder(i)

\* store.go:231-232: ClaimDue "locks them for lockFor so a slow fetch is not
\* double-claimed"; poller.go:213: "A feed already being fetched reports
\* ResultInFlight".  Read at its weakest: while the lock one claim took has
\* not run out, no other claim with a lock that has not run out exists.
LockHonoured ==
  \A i \in Ids :
    /\ \A e, g \in Fetchers :
         /\ Holds(e, i) /\ fetches[e].d.lease >= now
         /\ Holds(g, i) /\ fetches[g].d.lease >= now
         => e = g
    /\ batch[i] # None /\ batch[i].lease >= now =>
         \A e \in Fetchers : Holds(e, i) => fetches[e].d.lease < now

\* A lock left behind by a crash or a failed statement blocks its feed for at
\* most LockFor: store.go needs no other recovery.
LocksExpire ==
  \A i \in Ids : fetch_state[i] # None =>
    \/ fetch_state[i].locked_until = None
    \/ fetch_state[i].locked_until <= now + LockFor

\* Headlines and metadata stored under a feed come from that feed's URL, also
\* when its fetches overlap, unless its id was taken from a feed evicted in
\* the middle of a fetch.
OwnItems(i) ==
  feeds[i] # None =>
    /\ \A x \in items[i] : x.url = feeds[i].url
    /\ feeds[i].title \in {None, feeds[i].url}

ItemsOfOwnFeed == \A i \in Ids \ orphaned : OwnItems(i)

\* README.md:31-32: "Every JSON Feed item carries" the feed it is from
\* ("`_feeds.feed_url`", which is its row's feed); store.go:453-454
\* has "Items and state cascade" with an evicted feed.  So of every feed:
ItemsAlwaysOfOwnFeed == \A i \in Ids : OwnItems(i)

\* store.go:145-146: "A brand-new feed is due immediately so the poller picks
\* it up on its next tick": a feed no handler is registering is scheduled.
RegisteredIsScheduled ==
  \A i \in Ids :
    feeds[i] # None /\ feeds[i].url \notin registering => fetch_state[i] # None

\* An item of i's feed is stored, or retention (PruneItems) had dropped it.
StoredOrRetired(i, x) ==
  \/ [url |-> feeds[i].url, at |-> x] \in items[i]
  \/ x + KeepFor < now
  \/ Cardinality({y \in items[i] : y.at > x}) >= KeepItems

\* The validator a feed sends is never ahead of its items: if it matches the
\* publisher's document and the answer is 304, no item of it is missed.
ValidatorCoversItems ==
  \A i \in Ids \ orphaned :
    feeds[i] # None /\ fetch_state[i] # None /\ fetch_state[i].etag # None =>
      \A x \in fetch_state[i].etag.doc : StoredOrRetired(i, x)

\* last_ok_at is truthful: of what the publisher lists now, everything older
\* than the last good fetch is served, whether that fetch was a 200 or a 304.
FreshAsOfLastOK ==
  \A i \in Ids \ orphaned :
    feeds[i] # None /\ fetch_state[i] # None /\ fetch_state[i].last_ok_at # None =>
      \A x \in Doc(feeds[i].url) :
        x < fetch_state[i].last_ok_at => StoredOrRetired(i, x)

\* A failed fetch, a restart or another feed's fetch never costs a headline:
\* one that goes is past retention or goes with its evicted feed.
ForgottenOnlyByRetention ==
  [][\A i \in Ids : \A x \in items[i] \ items'[i] :
       \/ feeds'[i] = None
       \/ x.at + KeepFor < now
       \/ ~(Cardinality(NewerThan(items[i], x)) < KeepItems)]_vars
=============================================================================
