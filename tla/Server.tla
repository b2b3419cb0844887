------------------------------- MODULE Server -------------------------------
(* The handlers of GET /v1/feeds and GET /v1/items (src/internal/api) over   *)
(* the poller and the store: each request is a series of statements, and a   *)
(* cold GET /v1/feeds fetches in its own goroutine.  The callers of Poller   *)
(* are the handlers; what Poller leaves open (who registers, who claims on   *)
(* demand) is decided here.                                                  *)
EXTENDS Poller

CONSTANT MaxLimit  \* Options.MaxLimit, of the rows an answer is made from

ASSUME ServerAssumption == MaxLimit \in Nat \ {0}

VARIABLES
  requests,  \* the request each handler is at work on, or None
  torn       \* OBSERVED: handlers whose feed's row was deleted or taken over

serverVars == <<vars, requests, torn>>

Kind == {"feed", "items"}
RPC  == {"ensure", "created", "lookup", "state", "again", "cold", "list",
         "done", "failed"}

\* id: the feed's row; ok: the last_ok_at read; items: the rows read; fetched:
\* the outcome of the handler's own fetch was good.
Request == [kind : Kind, url : URL, pc : RPC, id : Ids \cup {None},
            ok : Nat \cup {None}, items : SUBSET Item, fetched : BOOLEAN]

\* The steps at which a handler uses the id it looked up.
UsesId == {"state", "cold", "again", "list"}

ServerTypeOK ==
  /\ requests \in [Callers -> Request \cup {None}]
  /\ \A c \in Callers :
       requests[c] # None /\ requests[c].pc \in UsesId => requests[c].id # None
  /\ torn \subseteq Callers

ServerInit == Init /\ requests = [c \in Callers |-> None] /\ torn = {}

\* The row is gone, or a fetch of the feed that had its id may write to it.
RowLost(c) ==
  /\ requests[c] # None /\ requests[c].pc \in UsesId
  /\ requests[c].id \notin {i \in Ids \ orphaned : feeds[i] # None}

ObserveTorn ==
  torn' = {c \in Callers : requests'[c] # None /\ (c \in torn \/ RowLost(c)')}

-----------------------------------------------------------------------------
Is(c, pc) == requests[c] # None /\ requests[c].pc = pc
GoOn(c, pc) == requests' = [requests EXCEPT ![c] = [@ EXCEPT !.pc = pc]]

IdOf(u) ==
  IF \E i \in Ids : feeds[i] # None /\ feeds[i].url = u
  THEN CHOOSE i \in Ids : feeds[i] # None /\ feeds[i].url = u
  ELSE None

\* A request arrives; its URL has passed checkFeedURL.
Arrive(c, kind, u) ==
  /\ requests[c] = None
  /\ requests' = [requests EXCEPT ![c] =
       [kind |-> kind, url |-> u, pc |-> "ensure", id |-> None, ok |-> None,
        items |-> {}, fetched |-> FALSE]]
  /\ UNCHANGED vars

\* EnsureFeed: INSERT ... ON CONFLICT DO NOTHING, then one of two statements.
EnsureNew(c) ==
  /\ Is(c, "ensure")
  /\ BeginRegister(requests[c].url)
  /\ GoOn(c, "created")

\* Mutant: the new row is not read back.
EnsureState_NoLookup(c) ==
  /\ Is(c, "created")
  /\ FinishRegister(requests[c].url)
  /\ GoOn(c, "state")

EnsureState(c) ==
  /\ Is(c, "created")
  /\ FinishRegister(requests[c].url)
  /\ GoOn(c, "lookup")

\* The request is cancelled, or its second statement fails.
EnsureFails(c) ==
  /\ Is(c, "created")
  /\ AbandonRegister(requests[c].url)
  /\ GoOn(c, "failed")

EnsureKnown(c) ==
  /\ Is(c, "ensure")
  /\ LET i == IdOf(requests[c].url) IN
       /\ i # None
       /\ \/ RequestAgain(i)
          \/ feeds[i].last_requested_at >= now /\ UNCHANGED vars
  /\ GoOn(c, "lookup")

\* FeedByURL: no row is an error.
Lookup(c) ==
  /\ Is(c, "lookup")
  /\ LET i == IdOf(requests[c].url) IN
       requests' = [requests EXCEPT ![c] =
         [@ EXCEPT !.id = i, !.pc = IF i = None THEN "failed" ELSE "state"]]
  /\ UNCHANGED vars

\* FetchStates: a feed without state is absent, and so warming.
ReadStates(c) ==
  /\ Is(c, "state") /\ requests[c].kind = "items"
  /\ LET st == fetch_state[requests[c].id] IN
       requests' = [requests EXCEPT ![c] =
         [@ EXCEPT !.ok = IF st = None THEN None ELSE st.last_ok_at, !.pc = "list"]]
  /\ UNCHANGED vars

\* FetchState of GET /v1/feeds: no row is an error; warm, it goes on.
ReadNoState(c) ==
  /\ Is(c, "state") /\ requests[c].kind = "feed"
  /\ fetch_state[requests[c].id] = None
  /\ GoOn(c, "failed")
  /\ UNCHANGED vars

ReadState(c) ==
  /\ Is(c, "state") /\ requests[c].kind = "feed"
  /\ fetch_state[requests[c].id] # None
  /\ fetch_state[requests[c].id].last_ok_at # None
  /\ requests' = [requests EXCEPT ![c] =
       [@ EXCEPT !.ok = fetch_state[requests[c].id].last_ok_at, !.pc = "list"]]
  /\ UNCHANGED vars

\* Cold: it goes to FetchNow, whose claim is a statement of its own.
FoundCold(c) ==
  /\ Is(c, "state") /\ requests[c].kind = "feed"
  /\ fetch_state[requests[c].id] # None
  /\ fetch_state[requests[c].id].last_ok_at = None
  /\ GoOn(c, "cold")
  /\ UNCHANGED vars

\* Mutant: the cold fetch does not ask for the claim.
ColdFetch_Unclaimed(c) ==
  /\ Is(c, "cold")
  /\ fetches[c] = None
  /\ fetch_state[requests[c].id] # None
  /\ fetches' = [fetches EXCEPT ![c] =
       StartedFetch("claimed", DueOf(requests[c].id, now + LockFor))]
  /\ UNCHANGED <<storeVars, now, upstream, registering, batch, requests>>
  /\ Observe

ColdFetch(c) ==
  /\ Is(c, "cold")
  /\ FetchNow(c, requests[c].id)
  /\ UNCHANGED requests

\* ResultInFlight: the claim changed no row.
InFlight(c) ==
  /\ Is(c, "cold") /\ fetches[c] = None
  /\ ~(fetch_state[requests[c].id] # None /\ Unlocked(requests[c].id, now))
  /\ GoOn(c, "again")
  /\ UNCHANGED vars

\* A step of the claim or of fetchOne.  When it returns to the handler, only its
\* Result is looked at, so that a 304 or a prune whose statement failed is a
\* good fetch.
ColdStep(c) ==
  /\ Is(c, "cold")
  /\ FetchOne(c)
  /\ LET good == fetches[c].pc \in {"notmod", "prune"} IN
       requests' =
         IF fetches'[c] # None THEN requests
         ELSE [requests EXCEPT ![c] =
                [@ EXCEPT !.pc = IF good THEN "again" ELSE "failed", !.fetched = good]]

\* FeedByURL and FetchState again.
\* Mutant: the state read before the fetch is answered.
ReadAgain_OldState(c) ==
  /\ Is(c, "again")
  /\ LET i == IdOf(requests[c].url) IN
       requests' = [requests EXCEPT ![c] =
         IF i = None THEN [@ EXCEPT !.pc = "failed"]
         ELSE IF fetch_state[i] = None THEN [@ EXCEPT !.pc = "failed"]
         ELSE [@ EXCEPT !.id = i, !.pc = "list"]]
  /\ UNCHANGED vars

ReadAgain(c) ==
  /\ Is(c, "again")
  /\ LET i == IdOf(requests[c].url) IN
       requests' = [requests EXCEPT ![c] =
         IF i = None THEN [@ EXCEPT !.pc = "failed"]
         ELSE IF fetch_state[i] = None THEN [@ EXCEPT !.pc = "failed"]
         ELSE [@ EXCEPT !.id = i, !.ok = fetch_state[i].last_ok_at, !.pc = "list"]]
  /\ UNCHANGED vars

\* ORDER BY published_at DESC, id DESC LIMIT MaxLimit
\* Mutant: without DESC.
Listed_Oldest(S) == {x \in S : Cardinality({y \in S : y.at < x.at}) < MaxLimit}

Listed(S) == {x \in S : Cardinality(NewerThan(S, x)) < MaxLimit}

\* ListItems, after the state, without a transaction around both.
ReadItems(c) ==
  /\ Is(c, "list")
  /\ requests' = [requests EXCEPT ![c] =
       [@ EXCEPT !.items = Listed(items[requests[c].id]), !.pc = "done"]]
  /\ UNCHANGED vars

Leave(c) ==
  /\ Is(c, "done") \/ Is(c, "failed")
  /\ requests' = [requests EXCEPT ![c] = None]
  /\ UNCHANGED vars

Handle(c) ==
  \/ \E kind \in Kind, u \in URL : Arrive(c, kind, u)
  \/ EnsureNew(c) \/ EnsureState(c) \/ EnsureFails(c) \/ EnsureKnown(c)
  \/ Lookup(c) \/ ReadStates(c) \/ ReadNoState(c) \/ ReadState(c)
  \/ FoundCold(c) \/ ColdFetch(c) \/ InFlight(c) \/ ColdStep(c)
  \/ ReadAgain(c) \/ ReadItems(c) \/ Leave(c)

\* The poll loop and the world go on.
Around ==
  /\ \/ Tick \/ \E u \in URL : Publish(u)
     \/ ClaimDueFeeds
     \/ \E w \in Workers, i \in Ids : Dispatch(w, i)
     \/ Evict
     \/ \E w \in Workers : FetchOne(w)
  /\ UNCHANGED requests

Stop == Restart /\ requests' = [c \in Callers |-> None]

ServerNext == ((\E c \in Callers : Handle(c)) \/ Around \/ Stop) /\ ObserveTorn

ServerSpec == ServerInit /\ [][ServerNext]_serverVars

-----------------------------------------------------------------------------
(* Properties.                                                               *)

Answered(c) == Is(c, "done")

\* The handlers do nothing to the store and the poller that Poller does not
\* allow its callers: everything shown of Spec holds with them.
ImplementsPoller == Spec

\* server.go:223-229 read the state first, the items after it: an answer that
\* gives a time of the last good fetch has everything the publisher listed by
\* then, up to what retention and the limit leave of it, though statements of
\* any fetch and of retention run in between; unless the feed was evicted
\* under the request.
AnswerIsWhole ==
  \A c \in Callers \ torn :
    Answered(c) /\ requests[c].ok # None =>
      LET r == requests[c] IN
        \A x \in Doc(r.url) : x < r.ok =>
          LET newer == Cardinality({y \in r.items : y.at > x}) IN
            \/ [url |-> r.url, at |-> x] \in r.items
            \/ x + KeepFor < now
            \/ newer >= KeepItems \/ newer >= MaxLimit

\* README.md:25, "First request does a synchronous fetch": a handler whose own
\* fetch was good answers with the time of some good fetch, never "warming",
\* even when its own record or prune statement failed unnoticed (the time is
\* then that of an earlier one); unless the feed was evicted under it.
ColdAnswerIsWarm ==
  \A c \in Callers \ torn :
    Answered(c) /\ requests[c].fetched => requests[c].ok # None
=============================================================================
