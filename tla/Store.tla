------------------------------- MODULE Store -------------------------------
(* The SQLite store of src/internal/store: the tables feeds, fetch_state and *)
(* items as variables and each statement or transaction of store.go as an    *)
(* action.  SetMaxOpenConns(1) makes one statement (or one transaction) the  *)
(* unit of interleaving.  The time an operation is given is a parameter.     *)
EXTENDS Integers, FiniteSets

CONSTANTS
  URL,          \* the feed URLs clients ask for
  MaxId,        \* BOUND: the largest rowid of feeds (SQLite's is 2^63-1)
  None,         \* SQL NULL, the empty string, an absent row
  LockFor,      \* Config.LockFor, in seconds
  ClaimBatch,   \* Config.ClaimBatch
  KeepItems,    \* Config.KeepItems
  KeepFor,      \* Config.KeepFor
  EvictAfter    \* Config.EvictAfter

Ids   == 1..MaxId
\* An item's key is its publication second: a URL publishes one item a second.
Item  == [url : URL, at : Nat]
\* The validator a URL's server gives for one content of its document.
Etag  == [url : URL, doc : SUBSET Nat]

\* title stands for all the metadata taken from the fetched document: the URL
\* of the document it was taken from.
FeedRow  == [url : URL, last_requested_at : Nat, title : URL \cup {None}]
StateRow == [etag : Etag \cup {None}, next_poll_at : Nat,
             locked_until : Nat \cup {None}, last_ok_at : Nat \cup {None}]
\* store.Due: what a claim hands to the fetch, with the lock it holds.
Due      == [id : Ids, url : URL, etag : Etag \cup {None}, lease : Nat]

ASSUME StoreAssumption ==
  /\ MaxId \in Nat \ {0}
  /\ LockFor \in Nat \ {0}
  /\ ClaimBatch \in Nat \ {0}
  /\ KeepItems \in Nat \ {0}
  /\ KeepFor \in Nat
  /\ EvictAfter \in Nat
  /\ None \notin Nat \cup URL \cup Etag \cup FeedRow \cup StateRow \cup Due

VARIABLES
  feeds,        \* table feeds: row or None, by id
  fetch_state,  \* table fetch_state: row or None, by feed_id
  items         \* table items: the items of each feed_id

storeVars == <<feeds, fetch_state, items>>

StoreTypeOK ==
  /\ feeds \in [Ids -> FeedRow \cup {None}]
  /\ fetch_state \in [Ids -> StateRow \cup {None}]
  /\ items \in [Ids -> SUBSET Item]

StoreInit ==
  /\ feeds = [i \in Ids |-> None]
  /\ fetch_state = [i \in Ids |-> None]
  /\ items = [i \in Ids |-> {}]

-----------------------------------------------------------------------------
(* EnsureFeed is two statements, each committed on its own.                  *)

\* INTEGER PRIMARY KEY without AUTOINCREMENT: one more than the largest id in
\* use, so the id of a deleted last row is given out again.
NewRowid(i) ==
  /\ \A j \in Ids : feeds[j] # None => j < i
  /\ \A j \in Ids : j = i - 1 => feeds[j] # None

InsertFeed(u, t) ==
  /\ \A i \in Ids : feeds[i] # None => feeds[i].url # u
  /\ \E i \in Ids :
       /\ NewRowid(i)
       /\ feeds' = [feeds EXCEPT ![i] =
            [url |-> u, last_requested_at |-> t, title |-> None]]
  /\ UNCHANGED <<fetch_state, items>>

\* Mutant: next_poll_at left NULL.
InsertFetchState_NoSchedule(i, t) ==
  /\ feeds[i] # None
  /\ fetch_state[i] = None
  /\ fetch_state' = [fetch_state EXCEPT ![i] =
       [etag |-> None, next_poll_at |-> None, locked_until |-> None,
        last_ok_at |-> None]]
  /\ UNCHANGED <<feeds, items>>

InsertFetchState(i, t) ==
  /\ feeds[i] # None
  /\ fetch_state[i] = None
  /\ fetch_state' = [fetch_state EXCEPT ![i] =
       [etag |-> None, next_poll_at |-> t, locked_until |-> None,
        last_ok_at |-> None]]
  /\ UNCHANGED <<feeds, items>>

TouchFeed(i, t) ==
  /\ feeds[i] # None
  /\ feeds[i].last_requested_at < t
  /\ feeds' = [feeds EXCEPT ![i] = [@ EXCEPT !.last_requested_at = t]]
  /\ UNCHANGED <<fetch_state, items>>

-----------------------------------------------------------------------------
(* Claims.                                                                   *)

\* Mutant: locked_until <= now instead of locked_until < now.
Unlocked_AtExpiry(i, t) == fetch_state[i].locked_until \in {None} \cup 0..t

Unlocked(i, t) ==
  fetch_state[i].locked_until \in {None} \cup 0..(t - 1)

IsDue(i, t) ==
  /\ feeds[i] # None
  /\ fetch_state[i] # None
  /\ fetch_state[i].next_poll_at <= t
  /\ Unlocked(i, t)

\* ORDER BY next_poll_at LIMIT ClaimBatch: ties are broken arbitrarily.
ClaimableBatch(S, t) ==
  /\ S # {}
  /\ \A i \in S : IsDue(i, t)
  /\ \A i \in S, j \in Ids \ S :
       IsDue(j, t) => fetch_state[i].next_poll_at <= fetch_state[j].next_poll_at
  /\ \/ Cardinality(S) = ClaimBatch
     \/ /\ Cardinality(S) < ClaimBatch
        /\ \A j \in Ids \ S : ~IsDue(j, t)

\* SET locked_until = until WHERE feed_id IN S
Lock(S, until) ==
  fetch_state' = [i \in Ids |->
    IF i \in S THEN [fetch_state[i] EXCEPT !.locked_until = until]
               ELSE fetch_state[i]]

DueOf(i, until) ==
  [id |-> i, url |-> feeds[i].url, etag |-> fetch_state[i].etag,
   lease |-> until]

ClaimDue(S, t) ==
  /\ ClaimableBatch(S, t)
  /\ Lock(S, t + LockFor)
  /\ UNCHANGED <<feeds, items>>

\* Mutant: the lock is counted from next_poll_at.
ClaimFeed_FromSchedule(i, t) ==
  /\ feeds[i] # None
  /\ fetch_state[i] # None
  /\ Unlocked(i, t)
  /\ Lock({i}, fetch_state[i].next_poll_at + LockFor)
  /\ UNCHANGED <<feeds, items>>

\* WHERE feed_id = ? AND (locked_until IS NULL OR locked_until < ?)
ClaimFeed(i, t) ==
  /\ feeds[i] # None
  /\ fetch_state[i] # None
  /\ Unlocked(i, t)
  /\ Lock({i}, t + LockFor)
  /\ UNCHANGED <<feeds, items>>

-----------------------------------------------------------------------------
(* What a fetch writes.  An UPDATE of a row that is gone changes nothing and *)
(* is no error; an INSERT into items whose feed is gone violates the foreign *)
(* key.                                                                      *)

UpsertItems(i, docItems) ==
  /\ docItems = {} \/ feeds[i] # None
  /\ items' = [items EXCEPT ![i] = @ \cup docItems]
  /\ UNCHANGED <<feeds, fetch_state>>

\* An empty validator or title keeps the stored one.
RecordFetchOK(i, etag, title, fetchedAt, next) ==
  /\ fetch_state' = [fetch_state EXCEPT ![i] =
       IF @ = None THEN None
       ELSE [etag |-> IF etag = None THEN fetch_state[i].etag ELSE etag,
             next_poll_at |-> next, locked_until |-> None,
             last_ok_at |-> fetchedAt]]
  /\ feeds' = [feeds EXCEPT ![i] =
       IF @ = None \/ title = None THEN @ ELSE [@ EXCEPT !.title = title]]
  /\ UNCHANGED items

RecordFetchError(i, next) ==
  /\ fetch_state' = [fetch_state EXCEPT ![i] =
       IF @ = None THEN None
       ELSE [@ EXCEPT !.next_poll_at = next, !.locked_until = None]]
  /\ UNCHANGED <<feeds, items>>

\* The rows of S that PruneItems keeps at time t.
NewerThan(S, x) == {y \in S : y.at > x.at}
\* Mutant: published_at <= cutoff is dropped.
Kept_Exclusive(S, t) ==
  {x \in S : /\ x.at + KeepFor > t
             /\ Cardinality(NewerThan(S, x)) < KeepItems}

Kept(S, t) ==
  {x \in S : /\ x.at + KeepFor >= t
             /\ Cardinality(NewerThan(S, x)) < KeepItems}

PruneItems(i, t) ==
  /\ items' = [items EXCEPT ![i] = Kept(@, t)]
  /\ UNCHANGED <<feeds, fetch_state>>

\* Mutant: last_requested_at <= cutoff is evicted.
Expired_AtCutoff(t) ==
  {i \in Ids : feeds[i] # None /\ feeds[i].last_requested_at + EvictAfter <= t}

Expired(t) ==
  {i \in Ids : feeds[i] # None /\ feeds[i].last_requested_at + EvictAfter < t}

\* Mutant: items without ON DELETE CASCADE.
EvictFeeds_KeepsItems(t) ==
  /\ Expired(t) # {}
  /\ feeds' = [i \in Ids |-> IF i \in Expired(t) THEN None ELSE feeds[i]]
  /\ fetch_state' = [i \in Ids |-> IF i \in Expired(t) THEN None ELSE fetch_state[i]]
  /\ UNCHANGED items

\* ON DELETE CASCADE: the rows of fetch_state and items go with the feed's.
EvictFeeds(t) ==
  /\ Expired(t) # {}
  /\ feeds' = [i \in Ids |-> IF i \in Expired(t) THEN None ELSE feeds[i]]
  /\ fetch_state' = [i \in Ids |-> IF i \in Expired(t) THEN None ELSE fetch_state[i]]
  /\ items' = [i \in Ids |-> IF i \in Expired(t) THEN {} ELSE items[i]]
=============================================================================
