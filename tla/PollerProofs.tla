---------------------------- MODULE PollerProofs ----------------------------
(* What holds of Poller for every set of URLs, workers and callers, every    *)
(* number of rows and every configuration: types, claims, whose items a feed *)
(* has, locks; then that Poller implements FeedCache, and that validators    *)
(* and last_ok_at never run ahead of the items.                              *)
EXTENDS Poller, FiniteSetTheorems, WellFoundedInduction, TLAPS

-----------------------------------------------------------------------------
(* Type correctness: first what each operation of the store preserves.       *)

LEMMA InsertFeedType ==
  ASSUME StoreTypeOK, NEW u \in URL, NEW t \in Nat, InsertFeed(u, t)
  PROVE  StoreTypeOK'
BY DEF StoreTypeOK, InsertFeed, FeedRow

LEMMA InsertFetchStateType ==
  ASSUME StoreTypeOK, NEW i \in Ids, NEW t \in Nat, InsertFetchState(i, t)
  PROVE  StoreTypeOK'
BY DEF StoreTypeOK, InsertFetchState, StateRow

LEMMA TouchFeedType ==
  ASSUME StoreTypeOK, NEW i \in Ids, NEW t \in Nat, TouchFeed(i, t)
  PROVE  StoreTypeOK'
BY DEF StoreTypeOK, TouchFeed, FeedRow

LEMMA LockedRow ==
  ASSUME NEW r \in StateRow, NEW until \in Nat
  PROVE  /\ [r EXCEPT !.locked_until = until] # None
         /\ [r EXCEPT !.locked_until = until].locked_until = until
<1>1. [r EXCEPT !.locked_until = until] \in StateRow
  BY DEF StateRow
<1> QED
  BY <1>1, StoreAssumption DEF StateRow

LEMMA LockType ==
  ASSUME StoreTypeOK, NEW S, NEW until \in Nat, Lock(S, until),
         \A i \in S : fetch_state[i] # None
  PROVE  fetch_state' \in [Ids -> StateRow \cup {None}]
<1> SUFFICES ASSUME NEW i \in Ids, i \in S
             PROVE  [fetch_state[i] EXCEPT !.locked_until = until] \in StateRow
  BY DEF StoreTypeOK, Lock
<1> fetch_state[i] \in StateRow
  BY DEF StoreTypeOK
<1> QED
  BY DEF StateRow

LEMMA ClaimDueType ==
  ASSUME StoreTypeOK, NEW S \in SUBSET Ids, NEW t \in Nat, ClaimDue(S, t)
  PROVE  /\ StoreTypeOK'
         /\ \A i \in S : DueOf(i, t + LockFor) \in Due
<1>1. t + LockFor \in Nat
  BY StoreAssumption
<1>2. \A i \in S : feeds[i] \in FeedRow /\ fetch_state[i] \in StateRow
  BY DEF ClaimDue, ClaimableBatch, IsDue, StoreTypeOK
<1>3. \A i \in S : fetch_state[i] # None
  BY DEF ClaimDue, ClaimableBatch, IsDue
<1>4. StoreTypeOK'
  BY <1>1, <1>3, LockType DEF ClaimDue, StoreTypeOK
<1> QED
  BY <1>1, <1>2, <1>4 DEF DueOf, Due, FeedRow, StateRow

LEMMA ClaimFeedType ==
  ASSUME StoreTypeOK, NEW i \in Ids, NEW t \in Nat, ClaimFeed(i, t)
  PROVE  StoreTypeOK' /\ DueOf(i, t + LockFor) \in Due
<1>1. t + LockFor \in Nat
  BY StoreAssumption
<1>2. feeds[i] \in FeedRow /\ fetch_state[i] \in StateRow
  BY DEF ClaimFeed, StoreTypeOK
<1>3. StoreTypeOK'
  BY <1>1, LockType DEF ClaimFeed, StoreTypeOK
<1> QED
  BY <1>1, <1>2, <1>3 DEF DueOf, Due, FeedRow, StateRow

LEMMA UpsertItemsType ==
  ASSUME StoreTypeOK, NEW i \in Ids, NEW its \in SUBSET Item, UpsertItems(i, its)
  PROVE  StoreTypeOK'
BY DEF StoreTypeOK, UpsertItems

LEMMA RecordFetchOKType ==
  ASSUME StoreTypeOK, NEW i \in Ids, NEW etag \in Etag \cup {None},
         NEW title \in URL \cup {None}, NEW at \in Nat, NEW next \in Nat,
         RecordFetchOK(i, etag, title, at, next)
  PROVE  StoreTypeOK'
<1>1. fetch_state' \in [Ids -> StateRow \cup {None}]
  BY DEF StoreTypeOK, RecordFetchOK, StateRow
<1>2. feeds' \in [Ids -> FeedRow \cup {None}]
  BY DEF StoreTypeOK, RecordFetchOK, FeedRow
<1> QED
  BY <1>1, <1>2 DEF StoreTypeOK, RecordFetchOK

LEMMA RecordFetchErrorType ==
  ASSUME StoreTypeOK, NEW i \in Ids, NEW next \in Nat, RecordFetchError(i, next)
  PROVE  StoreTypeOK'
BY DEF StoreTypeOK, RecordFetchError, StateRow

LEMMA PruneItemsType ==
  ASSUME StoreTypeOK, NEW i \in Ids, NEW t, PruneItems(i, t)
  PROVE  StoreTypeOK'
BY DEF StoreTypeOK, PruneItems, Kept

LEMMA EvictFeedsType ==
  ASSUME StoreTypeOK, NEW t, EvictFeeds(t)
  PROVE  StoreTypeOK'
BY DEF StoreTypeOK, EvictFeeds

LEMMA StoreUnchangedType ==
  ASSUME StoreTypeOK, UNCHANGED storeVars
  PROVE  StoreTypeOK'
BY DEF StoreTypeOK, storeVars

\* A SELECT of ClaimFeed changes what its fetch knows of the row, and nothing
\* else of the claim.
ReadsRow(e) ==
  /\ fetches[e] \in Fetch /\ fetches[e] # None /\ InBudget(e)
  /\ fetches'[e] \in Fetch /\ fetches'[e] # None
  /\ fetches[e].pc \in {"claimed", "read"} /\ fetches'[e].pc \in {"read", "host"}
  /\ fetches'[e].d.id = fetches[e].d.id
  /\ fetches'[e].d.lease = fetches[e].d.lease
  /\ fetches'[e].started = fetches[e].started
  /\ fetches'[e].body = fetches[e].body
  /\ \A g \in Fetchers \ {e} : fetches'[g] = fetches[g]
  /\ fetches' \in [Fetchers -> Fetch \cup {None}]
  /\ UNCHANGED <<storeVars, now, upstream, registering, batch>>
  /\ Observe

LEMMA SelectFeedReads ==
  ASSUME TypeOK, NEW e \in Fetchers, SelectFeed(e)
  PROVE  /\ ReadsRow(e)
         /\ feeds[fetches[e].d.id] # None
         /\ fetches'[e].d.url = feeds[fetches[e].d.id].url
         /\ fetches'[e].d.etag = fetches[e].d.etag
<1> DEFINE f == fetches[e]
           row == feeds[f.d.id]
           g == [f EXCEPT !.pc = "read", !.d = [f.d EXCEPT !.url = row.url]]
<1>1. f # None /\ f \in Fetch /\ f.pc = "claimed" /\ InBudget(e)
  BY DEF SelectFeed, CanGo, At, TypeOK
<1>2. f.d \in Due /\ f.d.id \in Ids
  BY <1>1 DEF Fetch, Due
<1>3. row # None /\ row.url \in URL
  BY <1>2 DEF SelectFeed, TypeOK, StoreTypeOK, FeedRow
<1>4. g \in Fetch /\ g.pc = "read" /\ g.d = [f.d EXCEPT !.url = row.url]
      /\ g.started = f.started /\ g.body = f.body
  <2> HIDE DEF f, row
  <2>1. [f.d EXCEPT !.url = row.url] \in Due
    BY <1>2, <1>3 DEF Due
  <2> QED
    BY <1>1, <2>1 DEF Fetch, PC
<1>5. g.d.id = f.d.id /\ g.d.lease = f.d.lease /\ g.d.url = row.url /\ g.d.etag = f.d.etag
  <2> HIDE DEF f, row
  <2> QED
    BY <1>2, <1>4 DEF Due
<1>6. fetches' = [fetches EXCEPT ![e] = g]
  BY DEF SelectFeed
<1> HIDE DEF g
<1>7. fetches'[e] = g /\ \A h \in Fetchers \ {e} : fetches'[h] = fetches[h]
  BY <1>6 DEF TypeOK
<1>8. fetches' \in [Fetchers -> Fetch \cup {None}]
  BY <1>4, <1>6 DEF TypeOK
<1> QED
  BY <1>1, <1>3, <1>4, <1>5, <1>7, <1>8, PollerAssumption DEF SelectFeed, ReadsRow

LEMMA SelectStateReads ==
  ASSUME TypeOK, NEW e \in Fetchers, SelectState(e)
  PROVE  /\ ReadsRow(e)
         /\ fetch_state[fetches[e].d.id] # None
         /\ fetches'[e].d.url = fetches[e].d.url
         /\ fetches'[e].d.etag = fetch_state[fetches[e].d.id].etag
<1> DEFINE f == fetches[e]
           row == fetch_state[f.d.id]
           g == [f EXCEPT !.pc = "host", !.d = [f.d EXCEPT !.etag = row.etag]]
<1>1. f # None /\ f \in Fetch /\ f.pc = "read" /\ InBudget(e)
  BY DEF SelectState, CanGo, At, TypeOK
<1>2. f.d \in Due /\ f.d.id \in Ids
  BY <1>1 DEF Fetch, Due
<1>3. row # None /\ row.etag \in Etag \cup {None}
  BY <1>2 DEF SelectState, TypeOK, StoreTypeOK, StateRow
<1>4. g \in Fetch /\ g.pc = "host" /\ g.d = [f.d EXCEPT !.etag = row.etag]
      /\ g.started = f.started /\ g.body = f.body
  <2> HIDE DEF f, row
  <2>1. [f.d EXCEPT !.etag = row.etag] \in Due
    BY <1>2, <1>3 DEF Due
  <2> QED
    BY <1>1, <2>1 DEF Fetch, PC
<1>5. g.d.id = f.d.id /\ g.d.lease = f.d.lease /\ g.d.url = f.d.url /\ g.d.etag = row.etag
  <2> HIDE DEF f, row
  <2> QED
    BY <1>2, <1>4 DEF Due
<1>6. fetches' = [fetches EXCEPT ![e] = g]
  BY DEF SelectState
<1> HIDE DEF g
<1>7. fetches'[e] = g /\ \A h \in Fetchers \ {e} : fetches'[h] = fetches[h]
  BY <1>6 DEF TypeOK
<1>8. fetches' \in [Fetchers -> Fetch \cup {None}]
  BY <1>4, <1>6 DEF TypeOK
<1> QED
  BY <1>1, <1>3, <1>4, <1>5, <1>7, <1>8, PollerAssumption DEF SelectState, ReadsRow

LEMMA InitType == Init => TypeOK
BY PollerAssumption, StoreAssumption
   DEF Init, TypeOK, StoreInit, StoreTypeOK

LEMMA NextType ==
  ASSUME TypeOK, [Next]_vars
  PROVE  TypeOK'
<1> USE DEF TypeOK
<1>1. ASSUME Observe
      PROVE  overran' \subseteq Ids /\ orphaned' \subseteq Ids
  BY <1>1 DEF Observe
<1>2. \A e \in Fetchers : fetches[e] # None =>
         /\ fetches[e] \in Fetch
         /\ fetches[e].d \in Due /\ fetches[e].d.id \in Ids
         /\ fetches[e].d.url \in URL /\ fetches[e].started \in Nat
         /\ fetches[e].body \in SUBSET Nat
  BY DEF Fetch, Due
<1>3. \A pc \in PC, d \in Due : StartedFetch(pc, d) \in Fetch
  BY DEF StartedFetch, Fetch, PC
<1>4. \A e \in Fetchers, pc \in PC :
         fetches[e] # None /\ GoTo(e, pc) => fetches' \in [Fetchers -> Fetch \cup {None}]
  BY <1>2 DEF GoTo, Fetch
<1>5. \A e \in Fetchers : Return(e) => fetches' \in [Fetchers -> Fetch \cup {None}]
  BY DEF Return
<1>6. \A u \in URL : Doc(u) \in SUBSET Nat
  BY DEF Doc
<1>a. CASE Tick
  BY <1>a, <1>1, StoreUnchangedType DEF Tick, procVars
<1>b. ASSUME NEW u \in URL, Publish(u) PROVE TypeOK'
  BY <1>b, <1>1, StoreUnchangedType DEF Publish, procVars
<1>c. ASSUME NEW u \in URL, BeginRegister(u) PROVE TypeOK'
  BY <1>c, <1>1, InsertFeedType DEF BeginRegister
<1>d. ASSUME NEW u \in URL, FinishRegister(u) PROVE TypeOK'
  BY <1>d, <1>1, InsertFetchStateType DEF FinishRegister
<1>e. ASSUME NEW u \in URL, AbandonRegister(u) PROVE TypeOK'
  BY <1>e, <1>1, StoreUnchangedType DEF AbandonRegister
<1>f. ASSUME NEW i \in Ids, RequestAgain(i) PROVE TypeOK'
  BY <1>f, <1>1, TouchFeedType DEF RequestAgain, procVars
<1>g. CASE Restart
  BY <1>g, <1>1, StoreUnchangedType DEF Restart
<1>h. CASE ClaimDueFeeds
  BY <1>h, <1>1, ClaimDueType DEF ClaimDueFeeds
<1>i. ASSUME NEW w \in Workers, NEW i \in Ids, Dispatch(w, i) PROVE TypeOK'
  BY <1>i, <1>1, <1>3, StoreUnchangedType DEF Dispatch, Fetchers, PC
<1>j. CASE Evict
  BY <1>j, <1>1, EvictFeedsType DEF Evict, procVars
<1>k. ASSUME NEW c \in Callers, NEW i \in Ids, FetchNow(c, i) PROVE TypeOK'
  BY <1>k, <1>1, <1>3, ClaimFeedType DEF FetchNow, Fetchers, PC
<1>m. ASSUME NEW e \in Fetchers, FetchOne(e) PROVE TypeOK'
  <2>1. CASE StartGet(e)
    BY <2>1, <1>1, <1>2, StoreUnchangedType DEF StartGet, At, Fetch, PC
  <2>2. CASE RespondNotModified(e)
    BY <2>2, <1>1, <1>4, StoreUnchangedType DEF RespondNotModified, CanGo, At, PC
  <2>3. CASE RespondOK(e)
    <3>1. fetches[e] # None
      BY <2>3 DEF RespondOK, CanGo, At
    <3>2. PICK tag \in BOOLEAN : fetches' = [fetches EXCEPT ![e] =
            [fetches[e] EXCEPT !.pc = "upsert", !.body = Doc(fetches[e].d.url), !.tag = tag]]
      BY <2>3, Zenon DEF RespondOK
    <3>3. [fetches[e] EXCEPT !.pc = "upsert", !.body = Doc(fetches[e].d.url), !.tag = tag] \in Fetch
      <4> DEFINE doc == Doc(fetches[e].d.url)
      <4>1. doc \in SUBSET Nat
        BY <3>1, <1>2, <1>6
      <4> HIDE DEF doc
      <4>2. [fetches[e] EXCEPT !.pc = "upsert", !.body = doc, !.tag = tag] \in Fetch
        BY <3>1, <4>1, <1>2 DEF Fetch, PC
      <4> QED
        BY <4>2 DEF doc
    <3>4. fetches' \in [Fetchers -> Fetch \cup {None}]
      BY <3>2, <3>3
    <3> QED
      BY <2>3, <3>4, <1>1, StoreUnchangedType DEF RespondOK
  <2>4. CASE RespondError(e)
    BY <2>4, <1>1, <1>4, StoreUnchangedType DEF RespondError, At, PC
  <2>5. CASE Upsert(e)
    <3>1. fetches[e] # None
      BY <2>5 DEF Upsert, CanGo, At
    <3>2. {[url |-> fetches[e].d.url, at |-> x] : x \in fetches[e].body} \in SUBSET Item
      BY <3>1, <1>2 DEF Item
    <3> QED
      BY <2>5, <3>1, <3>2, <1>1, <1>2, <1>4, UpsertItemsType DEF Upsert, PC
  <2>6. CASE RecordOK(e)
    <3>1. fetches[e] # None
      BY <2>6 DEF RecordOK, CanGo, At
    <3>2. EtagOf(fetches[e].d.url, fetches[e].body) \in Etag
      BY <3>1, <1>2 DEF EtagOf, Etag
    <3>3. \A wait \in OkWaits : fetches[e].started + wait \in Nat
      BY <3>1, <1>2, PollerAssumption
    <3>4. StoreTypeOK'
      BY <2>6, <3>1, <3>2, <3>3, <1>2, RecordFetchOKType DEF RecordOK
    <3> QED
      BY <2>6, <3>1, <3>4, <1>1, <1>4 DEF RecordOK, PC
  <2>7. CASE RecordNotModified(e)
    <3>1. fetches[e] # None
      BY <2>7 DEF RecordNotModified, CanGo, At
    <3>2. \A wait \in OkWaits : fetches[e].started + wait \in Nat
      BY <3>1, <1>2, PollerAssumption
    <3>3. StoreTypeOK'
      BY <2>7, <3>1, <3>2, <1>2, RecordFetchOKType DEF RecordNotModified
    <3> QED
      BY <2>7, <3>3, <1>1, <1>5 DEF RecordNotModified
  <2>8. CASE RecordError(e)
    <3>1. fetches[e] # None
      BY <2>8 DEF RecordError, CanGo, At
    <3>2. \A wait \in ErrWaits : fetches[e].started + wait \in Nat
      BY <3>1, <1>2, PollerAssumption
    <3>3. StoreTypeOK'
      BY <2>8, <3>1, <3>2, <1>2, RecordFetchErrorType DEF RecordError
    <3> QED
      BY <2>8, <3>3, <1>1, <1>5 DEF RecordError
  <2>9. CASE Prune(e)
    BY <2>9, <1>1, <1>2, <1>5, PruneItemsType DEF Prune, CanGo, At
  <2>10. CASE StoreFails(e)
    BY <2>10, <1>1, <1>5, StoreUnchangedType DEF StoreFails
  <2>11. CASE SelectFeed(e) \/ SelectState(e)
    BY <2>11, <1>1, SelectFeedReads, SelectStateReads, StoreUnchangedType DEF ReadsRow
  <2> QED
    BY <1>m, <2>1, <2>2, <2>3, <2>4, <2>5, <2>6, <2>7, <2>8, <2>9, <2>10, <2>11
       DEF FetchOne
<1>n. CASE UNCHANGED vars
  BY <1>n, StoreUnchangedType DEF vars, implVars, procVars
<1> QED
  BY <1>a, <1>b, <1>c, <1>d, <1>e, <1>f, <1>g, <1>h, <1>i, <1>j, <1>k, <1>m, <1>n
     DEF Next, Environment, Scheduler

\* Every variable keeps its type: in particular a claim always carries the
\* lock it took, and a row of fetch_state always has a next poll time.
THEOREM TypeCorrect == Spec => []TypeOK
BY InitType, NextType, PTL DEF Spec

-----------------------------------------------------------------------------
(* Exclusive claims.  LeaseExclusive is not inductive: a second claim is     *)
(* refused because of the row's locked_until, so the invariant has to say    *)
(* that every live claim is the one the row is locked for, until a time that *)
(* has not passed.  Both OBSERVED exclusions are needed for that: a holder   *)
(* that outlives its lock erases the next holder's, and an evicted row takes *)
(* its lock with it.                                                         *)

LockedFor(i, d) ==
  /\ fetch_state[i] # None
  /\ fetch_state[i].locked_until = d.lease
  /\ now <= d.lease

LeaseInvAt(i) ==
  /\ Held(i) => feeds[i] # None
  /\ \A e \in Fetchers : Holds(e, i) => LockedFor(i, fetches[e].d)
  /\ batch[i] # None => LockedFor(i, batch[i])
  /\ OneHolder(i)

BatchById == \A i \in Ids : batch[i] # None => batch[i].id = i

LeaseInv ==
  /\ BatchById
  /\ \A i \in Ids \ (overran \cup orphaned) : LeaseInvAt(i)

\* A feed that is held after a step and is in no excluded state was in none
\* before it, and none of its holders has outlived its lock.
LEMMA ObserveHeld ==
  ASSUME Observe, NEW i \in Ids \ (overran' \cup orphaned'), Held(i)'
  PROVE  /\ i \notin overran \cup orphaned
         /\ feeds'[i] # None
         /\ ~Outlived(i)'
BY DEF Observe

\* A step that adds no holder of i and leaves i's lock alone.
LEMMA QuietStep ==
  ASSUME TypeOK, LeaseInv, Observe,
         NEW i \in Ids \ (overran' \cup orphaned'),
         \A e \in Fetchers : Holds(e, i)' =>
           Holds(e, i) /\ fetches'[e].d.lease = fetches[e].d.lease,
         batch'[i] \in {batch[i], None},
         feeds'[i] # None /\ fetch_state[i] # None =>
           /\ fetch_state'[i] # None
           /\ fetch_state'[i].locked_until = fetch_state[i].locked_until,
         TypeOK'
  PROVE  LeaseInvAt(i)'
<1>1. CASE ~Held(i)'
  BY <1>1 DEF LeaseInvAt, Held, OneHolder
<1>2. CASE Held(i)'
  <2>1. LeaseInvAt(i) /\ feeds'[i] # None /\ ~Outlived(i)'
    BY <1>2, ObserveHeld DEF LeaseInv
  <2>2. \A e \in Fetchers : Holds(e, i)' =>
           /\ LockedFor(i, fetches[e].d)
           /\ ~(fetches'[e].d.lease < now')
    BY <2>1 DEF LeaseInvAt, Outlived
  <2>3. \A e \in Fetchers : Holds(e, i)' =>
           fetches'[e].d.lease \in Nat /\ now' \in Nat
    BY DEF TypeOK, Holds, Fetch, Due
  <2>4. \A e \in Fetchers : Holds(e, i)' => LockedFor(i, fetches[e].d)'
    BY <2>1, <2>2, <2>3 DEF LockedFor
  <2>5. batch'[i] # None => LockedFor(i, batch[i])'
    <3> SUFFICES ASSUME batch'[i] # None PROVE LockedFor(i, batch[i])'
      OBVIOUS
    <3>1. batch'[i] = batch[i] /\ LockedFor(i, batch[i])
      BY <2>1 DEF LeaseInvAt
    <3>2. batch'[i].lease \in Nat /\ now' \in Nat
      BY DEF TypeOK, Due
    <3> QED
      BY <2>1, <3>1, <3>2 DEF LockedFor, Outlived
  <2>6. OneHolder(i)'
    BY <2>1 DEF LeaseInvAt, OneHolder
  <2> QED
    BY <2>1, <2>4, <2>5, <2>6 DEF LeaseInvAt
<1> QED
  BY <1>1, <1>2

\* A live claim keeps every other claimant out.
LEMMA HeldNotUnlocked ==
  ASSUME TypeOK, LeaseInv, NEW i \in Ids \ (overran \cup orphaned),
         Unlocked(i, now)
  PROVE  ~Held(i)
<1> SUFFICES ASSUME NEW d \in Due, LockedFor(i, d) PROVE FALSE
  <2>1. \A e \in Fetchers : Holds(e, i) => fetches[e].d \in Due
    BY DEF TypeOK, Holds, Fetch
  <2>2. batch[i] # None => batch[i] \in Due
    BY DEF TypeOK
  <2> QED
    BY <2>1, <2>2 DEF LeaseInv, LeaseInvAt, Held
<1>1. d.lease \in Nat /\ now \in Nat
  BY DEF TypeOK, Due
<1>2. d.lease # None
  BY <1>1, StoreAssumption
<1> QED
  BY <1>1, <1>2 DEF LockedFor, Unlocked

\* While its statement runs, a fetch holds its feed.
LEMMA RunningHolds ==
  ASSUME TypeOK, NEW e \in Fetchers, NEW pc \in PC \ {"prune"}, CanGo(e, pc)
  PROVE  fetches[e].d.id \in Ids /\ Holds(e, fetches[e].d.id)
BY DEF TypeOK, CanGo, At, Holds, Fetch, Due, PC

\* The holder that e was releases its feed, whatever the row's lock becomes.
LEMMA ReleaseStep ==
  ASSUME TypeOK, TypeOK', LeaseInv, Observe,
         NEW e \in Fetchers, Holds(e, fetches[e].d.id), fetches[e].d.id \in Ids,
         \A g \in Fetchers, i \in Ids : Holds(g, i)' =>
           g # e /\ Holds(g, i) /\ fetches'[g].d = fetches[g].d,
         batch' = batch,
         \A i \in Ids \ {fetches[e].d.id} : fetch_state'[i] = fetch_state[i]
  PROVE  \A i \in Ids \ (overran' \cup orphaned') : LeaseInvAt(i)'
<1> SUFFICES ASSUME NEW i \in Ids \ (overran' \cup orphaned')
             PROVE  LeaseInvAt(i)'
  OBVIOUS
<1>1. CASE i = fetches[e].d.id
  <2>1. CASE ~Held(i)'
    BY <2>1 DEF LeaseInvAt, Held, OneHolder
  <2>2. CASE Held(i)'
    <3>1. LeaseInvAt(i)
      BY <2>2, ObserveHeld DEF LeaseInv
    <3>2. ~Held(i)'
      BY <3>1, <1>1 DEF LeaseInvAt, OneHolder, Held
    <3> QED
      BY <2>2, <3>2
  <2> QED
    BY <2>1, <2>2
<1>2. CASE i # fetches[e].d.id
  BY <1>2, QuietStep
<1> QED
  BY <1>1, <1>2

LEMMA NextLease ==
  ASSUME TypeOK, TypeOK', LeaseInv, [Next]_vars
  PROVE  LeaseInv'
<1> USE DEF LeaseInv
<1>1. \A e \in Fetchers : fetches[e] # None =>
         /\ fetches[e] \in Fetch /\ fetches[e].d \in Due
         /\ fetches[e].d.id \in Ids /\ fetches[e].d.lease \in Nat
  BY DEF TypeOK, Fetch, Due
<1>2. ASSUME Observe, batch' = batch, fetch_state' = fetch_state,
             fetches' = fetches, now' = now
      PROVE  LeaseInv'
  <2>1. \A e \in Fetchers, i \in Ids : Holds(e, i)' =>
           Holds(e, i) /\ fetches'[e].d = fetches[e].d
    BY <1>2 DEF Holds, InBudget
  <2> QED
    BY <1>2, <2>1, QuietStep DEF BatchById
<1>3. ASSUME NEW e \in Fetchers, Observe, UNCHANGED <<storeVars, now, batch>>,
             fetches[e] # None, fetches' \in [Fetchers -> Fetch \cup {None}],
             fetches'[e] # None => fetches'[e].d = fetches[e].d
                                   /\ fetches[e].pc # "prune",
             \A g \in Fetchers \ {e} : fetches'[g] = fetches[g]
      PROVE  LeaseInv'
  <2>1. \A g \in Fetchers, i \in Ids : Holds(g, i)' =>
           Holds(g, i) /\ fetches'[g].d = fetches[g].d
    BY <1>3 DEF Holds, InBudget
  <2> QED
    BY <1>3, <2>1, QuietStep DEF BatchById, storeVars
<1>4. ASSUME NEW e \in Fetchers, Observe, NEW pc \in PC \ {"prune"}, CanGo(e, pc),
             UNCHANGED <<now, batch>>, GoTo(e, "prune") \/ Return(e),
             \A i \in Ids \ {fetches[e].d.id} : fetch_state'[i] = fetch_state[i]
      PROVE  LeaseInv'
  <2>1. fetches[e] # None /\ fetches[e] \in Fetch
    BY <1>4, <1>1 DEF CanGo, At
  <2>2. \A g \in Fetchers, i \in Ids : Holds(g, i)' =>
           g # e /\ Holds(g, i) /\ fetches'[g].d = fetches[g].d
    BY <1>4, <2>1 DEF GoTo, Return, Holds, InBudget, TypeOK, Fetch
  <2>3. \A i \in Ids \ (overran' \cup orphaned') : LeaseInvAt(i)'
    BY <1>4, <2>2, RunningHolds, ReleaseStep
  <2> QED
    BY <1>4, <2>3 DEF BatchById
<1>a. CASE Tick
  <2>1. \A e \in Fetchers, i \in Ids : Holds(e, i)' => Holds(e, i)
    <3> SUFFICES ASSUME NEW e \in Fetchers, NEW i \in Ids, Holds(e, i)'
                 PROVE  Holds(e, i)
      OBVIOUS
    <3>1. fetches' = fetches /\ now \in Nat /\ now' = now + 1
      BY <1>a DEF Tick, procVars, TypeOK
    <3>2. fetches[e] # None /\ fetches[e].d.lease \in Nat
      BY <3>1, <1>1 DEF Holds
    <3> QED
      BY <3>1, <3>2, StoreAssumption, PollerAssumption DEF Holds, InBudget
  <2>2. fetches' = fetches /\ batch' = batch /\ fetch_state' = fetch_state
    BY <1>a DEF Tick, procVars, storeVars
  <2> QED
    BY <1>a, <2>1, <2>2, QuietStep DEF Tick, BatchById
<1>b. ASSUME NEW u \in URL, Publish(u) PROVE LeaseInv'
  BY <1>b, <1>2 DEF Publish, procVars, storeVars
<1>c. ASSUME NEW u \in URL, BeginRegister(u) PROVE LeaseInv'
  BY <1>c, <1>2 DEF BeginRegister, InsertFeed
<1>d. ASSUME NEW u \in URL, FinishRegister(u) PROVE LeaseInv'
  <2>1. PICK j \in Ids : InsertFetchState(j, now)
    BY <1>d DEF FinishRegister
  <2>2. \A i \in Ids : fetch_state[i] # None => fetch_state'[i] = fetch_state[i]
    BY <2>1 DEF InsertFetchState, TypeOK, StoreTypeOK
  <2>3. UNCHANGED <<fetches, batch, now>> /\ Observe
    BY <1>d DEF FinishRegister
  <2>4. \A e \in Fetchers, i \in Ids : Holds(e, i)' =>
           Holds(e, i) /\ fetches'[e].d = fetches[e].d
    BY <2>3 DEF Holds, InBudget
  <2> QED
    BY <2>2, <2>3, <2>4, QuietStep DEF BatchById
<1>e. ASSUME NEW u \in URL, AbandonRegister(u) PROVE LeaseInv'
  BY <1>e, <1>2 DEF AbandonRegister, storeVars
<1>f. ASSUME NEW i \in Ids, RequestAgain(i) PROVE LeaseInv'
  BY <1>f, <1>2 DEF RequestAgain, TouchFeed, procVars
<1>g. CASE Restart
  <2>1. \A e \in Fetchers, i \in Ids : ~Holds(e, i)'
    BY <1>g DEF Restart, Holds
  <2>2. \A i \in Ids : batch'[i] = None
    BY <1>g DEF Restart
  <2> QED
    BY <2>1, <2>2 DEF BatchById, LeaseInvAt, Held, OneHolder
<1>h. CASE ClaimDueFeeds
  <2>1. PICK S \in SUBSET Ids :
          /\ ClaimDue(S, now)
          /\ batch' = [i \in Ids |-> IF i \in S THEN DueOf(i, now + LockFor) ELSE None]
    BY <1>h DEF ClaimDueFeeds
  <2>2. UNCHANGED <<fetches, now>> /\ Observe /\ BatchEmpty
    BY <1>h DEF ClaimDueFeeds
  <2>3. \A e \in Fetchers, i \in Ids : Holds(e, i)' =>
           Holds(e, i) /\ fetches'[e].d = fetches[e].d
    BY <2>2 DEF Holds, InBudget
  <2>4. ASSUME NEW i \in Ids \ (overran' \cup orphaned') PROVE LeaseInvAt(i)'
    <3>1. CASE i \in S
      <4>1. fetch_state'[i] = [fetch_state[i] EXCEPT !.locked_until = now + LockFor]
        BY <2>1, <3>1 DEF ClaimDue, Lock
      <4>2. fetch_state[i] \in StateRow /\ feeds'[i] # None /\ Unlocked(i, now)
        BY <2>1, <3>1 DEF ClaimDue, ClaimableBatch, IsDue, TypeOK, StoreTypeOK
      <4>3. fetch_state'[i] \in StateRow \cup {None}
        BY DEF TypeOK, StoreTypeOK
      <4>4. fetch_state'[i] # None /\ fetch_state'[i].locked_until = now + LockFor
        BY <4>1, <4>2, LockedRow, StoreAssumption DEF TypeOK
      <4>5. batch'[i].lease = now + LockFor /\ batch'[i] # None
        <5>1. batch'[i] = DueOf(i, now + LockFor)
          BY <2>1, <3>1
        <5>2. DueOf(i, now + LockFor) \in Due
          BY <2>1, <3>1, ClaimDueType DEF TypeOK
        <5> QED
          BY <5>1, <5>2, StoreAssumption DEF DueOf
      <4>6. Held(i)'
        BY <4>5 DEF Held
      <4>7. ~Held(i)
        BY <4>2, <4>6, ObserveHeld, HeldNotUnlocked, <2>2
      <4>8. \A e \in Fetchers : ~Holds(e, i)'
        BY <4>7, <2>3 DEF Held
      <4>9. LockedFor(i, batch[i])'
        BY <4>4, <4>5, <2>2, StoreAssumption DEF LockedFor, TypeOK
      <4> QED
        BY <4>2, <4>8, <4>9 DEF LeaseInvAt, OneHolder
    <3>2. CASE i \notin S
      <4>1. fetch_state'[i] = fetch_state[i] /\ batch'[i] = None
        BY <2>1, <3>2 DEF ClaimDue, Lock
      <4> QED
        BY <4>1, <2>2, <2>3, QuietStep
    <3> QED
      BY <3>1, <3>2
  <2>5. BatchById'
    BY <2>1 DEF BatchById, DueOf
  <2> QED
    BY <2>4, <2>5
<1>i. ASSUME NEW w \in Workers, NEW j \in Ids, Dispatch(w, j) PROVE LeaseInv'
  <2>1. /\ w \in Fetchers /\ w \notin Callers
        /\ fetches[w] = None /\ batch[j] # None /\ batch[j].id = j
        /\ fetches' = [fetches EXCEPT ![w] = StartedFetch("host", batch[j])]
        /\ batch' = [batch EXCEPT ![j] = None]
        /\ UNCHANGED <<fetch_state, now, feeds>> /\ Observe
    BY <1>i, PollerAssumption DEF Dispatch, Fetchers, BatchById, storeVars
  <2>2. fetches'[w] = StartedFetch("host", batch[j]) /\ fetches'[w].d = batch[j]
    BY <2>1 DEF TypeOK, StartedFetch
  <2>3. \A e \in Fetchers \ {w} : fetches'[e] = fetches[e]
    BY <2>1 DEF TypeOK
  <2>4. \A i \in Ids \ {j} : ~Holds(w, i)'
    BY <2>1, <2>2 DEF Holds
  <2>5. \A e \in Fetchers \ {w}, i \in Ids : Holds(e, i)' = Holds(e, i)
    BY <2>1, <2>3 DEF Holds, InBudget
  <2>6. ASSUME NEW i \in Ids \ (overran' \cup orphaned') PROVE LeaseInvAt(i)'
    <3>1. CASE i = j
      <4>1. CASE ~Held(i)'
        BY <4>1 DEF LeaseInvAt, Held, OneHolder
      <4>2. CASE Held(i)'
        <5>1. LeaseInvAt(i) /\ feeds'[i] # None
          BY <4>2, ObserveHeld, <2>1
        <5>2. LockedFor(i, batch[i]) /\ \A e \in Fetchers : ~Holds(e, i)
          BY <5>1, <2>1, <3>1 DEF LeaseInvAt, OneHolder
        <5>3. batch'[i] = None
          BY <2>1, <3>1 DEF TypeOK
        <5>4. LockedFor(i, fetches[w].d)'
          BY <5>2, <2>1, <2>2, <3>1 DEF LockedFor
        <5>5. \A e \in Fetchers \ {w} : ~Holds(e, i)'
          BY <5>2, <2>5
        <5> QED
          BY <5>1, <5>3, <5>4, <5>5 DEF LeaseInvAt, OneHolder
      <4> QED
        BY <4>1, <4>2
    <3>2. CASE i # j
      <4>1. \A e \in Fetchers : Holds(e, i)' => Holds(e, i) /\ fetches'[e].d = fetches[e].d
        BY <2>3, <2>4, <2>5, <3>2
      <4> QED
        BY <4>1, <2>1, <3>2, QuietStep
    <3> QED
      BY <3>1, <3>2
  <2>7. BatchById'
    BY <2>1 DEF BatchById, TypeOK
  <2> QED
    BY <2>6, <2>7
<1>j. CASE Evict
  <2>1. UNCHANGED <<fetches, batch, now>> /\ Observe
    BY <1>j DEF Evict, procVars
  <2>2. \A i \in Ids : feeds'[i] # None => fetch_state'[i] = fetch_state[i]
    BY <1>j DEF Evict, EvictFeeds
  <2>3. \A e \in Fetchers, i \in Ids : Holds(e, i)' =>
           Holds(e, i) /\ fetches'[e].d = fetches[e].d
    BY <2>1 DEF Holds, InBudget
  <2> QED
    BY <2>1, <2>2, <2>3, QuietStep DEF BatchById
<1>k. ASSUME NEW c \in Callers, NEW j \in Ids, FetchNow(c, j) PROVE LeaseInv'
  <2>1. /\ c \in Fetchers /\ fetches[c] = None /\ ClaimFeed(j, now)
        /\ fetches' = [fetches EXCEPT ![c] = StartedFetch("claimed", DueOf(j, now + LockFor))]
        /\ UNCHANGED <<batch, now, feeds>> /\ Observe
    BY <1>k DEF FetchNow, Fetchers, ClaimFeed
  <2>2. fetches'[c].d = DueOf(j, now + LockFor)
    BY <2>1 DEF TypeOK, StartedFetch
  <2>3. \A e \in Fetchers \ {c} : fetches'[e] = fetches[e]
    BY <2>1 DEF TypeOK
  <2>4. \A i \in Ids \ {j} : ~Holds(c, i)' /\ fetch_state'[i] = fetch_state[i]
    BY <2>1, <2>2 DEF Holds, DueOf, ClaimFeed, Lock
  <2>5. \A e \in Fetchers \ {c}, i \in Ids : Holds(e, i)' = Holds(e, i)
    BY <2>1, <2>3 DEF Holds, InBudget
  <2>6. ASSUME j \notin overran' \cup orphaned' PROVE LeaseInvAt(j)'
    <3>1. CASE ~Held(j)'
      BY <3>1 DEF LeaseInvAt, Held, OneHolder
    <3>2. CASE Held(j)'
      <4>1. ~Held(j) /\ feeds'[j] # None
        BY <2>1, <2>6, <3>2, ObserveHeld, HeldNotUnlocked DEF ClaimFeed
      <4>2. fetch_state'[j] = [fetch_state[j] EXCEPT !.locked_until = now + LockFor]
        BY <2>1 DEF ClaimFeed, Lock
      <4>3. fetch_state[j] \in StateRow
        BY <2>1 DEF ClaimFeed, TypeOK, StoreTypeOK
      <4>4. fetch_state'[j] # None /\ fetch_state'[j].locked_until = now + LockFor
        BY <4>2, <4>3, LockedRow, StoreAssumption DEF TypeOK
      <4>5. LockedFor(j, fetches[c].d)'
        <5>1. fetches'[c].d.lease = now + LockFor /\ now <= now + LockFor
          BY <2>2, StoreAssumption DEF DueOf, TypeOK
        <5> QED
          BY <4>4, <5>1, <2>1 DEF LockedFor
      <4>6. batch'[j] = None /\ \A e \in Fetchers \ {c} : ~Holds(e, j)'
        BY <4>1, <2>1, <2>5 DEF Held
      <4> QED
        BY <4>1, <4>5, <4>6 DEF LeaseInvAt, OneHolder
    <3> QED
      BY <3>1, <3>2
  <2>7. ASSUME NEW i \in Ids \ (overran' \cup orphaned'), i # j PROVE LeaseInvAt(i)'
    <3>1. \A e \in Fetchers : Holds(e, i)' => Holds(e, i) /\ fetches'[e].d = fetches[e].d
      BY <2>3, <2>4, <2>5, <2>7
    <3> QED
      BY <3>1, <2>1, <2>4, <2>7, QuietStep
  <2> QED
    BY <2>1, <2>6, <2>7 DEF BatchById
<1>m. ASSUME NEW e \in Fetchers, FetchOne(e) PROVE LeaseInv'
  <2>0. fetches' \in [Fetchers -> Fetch \cup {None}]
    BY DEF TypeOK
  <2>1. CASE StartGet(e)
    BY <2>0, <2>1, <1>1, <1>3 DEF StartGet, At, TypeOK, Fetch
  <2>2. CASE RespondNotModified(e)
    BY <2>0, <2>2, <1>1, <1>3 DEF RespondNotModified, CanGo, At, GoTo, TypeOK, Fetch
  <2>3. CASE RespondOK(e)
    <3>1. PICK tag \in BOOLEAN : fetches' = [fetches EXCEPT ![e] =
            [fetches[e] EXCEPT !.pc = "upsert", !.body = Doc(fetches[e].d.url), !.tag = tag]]
      BY <2>3, Zenon DEF RespondOK
    <3>2. fetches[e] # None /\ fetches[e].pc # "prune"
      BY <2>3 DEF RespondOK, CanGo, At
    <3>3. fetches'[e].d = fetches[e].d
      <4> DEFINE doc == Doc(fetches[e].d.url)
      <4> HIDE DEF doc
      <4>1. fetches' = [fetches EXCEPT ![e] =
              [fetches[e] EXCEPT !.pc = "upsert", !.body = doc, !.tag = tag]]
        BY <3>1 DEF doc
      <4> QED
        BY <4>1, <3>2, <1>1 DEF TypeOK, Fetch
    <3>4. \A g \in Fetchers \ {e} : fetches'[g] = fetches[g]
      BY <3>1 DEF TypeOK
    <3> QED
      BY <2>0, <2>3, <3>2, <3>3, <3>4, <1>3 DEF RespondOK
  <2>4. CASE RespondError(e)
    BY <2>0, <2>4, <1>1, <1>3 DEF RespondError, At, GoTo, TypeOK, Fetch
  <2>5. CASE Upsert(e)
    <3>1. UNCHANGED <<feeds, fetch_state, now, batch>> /\ GoTo(e, "record") /\ At(e, "upsert")
      BY <2>5 DEF Upsert, UpsertItems, CanGo
    <3>2. \A g \in Fetchers, i \in Ids : Holds(g, i)' =>
             Holds(g, i) /\ fetches'[g].d = fetches[g].d
      BY <3>1, <1>1 DEF Holds, InBudget, GoTo, At, TypeOK, Fetch
    <3> QED
      BY <2>5, <3>1, <3>2, QuietStep DEF Upsert, BatchById
  <2>6. CASE RecordOK(e)
    BY <2>6, <1>4 DEF RecordOK, RecordFetchOK, PC, TypeOK, StoreTypeOK
  <2>7. CASE RecordNotModified(e)
    BY <2>7, <1>4 DEF RecordNotModified, RecordFetchOK, PC, TypeOK, StoreTypeOK
  <2>8. CASE RecordError(e)
    BY <2>8, <1>4 DEF RecordError, RecordFetchError, PC, TypeOK, StoreTypeOK
  <2>9. CASE Prune(e)
    <3>1. UNCHANGED <<feeds, fetch_state, now, batch>> /\ Return(e)
      BY <2>9 DEF Prune, PruneItems
    <3>2. \A g \in Fetchers, i \in Ids : Holds(g, i)' =>
             Holds(g, i) /\ fetches'[g].d = fetches[g].d
      BY <3>1 DEF Holds, InBudget, Return, TypeOK
    <3> QED
      BY <2>9, <3>1, <3>2, QuietStep DEF Prune, BatchById
  <2>10. CASE StoreFails(e)
    <3>1. UNCHANGED <<feeds, fetch_state, now, batch>> /\ Return(e)
      BY <2>10 DEF StoreFails, storeVars
    <3>2. \A g \in Fetchers, i \in Ids : Holds(g, i)' =>
             Holds(g, i) /\ fetches'[g].d = fetches[g].d
      BY <3>1 DEF Holds, InBudget, Return, TypeOK
    <3> QED
      BY <2>10, <3>1, <3>2, QuietStep DEF StoreFails, BatchById
  <2>11. CASE SelectFeed(e) \/ SelectState(e)
    <3>1. ReadsRow(e)
      BY <2>11, SelectFeedReads, SelectStateReads
    <3>2. \A g \in Fetchers, i \in Ids : Holds(g, i)' =>
             Holds(g, i) /\ fetches'[g].d.lease = fetches[g].d.lease
      BY <3>1 DEF ReadsRow, Holds, InBudget
    <3> QED
      BY <3>1, <3>2, QuietStep DEF ReadsRow, BatchById, storeVars
  <2> QED
    BY <1>m, <2>1, <2>2, <2>3, <2>4, <2>5, <2>6, <2>7, <2>8, <2>9, <2>10, <2>11
       DEF FetchOne
<1>n. CASE UNCHANGED vars
  BY <1>n DEF vars, implVars, procVars, storeVars, BatchById, LeaseInvAt, LockedFor,
     OneHolder, Held, Holds, InBudget
<1> QED
  BY <1>a, <1>b, <1>c, <1>d, <1>e, <1>f, <1>g, <1>h, <1>i, <1>j, <1>k, <1>m, <1>n
     DEF Next, Environment, Scheduler

LEMMA InitLease == Init => LeaseInv
BY DEF Init, StoreInit, LeaseInv, BatchById, LeaseInvAt, OneHolder, Held, Holds

\* The lock of fetch_state.locked_until is a mutual exclusion: whatever the
\* mix of loop and API claims, failures and restarts, a feed none of whose
\* holders outlived its lock and whose row was not deleted under one has one
\* holder at a time.
THEOREM ClaimsExclude == Spec => []LeaseExclusive
<1>1. TypeOK /\ LeaseInv /\ [Next]_vars => (TypeOK /\ LeaseInv)'
  BY NextType, NextLease
<1>2. LeaseInv => LeaseExclusive
  BY DEF LeaseInv, LeaseInvAt, LeaseExclusive
<1> QED
  BY InitType, InitLease, <1>1, <1>2, PTL DEF Spec

-----------------------------------------------------------------------------
(* Attribution.  Fetches of one feed may overlap; what they write still      *)
(* belongs to the feed because the id they write to keeps its URL for as     *)
(* long as its row lives, and a row that dies under them is orphaned.        *)

OwnInvAt(i) ==
  /\ OwnItems(i)
  /\ batch[i] # None => feeds[i] # None /\ batch[i].url = feeds[i].url
  /\ \A e \in Fetchers : Holds(e, i) =>
       feeds[i] # None /\ fetches[e].d.url = feeds[i].url

ItemsHaveFeed == \A i \in Ids : feeds[i] = None => items[i] = {}

OwnInv ==
  /\ BatchById
  /\ ItemsHaveFeed
  /\ \A i \in Ids \ orphaned : OwnInvAt(i)

NoNewHolder(i) ==
  /\ \A e \in Fetchers : Holds(e, i)' =>
       Holds(e, i) /\ fetches'[e].d.url = fetches[e].d.url
  /\ batch'[i] \in {batch[i], None}

SameFeed(i) ==
  feeds'[i] # None /\ i \notin orphaned =>
    \/ /\ feeds[i] # None
       /\ feeds'[i].url = feeds[i].url
       /\ feeds'[i].title \in {feeds[i].title, feeds[i].url}
    \/ feeds[i] = None /\ feeds'[i].title = None

OnlyOwnAdded(i) ==
  i \notin orphaned => \A x \in items'[i] :
    x \in items[i] \/ (feeds[i] # None /\ x.url = feeds[i].url)

\* A step that adds no holder of i, keeps i's URL, and adds only i's own items
\* and metadata.
LEMMA OwnStep ==
  ASSUME OwnInv, Observe, NEW i \in Ids \ orphaned',
         NoNewHolder(i), SameFeed(i), OnlyOwnAdded(i)
  PROVE  OwnInvAt(i)'
<1> USE DEF NoNewHolder, SameFeed, OnlyOwnAdded, ItemsHaveFeed
<1>1. CASE feeds'[i] = None
  <2>1. ~Held(i)'
    BY <1>1 DEF Observe
  <2> QED
    BY <1>1, <2>1 DEF OwnInvAt, OwnItems, Held
<1>2. CASE feeds'[i] # None
  <2>1. i \notin orphaned /\ OwnInvAt(i) /\ (feeds[i] = None => items[i] = {})
    BY <1>2 DEF Observe, OwnInv
  <2>2. CASE feeds[i] # None
    BY <1>2, <2>1, <2>2 DEF OwnInvAt, OwnItems
  <2>3. CASE feeds[i] = None
    <3>1. /\ feeds'[i].title = None /\ items'[i] = {}
          /\ batch[i] = None /\ \A e \in Fetchers : ~Holds(e, i)
      BY <1>2, <2>1, <2>3 DEF OwnInvAt
    <3> QED
      BY <3>1 DEF OwnInvAt, OwnItems
  <2> QED
    BY <2>2, <2>3
<1> QED
  BY <1>1, <1>2

LEMMA OwnStepAll ==
  ASSUME OwnInv, Observe, ItemsHaveFeed',
         \A i \in Ids : NoNewHolder(i) /\ SameFeed(i) /\ OnlyOwnAdded(i)
  PROVE  OwnInv'
<1>1. BatchById'
  BY DEF OwnInv, BatchById, NoNewHolder
<1>2. \A i \in Ids \ orphaned' : OwnInvAt(i)'
  BY OwnStep
<1> QED
  BY <1>1, <1>2 DEF OwnInv

LEMMA FetchOneHolders ==
  ASSUME TypeOK, TypeOK', NEW e \in Fetchers, FetchOne(e)
  PROVE  /\ UNCHANGED <<now, batch>> /\ Observe
         /\ \A g \in Fetchers, i \in Ids : Holds(g, i)' =>
              /\ Holds(g, i)
              /\ ~SelectFeed(e) => fetches'[g].d.url = fetches[g].d.url
<1>1. ASSUME NEW pc \in PC \ {"host"}, NEW from \in PC \ {"prune"}, At(e, from),
             GoTo(e, pc), now' = now, Observe
      PROVE  \A g \in Fetchers, i \in Ids : Holds(g, i)' =>
               Holds(g, i) /\ fetches'[g].d = fetches[g].d
  BY <1>1 DEF Holds, InBudget, GoTo, At, TypeOK, Fetch
<1>2. ASSUME Return(e), now' = now
      PROVE  \A g \in Fetchers, i \in Ids : Holds(g, i)' =>
               Holds(g, i) /\ fetches'[g].d = fetches[g].d
  BY <1>2 DEF Holds, InBudget, Return, TypeOK
<1>3. CASE StartGet(e)
  BY <1>3 DEF StartGet, At, Holds, InBudget, TypeOK, Fetch
<1>4. CASE RespondNotModified(e)
  BY <1>4, <1>1 DEF RespondNotModified, CanGo, PC
<1>5. CASE RespondOK(e)
  <2> DEFINE doc == Doc(fetches[e].d.url)
  <2>1. PICK tag \in BOOLEAN : fetches' = [fetches EXCEPT ![e] =
          [fetches[e] EXCEPT !.pc = "upsert", !.body = doc, !.tag = tag]]
    BY <1>5 DEF RespondOK
  <2> HIDE DEF doc
  <2> QED
    BY <1>5, <2>1 DEF RespondOK, CanGo, At, Holds, InBudget, TypeOK, Fetch
<1>6. CASE RespondError(e)
  BY <1>6, <1>1 DEF RespondError, PC
<1>7. CASE Upsert(e)
  BY <1>7, <1>1 DEF Upsert, CanGo, PC
<1>8. CASE RecordOK(e)
  BY <1>8, <1>1 DEF RecordOK, CanGo, PC
<1>9. CASE RecordNotModified(e)
  BY <1>9, <1>2 DEF RecordNotModified
<1>10. CASE RecordError(e)
  BY <1>10, <1>2 DEF RecordError
<1>11. CASE Prune(e)
  BY <1>11, <1>2 DEF Prune
<1>12. CASE StoreFails(e)
  BY <1>12, <1>2 DEF StoreFails
<1>13. CASE SelectFeed(e)
  BY <1>13, SelectFeedReads DEF ReadsRow, Holds, InBudget
<1>14. CASE SelectState(e)
  BY <1>14, SelectStateReads DEF ReadsRow, Holds, InBudget
<1> QED
  BY <1>3, <1>4, <1>5, <1>6, <1>7, <1>8, <1>9, <1>10, <1>11, <1>12, <1>13, <1>14
     DEF FetchOne

LEMMA NextOwn ==
  ASSUME TypeOK, TypeOK', OwnInv, [Next]_vars
  PROVE  OwnInv'
<1>0. BatchById /\ ItemsHaveFeed /\ \A i \in Ids \ orphaned : OwnInvAt(i)
  BY DEF OwnInv
<1>1. ASSUME Observe, UNCHANGED <<feeds, items, batch, fetches, now>>
      PROVE  OwnInv'
  <2>1. \A i \in Ids : NoNewHolder(i)
    BY <1>1 DEF NoNewHolder, Holds, InBudget
  <2>2. \A i \in Ids : SameFeed(i) /\ OnlyOwnAdded(i)
    BY <1>1 DEF SameFeed, OnlyOwnAdded
  <2> QED
    BY <1>0, <1>1, <2>1, <2>2, OwnStepAll DEF ItemsHaveFeed
<1>2. ASSUME Observe, UNCHANGED <<batch, fetches, now>>,
             \A i \in Ids : items'[i] \in {items[i], {}},
             ItemsHaveFeed', \A i \in Ids : SameFeed(i)
      PROVE  OwnInv'
  <2>1. \A i \in Ids : NoNewHolder(i)
    BY <1>2 DEF NoNewHolder, Holds, InBudget
  <2>2. \A i \in Ids : OnlyOwnAdded(i)
    BY <1>2 DEF OnlyOwnAdded
  <2> QED
    BY <1>2, <2>1, <2>2, OwnStepAll
<1>3. \A e \in Fetchers, i \in Ids \ orphaned : Holds(e, i) =>
         feeds[i] # None /\ fetches[e].d.url = feeds[i].url
  BY <1>0 DEF OwnInvAt
<1>a. CASE Tick
  <2>1. \A e \in Fetchers, i \in Ids : Holds(e, i)' => Holds(e, i)
    <3> SUFFICES ASSUME NEW e \in Fetchers, NEW i \in Ids, Holds(e, i)'
                 PROVE  Holds(e, i)
      OBVIOUS
    <3>1. fetches' = fetches /\ now \in Nat /\ now' = now + 1
      BY <1>a DEF Tick, procVars, TypeOK
    <3>2. fetches[e] # None /\ fetches[e].d.lease \in Nat
      BY <3>1 DEF Holds, TypeOK, Fetch, Due
    <3> QED
      BY <3>1, <3>2, StoreAssumption, PollerAssumption DEF Holds, InBudget
  <2>2. UNCHANGED <<feeds, items, batch, fetches>> /\ Observe
    BY <1>a DEF Tick, procVars, storeVars
  <2>3. \A i \in Ids : NoNewHolder(i) /\ SameFeed(i) /\ OnlyOwnAdded(i)
    BY <2>1, <2>2 DEF NoNewHolder, SameFeed, OnlyOwnAdded
  <2> QED
    BY <1>0, <2>2, <2>3, OwnStepAll DEF ItemsHaveFeed
<1>b. ASSUME NEW u \in URL, Publish(u) PROVE OwnInv'
  BY <1>b, <1>1 DEF Publish, procVars, storeVars
<1>c. ASSUME NEW u \in URL, BeginRegister(u) PROVE OwnInv'
  <2>1. PICK j \in Ids :
          /\ NewRowid(j)
          /\ feeds' = [feeds EXCEPT ![j] =
               [url |-> u, last_requested_at |-> now, title |-> None]]
    BY <1>c DEF BeginRegister, InsertFeed
  <2>2. feeds[j] = None
    BY <2>1 DEF NewRowid, Ids
  <2>3. [url |-> u, last_requested_at |-> now, title |-> None] \in FeedRow
    BY DEF FeedRow, TypeOK
  <2>4. feeds'[j] # None /\ feeds'[j].title = None
    BY <2>1, <2>3, StoreAssumption DEF TypeOK, StoreTypeOK
  <2>5. \A i \in Ids \ {j} : feeds'[i] = feeds[i]
    BY <2>1 DEF TypeOK, StoreTypeOK
  <2> QED
    BY <1>c, <1>0, <1>2, <2>2, <2>4, <2>5
       DEF BeginRegister, InsertFeed, SameFeed, ItemsHaveFeed
<1>d. ASSUME NEW u \in URL, FinishRegister(u) PROVE OwnInv'
  BY <1>d, <1>1 DEF FinishRegister, InsertFetchState
<1>e. ASSUME NEW u \in URL, AbandonRegister(u) PROVE OwnInv'
  BY <1>e, <1>1 DEF AbandonRegister, storeVars
<1>f. ASSUME NEW j \in Ids, RequestAgain(j) PROVE OwnInv'
  <2>1. \A i \in Ids : feeds'[i] # None =>
           /\ feeds[i] # None
           /\ feeds'[i].url = feeds[i].url /\ feeds'[i].title = feeds[i].title
    BY <1>f DEF RequestAgain, TouchFeed, TypeOK, StoreTypeOK, FeedRow
  <2>2. \A i \in Ids : feeds'[i] = None => feeds[i] = None
    <3>1. [feeds[j] EXCEPT !.last_requested_at = now] \in FeedRow
      BY <1>f DEF RequestAgain, TouchFeed, TypeOK, StoreTypeOK, FeedRow
    <3> QED
      BY <3>1, <1>f, StoreAssumption DEF RequestAgain, TouchFeed, TypeOK, StoreTypeOK
  <2> QED
    BY <1>f, <1>0, <1>2, <2>1, <2>2
       DEF RequestAgain, TouchFeed, procVars, SameFeed, ItemsHaveFeed
<1>g. CASE Restart
  <2>1. \A e \in Fetchers, i \in Ids : ~Holds(e, i)'
    BY <1>g DEF Restart, Holds
  <2>2. \A i \in Ids : batch'[i] = None
    BY <1>g DEF Restart
  <2> QED
    BY <1>g, <1>0, <2>1, <2>2, OwnStepAll
       DEF Restart, storeVars, NoNewHolder, SameFeed, OnlyOwnAdded, ItemsHaveFeed
<1>h. CASE ClaimDueFeeds
  <2>1. PICK S \in SUBSET Ids :
          /\ ClaimDue(S, now)
          /\ batch' = [i \in Ids |-> IF i \in S THEN DueOf(i, now + LockFor) ELSE None]
    BY <1>h DEF ClaimDueFeeds
  <2>2. UNCHANGED <<feeds, items, fetches, now>> /\ Observe
    BY <1>h DEF ClaimDueFeeds, ClaimDue
  <2>3. \A e \in Fetchers, i \in Ids : Holds(e, i)' = Holds(e, i)
    BY <2>2 DEF Holds, InBudget
  <2>4. ASSUME NEW i \in Ids \ orphaned' PROVE OwnInvAt(i)'
    <3>1. CASE i \in S
      <4>1. feeds[i] # None /\ batch'[i].url = feeds[i].url
        BY <2>1, <3>1 DEF ClaimDue, ClaimableBatch, IsDue, DueOf
      <4>2. i \notin orphaned
        BY <4>1, <2>2 DEF Observe
      <4> QED
        BY <1>0, <4>1, <4>2, <2>2, <2>3 DEF OwnInvAt, OwnItems
    <3>2. CASE i \notin S
      BY <3>2, <2>1, <2>2, <2>3, OwnStep DEF NoNewHolder, SameFeed, OnlyOwnAdded
    <3> QED
      BY <3>1, <3>2
  <2>5. BatchById'
    BY <2>1 DEF BatchById, DueOf
  <2> QED
    BY <1>0, <2>2, <2>4, <2>5 DEF OwnInv, ItemsHaveFeed
<1>i. ASSUME NEW w \in Workers, NEW j \in Ids, Dispatch(w, j) PROVE OwnInv'
  <2>1. /\ w \in Fetchers /\ fetches[w] = None
        /\ batch[j] # None /\ batch[j].id = j
        /\ fetches' = [fetches EXCEPT ![w] = StartedFetch("host", batch[j])]
        /\ batch' = [batch EXCEPT ![j] = None]
        /\ UNCHANGED <<feeds, items, now>> /\ Observe
    BY <1>0, <1>i DEF Dispatch, Fetchers, BatchById, storeVars
  <2>2. fetches'[w].d = batch[j]
    BY <2>1 DEF TypeOK, StartedFetch
  <2>3. \A e \in Fetchers \ {w}, i \in Ids : Holds(e, i)' =>
           Holds(e, i) /\ fetches'[e].d = fetches[e].d
    BY <2>1 DEF Holds, InBudget, TypeOK
  <2>4. \A i \in Ids : batch'[i] \in {batch[i], None}
    BY <2>1 DEF TypeOK
  <2>5. ASSUME NEW i \in Ids \ orphaned' PROVE OwnInvAt(i)'
    <3>1. CASE i = j /\ feeds[j] # None
      <4>1. i \notin orphaned
        BY <3>1, <2>1 DEF Observe
      <4>2. batch[j].url = feeds[j].url
        BY <1>0, <4>1, <3>1, <2>1 DEF OwnInvAt
      <4> QED
        BY <1>0, <2>1, <2>2, <2>3, <2>4, <3>1, <4>1, <4>2 DEF OwnInvAt, OwnItems
    <3>2. CASE i # j
      <4>1. ~Holds(w, i)'
        BY <2>1, <2>2, <3>2 DEF Holds
      <4> QED
        BY <4>1, <2>1, <2>3, <2>4, OwnStep DEF NoNewHolder, SameFeed, OnlyOwnAdded
    <3>3. CASE i = j /\ feeds[j] = None
      <4>1. ~Held(i)' /\ feeds'[i] = None
        BY <3>3, <2>1 DEF Observe
      <4> QED
        BY <4>1 DEF OwnInvAt, OwnItems, Held
    <3> QED
      BY <3>1, <3>2, <3>3
  <2>6. BatchById'
    BY <1>0, <2>4 DEF BatchById
  <2> QED
    BY <1>0, <2>1, <2>5, <2>6 DEF OwnInv, ItemsHaveFeed
<1>j. CASE Evict
  <2>1. UNCHANGED <<fetches, batch, now>> /\ Observe
    BY <1>j DEF Evict, procVars
  <2>2. \A i \in Ids :
           \/ feeds'[i] = None /\ items'[i] = {}
           \/ feeds'[i] = feeds[i] /\ items'[i] = items[i]
    BY <1>j DEF Evict, EvictFeeds
  <2> QED
    BY <1>0, <1>2, <2>1, <2>2 DEF SameFeed, ItemsHaveFeed
<1>k. ASSUME NEW c \in Callers, NEW j \in Ids, FetchNow(c, j) PROVE OwnInv'
  <2>1. /\ c \in Fetchers /\ fetches[c] = None /\ feeds[j] # None
        /\ fetches' = [fetches EXCEPT ![c] = StartedFetch("claimed", DueOf(j, now + LockFor))]
        /\ UNCHANGED <<batch, now, feeds, items>> /\ Observe
    BY <1>k DEF FetchNow, Fetchers, ClaimFeed
  <2>2. fetches'[c].d = DueOf(j, now + LockFor)
    BY <2>1 DEF TypeOK, StartedFetch
  <2>3. \A e \in Fetchers \ {c}, i \in Ids : Holds(e, i)' =>
           Holds(e, i) /\ fetches'[e].d = fetches[e].d
    BY <2>1 DEF Holds, InBudget, TypeOK
  <2>4. ASSUME NEW i \in Ids \ orphaned' PROVE OwnInvAt(i)'
    <3>1. CASE i = j
      <4>1. i \notin orphaned
        BY <3>1, <2>1 DEF Observe
      <4>2. fetches'[c].d.url = feeds[j].url
        BY <2>2 DEF DueOf
      <4> QED
        BY <1>0, <2>1, <2>3, <3>1, <4>1, <4>2 DEF OwnInvAt, OwnItems
    <3>2. CASE i # j
      <4>1. ~Holds(c, i)'
        BY <2>2, <3>2 DEF Holds, DueOf
      <4> QED
        BY <4>1, <2>1, <2>3, OwnStep DEF NoNewHolder, SameFeed, OnlyOwnAdded
    <3> QED
      BY <3>1, <3>2
  <2> QED
    BY <1>0, <2>1, <2>4 DEF OwnInv, BatchById, ItemsHaveFeed
<1>l. ASSUME NEW e \in Fetchers, SelectFeed(e) PROVE OwnInv'
  <2> DEFINE j == fetches[e].d.id
  <2>1. ReadsRow(e) /\ feeds[j] # None /\ fetches'[e].d.url = feeds[j].url
    BY <1>l, SelectFeedReads
  <2>2. UNCHANGED <<feeds, items, batch, now>> /\ Observe
    BY <2>1 DEF ReadsRow, storeVars
  <2>3. \A g \in Fetchers, i \in Ids : Holds(g, i)' =>
           Holds(g, i) /\ (g # e => fetches'[g].d = fetches[g].d) /\ (g = e => i = j)
    BY <2>1 DEF ReadsRow, Holds, InBudget
  <2>4. ASSUME NEW i \in Ids \ orphaned' PROVE OwnInvAt(i)'
    <3>1. CASE i = j
      <4>1. i \notin orphaned
        BY <3>1, <2>1, <2>2 DEF Observe
      <4> QED
        BY <1>0, <2>1, <2>2, <2>3, <3>1, <4>1 DEF OwnInvAt, OwnItems
    <3>2. CASE i # j
      <4>1. NoNewHolder(i) /\ SameFeed(i) /\ OnlyOwnAdded(i)
        BY <2>2, <2>3, <3>2 DEF NoNewHolder, SameFeed, OnlyOwnAdded
      <4> QED
        BY <4>1, <1>0, <2>2, OwnStep DEF ItemsHaveFeed
    <3> QED
      BY <3>1, <3>2
  <2> QED
    BY <1>0, <2>2, <2>4 DEF OwnInv, BatchById, ItemsHaveFeed
<1>m. ASSUME NEW e \in Fetchers, FetchOne(e), ~SelectFeed(e) PROVE OwnInv'
  <2>0. /\ UNCHANGED <<now, batch>> /\ Observe
        /\ \A g \in Fetchers, i \in Ids : Holds(g, i)' =>
             Holds(g, i) /\ fetches'[g].d.url = fetches[g].d.url
    BY <1>m, FetchOneHolders
  <2>a. \A i \in Ids : NoNewHolder(i)
    BY <2>0 DEF NoNewHolder
  <2>1. ASSUME UNCHANGED <<feeds, items>> PROVE OwnInv'
    BY <1>0, <2>0, <2>a, <2>1, OwnStepAll DEF SameFeed, OnlyOwnAdded, ItemsHaveFeed
  <2>2. CASE StartGet(e) \/ RespondNotModified(e) \/ RespondOK(e) \/ RespondError(e)
              \/ StoreFails(e) \/ SelectState(e)
    BY <2>1, <2>2 DEF StartGet, RespondNotModified, RespondOK, RespondError, StoreFails,
       SelectState, storeVars
  <2>3. CASE Upsert(e)
    <3> DEFINE d == fetches[e].d
               new == {[url |-> d.url, at |-> x] : x \in fetches[e].body}
    <3>1. d.id \in Ids /\ Holds(e, d.id)
      BY <2>3, RunningHolds DEF Upsert, PC
    <3>2. /\ new = {} \/ feeds[d.id] # None
          /\ items' = [items EXCEPT ![d.id] = @ \cup new]
          /\ UNCHANGED <<feeds, fetch_state>>
      BY <2>3 DEF Upsert, UpsertItems
    <3>3. \A x \in new : x.url = d.url
      OBVIOUS
    <3> HIDE DEF new
    <3>4. \A i \in Ids : items'[i] = IF i = d.id THEN items[i] \cup new ELSE items[i]
      BY <3>2 DEF TypeOK, StoreTypeOK
    <3>5. \A i \in Ids : OnlyOwnAdded(i)
      <4>1. d.id \notin orphaned => feeds[d.id] # None /\ d.url = feeds[d.id].url
        BY <3>1, <1>3
      <4> QED
        BY <3>3, <3>4, <4>1 DEF OnlyOwnAdded
    <3>6. ItemsHaveFeed'
      BY <1>0, <3>2, <3>4 DEF ItemsHaveFeed
    <3>7. \A i \in Ids : SameFeed(i)
      BY <3>2 DEF SameFeed
    <3> QED
      BY <2>0, <2>a, <3>5, <3>6, <3>7, OwnStepAll
  <2>4. ASSUME NEW etag, NEW title \in URL \cup {None}, NEW next,
               Holds(e, fetches[e].d.id), fetches[e].d.id \in Ids,
               title \in {None, fetches[e].d.url},
               RecordFetchOK(fetches[e].d.id, etag, title, fetches[e].started, next)
        PROVE  OwnInv'
    <3> DEFINE j == fetches[e].d.id
    <3>1. \A i \in Ids \ {j} : feeds'[i] = feeds[i]
      BY <2>4 DEF RecordFetchOK, TypeOK, StoreTypeOK
    <3>2. feeds'[j] # None =>
             /\ feeds[j] # None /\ feeds'[j].url = feeds[j].url
             /\ feeds'[j].title \in {feeds[j].title, fetches[e].d.url}
      BY <2>4 DEF RecordFetchOK, TypeOK, StoreTypeOK, FeedRow
    <3>3. feeds'[j] = None => feeds[j] = None
      <4>1. feeds[j] # None => [feeds[j] EXCEPT !.title = title] \in FeedRow
        BY <2>4 DEF TypeOK, StoreTypeOK, FeedRow
      <4> QED
        BY <4>1, <2>4, StoreAssumption DEF RecordFetchOK, TypeOK, StoreTypeOK
    <3>4. items' = items
      BY <2>4 DEF RecordFetchOK
    <3>5. j \notin orphaned => feeds[j] # None /\ fetches[e].d.url = feeds[j].url
      BY <2>4, <1>3
    <3>6. \A i \in Ids : SameFeed(i) /\ OnlyOwnAdded(i)
      BY <3>1, <3>2, <3>4, <3>5 DEF SameFeed, OnlyOwnAdded
    <3>7. ItemsHaveFeed'
      BY <1>0, <3>1, <3>3, <3>4 DEF ItemsHaveFeed
    <3> QED
      BY <2>0, <2>a, <3>6, <3>7, OwnStepAll
  <2>5. CASE RecordOK(e)
    <3>1. Holds(e, fetches[e].d.id) /\ fetches[e].d.id \in Ids
      BY <2>5, RunningHolds DEF RecordOK, PC
    <3>2. fetches[e].d.url \in URL
      BY <3>1 DEF Holds, TypeOK, Fetch, Due
    <3> QED
      BY <2>4, <2>5, <3>1, <3>2 DEF RecordOK
  <2>6. CASE RecordNotModified(e)
    <3>1. Holds(e, fetches[e].d.id) /\ fetches[e].d.id \in Ids
      BY <2>6, RunningHolds DEF RecordNotModified, PC
    <3> QED
      BY <2>4, <2>6, <3>1 DEF RecordNotModified
  <2>7. CASE RecordError(e)
    BY <2>1, <2>7 DEF RecordError, RecordFetchError
  <2>8. CASE Prune(e)
    <3>1. feeds' = feeds /\ \A i \in Ids : items'[i] \subseteq items[i]
      BY <2>8 DEF Prune, PruneItems, Kept, TypeOK, StoreTypeOK
    <3> QED
      BY <1>0, <2>0, <2>a, <3>1, OwnStepAll DEF SameFeed, OnlyOwnAdded, ItemsHaveFeed
  <2> QED
    BY <1>m, <2>2, <2>3, <2>5, <2>6, <2>7, <2>8 DEF FetchOne
<1>n. CASE UNCHANGED vars
  BY <1>0, <1>n DEF vars, implVars, procVars, storeVars, OwnInv, ItemsHaveFeed, BatchById,
     OwnInvAt, OwnItems, Holds, InBudget
<1> QED
  BY <1>a, <1>b, <1>c, <1>d, <1>e, <1>f, <1>g, <1>h, <1>i, <1>j, <1>k, <1>l, <1>m, <1>n
     DEF Next, Environment, Scheduler

LEMMA InitOwn == Init => OwnInv
BY DEF Init, StoreInit, OwnInv, ItemsHaveFeed, BatchById, OwnInvAt, OwnItems, Held, Holds

\* No interleaving of fetches, registrations, evictions and restarts stores one
\* publisher's headlines or metadata under another's feed, short of a rowid
\* that is taken from a feed evicted in the middle of a fetch.
THEOREM Attribution == Spec => []ItemsOfOwnFeed
<1>1. TypeOK /\ OwnInv /\ [Next]_vars => (TypeOK /\ OwnInv)'
  BY NextType, NextOwn
<1>2. OwnInv => ItemsOfOwnFeed
  BY DEF OwnInv, OwnInvAt, ItemsOfOwnFeed
<1> QED
  BY InitType, InitOwn, <1>1, <1>2, PTL DEF Spec

-----------------------------------------------------------------------------
(* Locks run out, and only retention and eviction forget headlines.          *)

\* What a step may do to a lock.
LEMMA LockSteps ==
  ASSUME TypeOK, TypeOK', [Next]_vars, NEW i \in Ids, fetch_state'[i] # None
  PROVE  /\ now <= now'
         /\ \/ fetch_state'[i].locked_until \in {None, now + LockFor}
            \/ /\ fetch_state[i] # None
               /\ fetch_state'[i].locked_until = fetch_state[i].locked_until
<1> DEFINE Kept1 == /\ fetch_state[i] # None
                    /\ fetch_state'[i].locked_until = fetch_state[i].locked_until
           Set1  == fetch_state'[i].locked_until \in {None, now + LockFor}
<1>0. now \in Nat
  BY DEF TypeOK
<1>1. CASE fetch_state' = fetch_state /\ now' = now
  BY <1>1, <1>0
<1>2. CASE Tick
  BY <1>2, <1>0 DEF Tick, storeVars
<1>3. ASSUME NEW u \in URL, FinishRegister(u) PROVE now' = now /\ (Kept1 \/ Set1)
  <2>1. PICK j \in Ids : InsertFetchState(j, now)
    BY <1>3 DEF FinishRegister
  <2>2. CASE i = j
    BY <1>3, <2>1, <2>2 DEF InsertFetchState, FinishRegister, TypeOK, StoreTypeOK
  <2>3. CASE i # j
    BY <1>3, <2>1, <2>3 DEF InsertFetchState, FinishRegister, TypeOK, StoreTypeOK
  <2> QED
    BY <2>2, <2>3
<1>4. ASSUME NEW S \in SUBSET Ids, Lock(S, now + LockFor), \A j \in S : fetch_state[j] # None
      PROVE  Kept1 \/ Set1
  <2>1. CASE i \in S
    <3>1. fetch_state[i] \in StateRow
      BY <1>4, <2>1 DEF TypeOK, StoreTypeOK
    <3>2. fetch_state'[i] = [fetch_state[i] EXCEPT !.locked_until = now + LockFor]
      BY <1>4, <2>1 DEF Lock
    <3>3. now + LockFor \in Nat
      BY <1>0, StoreAssumption
    <3> QED
      BY <3>1, <3>2, <3>3, LockedRow
  <2>2. CASE i \notin S
    BY <1>4, <2>2 DEF Lock
  <2> QED
    BY <2>1, <2>2
<1>5. CASE ClaimDueFeeds
  BY <1>5, <1>4, <1>0 DEF ClaimDueFeeds, ClaimDue, ClaimableBatch, IsDue
<1>6. ASSUME NEW c \in Callers, NEW j \in Ids, FetchNow(c, j)
      PROVE  now' = now /\ (Kept1 \/ Set1)
  BY <1>6, <1>4 DEF FetchNow, ClaimFeed
<1>7. CASE Evict
  BY <1>7, <1>0 DEF Evict, EvictFeeds
<1>8. ASSUME NEW e \in Fetchers, FetchOne(e) PROVE now' = now /\ (Kept1 \/ Set1)
  <2>1. CASE RecordOK(e)
    BY <2>1 DEF RecordOK, RecordFetchOK, TypeOK, StoreTypeOK
  <2>2. CASE RecordNotModified(e)
    BY <2>2 DEF RecordNotModified, RecordFetchOK, TypeOK, StoreTypeOK
  <2>3. CASE RecordError(e)
    <3>1. fetch_state[i] # None => fetch_state[i] \in StateRow
      BY DEF TypeOK, StoreTypeOK
    <3> QED
      BY <2>3, <3>1 DEF RecordError, RecordFetchError, TypeOK, StoreTypeOK, StateRow
  <2> QED
    BY <1>8, <2>1, <2>2, <2>3 DEF FetchOne, StartGet, RespondNotModified, RespondOK,
       RespondError, Upsert, UpsertItems, Prune, PruneItems, StoreFails, SelectFeed,
       SelectState, storeVars
<1> QED
  <2>1. now' = now => now <= now'
    BY <1>0
  <2>2. ASSUME NEW u \in URL, Publish(u) \/ BeginRegister(u) \/ AbandonRegister(u)
        PROVE  fetch_state' = fetch_state /\ now' = now
    BY <2>2 DEF Publish, BeginRegister, InsertFeed, AbandonRegister, storeVars
  <2>3. ASSUME NEW j \in Ids, RequestAgain(j)
        PROVE  fetch_state' = fetch_state /\ now' = now
    BY <2>3 DEF RequestAgain, TouchFeed
  <2>4. CASE Restart
    BY <2>4, <1>1 DEF Restart, storeVars
  <2>5. ASSUME NEW w \in Workers, NEW j \in Ids, Dispatch(w, j)
        PROVE  fetch_state' = fetch_state /\ now' = now
    BY <2>5 DEF Dispatch, storeVars
  <2>6. CASE UNCHANGED vars
    BY <2>6, <1>1 DEF vars, implVars, storeVars
  <2> QED
    BY <1>1, <1>2, <1>3, <1>5, <1>6, <1>7, <1>8, <2>1, <2>2, <2>3, <2>4, <2>5, <2>6
       DEF Next, Environment, Scheduler

LEMMA LaterPlus ==
  ASSUME NEW m \in Nat, NEW n \in Nat, NEW k \in Nat
  PROVE  /\ m <= n => m + k <= n + k
         /\ \A l \in Nat : l <= m + k /\ m <= n => l <= n + k
OBVIOUS

\* No lock, whoever left it behind, keeps a feed from being claimed for longer
\* than LockFor.
THEOREM LocksRunOut == Spec => []LocksExpire
<1>1. Init => LocksExpire
  BY DEF Init, StoreInit, LocksExpire
<1>2. ASSUME TypeOK, TypeOK', LocksExpire, [Next]_vars PROVE LocksExpire'
  <2> SUFFICES ASSUME NEW i \in Ids, fetch_state'[i] # None,
                      fetch_state'[i].locked_until # None
               PROVE  fetch_state'[i].locked_until <= now' + LockFor
    BY DEF LocksExpire
  <2>1. now \in Nat /\ now' \in Nat /\ LockFor \in Nat /\ now <= now'
    BY <1>2, LockSteps, StoreAssumption DEF TypeOK
  <2>2. fetch_state'[i].locked_until \in Nat
    BY <1>2 DEF TypeOK, StoreTypeOK, StateRow
  <2>3. \/ fetch_state'[i].locked_until = now + LockFor
        \/ /\ fetch_state[i] # None
           /\ fetch_state'[i].locked_until = fetch_state[i].locked_until
    BY <1>2, LockSteps
  <2>4. CASE fetch_state'[i].locked_until = now + LockFor
    <3>1. now + LockFor <= now' + LockFor
      BY <2>1, LaterPlus
    <3> QED
      BY <2>4, <3>1
  <2>5. CASE fetch_state[i] # None /\ fetch_state'[i].locked_until = fetch_state[i].locked_until
    BY <1>2, <2>1, <2>2, <2>5 DEF LocksExpire
  <2> QED
    BY <2>3, <2>4, <2>5
<1>3. TypeOK /\ LocksExpire /\ [Next]_vars => (TypeOK /\ LocksExpire)'
  BY <1>2, NextType
<1> QED
  BY InitType, <1>1, <1>3, PTL DEF Spec

\* A fetch prunes with the time it started at.
StartedInv == \A e \in Fetchers : fetches[e] # None => fetches[e].started <= now

LEMMA NextStarted ==
  ASSUME TypeOK, TypeOK', StartedInv, [Next]_vars
  PROVE  StartedInv'
<1> USE DEF StartedInv
<1>0. now \in Nat
  BY DEF TypeOK
<1>1. ASSUME now' = now, \A e \in Fetchers : fetches'[e] # None =>
               \/ fetches[e] # None /\ fetches'[e].started = fetches[e].started
               \/ fetches'[e].started \in {0, now}
      PROVE  StartedInv'
  BY <1>0, <1>1
<1>2. CASE Tick
  <2>1. fetches' = fetches /\ now' = now + 1
    BY <1>2 DEF Tick, procVars
  <2>2. \A e \in Fetchers : fetches[e] # None => fetches[e].started \in Nat
    BY DEF TypeOK, Fetch
  <2> QED
    BY <1>0, <2>1, <2>2
<1>3. ASSUME NEW w \in Workers, NEW j \in Ids, Dispatch(w, j) PROVE StartedInv'
  BY <1>1, <1>3 DEF Dispatch, StartedFetch, TypeOK
<1>4. ASSUME NEW c \in Callers, NEW j \in Ids, FetchNow(c, j) PROVE StartedInv'
  BY <1>1, <1>4 DEF FetchNow, StartedFetch, TypeOK
<1>5. ASSUME NEW e \in Fetchers, FetchOne(e) PROVE StartedInv'
  <2>1. CASE StartGet(e)
    BY <2>1, <1>1 DEF StartGet, At, TypeOK, Fetch
  <2>2. ASSUME NEW pc, fetches[e] # None, GoTo(e, pc), now' = now PROVE StartedInv'
    BY <2>2, <1>1 DEF GoTo, TypeOK, Fetch
  <2>3. ASSUME Return(e), now' = now PROVE StartedInv'
    BY <2>3, <1>1 DEF Return, TypeOK
  <2>4. CASE RespondOK(e)
    <3> DEFINE doc == Doc(fetches[e].d.url)
    <3>1. PICK tag \in BOOLEAN : fetches' = [fetches EXCEPT ![e] =
            [fetches[e] EXCEPT !.pc = "upsert", !.body = doc, !.tag = tag]]
      BY <2>4 DEF RespondOK
    <3> HIDE DEF doc
    <3> QED
      BY <2>4, <3>1, <1>1 DEF RespondOK, CanGo, At, TypeOK, Fetch
  <2>5. CASE SelectFeed(e) \/ SelectState(e)
    <3>1. ReadsRow(e)
      BY <2>5, SelectFeedReads, SelectStateReads
    <3> QED
      BY <3>1, <1>1 DEF ReadsRow
  <2> QED
    BY <1>5, <2>1, <2>2, <2>3, <2>4, <2>5 DEF FetchOne, RespondNotModified, RespondError, Upsert,
       RecordOK, RecordNotModified, RecordError, Prune, StoreFails, CanGo, At
<1>6. CASE Restart
  BY <1>6 DEF Restart
<1> QED
  BY <1>1, <1>2, <1>3, <1>4, <1>5, <1>6
     DEF Next, Environment, Scheduler, Publish, BeginRegister, FinishRegister, AbandonRegister,
         RequestAgain, ClaimDueFeeds, Evict, vars, implVars, procVars

\* Failed fetches, restarts and other feeds' fetches never cost a headline:
\* it goes when it is older than KeepFor, when KeepItems newer ones are
\* stored, or with its evicted feed.
THEOREM NothingElseForgets == Spec => ForgottenOnlyByRetention
<1> DEFINE A == \A i \in Ids : \A x \in items[i] \ items'[i] :
       \/ feeds'[i] = None
       \/ x.at + KeepFor < now
       \/ ~(Cardinality(NewerThan(items[i], x)) < KeepItems)
<1>1. Init => StartedInv
  BY DEF Init, StartedInv
<1>2. ASSUME TypeOK, TypeOK', StartedInv, [Next]_vars PROVE A \/ UNCHANGED vars
  <2>1. CASE items' = items
    BY <2>1
  <2>2. CASE Evict
    BY <2>2 DEF Evict, EvictFeeds
  <2>3. ASSUME NEW e \in Fetchers, Upsert(e) PROVE A
    <3>1. \A i \in Ids : items[i] \subseteq items'[i]
      BY <1>2, <2>3 DEF Upsert, UpsertItems, TypeOK, StoreTypeOK
    <3> QED
      BY <3>1
  <2>4. ASSUME NEW e \in Fetchers, Prune(e) PROVE A
    <3> DEFINE j == fetches[e].d.id
               t == fetches[e].started
    <3>1. j \in Ids /\ t \in Nat /\ t <= now /\ now \in Nat
      BY <1>2, <2>4 DEF Prune, CanGo, At, StartedInv, TypeOK, Fetch, Due
    <3>2. \A i \in Ids : items'[i] = IF i = j THEN Kept(items[i], t) ELSE items[i]
      BY <1>2, <2>4 DEF Prune, PruneItems, TypeOK, StoreTypeOK
    <3> HIDE DEF j, t
    <3>3. \A i \in Ids : \A x \in items[i] : x.at \in Nat
      BY <1>2 DEF TypeOK, StoreTypeOK, Item
    <3>4. ASSUME NEW i \in Ids, NEW x \in items[i], x \notin Kept(items[i], t)
          PROVE  \/ x.at + KeepFor < now
                 \/ ~(Cardinality(NewerThan(items[i], x)) < KeepItems)
      BY <3>1, <3>3, <3>4, StoreAssumption DEF Kept
    <3> QED
      BY <3>2, <3>4
  <2> QED
    BY <1>2, <2>1, <2>2, <2>3, <2>4
       DEF Next, Environment, Scheduler, FetchOne, Tick, Publish, BeginRegister, InsertFeed,
           FinishRegister, InsertFetchState, AbandonRegister, RequestAgain, TouchFeed, Restart,
           ClaimDueFeeds, ClaimDue, Dispatch, FetchNow, ClaimFeed, SelectFeed, SelectState, StartGet,
           RespondNotModified, RespondOK, RespondError, RecordOK, RecordFetchOK,
           RecordNotModified, RecordError, RecordFetchError, StoreFails, storeVars
<1>3. TypeOK /\ StartedInv /\ [Next]_vars => (TypeOK /\ StartedInv)'
  BY NextType, NextStarted
<1>4. TypeOK /\ TypeOK' /\ StartedInv /\ [Next]_vars => [A]_vars
  BY <1>2
<1>5. Spec => []TypeOK
  BY TypeCorrect
<1>6. Spec => [][A]_vars
  BY InitType, <1>1, <1>3, <1>4, <1>5, PTL DEF Spec
<1> QED
  BY <1>6 DEF ForgottenOnlyByRetention

-----------------------------------------------------------------------------
EntryAt(i) == [asked |-> feeds[i].last_requested_at, held |-> items[i]]

-----------------------------------------------------------------------------
(* What the mapping needs beside OwnInv and StartedInv: a URL has one row,   *)
(* and a fetch carries only items its publisher published.                   *)

UniqueUrls ==
  \A i, j \in Ids :
    feeds[i] # None /\ feeds[j] # None /\ feeds[i].url = feeds[j].url => i = j

BodyInv ==
  \A e \in Fetchers : fetches[e] # None =>
    /\ fetches[e].body \subseteq upstream[fetches[e].d.url]
    /\ fetches[e].pc \in {"claimed", "read"} => fetches[e].body = {}

\* A step that gives no row another URL and inserts none.
KeepsUrls ==
  \A i \in Ids : feeds'[i] # None => feeds[i] # None /\ feeds'[i].url = feeds[i].url

LEMMA NextUnique ==
  ASSUME TypeOK, UniqueUrls, [Next]_vars
  PROVE  UniqueUrls'
<1>1. CASE KeepsUrls
  BY <1>1 DEF KeepsUrls, UniqueUrls
<1>2. ASSUME NEW u \in URL, BeginRegister(u) PROVE UniqueUrls'
  <2>1. PICK j \in Ids : feeds' = [feeds EXCEPT ![j] =
          [url |-> u, last_requested_at |-> now, title |-> None]]
    BY <1>2 DEF BeginRegister, InsertFeed
  <2>2. \A i \in Ids : feeds[i] # None => feeds[i].url # u
    BY <1>2 DEF BeginRegister, InsertFeed
  <2>3. \A i \in Ids : i # j => feeds'[i] = feeds[i]
    BY <2>1 DEF TypeOK, StoreTypeOK
  <2>4. feeds'[j].url = u
    BY <2>1 DEF TypeOK, StoreTypeOK
  <2> QED
    BY <2>2, <2>3, <2>4 DEF UniqueUrls
<1>3. ASSUME NEW i \in Ids, RequestAgain(i) PROVE KeepsUrls
  BY <1>3 DEF RequestAgain, TouchFeed, KeepsUrls, TypeOK, StoreTypeOK, FeedRow
<1>4. ASSUME Evict PROVE KeepsUrls
  BY <1>4 DEF Evict, EvictFeeds, KeepsUrls
<1>5. ASSUME NEW e \in Fetchers, FetchOne(e) PROVE KeepsUrls
  <2>1. CASE RecordOK(e)
    BY <2>1 DEF RecordOK, RecordFetchOK, KeepsUrls, TypeOK, StoreTypeOK, FeedRow
  <2>2. CASE RecordNotModified(e)
    BY <2>2 DEF RecordNotModified, RecordFetchOK, KeepsUrls, TypeOK, StoreTypeOK, FeedRow
  <2> QED
    BY <1>5, <2>1, <2>2 DEF FetchOne, StartGet, RespondNotModified, RespondOK, RespondError,
       Upsert, UpsertItems, RecordError, RecordFetchError, Prune, PruneItems, StoreFails,
       SelectFeed, SelectState, KeepsUrls, storeVars
<1>6. CASE feeds' = feeds
  BY <1>6 DEF UniqueUrls
<1> QED
  BY <1>1, <1>2, <1>3, <1>4, <1>5, <1>6
     DEF Next, Environment, Scheduler, Tick, Publish, FinishRegister, InsertFetchState,
         AbandonRegister, ClaimDueFeeds, ClaimDue, Dispatch, FetchNow, ClaimFeed,
         Restart, vars, implVars, storeVars

LEMMA NextBody ==
  ASSUME TypeOK, TypeOK', BodyInv, [Next]_vars
  PROVE  BodyInv'
<1> USE DEF BodyInv
<1>1. ASSUME upstream' = upstream, \A e \in Fetchers : fetches'[e] # None =>
               \/ fetches'[e] = fetches[e]
               \/ /\ fetches[e] # None /\ fetches'[e].body = fetches[e].body
                  /\ fetches'[e].d = fetches[e].d
                  /\ fetches'[e].pc \notin {"claimed", "read"}
               \/ fetches'[e].body = {}
      PROVE  BodyInv'
  BY <1>1
<1>2. ASSUME NEW u \in URL, Publish(u) PROVE BodyInv'
  <2>1. fetches' = fetches /\ \A v \in URL : upstream[v] \subseteq upstream'[v]
    BY <1>2 DEF Publish, procVars, TypeOK
  <2>2. \A e \in Fetchers : fetches[e] # None => fetches[e].d.url \in URL
    BY DEF TypeOK, Fetch, Due
  <2> QED
    BY <2>1, <2>2
<1>3. ASSUME NEW w \in Workers, NEW j \in Ids, Dispatch(w, j) PROVE BodyInv'
  BY <1>1, <1>3 DEF Dispatch, StartedFetch, TypeOK
<1>4. ASSUME NEW c \in Callers, NEW j \in Ids, FetchNow(c, j) PROVE BodyInv'
  BY <1>1, <1>4 DEF FetchNow, StartedFetch, TypeOK
<1>5. ASSUME NEW e \in Fetchers, FetchOne(e) PROVE BodyInv'
  <2>0. upstream' = upstream
    BY <1>5 DEF FetchOne, StartGet, RespondNotModified, RespondOK, RespondError, Upsert,
       RecordOK, RecordNotModified, RecordError, Prune, StoreFails, SelectFeed, SelectState
  <2>1. CASE StartGet(e)
    BY <2>0, <2>1, <1>1 DEF StartGet, At, TypeOK, Fetch
  <2>2. ASSUME NEW pc \in PC \ {"claimed", "read"}, fetches[e] # None, GoTo(e, pc)
        PROVE  BodyInv'
    BY <2>0, <2>2, <1>1 DEF GoTo, TypeOK, Fetch
  <2>3. ASSUME Return(e) PROVE BodyInv'
    BY <2>0, <2>3, <1>1 DEF Return, TypeOK
  <2>4. CASE RespondOK(e)
    <3> DEFINE doc == Doc(fetches[e].d.url)
    <3>1. PICK tag \in BOOLEAN : fetches' = [fetches EXCEPT ![e] =
            [fetches[e] EXCEPT !.pc = "upsert", !.body = doc, !.tag = tag]]
      BY <2>4 DEF RespondOK
    <3>2. doc \subseteq upstream[fetches[e].d.url]
      BY DEF Doc
    <3> HIDE DEF doc
    <3>3. fetches[e] # None /\ fetches[e] \in Fetch
      BY <2>4 DEF RespondOK, CanGo, At, TypeOK
    <3>4. fetches'[e].body = doc /\ fetches'[e].d = fetches[e].d /\ fetches'[e].pc = "upsert"
      BY <3>1, <3>3 DEF TypeOK, Fetch
    <3>5. \A g \in Fetchers : g # e => fetches'[g] = fetches[g]
      BY <3>1 DEF TypeOK
    <3> QED
      BY <2>0, <3>2, <3>4, <3>5
  <2>5. CASE SelectFeed(e) \/ SelectState(e)
    <3>1. ReadsRow(e)
      BY <2>5, SelectFeedReads, SelectStateReads
    <3> QED
      BY <2>0, <3>1, <1>1 DEF ReadsRow
  <2> QED
    BY <1>5, <2>1, <2>2, <2>3, <2>4, <2>5 DEF FetchOne, RespondNotModified, RespondError,
       Upsert, RecordOK, RecordNotModified, RecordError, Prune, StoreFails, CanGo, At, PC
<1>6. CASE Restart
  BY <1>6 DEF Restart
<1> QED
  BY <1>1, <1>2, <1>3, <1>4, <1>5, <1>6
     DEF Next, Environment, Scheduler, Tick, BeginRegister, FinishRegister, AbandonRegister,
         RequestAgain, ClaimDueFeeds, Evict, vars, implVars, procVars

-----------------------------------------------------------------------------
(* Entries and rows.                                                         *)

LEMMA EntryOfRow ==
  ASSUME UniqueUrls, NEW u \in URL, NEW i \in Rows(u)
  PROVE  CacheEntry(u) = EntryAt(i)
<1>1. Rows(u) = {i}
  BY DEF UniqueUrls, Rows
<1> QED
  BY <1>1 DEF CacheEntry, EntryAt

LEMMA EntryOfRowNext ==
  ASSUME UniqueUrls', NEW u \in URL, NEW i \in Rows(u)'
  PROVE  CacheEntry(u)' = EntryAt(i)'
<1>1. Rows(u)' = {i}
  BY DEF UniqueUrls, Rows
<1> QED
  BY <1>1 DEF CacheEntry, EntryAt

LEMMA EntryKept ==
  ASSUME UniqueUrls, UniqueUrls', NEW u \in URL, Rows(u)' = Rows(u),
         \A i \in Rows(u) : EntryAt(i)' = EntryAt(i)
  PROVE  CacheEntry(u)' = CacheEntry(u)
<1>1. CASE Rows(u) = {}
  BY <1>1 DEF CacheEntry
<1>2. ASSUME NEW i \in Rows(u) PROVE CacheEntry(u)' = CacheEntry(u)
  BY <1>2, EntryOfRow, EntryOfRowNext
<1> QED
  BY <1>1, <1>2

\* A step that neither inserts nor deletes rows changes no feed's rows.
SameRows ==
  \A i \in Ids : /\ feeds'[i] = None <=> feeds[i] = None
                 /\ feeds[i] # None => feeds'[i].url = feeds[i].url

LEMMA RowsKept ==
  ASSUME Observe, SameRows
  PROVE  \A u \in URL : Rows(u)' = Rows(u)
BY DEF Observe, SameRows, Rows

LEMMA StillEntries ==
  ASSUME UniqueUrls, UniqueUrls', Observe, SameRows,
         \A i \in Ids : feeds[i] # None =>
           /\ items'[i] = items[i]
           /\ feeds'[i].last_requested_at = feeds[i].last_requested_at
  PROVE  \A u \in URL : CacheEntry(u)' = CacheEntry(u)
<1> SUFFICES ASSUME NEW u \in URL PROVE CacheEntry(u)' = CacheEntry(u)
  OBVIOUS
<1>1. Rows(u)' = Rows(u)
  BY RowsKept
<1>2. \A i \in Rows(u) : EntryAt(i)' = EntryAt(i)
  BY DEF Rows, EntryAt
<1> QED
  BY <1>1, <1>2, EntryKept

\* A step on the row of one feed, or on a row that is not counted.
LEMMA OneRowStep ==
  ASSUME UniqueUrls, UniqueUrls', Observe, SameRows, NEW j \in Ids,
         \A i \in Ids \ {j} : items'[i] = items[i] /\ feeds'[i] = feeds[i]
  PROVE  \A u \in URL : j \notin Rows(u) => CacheEntry(u)' = CacheEntry(u)
<1> SUFFICES ASSUME NEW u \in URL, j \notin Rows(u)
             PROVE  CacheEntry(u)' = CacheEntry(u)
  OBVIOUS
<1>1. Rows(u)' = Rows(u)
  BY RowsKept
<1>2. \A i \in Rows(u) : EntryAt(i)' = EntryAt(i)
  BY DEF Rows, EntryAt
<1> QED
  BY <1>1, <1>2, EntryKept

EntryFun == [u \in URL |-> CacheEntry(u)]

LEMMA OneEntry ==
  ASSUME NEW u \in URL, NEW e, CacheEntry(u)' = e,
         \A v \in URL : v # u => CacheEntry(v)' = CacheEntry(v)
  PROVE  EntryFun' = [EntryFun EXCEPT ![u] = e]
BY DEF EntryFun

LEMMA SameEntries ==
  ASSUME \A v \in URL : CacheEntry(v)' = CacheEntry(v)
  PROVE  EntryFun' = EntryFun
BY DEF EntryFun

LEMMA RowOfOneUrl ==
  ASSUME NEW j \in Ids, NEW u \in URL, NEW v \in URL, j \in Rows(u), j \in Rows(v)
  PROVE  u = v
BY DEF Rows

-----------------------------------------------------------------------------
(* The steps a client sees.                                                  *)

PublishedFun == [u \in URL |-> {[url |-> u, at |-> x] : x \in upstream[u]}]

LEMMA AskSeen ==
  ASSUME TypeOK, OwnInv, UniqueUrls, UniqueUrls', NEW u \in URL, BeginRegister(u)
  PROVE  EntryFun' = EntryFun \/ (Cache!Ask(u) /\ UNCHANGED PublishedFun)
<1>1. PICK j \in Ids :
        /\ NewRowid(j)
        /\ feeds' = [feeds EXCEPT ![j] =
             [url |-> u, last_requested_at |-> now, title |-> None]]
  BY DEF BeginRegister, InsertFeed
<1>2. feeds[j] = None /\ items[j] = {} /\ items' = items /\ Observe
  BY <1>1, StoreAssumption DEF NewRowid, OwnInv, ItemsHaveFeed, BeginRegister, InsertFeed,
     Ids
<1>3. /\ feeds'[j] = [url |-> u, last_requested_at |-> now, title |-> None]
      /\ feeds'[j] # None
      /\ \A i \in Ids \ {j} : feeds'[i] = feeds[i]
  BY <1>1, StoreAssumption DEF TypeOK, StoreTypeOK, FeedRow
<1>4. \A v \in URL \ {u} : Rows(v)' = Rows(v)
  BY <1>2, <1>3 DEF Rows, Observe
<1>5. \A v \in URL \ {u} : CacheEntry(v)' = CacheEntry(v)
  BY <1>2, <1>3, <1>4, EntryKept DEF Rows, EntryAt
<1>6. Rows(u) = {}
  BY DEF Rows, BeginRegister, InsertFeed
<1>7. CASE j \in orphaned
  <2>1. Rows(u)' = {}
    BY <1>2, <1>3, <1>6, <1>7 DEF Rows, Observe
  <2>2. CacheEntry(u)' = CacheEntry(u)
    BY <1>6, <2>1 DEF CacheEntry
  <2> QED
    BY <1>5, <2>2, SameEntries
<1>8. CASE j \notin orphaned
  <2>1. j \in Rows(u)'
    BY <1>2, <1>3, <1>8 DEF Rows, Observe
  <2>2. CacheEntry(u)' = [asked |-> now, held |-> {}]
    BY <1>2, <1>3, <2>1, EntryOfRowNext DEF EntryAt
  <2>3. EntryFun' = [EntryFun EXCEPT ![u] = [asked |-> now, held |-> {}]]
    BY <1>5, <2>2, OneEntry
  <2>4. EntryFun[u] = None /\ UNCHANGED <<now, upstream>>
    BY <1>6 DEF CacheEntry, EntryFun, BeginRegister
  <2> QED
    BY <2>3, <2>4 DEF Cache!Ask, Cache!Kept, EntryFun, PublishedFun
<1> QED
  BY <1>7, <1>8

LEMMA AskAgainSeen ==
  ASSUME TypeOK, UniqueUrls, UniqueUrls', NEW j \in Ids, RequestAgain(j)
  PROVE  \/ EntryFun' = EntryFun
         \/ \E u \in URL : Cache!Ask(u) /\ UNCHANGED PublishedFun
<1>1. /\ feeds' = [feeds EXCEPT ![j] = [@ EXCEPT !.last_requested_at = now]]
      /\ feeds[j] # None /\ items' = items /\ now' = now /\ upstream' = upstream /\ Observe
  BY DEF RequestAgain, TouchFeed
<1>2. feeds[j] \in FeedRow /\ now \in Nat
  BY <1>1 DEF TypeOK, StoreTypeOK
<1>3. /\ feeds'[j].url = feeds[j].url /\ feeds'[j].last_requested_at = now
      /\ feeds'[j] # None
      /\ \A i \in Ids \ {j} : feeds'[i] = feeds[i]
  BY <1>1, <1>2, StoreAssumption DEF TypeOK, StoreTypeOK, FeedRow
<1>4. SameRows
  BY <1>1, <1>3 DEF SameRows
<1>5. \A u \in URL : j \notin Rows(u) => CacheEntry(u)' = CacheEntry(u)
  BY <1>1, <1>3, <1>4, OneRowStep
<1>6. ASSUME NEW u \in URL, j \in Rows(u)
      PROVE  Cache!Ask(u) /\ UNCHANGED PublishedFun
  <2>1. j \in Rows(u)'
    BY <1>1, <1>4, <1>6, RowsKept
  <2>2. /\ CacheEntry(u)  = [asked |-> feeds[j].last_requested_at, held |-> items[j]]
        /\ CacheEntry(u)' = [asked |-> now, held |-> items[j]]
    BY <1>1, <1>3, <1>6, <2>1, EntryOfRow, EntryOfRowNext DEF EntryAt
  <2>3. \A v \in URL : v # u => CacheEntry(v)' = CacheEntry(v)
    BY <1>5, <1>6, RowOfOneUrl
  <2>4. CacheEntry(u) # None /\ CacheEntry(u).held = items[j]
    BY <1>2, <2>2, PollerAssumption DEF TypeOK, StoreTypeOK, FeedRow
  <2>5. EntryFun' = [EntryFun EXCEPT ![u] = [asked |-> now, held |-> items[j]]]
    BY <2>2, <2>3, OneEntry
  <2> QED
    BY <1>1, <2>4, <2>5 DEF Cache!Ask, Cache!Kept, EntryFun, PublishedFun
<1> QED
  BY <1>5, <1>6, SameEntries

\* FeedCache counts with FiniteSets' Cardinality.
LEMMA SameCardinality == \A S : Cache!Cardinality(S) = Cardinality(S)
BY DEF Cardinality, Cache!Cardinality

\* A step that replaces the items of one row.
LEMMA OneRowItems ==
  ASSUME TypeOK, UniqueUrls, UniqueUrls', Observe, feeds' = feeds, NEW j \in Ids, NEW S,
         items' = [items EXCEPT ![j] = S]
  PROVE  \/ EntryFun' = EntryFun
         \/ \E u \in URL :
              /\ j \in Rows(u)
              /\ EntryFun[u] # None /\ EntryFun[u].held = items[j]
              /\ EntryFun' = [EntryFun EXCEPT ![u] = [EntryFun[u] EXCEPT !.held = S]]
<1>1. SameRows
  BY DEF SameRows
<1>2. items'[j] = S /\ \A i \in Ids \ {j} : items'[i] = items[i]
  BY DEF TypeOK, StoreTypeOK
<1>3. \A u \in URL : j \notin Rows(u) => CacheEntry(u)' = CacheEntry(u)
  BY <1>1, <1>2, OneRowStep
<1>4. ASSUME NEW u \in URL, j \in Rows(u)
      PROVE  /\ EntryFun[u] # None /\ EntryFun[u].held = items[j]
             /\ EntryFun' = [EntryFun EXCEPT ![u] = [EntryFun[u] EXCEPT !.held = S]]
  <2>1. j \in Rows(u)'
    BY <1>1, <1>4, RowsKept
  <2>2. /\ CacheEntry(u)  = [asked |-> feeds[j].last_requested_at, held |-> items[j]]
        /\ CacheEntry(u)' = [asked |-> feeds[j].last_requested_at, held |-> S]
    BY <1>2, <1>4, <2>1, EntryOfRow, EntryOfRowNext DEF EntryAt
  <2>3. \A v \in URL : v # u => CacheEntry(v)' = CacheEntry(v)
    BY <1>3, <1>4, RowOfOneUrl
  <2>4. feeds[j] \in FeedRow /\ items[j] \in SUBSET Item
    BY <1>4 DEF Rows, TypeOK, StoreTypeOK
  <2>5. EntryFun[u] = CacheEntry(u)
    BY DEF EntryFun
  <2>6. EntryFun[u] # None /\ EntryFun[u].held = items[j]
    BY <2>2, <2>4, <2>5, PollerAssumption DEF FeedRow
  <2>7. CacheEntry(u)' = [EntryFun[u] EXCEPT !.held = S]
    BY <2>2, <2>5
  <2> QED
    BY <2>3, <2>6, <2>7, OneEntry
<1> QED
  BY <1>3, <1>4, SameEntries

LEMMA CollectSeen ==
  ASSUME TypeOK, OwnInv, BodyInv, UniqueUrls, UniqueUrls', NEW e \in Fetchers, Upsert(e)
  PROVE  \/ EntryFun' = EntryFun
         \/ \E u \in URL : Cache!Collect(u)
<1> DEFINE j == fetches[e].d.id
           v == fetches[e].d.url
           new == {[url |-> v, at |-> x] : x \in fetches[e].body}
<1>1. /\ fetches[e] # None /\ fetches[e].pc = "upsert" /\ InBudget(e)
      /\ items' = [items EXCEPT ![j] = items[j] \cup new]
      /\ feeds' = feeds /\ now' = now /\ upstream' = upstream /\ Observe
  BY DEF Upsert, UpsertItems, CanGo, At
<1>2. j \in Ids /\ v \in URL
  BY <1>1 DEF TypeOK, Fetch, Due
<1>3. Holds(e, j)
  BY <1>1 DEF Holds
<1>4. new \subseteq PublishedFun[v]
  BY <1>1, <1>2 DEF BodyInv, PublishedFun
<1>5. ASSUME NEW u \in URL, j \in Rows(u) PROVE u = v
  BY <1>2, <1>3, <1>5 DEF Rows, OwnInv, OwnInvAt
<1> HIDE DEF j, v, new
<1>6. \/ EntryFun' = EntryFun
      \/ \E u \in URL :
           /\ j \in Rows(u)
           /\ EntryFun[u] # None /\ EntryFun[u].held = items[j]
           /\ EntryFun' = [EntryFun EXCEPT ![u] = [EntryFun[u] EXCEPT !.held = items[j] \cup new]]
  BY <1>1, <1>2, OneRowItems
<1>7. ASSUME NEW u \in URL, j \in Rows(u), EntryFun[u] # None, EntryFun[u].held = items[j],
             EntryFun' = [EntryFun EXCEPT ![u] = [EntryFun[u] EXCEPT !.held = items[j] \cup new]]
      PROVE  Cache!Collect(u)
  <2>1. new \in SUBSET PublishedFun[u] /\ UNCHANGED <<now, PublishedFun>>
    BY <1>1, <1>4, <1>5, <1>7 DEF PublishedFun
  <2>2. EntryFun' = [EntryFun EXCEPT ![u].held = EntryFun[u].held \cup new]
    BY <1>7
  <2> QED
    BY <1>7, <2>1, <2>2 DEF Cache!Collect, Cache!Kept, EntryFun, PublishedFun
<1> QED
  BY <1>6, <1>7

LEMMA RetireSeen ==
  ASSUME TypeOK, StartedInv, UniqueUrls, UniqueUrls', NEW e \in Fetchers, Prune(e)
  PROVE  \/ EntryFun' = EntryFun
         \/ \E u \in URL : Cache!Retire(u)
<1> DEFINE j == fetches[e].d.id
           t == fetches[e].started
           S == items[j] \ Kept(items[j], t)
<1>1. /\ items' = [items EXCEPT ![j] = Kept(items[j], t)]
      /\ feeds' = feeds /\ now' = now /\ upstream' = upstream /\ Observe
      /\ fetches[e] # None
  BY DEF Prune, PruneItems, CanGo, At
<1>2. j \in Ids /\ t \in Nat /\ t <= now /\ now \in Nat
  BY <1>1 DEF StartedInv, TypeOK, Fetch, Due
<1>3. \A x \in items[j] : x.at \in Nat
  BY <1>2 DEF TypeOK, StoreTypeOK, Item
<1>4. \A x \in S : \/ x.at + KeepFor < now
                   \/ ~(Cardinality(NewerThan(items[j], x)) < KeepItems)
  BY <1>2, <1>3, StoreAssumption DEF Kept
<1>5. Kept(items[j], t) = items[j] \ S /\ S \subseteq items[j]
  BY DEF Kept
<1> HIDE DEF j, t, S
<1>6. \/ EntryFun' = EntryFun
      \/ \E u \in URL :
           /\ j \in Rows(u)
           /\ EntryFun[u] # None /\ EntryFun[u].held = items[j]
           /\ EntryFun' = [EntryFun EXCEPT ![u] = [EntryFun[u] EXCEPT !.held = items[j] \ S]]
  BY <1>1, <1>2, <1>5, OneRowItems
<1>7. ASSUME NEW u \in URL, EntryFun[u] # None, EntryFun[u].held = items[j],
             EntryFun' = [EntryFun EXCEPT ![u] = [EntryFun[u] EXCEPT !.held = items[j] \ S]]
      PROVE  Cache!Retire(u)
  <2>1. UNCHANGED <<now, PublishedFun>>
    BY <1>1 DEF PublishedFun
  <2>2. EntryFun' = [EntryFun EXCEPT ![u].held = EntryFun[u].held \ S]
    BY <1>7
  <2>3. S \in SUBSET {x \in EntryFun[u].held : Cache!Retired(u, x)}
    BY <1>4, <1>5, <1>7, SameCardinality DEF Cache!Retired, NewerThan, EntryFun
  <2> QED
    BY <1>7, <2>1, <2>2, <2>3 DEF Cache!Retire, Cache!Kept, EntryFun, PublishedFun
<1> QED
  BY <1>6, <1>7

LEMMA ForgetSeen ==
  ASSUME TypeOK, UniqueUrls, UniqueUrls', Evict
  PROVE  \E U \in SUBSET URL : Cache!Forget(U)
<1> DEFINE U == {u \in URL : Rows(u) \cap Expired(now) # {}}
<1>1. /\ feeds' = [i \in Ids |-> IF i \in Expired(now) THEN None ELSE feeds[i]]
      /\ items' = [i \in Ids |-> IF i \in Expired(now) THEN {} ELSE items[i]]
      /\ now' = now /\ upstream' = upstream /\ Observe
  BY DEF Evict, EvictFeeds
<1>2. \A u \in URL : Rows(u)' = Rows(u) \ Expired(now)
  BY <1>1 DEF Rows, Observe
<1>3. ASSUME NEW u \in U
      PROVE  /\ CacheEntry(u) # None /\ CacheEntry(u).asked + EvictAfter < now
             /\ CacheEntry(u)' = None
  <2>1. PICK i \in Rows(u) : i \in Expired(now)
    OBVIOUS
  <2>2. Rows(u) = {i}
    BY <2>1 DEF UniqueUrls, Rows
  <2>3. CacheEntry(u) = [asked |-> feeds[i].last_requested_at, held |-> items[i]]
    BY <2>1, EntryOfRow DEF EntryAt
  <2>4. i \in Ids /\ feeds[i] \in FeedRow /\ items[i] \in SUBSET Item
    BY <2>1 DEF Rows, TypeOK, StoreTypeOK
  <2>5. CacheEntry(u) # None /\ CacheEntry(u).asked + EvictAfter < now
    BY <2>1, <2>3, <2>4, PollerAssumption DEF Expired, FeedRow
  <2>6. Rows(u)' = {}
    BY <1>2, <2>1, <2>2
  <2> QED
    BY <2>5, <2>6 DEF CacheEntry
<1>4. ASSUME NEW u \in URL \ U PROVE CacheEntry(u)' = CacheEntry(u)
  <2>1. Rows(u)' = Rows(u)
    BY <1>2
  <2>2. \A i \in Rows(u) : EntryAt(i)' = EntryAt(i)
    BY <1>1 DEF Rows, EntryAt
  <2> QED
    BY <2>1, <2>2, EntryKept
<1>5. EntryFun' = [u \in URL |-> IF u \in U THEN None ELSE EntryFun[u]]
  BY <1>3, <1>4 DEF EntryFun
<1>6. Cache!Forget(U)
  BY <1>1, <1>3, <1>5 DEF Cache!Forget, Cache!Kept, EntryFun, PublishedFun
<1> QED
  BY <1>6

-----------------------------------------------------------------------------
(* Every step is a FeedCache step or a stutter.                              *)

Silent ==
  /\ SameRows
  /\ \A i \in Ids : feeds[i] # None =>
       /\ items'[i] = items[i]
       /\ feeds'[i].last_requested_at = feeds[i].last_requested_at

\* Recording an outcome changes no item and, of a feed, at most the title.
LEMMA RecordSeen ==
  ASSUME TypeOK, NEW e \in Fetchers,
         RecordOK(e) \/ RecordNotModified(e) \/ RecordError(e)
  PROVE  Silent /\ UNCHANGED <<now, upstream>> /\ Observe
<1> USE DEF Silent, SameRows
<1>0. ASSUME NEW j \in Ids, NEW etag, NEW title \in URL \cup {None}, NEW at, NEW next,
             RecordFetchOK(j, etag, title, at, next)
      PROVE  Silent
  <2>1. \A i \in Ids \ {j} : feeds'[i] = feeds[i]
    BY <1>0 DEF RecordFetchOK, TypeOK, StoreTypeOK
  <2>2. feeds'[j] = feeds[j] \/ (feeds[j] # None /\ feeds'[j] = [feeds[j] EXCEPT !.title = title])
    BY <1>0 DEF RecordFetchOK, TypeOK, StoreTypeOK
  <2>3. feeds[j] # None => /\ [feeds[j] EXCEPT !.title = title] \in FeedRow
                           /\ [feeds[j] EXCEPT !.title = title].url = feeds[j].url
                           /\ [feeds[j] EXCEPT !.title = title].last_requested_at
                                 = feeds[j].last_requested_at
    BY DEF TypeOK, StoreTypeOK, FeedRow
  <2>4. None \notin FeedRow
    BY StoreAssumption
  <2> QED
    BY <1>0, <2>1, <2>2, <2>3, <2>4 DEF RecordFetchOK
<1>1. CASE RecordOK(e)
  <2>1. fetches[e].d.id \in Ids /\ fetches[e].d.url \in URL
    BY <1>1 DEF RecordOK, CanGo, At, TypeOK, Fetch, Due
  <2> QED
    BY <1>0, <1>1, <2>1 DEF RecordOK
<1>2. CASE RecordNotModified(e)
  <2>1. fetches[e].d.id \in Ids
    BY <1>2 DEF RecordNotModified, CanGo, At, TypeOK, Fetch, Due
  <2> QED
    BY <1>0, <1>2, <2>1 DEF RecordNotModified
<1>3. CASE RecordError(e)
  BY <1>3 DEF RecordError, RecordFetchError
<1> QED
  BY <1>1, <1>2, <1>3

LEMMA PublishSeen ==
  ASSUME TypeOK, NEW u \in URL, Publish(u), EntryFun' = EntryFun
  PROVE  Cache!Publish
<1>1. upstream' = [upstream EXCEPT ![u] = upstream[u] \cup {now}] /\ now' = now
  BY DEF Publish
<1>2. now \in Nat /\ upstream \in [URL -> SUBSET Nat]
  BY DEF TypeOK
<1>3. upstream' \in [URL -> SUBSET Nat]
  BY <1>1, <1>2
<1>4. PublishedFun' \in [URL -> SUBSET Item]
  <2>1. \A v \in URL : {[url |-> v, at |-> x] : x \in upstream'[v]} \in SUBSET Item
    BY <1>3 DEF Item
  <2> QED
    BY <2>1 DEF PublishedFun
<1>5. ASSUME NEW v \in URL
      PROVE  /\ PublishedFun[v] \subseteq PublishedFun'[v]
             /\ \A x \in PublishedFun'[v] \ PublishedFun[v] : x.at = now
  <2>1. upstream'[v] = upstream[v] \/ upstream'[v] = upstream[v] \cup {now}
    BY <1>1, <1>2
  <2>2. /\ PublishedFun[v]  = {[url |-> v, at |-> x] : x \in upstream[v]}
        /\ PublishedFun'[v] = {[url |-> v, at |-> x] : x \in upstream'[v]}
    BY DEF PublishedFun
  <2> QED
    BY <2>1, <2>2
<1> QED
  BY <1>1, <1>4, <1>5 DEF Cache!Publish, PublishedFun, EntryFun

Seen == Cache!Next \/ UNCHANGED <<now, PublishedFun, EntryFun>>

LEMMA CacheStep ==
  ASSUME TypeOK, OwnInv, BodyInv, StartedInv, UniqueUrls, UniqueUrls', [Next]_vars
  PROVE  [Cache!Next]_(Cache!cacheVars)
<1> SUFFICES Seen
  BY DEF Seen, Cache!cacheVars, EntryFun, PublishedFun
<1>1. ASSUME Silent, Observe PROVE EntryFun' = EntryFun
  BY <1>1, StillEntries, SameEntries DEF Silent
<1>2. ASSUME feeds' = feeds, items' = items, Observe PROVE EntryFun' = EntryFun
  BY <1>1, <1>2 DEF Silent, SameRows
<1>3. ASSUME feeds' = feeds, items' = items, now' = now, upstream' = upstream, Observe
      PROVE  Seen
  BY <1>2, <1>3 DEF Seen, PublishedFun
<1>4. CASE UNCHANGED vars
  BY <1>4 DEF vars, implVars, storeVars, Seen, EntryFun, PublishedFun, CacheEntry, Rows
<1>5. CASE Tick
  <2>1. EntryFun' = EntryFun
    BY <1>2, <1>5 DEF Tick, storeVars
  <2>2. now' = now + 1 /\ UNCHANGED PublishedFun
    BY <1>5 DEF Tick, PublishedFun
  <2> QED
    BY <2>1, <2>2 DEF Seen, Cache!Next, Cache!Pass, EntryFun, PublishedFun
<1>6. ASSUME NEW u \in URL, Publish(u) PROVE Seen
  <2>1. EntryFun' = EntryFun
    BY <1>2, <1>6 DEF Publish, storeVars
  <2> QED
    BY <1>6, <2>1, PublishSeen DEF Seen, Cache!Next
<1>7. ASSUME NEW u \in URL, BeginRegister(u) PROVE Seen
  <2>1. now' = now /\ UNCHANGED PublishedFun
    BY <1>7 DEF BeginRegister, PublishedFun
  <2> QED
    BY <1>7, <2>1, AskSeen DEF Seen, Cache!Next
<1>8. ASSUME NEW i \in Ids, RequestAgain(i) PROVE Seen
  <2>1. now' = now /\ UNCHANGED PublishedFun
    BY <1>8 DEF RequestAgain, PublishedFun
  <2> QED
    BY <1>8, <2>1, AskAgainSeen DEF Seen, Cache!Next
<1>9. CASE Evict
  BY <1>9, ForgetSeen DEF Seen, Cache!Next
<1>10. ASSUME NEW e \in Fetchers, FetchOne(e) PROVE Seen
  <2>1. CASE Upsert(e)
    <3>1. now' = now /\ UNCHANGED PublishedFun
      BY <2>1 DEF Upsert, PublishedFun
    <3> QED
      BY <2>1, <3>1, CollectSeen DEF Seen, Cache!Next
  <2>2. CASE Prune(e)
    <3>1. now' = now /\ UNCHANGED PublishedFun
      BY <2>2 DEF Prune, PublishedFun
    <3> QED
      BY <2>2, <3>1, RetireSeen DEF Seen, Cache!Next
  <2>3. CASE RecordOK(e) \/ RecordNotModified(e) \/ RecordError(e)
    BY <2>3, <1>1, RecordSeen DEF Seen, PublishedFun
  <2>4. CASE StartGet(e) \/ RespondNotModified(e) \/ RespondOK(e) \/ RespondError(e)
               \/ StoreFails(e) \/ SelectFeed(e) \/ SelectState(e)
    BY <2>4, <1>3 DEF StartGet, RespondNotModified, RespondOK, RespondError, StoreFails,
       SelectFeed, SelectState, storeVars
  <2> QED
    BY <1>10, <2>1, <2>2, <2>3, <2>4 DEF FetchOne
<1>11. ASSUME NEW u \in URL, FinishRegister(u) \/ AbandonRegister(u) PROVE Seen
  BY <1>3, <1>11 DEF FinishRegister, AbandonRegister, InsertFetchState, storeVars
<1>12. CASE Restart \/ ClaimDueFeeds
  BY <1>3, <1>12 DEF Restart, ClaimDueFeeds, ClaimDue, storeVars
<1>13. ASSUME NEW w \in Workers, NEW i \in Ids, Dispatch(w, i) PROVE Seen
  BY <1>3, <1>13 DEF Dispatch, storeVars
<1>14. ASSUME NEW c \in Callers, NEW i \in Ids, FetchNow(c, i)
       PROVE  Seen
  BY <1>3, <1>14 DEF FetchNow, ClaimFeed
<1> QED
  BY <1>4, <1>5, <1>6, <1>7, <1>8, <1>9, <1>10, <1>11, <1>12, <1>13, <1>14
     DEF Next, Environment, Scheduler

LEMMA CacheInit ==
  ASSUME Init
  PROVE  Cache!Init /\ UniqueUrls /\ BodyInv /\ StartedInv
<1>1. \A u \in URL : Rows(u) = {}
  BY DEF Init, StoreInit, Rows
<1>2. \A u \in URL : CacheEntry(u) = None
  BY <1>1 DEF CacheEntry
<1>3. Cache!Init
  BY <1>2 DEF Cache!Init, Init
<1> QED
  BY <1>3 DEF Init, StoreInit, UniqueUrls, BodyInv, StartedInv

\* Poller implements FeedCache: for every number of feeds, workers and
\* handlers, whatever order their steps take, and through failed statements,
\* overlapping fetches, eviction and restarts, a client sees only what
\* FeedCache promises.
THEOREM CacheImplemented == Spec => ImplementsCache
<1> DEFINE IInv == TypeOK /\ OwnInv /\ StartedInv /\ UniqueUrls /\ BodyInv
<1>1. Init => IInv /\ Cache!Init
  BY InitType, InitOwn, CacheInit
<1>2. IInv /\ [Next]_vars => IInv' /\ [Cache!Next]_(Cache!cacheVars)
  <2> SUFFICES ASSUME TypeOK, OwnInv, StartedInv, UniqueUrls, BodyInv, [Next]_vars
               PROVE  IInv' /\ [Cache!Next]_(Cache!cacheVars)
    OBVIOUS
  <2>1. TypeOK'
    BY NextType
  <2>2. OwnInv' /\ StartedInv'
    BY <2>1, NextOwn, NextStarted
  <2>3. UniqueUrls' /\ BodyInv'
    BY <2>1, NextUnique, NextBody
  <2>4. [Cache!Next]_(Cache!cacheVars)
    BY <2>3, CacheStep
  <2> QED
    BY <2>1, <2>2, <2>3, <2>4
<1> QED
  BY <1>1, <1>2, PTL DEF Spec, ImplementsCache, Cache!Spec

-----------------------------------------------------------------------------
(* Retention: dropping items leaves the KeepItems newest, so an item that    *)
(* had that many newer ones still has.                                       *)

LEMMA LeastNatural ==
  ASSUME NEW T, T \subseteq Nat, T # {}
  PROVE  \E m \in T : \A k \in T : m <= k
<1> DEFINE R == OpToRel(<, Nat)
<1>1. IsWellFoundedOn(R, Nat)
  BY NatLessThanWellFounded
<1>2. \A x, y \in Nat : <<x, y>> \in R <=> x < y
  BY DEF OpToRel
<1> HIDE DEF R
<1>3. PICK m \in T : \A k \in T : ~(<<k, m>> \in R)
  BY <1>1, WFMin
<1>4. \A k \in T : m \in Nat /\ k \in Nat /\ ~(k < m)
  BY <1>2, <1>3
<1> QED
  BY <1>4

Newer(S, x) == {y \in S : y.at > x}

LEMMA NewerCount ==
  ASSUME NEW S \in SUBSET Item, IsFiniteSet(S), NEW x \in Nat
  PROVE  IsFiniteSet(Newer(S, x)) /\ Cardinality(Newer(S, x)) \in Nat
BY FS_Subset, FS_CardinalityType DEF Newer

\* A part of S that has each of the n newest that are newer than x has n that
\* are, if S has: were one of them missing, all that is newer than the best
\* ranked of those that do is there, and it is n or more.
LEMMA NewestRemain ==
  ASSUME NEW S \in SUBSET Item, IsFiniteSet(S), NEW x \in Nat, NEW n \in Nat,
         NEW K \in SUBSET S, Cardinality(Newer(S, x)) >= n,
         \A y \in Newer(S, x) : Cardinality(NewerThan(S, y)) < n => y \in K
  PROVE  Cardinality(Newer(K, x)) >= n
<1> DEFINE C(y) == Cardinality(NewerThan(S, y))
           N == Newer(S, x)
           Lost == {y \in N : ~(C(y) < n)}
<1>0. \A y \in S : y.at \in Nat /\ NewerThan(S, y) = Newer(S, y.at)
  BY DEF Item, NewerThan, Newer
<1>1. \A y \in S : C(y) \in Nat /\ IsFiniteSet(NewerThan(S, y))
  BY <1>0, NewerCount
<1>2. IsFiniteSet(K) /\ K \in SUBSET Item
  BY FS_Subset
<1>3. \A y \in N : C(y) < n => y \in Newer(K, x)
  BY DEF Newer
<1>4. CASE Lost = {}
  <2>1. Newer(K, x) = N
    BY <1>3, <1>4 DEF Newer
  <2> QED
    BY <2>1
<1>5. CASE Lost # {}
  <2>1. PICK m \in {C(y) : y \in Lost} : \A k \in {C(y) : y \in Lost} : m <= k
    <3> DEFINE T == {C(y) : y \in Lost}
    <3>1. T \subseteq Nat
      BY <1>1 DEF Newer
    <3>2. T # {}
      BY <1>5
    <3> QED
      BY <3>1, <3>2, LeastNatural
  <2>2. PICK y \in Lost : m = C(y)
    BY <2>1
  <2>3. y \in S /\ y.at > x
    BY DEF Newer
  <2>4. ASSUME NEW z \in NewerThan(S, y) PROVE C(z) < C(y)
    <3>1. z \in S /\ z.at > y.at /\ z.at \in Nat /\ y.at \in Nat
      BY <1>0, <2>3 DEF NewerThan
    <3>2. NewerThan(S, z) \subseteq NewerThan(S, y) /\ z \notin NewerThan(S, z)
      BY <1>0, <3>1 DEF NewerThan
    <3>3. C(z) <= C(y) /\ C(z) # C(y)
      BY <1>1, <2>3, <3>2, FS_Subset
    <3> QED
      BY <1>1, <2>3, <3>1, <3>3
  <2>5. NewerThan(S, y) \subseteq Newer(K, x)
    <3> SUFFICES ASSUME NEW z \in NewerThan(S, y) PROVE z \in Newer(K, x)
      OBVIOUS
    <3>1. z \in N
      BY <1>0, <2>3 DEF NewerThan, Newer
    <3>2. C(z) < C(y) /\ C(z) \in Nat /\ C(y) \in Nat
      BY <2>4, <1>1, <2>3, <3>1 DEF Newer
    <3>3. z \notin Lost
      BY <2>1, <2>2, <3>2
    <3> QED
      BY <1>3, <3>1, <3>3
  <2>6. /\ IsFiniteSet(Newer(K, x))
        /\ Cardinality(Newer(K, x)) \in Nat
    BY <1>2, NewerCount
  <2>7. C(y) <= Cardinality(Newer(K, x))
    BY <2>5, <2>6, FS_Subset
  <2>8. n <= C(y)
    BY <1>1, <2>3
  <2> QED
    BY <1>1, <2>3, <2>6, <2>7, <2>8
<1> QED
  BY <1>4, <1>5

LEMMA RetentionKeepsNewest ==
  ASSUME NEW S \in SUBSET Item, IsFiniteSet(S), NEW x \in Nat, NEW t \in Nat,
         x + KeepFor >= t, Cardinality(Newer(S, x)) >= KeepItems
  PROVE  Cardinality(Newer(Kept(S, t), x)) >= KeepItems
<1>1. Kept(S, t) \in SUBSET S /\ KeepItems \in Nat
  BY StoreAssumption DEF Kept
<1>2. \A y \in Newer(S, x) : Cardinality(NewerThan(S, y)) < KeepItems => y \in Kept(S, t)
  BY StoreAssumption DEF Newer, Kept, Item
<1> QED
  BY <1>1, <1>2, NewestRemain

-----------------------------------------------------------------------------
(* The items of a feed that are safe (stored, or dropped by retention) and   *)
(* those its publisher lists: in every step of a row's life the former only  *)
(* grow, and the latter only get what is published now.                      *)

Safe(i)   == {x \in Nat : StoredOrRetired(i, x)}
DocOf(i) == Doc(feeds[i].url)

FiniteInv ==
  /\ \A i \in Ids : IsFiniteSet(items[i])
  /\ \A u \in URL : IsFiniteSet(upstream[u])

LEMMA ItemsOfFinite ==
  ASSUME NEW B, IsFiniteSet(B), NEW u
  PROVE  IsFiniteSet({[url |-> u, at |-> x] : x \in B})
<1> DEFINE T == {[url |-> u, at |-> x] : x \in B}
           f == [x \in B |-> [url |-> u, at |-> x]]
<1>1. f \in Surjection(B, T)
  BY DEF Surjection
<1> QED
  BY <1>1, FS_Surjection

LEMMA NextFinite ==
  ASSUME TypeOK, TypeOK', BodyInv, FiniteInv, [Next]_vars
  PROVE  FiniteInv'
<1> USE DEF FiniteInv
<1>1. CASE UNCHANGED <<items, upstream>>
  BY <1>1
<1>2. ASSUME NEW u \in URL, Publish(u) PROVE FiniteInv'
  <2>1. items' = items /\ \A v \in URL : upstream'[v] \in {upstream[v], upstream[v] \cup {now}}
    BY <1>2 DEF Publish, storeVars, TypeOK
  <2>2. \A v \in URL : IsFiniteSet(upstream[v] \cup {now})
    BY FS_AddElement
  <2> QED
    BY <2>1, <2>2
<1>3. CASE Evict
  BY <1>3, FS_EmptySet DEF Evict, EvictFeeds
<1>4. ASSUME NEW e \in Fetchers, Upsert(e) PROVE FiniteInv'
  <2> DEFINE f   == fetches[e]
             new == {[url |-> f.d.url, at |-> x] : x \in f.body}
  <2>1. f.d.url \in URL /\ f.body \subseteq upstream[f.d.url]
    BY <1>4 DEF Upsert, CanGo, At, TypeOK, Fetch, Due, BodyInv
  <2>2. IsFiniteSet(f.body)
    BY <2>1, FS_Subset
  <2>3. IsFiniteSet(new)
    BY <2>2, ItemsOfFinite
  <2>4. upstream' = upstream /\ items' = [items EXCEPT ![f.d.id] = @ \cup new]
    BY <1>4 DEF Upsert, UpsertItems
  <2> HIDE DEF new, f
  <2>5. \A i \in Ids : items'[i] \in {items[i], items[i] \cup new}
    BY <2>4 DEF TypeOK, StoreTypeOK
  <2>6. \A i \in Ids : IsFiniteSet(items[i] \cup new)
    BY <2>3, FS_Union
  <2> QED
    BY <2>4, <2>5, <2>6
<1>5. ASSUME NEW e \in Fetchers, Prune(e) PROVE FiniteInv'
  <2>1. upstream' = upstream /\ \A i \in Ids : items'[i] \in SUBSET items[i]
    BY <1>5 DEF Prune, PruneItems, Kept, TypeOK, StoreTypeOK
  <2> QED
    BY <2>1, FS_Subset
<1> QED
  BY <1>1, <1>2, <1>3, <1>4, <1>5
     DEF Next, Environment, Scheduler, FetchOne, Tick, BeginRegister, InsertFeed,
         FinishRegister, InsertFetchState, AbandonRegister, RequestAgain, TouchFeed, Restart,
         ClaimDueFeeds, ClaimDue, Dispatch, FetchNow, ClaimFeed, SelectFeed, SelectState, StartGet,
         RespondNotModified, RespondOK, RespondError, RecordOK, RecordFetchOK,
         RecordNotModified, RecordError, RecordFetchError, StoreFails, storeVars, vars, implVars

LEMMA SafeStored ==
  ASSUME TypeOK, TypeOK', FiniteInv, FiniteInv', NEW i \in Ids,
         feeds'[i].url = feeds[i].url, now <= now', items[i] \subseteq items'[i]
  PROVE  Safe(i) \subseteq Safe(i)'
<1> SUFFICES ASSUME NEW x \in Nat, StoredOrRetired(i, x)
             PROVE  StoredOrRetired(i, x)'
  BY DEF Safe
<1> DEFINE N == {y \in items[i] : y.at > x}
           M == {y \in items'[i] : y.at > x}
<1>1. CASE [url |-> feeds[i].url, at |-> x] \in items[i]
  BY <1>1 DEF StoredOrRetired
<1>2. CASE x + KeepFor < now
  <2>1. x + KeepFor < now'
    BY <1>2, StoreAssumption DEF TypeOK
  <2> QED
    BY <2>1 DEF StoredOrRetired
<1>3. CASE Cardinality(N) >= KeepItems
  <2>1. N \in SUBSET M /\ IsFiniteSet(M)
    BY FS_Subset DEF FiniteInv
  <2>2. IsFiniteSet(N) /\ Cardinality(N) <= Cardinality(M)
    BY <2>1, FS_Subset
  <2>3. Cardinality(N) \in Nat /\ Cardinality(M) \in Nat /\ KeepItems \in Nat
    BY <2>1, <2>2, FS_CardinalityType, StoreAssumption
  <2>4. Cardinality(M) >= KeepItems
    BY <1>3, <2>2, <2>3
  <2> QED
    BY <2>4 DEF StoredOrRetired
<1> QED
  BY <1>1, <1>2, <1>3 DEF StoredOrRetired

LEMMA SafePruned ==
  ASSUME TypeOK, FiniteInv, NEW i \in Ids, NEW t \in Nat, t <= now,
         feeds'[i].url = feeds[i].url, now' = now, items'[i] = Kept(items[i], t)
  PROVE  Safe(i) \subseteq Safe(i)'
<1> SUFFICES ASSUME NEW x \in Nat, StoredOrRetired(i, x)
             PROVE  StoredOrRetired(i, x)'
  BY DEF Safe
<1> DEFINE S == items[i]
           r == [url |-> feeds[i].url, at |-> x]
<1>1. S \in SUBSET Item /\ IsFiniteSet(S) /\ now \in Nat /\ KeepItems \in Nat /\ KeepFor \in Nat
  BY StoreAssumption DEF TypeOK, StoreTypeOK, FiniteInv
<1>2. CASE x + KeepFor < now
  BY <1>2 DEF StoredOrRetired
<1>3. CASE ~(x + KeepFor < now) /\ Cardinality(Newer(S, x)) >= KeepItems
  <2>1. Cardinality(Newer(Kept(S, t), x)) >= KeepItems
    BY <1>1, <1>3, RetentionKeepsNewest
  <2> QED
    BY <2>1 DEF StoredOrRetired, Newer
<1>4. CASE ~(x + KeepFor < now) /\ r \in S /\ ~(Cardinality(Newer(S, x)) >= KeepItems)
  <2>1. NewerThan(S, r) = Newer(S, x)
    BY DEF NewerThan, Newer
  <2>2. Cardinality(Newer(S, x)) \in Nat
    BY <1>1, NewerCount
  <2>3. r \in Kept(S, t)
    BY <1>1, <1>4, <2>1, <2>2 DEF Kept
  <2> QED
    BY <2>3 DEF StoredOrRetired
<1> QED
  BY <1>2, <1>3, <1>4 DEF StoredOrRetired, Newer

LEMMA DocGrows ==
  ASSUME FiniteInv, FiniteInv', NEW u \in URL, upstream[u] \subseteq upstream'[u],
         upstream'[u] \subseteq upstream[u] \cup {now}, DocSize \in Nat
  PROVE  Doc(u)' \subseteq Doc(u) \cup {now}
<1> SUFFICES ASSUME NEW x \in Doc(u)', x # now
             PROVE  x \in Doc(u)
  OBVIOUS
<1> DEFINE N == {y \in upstream[u] : y > x}
           M == {y \in upstream'[u] : y > x}
<1>1. x \in upstream[u] /\ Cardinality(M) < DocSize
  BY DEF Doc
<1>2. N \in SUBSET M /\ IsFiniteSet(M)
  BY FS_Subset DEF FiniteInv
<1>3. IsFiniteSet(N) /\ Cardinality(N) <= Cardinality(M)
  BY <1>2, FS_Subset
<1>4. Cardinality(N) \in Nat /\ Cardinality(M) \in Nat
  BY <1>2, <1>3, FS_CardinalityType
<1>5. Cardinality(N) < DocSize
  BY <1>1, <1>3, <1>4
<1> QED
  BY <1>1, <1>5 DEF Doc

LEMMA UrlKept ==
  ASSUME TypeOK, [Next]_vars, NEW i \in Ids, feeds[i] # None, feeds'[i] # None
  PROVE  feeds'[i].url = feeds[i].url
<1>1. ASSUME NEW u \in URL, BeginRegister(u) PROVE feeds'[i].url = feeds[i].url
  <2>1. PICK j \in Ids :
          /\ NewRowid(j)
          /\ feeds' = [feeds EXCEPT ![j] =
               [url |-> u, last_requested_at |-> now, title |-> None]]
    BY <1>1 DEF BeginRegister, InsertFeed
  <2>2. i # j
    BY <2>1 DEF NewRowid, Ids
  <2> QED
    BY <2>1, <2>2
<1>2. ASSUME NEW j \in Ids, RequestAgain(j) PROVE feeds'[i].url = feeds[i].url
  BY <1>2 DEF RequestAgain, TouchFeed, TypeOK, StoreTypeOK, FeedRow
<1>3. CASE Evict
  BY <1>3 DEF Evict, EvictFeeds
<1>4. ASSUME NEW e \in Fetchers, FetchOne(e) PROVE feeds'[i].url = feeds[i].url
  <2>1. CASE RecordOK(e)
    BY <2>1 DEF RecordOK, RecordFetchOK, TypeOK, StoreTypeOK, FeedRow
  <2>2. CASE RecordNotModified(e)
    BY <2>2 DEF RecordNotModified, RecordFetchOK, TypeOK, StoreTypeOK, FeedRow
  <2> QED
    BY <1>4, <2>1, <2>2 DEF FetchOne, StartGet, RespondNotModified, RespondOK, RespondError,
       Upsert, UpsertItems, RecordError, RecordFetchError, Prune, PruneItems, StoreFails,
       SelectFeed, SelectState, storeVars
<1>5. CASE feeds' = feeds
  BY <1>5
<1> QED
  BY <1>1, <1>2, <1>3, <1>4, <1>5
     DEF Next, Environment, Scheduler, Tick, Publish, FinishRegister, InsertFetchState,
         AbandonRegister, ClaimDueFeeds, ClaimDue, Dispatch, FetchNow, ClaimFeed,
         Restart, vars, implVars, storeVars

LEMMA DocLives ==
  ASSUME TypeOK, TypeOK', FiniteInv, FiniteInv', [Next]_vars
  PROVE  /\ now <= now'
         /\ \A u \in URL : Doc(u)' \subseteq Doc(u) \cup {now}
<1>1. now \in Nat /\ now' \in Nat
  BY DEF TypeOK
<1>2. /\ \A u \in URL : upstream'[u] \in {upstream[u], upstream[u] \cup {now}}
      /\ now' \in {now, now + 1}
  <2>1. ASSUME NEW u \in URL, Publish(u)
        PROVE  /\ now' = now
               /\ \A v \in URL : upstream'[v] \in {upstream[v], upstream[v] \cup {now}}
    BY <2>1 DEF Publish, TypeOK
  <2> QED
    BY <2>1
       DEF Next, Environment, Scheduler, FetchOne, Tick, BeginRegister,
         FinishRegister, AbandonRegister, RequestAgain, Restart, Evict, Upsert, Prune,
         ClaimDueFeeds, Dispatch, FetchNow, SelectFeed, SelectState, StartGet,
         RespondNotModified, RespondOK, RespondError, RecordOK,
         RecordNotModified, RecordError, StoreFails, vars, implVars
<1>3. now <= now'
  BY <1>1, <1>2
<1>4. \A u \in URL : Doc(u)' \subseteq Doc(u) \cup {now}
  BY <1>2, DocGrows, PollerAssumption
<1> QED
  BY <1>3, <1>4

LEMMA RowLives ==
  ASSUME TypeOK, TypeOK', FiniteInv, FiniteInv', StartedInv, [Next]_vars,
         NEW i \in Ids, feeds[i] # None, feeds'[i] # None
  PROVE  /\ feeds'[i].url = feeds[i].url
         /\ Safe(i) \subseteq Safe(i)'
         /\ DocOf(i)' \subseteq DocOf(i) \cup {now}
         /\ now <= now'
<1>1. feeds'[i].url = feeds[i].url
  BY UrlKept
<1>2. feeds[i].url \in URL /\ now \in Nat /\ now' \in Nat
  BY DEF TypeOK, StoreTypeOK, FeedRow
<1>3. now <= now'
  BY DocLives
<1>4. DocOf(i)' \subseteq DocOf(i) \cup {now}
  <2>1. \A v \in URL : Doc(v)' \subseteq Doc(v) \cup {now}
    BY DocLives
  <2>2. PICK v \in URL : v = feeds[i].url /\ v = feeds'[i].url
    BY <1>1, <1>2
  <2>3. DocOf(i) = Doc(v) /\ DocOf(i)' = Doc(v)'
    BY <2>2 DEF DocOf, Doc
  <2> QED
    BY <2>1, <2>3
<1>5. Safe(i) \subseteq Safe(i)'
  <2>1. CASE items[i] \subseteq items'[i]
    BY <1>1, <1>3, <2>1, SafeStored
  <2>2. CASE Evict
    <3>1. i \notin Expired(now)
      BY <2>2 DEF Evict, EvictFeeds
    <3>2. items'[i] = items[i]
      BY <2>2, <3>1 DEF Evict, EvictFeeds
    <3> QED
      BY <2>1, <3>2
  <2>3. ASSUME NEW e \in Fetchers, Prune(e) PROVE Safe(i) \subseteq Safe(i)'
    <3> DEFINE j == fetches[e].d.id
               t == fetches[e].started
    <3>1. j \in Ids /\ t \in Nat /\ t <= now /\ now' = now
      BY <2>3 DEF Prune, CanGo, At, StartedInv, TypeOK, Fetch, Due
    <3>2. \A k \in Ids : items'[k] = IF k = j THEN Kept(items[k], t) ELSE items[k]
      BY <2>3 DEF Prune, PruneItems, TypeOK, StoreTypeOK
    <3> HIDE DEF j, t
    <3>3. CASE i = j
      BY <1>1, <3>1, <3>2, <3>3, SafePruned
    <3>4. CASE i # j
      BY <2>1, <3>2, <3>4
    <3> QED
      BY <3>3, <3>4
  <2>4. ASSUME NEW e \in Fetchers, Upsert(e) PROVE items[i] \subseteq items'[i]
    BY <2>4 DEF Upsert, UpsertItems, TypeOK, StoreTypeOK
  <2>5. CASE items' = items
    BY <2>1, <2>5
  <2> QED
    BY <2>1, <2>2, <2>3, <2>4, <2>5
       DEF Next, Environment, Scheduler, FetchOne, Tick, Publish, BeginRegister, InsertFeed,
         FinishRegister, InsertFetchState, AbandonRegister, RequestAgain, TouchFeed, Restart,
         ClaimDueFeeds, ClaimDue, Dispatch, FetchNow, ClaimFeed, SelectFeed, SelectState, StartGet,
         RespondNotModified, RespondOK, RespondError, RecordOK, RecordFetchOK,
         RecordNotModified, RecordError, RecordFetchError, StoreFails, storeVars, vars, implVars
<1> QED
  BY <1>1, <1>3, <1>4, <1>5

-----------------------------------------------------------------------------
(* The invariant.  S and L are the safe and the listed items of a feed, t    *)
(* the time: all that a row's validator covers is safe, and so is all that   *)
(* was listed before its last good fetch.  A claim carries the row's         *)
(* validator with it; a fetch has in hand, or the validator that was         *)
(* confirmed stands for, all that was listed before it started; once its     *)
(* items are written, they are safe.                                         *)

ClaimOK(d, S) == d.etag = None \/ d.etag.doc \subseteq S

RowOK(r, S, L, t) ==
  /\ r.etag = None \/ r.etag.doc \subseteq S
  /\ r.last_ok_at = None \/
       (r.last_ok_at <= t /\ \A x \in L : x < r.last_ok_at => x \in S)

FetchOK(f, S, L, t) ==
  /\ ClaimOK(f.d, S)
  /\ f.started <= t
  /\ f.pc = "record" => f.body \subseteq S
  /\ f.pc \in {"upsert", "record"} => \A x \in L : x < f.started => x \in f.body
  /\ f.pc = "notmod" =>
       f.d.etag # None /\ \A x \in L : x < f.started => x \in f.d.etag.doc

FreshInvAt(i) ==
  feeds[i] # None =>
    /\ fetch_state[i] # None => RowOK(fetch_state[i], Safe(i), DocOf(i), now)
    /\ batch[i] # None => ClaimOK(batch[i], Safe(i))
    /\ \A e \in Fetchers : Holds(e, i) => FetchOK(fetches[e], Safe(i), DocOf(i), now)

StatesHaveFeed == \A i \in Ids : feeds[i] = None => fetch_state[i] = None

FreshInv == StatesHaveFeed /\ \A i \in Ids \ orphaned : FreshInvAt(i)

\* What a step has to show of a feed that is not orphaned: with the sets as
\* they were before it, except that a fetch may have made its items safe.
RowStep(i) ==
  fetch_state'[i] # None =>
    feeds[i] # None /\ RowOK(fetch_state'[i], Safe(i), DocOf(i), now)

ClaimStep(i) ==
  batch'[i] # None => feeds[i] # None /\ ClaimOK(batch'[i], Safe(i))

FetchStep(e, i) ==
  Holds(e, i)' =>
    /\ feeds[i] # None
    /\ \/ FetchOK(fetches'[e], Safe(i), DocOf(i), now)
       \/ FetchOK(fetches'[e], Safe(i)', DocOf(i), now)

StepOK(i) == RowStep(i) /\ ClaimStep(i) /\ \A e \in Fetchers : FetchStep(e, i)

LEMMA RowOKLater ==
  ASSUME NEW r \in StateRow, NEW S, NEW T, NEW L, NEW M, NEW t \in Nat, NEW s \in Nat,
         RowOK(r, S, L, t), S \subseteq T, M \subseteq L \cup {t}, t <= s
  PROVE  RowOK(r, T, M, s)
<1>1. r.last_ok_at \in Nat \cup {None}
  BY DEF StateRow
<1> QED
  BY <1>1 DEF RowOK

LEMMA FetchOKLater ==
  ASSUME NEW f \in Fetch, NEW S, NEW T, NEW L, NEW M, NEW t \in Nat, NEW s \in Nat,
         FetchOK(f, S, L, t), S \subseteq T, M \subseteq L \cup {t}, t <= s
  PROVE  FetchOK(f, T, M, s)
<1>1. f.started \in Nat /\ f.started <= t
  BY DEF Fetch, FetchOK
<1>2. \A x \in M : x < f.started => x \in L
  BY <1>1
<1>3. f.started <= s
  BY <1>1
<1> QED
  BY <1>2, <1>3 DEF FetchOK, ClaimOK

LEMMA StepSuffices ==
  ASSUME TypeOK, TypeOK', FiniteInv, FiniteInv', StartedInv, [Next]_vars,
         NEW i \in Ids, StepOK(i)
  PROVE  FreshInvAt(i)'
<1> SUFFICES ASSUME feeds'[i] # None
             PROVE  /\ fetch_state'[i] # None =>
                         RowOK(fetch_state'[i], Safe(i)', DocOf(i)', now')
                    /\ batch'[i] # None => ClaimOK(batch'[i], Safe(i)')
                    /\ \A e \in Fetchers : Holds(e, i)' =>
                         FetchOK(fetches'[e], Safe(i)', DocOf(i)', now')
  BY DEF FreshInvAt
<1>1. feeds[i] # None =>
        /\ Safe(i) \subseteq Safe(i)'
        /\ DocOf(i)' \subseteq DocOf(i) \cup {now}
        /\ now <= now'
  BY RowLives
<1>2. now \in Nat /\ now' \in Nat
  BY DEF TypeOK
<1>3. fetch_state'[i] # None => RowOK(fetch_state'[i], Safe(i)', DocOf(i)', now')
  <2>1. fetch_state'[i] # None => fetch_state'[i] \in StateRow
    BY DEF TypeOK, StoreTypeOK
  <2> QED
    BY <1>1, <1>2, <2>1, RowOKLater DEF StepOK, RowStep
<1>4. batch'[i] # None => ClaimOK(batch'[i], Safe(i)')
  BY <1>1 DEF StepOK, ClaimStep, ClaimOK
<1>5. ASSUME NEW e \in Fetchers, Holds(e, i)'
      PROVE  FetchOK(fetches'[e], Safe(i)', DocOf(i)', now')
  <2>1. fetches'[e] \in Fetch
    BY <1>5 DEF Holds, TypeOK
  <2>2. /\ feeds[i] # None
        /\ \/ FetchOK(fetches'[e], Safe(i), DocOf(i), now)
           \/ FetchOK(fetches'[e], Safe(i)', DocOf(i), now)
    BY <1>5 DEF StepOK, FetchStep
  <2> QED
    BY <1>1, <1>2, <2>1, <2>2, FetchOKLater
<1> QED
  BY <1>3, <1>4, <1>5

\* What leaves the row, the claim in the batch or the fetches as they are.
LEMMA SameStep ==
  ASSUME OwnInv, FreshInv, NEW i \in Ids \ orphaned
  PROVE  /\ fetch_state'[i] \in {fetch_state[i], None} => RowStep(i)
         /\ batch'[i] \in {batch[i], None} => ClaimStep(i)
         /\ \A e \in Fetchers :
              (Holds(e, i)' => Holds(e, i) /\ fetches'[e] = fetches[e]) => FetchStep(e, i)
<1>1. OwnInvAt(i) /\ FreshInvAt(i) /\ (feeds[i] = None => fetch_state[i] = None)
  BY DEF OwnInv, FreshInv, StatesHaveFeed
<1> QED
  BY <1>1 DEF OwnInvAt, FreshInvAt, RowStep, ClaimStep, FetchStep

LEMMA NotOrphanedBefore ==
  ASSUME [Next]_vars, NEW i \in Ids \ orphaned', feeds'[i] # None
  PROVE  i \notin orphaned
<1>1. CASE Observe
  BY <1>1 DEF Observe
<1> QED
  BY <1>1 DEF Next, Environment, Scheduler, FetchOne, Tick, Publish, BeginRegister,
     FinishRegister, AbandonRegister, RequestAgain, Restart, Evict, Upsert, Prune,
     ClaimDueFeeds, Dispatch, FetchNow, SelectFeed, SelectState, StartGet, RespondNotModified,
     RespondOK, RespondError, RecordOK, RecordNotModified, RecordError, StoreFails, vars

LEMMA NextStatesHaveFeed ==
  ASSUME TypeOK, StatesHaveFeed, [Next]_vars
  PROVE  StatesHaveFeed'
<1> USE DEF StatesHaveFeed
<1>1. ASSUME \A i \in Ids : fetch_state'[i] # None => fetch_state[i] # None,
             \A i \in Ids : feeds[i] # None => feeds'[i] # None
      PROVE  StatesHaveFeed'
  BY <1>1
<1>2. ASSUME NEW u \in URL, BeginRegister(u) PROVE StatesHaveFeed'
  <2>1. fetch_state' = fetch_state /\ \A i \in Ids : feeds[i] # None => feeds'[i] # None
    BY <1>2, StoreAssumption DEF BeginRegister, InsertFeed, TypeOK, StoreTypeOK, FeedRow
  <2> QED
    BY <1>1, <2>1
<1>3. ASSUME NEW u \in URL, FinishRegister(u) PROVE StatesHaveFeed'
  BY <1>3 DEF FinishRegister, InsertFetchState, TypeOK, StoreTypeOK
<1>4. ASSUME NEW i \in Ids, RequestAgain(i) PROVE StatesHaveFeed'
  <2>1. fetch_state' = fetch_state /\ \A j \in Ids : feeds[j] # None => feeds'[j] # None
    BY <1>4, StoreAssumption DEF RequestAgain, TouchFeed, TypeOK, StoreTypeOK, FeedRow
  <2> QED
    BY <1>1, <2>1
<1>5. CASE Evict
  BY <1>5 DEF Evict, EvictFeeds
<1>6. ASSUME NEW S \in SUBSET Ids, NEW until, Lock(S, until), \A i \in S : fetch_state[i] # None,
             feeds' = feeds
      PROVE  StatesHaveFeed'
  BY <1>6 DEF Lock
<1>7. ASSUME ClaimDueFeeds PROVE StatesHaveFeed'
  BY <1>7, <1>6 DEF ClaimDueFeeds, ClaimDue, ClaimableBatch, IsDue
<1>8. ASSUME NEW c \in Callers, NEW i \in Ids, FetchNow(c, i)
      PROVE  StatesHaveFeed'
  BY <1>8, <1>6 DEF FetchNow, ClaimFeed
<1>9. ASSUME NEW i \in Ids, NEW etag, NEW title \in URL \cup {None}, NEW at, NEW next,
             RecordFetchOK(i, etag, title, at, next)
      PROVE  StatesHaveFeed'
  <2>1. \A j \in Ids : fetch_state'[j] # None => fetch_state[j] # None
    BY <1>9 DEF RecordFetchOK, TypeOK, StoreTypeOK
  <2>2. \A j \in Ids : feeds[j] # None => feeds'[j] # None
    <3> SUFFICES ASSUME feeds[i] # None PROVE feeds'[i] # None
      BY <1>9 DEF RecordFetchOK
    <3>1. feeds'[i] \in FeedRow
      BY <1>9 DEF RecordFetchOK, TypeOK, StoreTypeOK, FeedRow
    <3> QED
      BY <3>1, StoreAssumption
  <2> QED
    BY <1>1, <2>1, <2>2
<1>10. ASSUME NEW e \in Fetchers, RecordOK(e) PROVE StatesHaveFeed'
  <2>1. fetches[e].d.id \in Ids /\ fetches[e].d.url \in URL
    BY <1>10 DEF RecordOK, CanGo, At, TypeOK, Fetch, Due
  <2> QED
    BY <1>9, <1>10, <2>1 DEF RecordOK
<1>11. ASSUME NEW e \in Fetchers, RecordNotModified(e) PROVE StatesHaveFeed'
  <2>1. fetches[e].d.id \in Ids
    BY <1>11 DEF RecordNotModified, CanGo, At, TypeOK, Fetch, Due
  <2> QED
    BY <1>9, <1>11, <2>1 DEF RecordNotModified
<1>12. ASSUME NEW e \in Fetchers, RecordError(e) PROVE StatesHaveFeed'
  BY <1>12 DEF RecordError, RecordFetchError, TypeOK, StoreTypeOK
<1>13. CASE UNCHANGED <<feeds, fetch_state>>
  BY <1>13
<1> QED
  BY <1>2, <1>3, <1>4, <1>5, <1>7, <1>8, <1>10, <1>11, <1>12, <1>13
     DEF Next, Environment, Scheduler, FetchOne, Tick, Publish, AbandonRegister, Restart,
         Dispatch, SelectFeed, SelectState, StartGet, RespondNotModified, RespondOK,
         RespondError, Upsert, UpsertItems,
         Prune, PruneItems, StoreFails, storeVars, vars, implVars

\* Steps of the world, of handlers that register, of eviction, and restarts.
LEMMA EnvironmentFresh ==
  ASSUME TypeOK, TypeOK', OwnInv, FreshInv, NEW i \in Ids \ orphaned, feeds'[i] # None,
         Environment \/ Evict \/ UNCHANGED vars
  PROVE  StepOK(i)
<1> USE DEF StepOK
<1>0. /\ fetch_state'[i] \in {fetch_state[i], None} => RowStep(i)
      /\ batch'[i] \in {batch[i], None} => ClaimStep(i)
      /\ \A e \in Fetchers :
           (Holds(e, i)' => Holds(e, i) /\ fetches'[e] = fetches[e]) => FetchStep(e, i)
  BY SameStep
<1>1. CASE Tick
  <2>1. fetches' = fetches /\ now \in Nat /\ now' = now + 1 /\ UNCHANGED <<fetch_state, batch>>
    BY <1>1 DEF Tick, procVars, storeVars, TypeOK
  <2>2. ASSUME NEW e \in Fetchers, Holds(e, i)' PROVE Holds(e, i)
    <3>1. fetches[e] # None /\ fetches[e].d.lease \in Nat
      BY <2>1, <2>2 DEF Holds, TypeOK, Fetch, Due
    <3> QED
      BY <2>1, <2>2, <3>1, StoreAssumption, PollerAssumption DEF Holds, InBudget
  <2> QED
    BY <1>0, <2>1, <2>2
<1>2. ASSUME UNCHANGED <<now, fetches, batch>>, fetch_state'[i] \in {fetch_state[i], None}
      PROVE  StepOK(i)
  BY <1>0, <1>2 DEF Holds, InBudget
<1>3. ASSUME NEW u \in URL, FinishRegister(u) PROVE StepOK(i)
  <2>1. PICK j \in Ids : InsertFetchState(j, now)
    BY <1>3 DEF FinishRegister
  <2>2. UNCHANGED <<feeds, now, fetches, batch>>
    BY <1>3, <2>1 DEF FinishRegister, InsertFetchState
  <2>3. CASE i # j
    BY <1>2, <2>1, <2>2, <2>3 DEF InsertFetchState
  <2>4. CASE i = j
    <3>1. fetch_state'[i].etag = None /\ fetch_state'[i].last_ok_at = None
      BY <2>1, <2>4 DEF InsertFetchState, TypeOK, StoreTypeOK
    <3>2. RowStep(i)
      BY <2>2, <3>1 DEF RowStep, RowOK
    <3> QED
      BY <1>0, <2>2, <3>2 DEF Holds, InBudget
  <2> QED
    BY <2>3, <2>4
<1>4. CASE Evict
  <2>1. fetch_state'[i] \in {fetch_state[i], None}
    BY <1>4 DEF Evict, EvictFeeds
  <2> QED
    BY <1>2, <1>4, <2>1 DEF Evict, procVars
<1>5. CASE Restart
  <2>1. UNCHANGED fetch_state /\ batch'[i] = None /\ \A e \in Fetchers : ~Holds(e, i)'
    BY <1>5 DEF Restart, storeVars, Holds
  <2> QED
    BY <1>0, <2>1
<1> QED
  BY <1>1, <1>2, <1>3, <1>4, <1>5
     DEF Environment, Publish, BeginRegister, InsertFeed, AbandonRegister, RequestAgain,
         TouchFeed, storeVars, procVars, vars, implVars

\* A claim takes the row's validator with it.
LEMMA SchedulerFresh ==
  ASSUME TypeOK, TypeOK', OwnInv, FreshInv, NEW i \in Ids \ orphaned, Scheduler, ~Evict
  PROVE  StepOK(i)
<1> USE DEF StepOK
<1>0. /\ fetch_state'[i] \in {fetch_state[i], None} => RowStep(i)
      /\ batch'[i] \in {batch[i], None} => ClaimStep(i)
      /\ \A e \in Fetchers :
           (Holds(e, i)' => Holds(e, i) /\ fetches'[e] = fetches[e]) => FetchStep(e, i)
  BY SameStep
<1>1. FreshInvAt(i) /\ OwnInvAt(i) /\ BatchById
      /\ (feeds[i] = None => fetch_state[i] = None)
  BY DEF OwnInv, FreshInv, StatesHaveFeed
<1>2. now \in Nat
  BY DEF TypeOK
<1>3. ASSUME NEW S \in SUBSET Ids, NEW until, Lock(S, until), \A j \in S : fetch_state[j] # None
      PROVE  RowStep(i)
  <2>1. CASE i \in S
    <3>1. /\ fetch_state'[i].etag = fetch_state[i].etag
          /\ fetch_state'[i].last_ok_at = fetch_state[i].last_ok_at
      BY <1>3, <2>1 DEF Lock, TypeOK, StoreTypeOK, StateRow
    <3> QED
      BY <1>1, <1>3, <2>1, <3>1 DEF RowStep, FreshInvAt, RowOK
  <2>2. CASE i \notin S
    BY <1>0, <1>3, <2>2 DEF Lock
  <2> QED
    BY <2>1, <2>2
<1>4. ASSUME fetch_state[i] # None, NEW until
      PROVE  feeds[i] # None /\ ClaimOK(DueOf(i, until), Safe(i))
  BY <1>1, <1>4 DEF FreshInvAt, RowOK, ClaimOK, DueOf
<1>5. ASSUME NEW d, ClaimOK(d, Safe(i))
      PROVE  \A pc \in {"claimed", "host"} :
               FetchOK(StartedFetch(pc, d), Safe(i), DocOf(i), now)
  BY <1>2, <1>5 DEF FetchOK, StartedFetch
<1>6. CASE ClaimDueFeeds
  <2>1. PICK S \in SUBSET Ids :
          /\ ClaimDue(S, now)
          /\ batch' = [j \in Ids |-> IF j \in S THEN DueOf(j, now + LockFor) ELSE None]
    BY <1>6 DEF ClaimDueFeeds
  <2>2. Lock(S, now + LockFor) /\ \A j \in S : fetch_state[j] # None
    BY <2>1 DEF ClaimDue, ClaimableBatch, IsDue
  <2>3. RowStep(i)
    BY <1>3, <2>2
  <2>4. ClaimStep(i)
    BY <1>4, <2>1, <2>2 DEF ClaimStep
  <2>5. UNCHANGED <<now, fetches>>
    BY <1>6 DEF ClaimDueFeeds
  <2> QED
    BY <1>0, <2>3, <2>4, <2>5 DEF Holds, InBudget
<1>7. ASSUME NEW w \in Workers, NEW j \in Ids, Dispatch(w, j) PROVE StepOK(i)
  <2>1. /\ UNCHANGED <<now, fetch_state>>
        /\ batch[j] # None
        /\ fetches' = [fetches EXCEPT ![w] = StartedFetch("host", batch[j])]
        /\ batch' = [batch EXCEPT ![j] = None]
    BY <1>7 DEF Dispatch, storeVars
  <2>2. batch'[i] \in {batch[i], None}
    BY <2>1 DEF TypeOK
  <2>3. w \in Fetchers /\ fetches'[w] = StartedFetch("host", batch[j])
    BY <2>1 DEF TypeOK, Fetchers
  <2>4. FetchStep(w, i)
    <3> SUFFICES ASSUME Holds(w, i)'
                 PROVE  feeds[i] # None /\ FetchOK(fetches'[w], Safe(i), DocOf(i), now)
      BY DEF FetchStep
    <3>1. batch[j].id = i /\ batch[j].id = j
      BY <1>1, <2>1, <2>3 DEF Holds, StartedFetch, BatchById
    <3>2. feeds[i] # None /\ ClaimOK(batch[i], Safe(i))
      BY <1>1, <2>1, <3>1 DEF OwnInvAt, FreshInvAt
    <3> QED
      BY <1>5, <2>3, <3>1, <3>2
  <2>5. \A e \in Fetchers \ {w} : FetchStep(e, i)
    BY <1>0, <2>1 DEF Holds, InBudget, TypeOK
  <2> QED
    BY <1>0, <2>1, <2>2, <2>4, <2>5
<1>8. ASSUME NEW c \in Callers, NEW j \in Ids, FetchNow(c, j) PROVE StepOK(i)
  <2>1. /\ UNCHANGED <<now, batch>>
        /\ Lock({j}, now + LockFor) /\ fetch_state[j] # None
        /\ fetches' = [fetches EXCEPT ![c] = StartedFetch("claimed", DueOf(j, now + LockFor))]
    BY <1>8 DEF FetchNow, ClaimFeed
  <2>2. RowStep(i)
    BY <1>3, <2>1
  <2>3. c \in Fetchers /\ fetches'[c] = StartedFetch("claimed", DueOf(j, now + LockFor))
    BY <2>1 DEF TypeOK, Fetchers
  <2>4. FetchStep(c, i)
    <3> SUFFICES ASSUME Holds(c, i)'
                 PROVE  feeds[i] # None /\ FetchOK(fetches'[c], Safe(i), DocOf(i), now)
      BY DEF FetchStep
    <3>1. i = j
      BY <2>3 DEF Holds, StartedFetch, DueOf
    <3> QED
      BY <1>4, <1>5, <2>1, <2>3, <3>1
  <2>5. \A e \in Fetchers \ {c} : FetchStep(e, i)
    BY <1>0, <2>1 DEF Holds, InBudget, TypeOK
  <2> QED
    BY <1>0, <2>1, <2>2, <2>4, <2>5
<1> QED
  BY <1>6, <1>7, <1>8 DEF Scheduler

\* Steps of a fetch: other feeds, and this feed's other fetches, are as before.
LEMMA FetchFresh ==
  ASSUME TypeOK, TypeOK', OwnInv, FreshInv, FiniteInv, FiniteInv', StartedInv,
         NEW i \in Ids \ orphaned, NEW e \in Fetchers, FetchOne(e)
  PROVE  StepOK(i)
<1> DEFINE f == fetches[e]
           S == Safe(i)
           L == DocOf(i)
<1> USE DEF StepOK
<1>0. /\ fetch_state'[i] \in {fetch_state[i], None} => RowStep(i)
      /\ batch'[i] \in {batch[i], None} => ClaimStep(i)
      /\ \A g \in Fetchers :
           (Holds(g, i)' => Holds(g, i) /\ fetches'[g] = fetches[g]) => FetchStep(g, i)
  BY SameStep
<1>1. /\ UNCHANGED <<now, batch>>
      /\ \A g \in Fetchers : Holds(g, i)' => Holds(g, i)
  BY FetchOneHolders
<1>2. /\ now \in Nat
      /\ \A g \in Fetchers : Holds(g, i) =>
           /\ feeds[i] # None /\ fetches[g].d.url = feeds[i].url
           /\ FetchOK(fetches[g], S, L, now)
  BY DEF OwnInv, OwnInvAt, FreshInv, FreshInvAt, TypeOK
<1>3. ASSUME NEW g \in Fetchers \ {e} PROVE FetchStep(g, i)
  <2>1. fetches'[g] = fetches[g]
    <3>1. CASE SelectFeed(e) \/ SelectState(e)
      BY <3>1, SelectFeedReads, SelectStateReads DEF ReadsRow
    <3> QED
      BY <3>1 DEF FetchOne, StartGet, RespondNotModified, RespondOK, RespondError, Upsert,
         RecordOK, RecordNotModified, RecordError, Prune, StoreFails, GoTo, Return, TypeOK
  <2> QED
    BY <1>0, <1>1, <2>1
<1>4. ClaimStep(i)
  BY <1>0, <1>1
<1>5. ASSUME fetch_state'[i] = fetch_state[i], FetchStep(e, i) PROVE StepOK(i)
  BY <1>0, <1>3, <1>4, <1>5
<1>6. ASSUME fetches'[e] = None PROVE FetchStep(e, i)
  BY <1>6 DEF FetchStep, Holds
<1>7. ASSUME NEW pc \in PC, f # None, GoTo(e, pc)
      PROVE  /\ fetches'[e].pc = pc /\ fetches'[e].d = f.d /\ fetches'[e].started = f.started
             /\ fetches'[e].body = f.body
  BY <1>7 DEF GoTo, TypeOK, Fetch
<1>8. ASSUME NEW pc \in {"error", "prune"}, f # None, GoTo(e, pc) PROVE FetchStep(e, i)
  <2>1. fetches'[e].pc = pc /\ fetches'[e].d = f.d /\ fetches'[e].started = f.started
    BY <1>7, <1>8 DEF PC
  <2> QED
    BY <1>1, <1>2, <2>1 DEF FetchStep, FetchOK
<1>a. CASE StartGet(e)
  <2>1. fetches'[e].pc = "get" /\ fetches'[e].d = f.d /\ fetches'[e].started = now
    BY <1>a DEF StartGet, At, TypeOK, Fetch
  <2>2. FetchStep(e, i)
    BY <1>1, <1>2, <2>1 DEF FetchStep, FetchOK
  <2> QED
    BY <1>5, <1>a, <2>2 DEF StartGet, storeVars
<1>b. CASE RespondNotModified(e)
  <2>1. f # None /\ GoTo(e, "notmod") /\ f.d.etag = EtagOf(f.d.url, Doc(f.d.url))
    BY <1>b DEF RespondNotModified, CanGo, At
  <2>2. fetches'[e].pc = "notmod" /\ fetches'[e].d = f.d /\ fetches'[e].started = f.started
    BY <1>7, <2>1 DEF PC
  <2>3. f.d.etag # None /\ f.d.etag.doc = Doc(f.d.url)
    <3>1. f.d.url \in URL /\ Doc(f.d.url) \in SUBSET Nat
      BY <2>1 DEF TypeOK, Fetch, Due, Doc
    <3> QED
      BY <2>1, <3>1, StoreAssumption DEF EtagOf, Etag
  <2>4. FetchStep(e, i)
    BY <1>1, <1>2, <2>2, <2>3 DEF FetchStep, FetchOK, DocOf
  <2> QED
    BY <1>5, <1>b, <2>4 DEF RespondNotModified, storeVars
<1>c. CASE RespondOK(e)
  <2> DEFINE doc == Doc(f.d.url)
  <2>1. PICK tag \in BOOLEAN : fetches' = [fetches EXCEPT ![e] =
          [fetches[e] EXCEPT !.pc = "upsert", !.body = doc, !.tag = tag]]
    BY <1>c DEF RespondOK
  <2>2. f \in Fetch
    BY <1>c DEF RespondOK, CanGo, At, TypeOK
  <2> HIDE DEF doc
  <2>3. /\ fetches'[e].pc = "upsert" /\ fetches'[e].d = f.d
        /\ fetches'[e].started = f.started /\ fetches'[e].body = doc
    BY <2>1, <2>2 DEF TypeOK, Fetch
  <2>4. Holds(e, i) => doc = L
    BY <1>2 DEF doc, DocOf
  <2>5. FetchStep(e, i)
    BY <1>1, <1>2, <2>3, <2>4 DEF FetchStep, FetchOK
  <2> QED
    BY <1>5, <1>c, <2>5 DEF RespondOK, storeVars
<1>d. CASE RespondError(e)
  BY <1>5, <1>8, <1>d DEF RespondError, At, storeVars
<1>e. CASE Upsert(e)
  <2>1. f # None /\ f.pc = "upsert" /\ GoTo(e, "record") /\ fetch_state' = fetch_state
    BY <1>e DEF Upsert, UpsertItems, CanGo, At
  <2>2. /\ fetches'[e].pc = "record" /\ fetches'[e].d = f.d
        /\ fetches'[e].started = f.started /\ fetches'[e].body = f.body
    BY <1>7, <2>1 DEF PC
  <2>3. ASSUME Holds(e, i) PROVE f.body \subseteq Safe(i)'
    <3>1. f.d.id = i /\ f.d.url = feeds[i].url /\ f.body \subseteq Nat
      BY <1>2, <2>1, <2>3 DEF Holds, TypeOK, Fetch
    <3>2. feeds' = feeds
      BY <1>e DEF Upsert, UpsertItems
    <3>3. \A x \in f.body : [url |-> feeds[i].url, at |-> x] \in items'[i]
      BY <1>e, <3>1 DEF Upsert, UpsertItems, TypeOK, StoreTypeOK
    <3> QED
      BY <3>1, <3>2, <3>3 DEF Safe, StoredOrRetired
  <2>4. FetchStep(e, i)
    <3> SUFFICES ASSUME Holds(e, i)'
                 PROVE  feeds[i] # None /\ FetchOK(fetches'[e], Safe(i)', L, now)
      BY DEF FetchStep
    <3>1. feeds[i] # None /\ FetchOK(f, S, L, now) /\ f.body \subseteq Safe(i)'
      BY <1>1, <1>2, <2>3
    <3>2. Safe(i) \subseteq Safe(i)'
      <4>1. feeds' = feeds /\ Next
        BY <1>e DEF Upsert, UpsertItems, FetchOne, Next
      <4> QED
        BY <3>1, <4>1, RowLives
    <3> QED
      BY <2>1, <2>2, <3>1, <3>2 DEF FetchOK, ClaimOK
  <2> QED
    BY <1>5, <2>1, <2>4
<1>f. CASE RecordOK(e)
  <2>1. f # None /\ f.pc = "record" /\ GoTo(e, "prune")
    BY <1>f DEF RecordOK, CanGo, At
  <2>2. FetchStep(e, i)
    BY <1>8, <2>1
  <2>3. CASE f.d.id # i
    BY <1>5, <1>f, <2>2, <2>3 DEF RecordOK, RecordFetchOK
  <2>4. CASE f.d.id = i
    <3>1. Holds(e, i)
      BY <1>f, <2>1, <2>4 DEF RecordOK, CanGo, Holds
    <3>2. PICK wait \in OkWaits :
            RecordFetchOK(i, IF f.tag THEN EtagOf(f.d.url, f.body) ELSE None,
                          f.d.url, f.started, f.started + wait)
      BY <1>f, <2>4 DEF RecordOK
    <3>3. CASE fetch_state[i] = None
      BY <1>0, <1>3, <1>4, <2>2, <3>2, <3>3 DEF RecordFetchOK, TypeOK, StoreTypeOK
    <3>4. CASE fetch_state[i] # None
      <4>1. /\ fetch_state'[i].last_ok_at = f.started
            /\ fetch_state'[i].etag \in {fetch_state[i].etag, EtagOf(f.d.url, f.body)}
        BY <3>2, <3>4 DEF RecordFetchOK, TypeOK, StoreTypeOK
      <4>2. feeds[i] # None /\ FetchOK(f, S, L, now) /\ RowOK(fetch_state[i], S, L, now)
        BY <1>2, <3>1, <3>4 DEF FreshInv, FreshInvAt
      <4>3. f.body \subseteq S /\ \A x \in L : x < f.started => x \in S
        BY <2>1, <4>2 DEF FetchOK
      <4>4. RowStep(i)
        BY <4>1, <4>2, <4>3 DEF RowStep, RowOK, FetchOK, EtagOf
      <4> QED
        BY <1>3, <1>4, <2>2, <4>4
    <3> QED
      BY <3>3, <3>4
  <2> QED
    BY <2>3, <2>4
<1>g. CASE RecordNotModified(e)
  <2>1. f # None /\ f.pc = "notmod" /\ fetches'[e] = None
    BY <1>g DEF RecordNotModified, CanGo, At, Return, TypeOK
  <2>2. FetchStep(e, i)
    BY <1>6, <2>1
  <2>3. CASE f.d.id # i
    BY <1>5, <1>g, <2>2, <2>3 DEF RecordNotModified, RecordFetchOK
  <2>4. CASE f.d.id = i
    <3>1. Holds(e, i)
      BY <1>g, <2>1, <2>4 DEF RecordNotModified, CanGo, Holds
    <3>2. PICK wait \in OkWaits : RecordFetchOK(i, None, None, f.started, f.started + wait)
      BY <1>g, <2>4 DEF RecordNotModified
    <3>3. CASE fetch_state[i] = None
      BY <1>0, <1>3, <1>4, <2>2, <3>2, <3>3 DEF RecordFetchOK, TypeOK, StoreTypeOK
    <3>4. CASE fetch_state[i] # None
      <4>1. /\ fetch_state'[i].last_ok_at = f.started
            /\ fetch_state'[i].etag = fetch_state[i].etag
        BY <3>2, <3>4 DEF RecordFetchOK, TypeOK, StoreTypeOK
      <4>2. feeds[i] # None /\ FetchOK(f, S, L, now) /\ RowOK(fetch_state[i], S, L, now)
        BY <1>2, <3>1, <3>4 DEF FreshInv, FreshInvAt
      <4>3. \A x \in L : x < f.started => x \in S
        BY <2>1, <4>2 DEF FetchOK, ClaimOK
      <4>4. RowStep(i)
        BY <4>1, <4>2, <4>3 DEF RowStep, RowOK, FetchOK
      <4> QED
        BY <1>3, <1>4, <2>2, <4>4
    <3> QED
      BY <3>3, <3>4
  <2> QED
    BY <2>3, <2>4
<1>h. CASE RecordError(e)
  <2>1. fetches'[e] = None
    BY <1>h DEF RecordError, Return, TypeOK
  <2>2. RowStep(i)
    <3>1. fetch_state'[i] # None => fetch_state[i] # None
            /\ fetch_state'[i].etag = fetch_state[i].etag
            /\ fetch_state'[i].last_ok_at = fetch_state[i].last_ok_at
      BY <1>h DEF RecordError, RecordFetchError, TypeOK, StoreTypeOK, StateRow
    <3>2. feeds[i] = None => fetch_state[i] = None
      BY DEF FreshInv, StatesHaveFeed
    <3>3. feeds[i] # None /\ fetch_state[i] # None => RowOK(fetch_state[i], S, L, now)
      BY DEF FreshInv, FreshInvAt
    <3> QED
      BY <3>1, <3>2, <3>3 DEF RowStep, RowOK
  <2> QED
    BY <1>3, <1>4, <1>6, <2>1, <2>2
<1>i. CASE Prune(e) \/ StoreFails(e)
  <2>1. fetches'[e] = None /\ fetch_state' = fetch_state
    BY <1>i DEF Prune, PruneItems, StoreFails, Return, storeVars, TypeOK
  <2> QED
    BY <1>5, <1>6, <2>1
<1>j. CASE SelectFeed(e)
  <2>1. ReadsRow(e) /\ fetches'[e].d.etag = f.d.etag
    BY <1>j, SelectFeedReads
  <2>2. FetchStep(e, i)
    BY <1>1, <1>2, <2>1 DEF ReadsRow, FetchStep, FetchOK, ClaimOK
  <2> QED
    BY <1>5, <2>1, <2>2 DEF ReadsRow, storeVars
<1>k. CASE SelectState(e)
  <2>1. ReadsRow(e) /\ fetch_state[f.d.id] # None
        /\ fetches'[e].d.etag = fetch_state[f.d.id].etag
    BY <1>k, SelectStateReads
  <2>2. FetchStep(e, i)
    <3> SUFFICES ASSUME Holds(e, i)'
                 PROVE  feeds[i] # None /\ FetchOK(fetches'[e], S, L, now)
      BY DEF FetchStep
    <3>1. f.d.id = i /\ feeds[i] # None /\ FetchOK(f, S, L, now)
      BY <1>1, <1>2 DEF Holds
    <3>2. RowOK(fetch_state[i], S, L, now)
      BY <2>1, <3>1 DEF FreshInv, FreshInvAt
    <3> QED
      BY <2>1, <3>1, <3>2 DEF ReadsRow, FetchOK, ClaimOK, RowOK
  <2> QED
    BY <1>5, <2>1, <2>2 DEF ReadsRow, storeVars
<1> QED
  BY <1>a, <1>b, <1>c, <1>d, <1>e, <1>f, <1>g, <1>h, <1>i, <1>j, <1>k DEF FetchOne

LEMMA NextFresh ==
  ASSUME TypeOK, TypeOK', OwnInv, FiniteInv, FiniteInv', StartedInv, FreshInv, [Next]_vars
  PROVE  FreshInv'
<1>1. StatesHaveFeed'
  BY NextStatesHaveFeed DEF FreshInv
<1>2. ASSUME NEW i \in Ids \ orphaned', feeds'[i] # None PROVE FreshInvAt(i)'
  <2>1. i \in Ids \ orphaned
    BY <1>2, NotOrphanedBefore
  <2>2. CASE Environment \/ Evict \/ UNCHANGED vars
    BY <1>2, <2>1, <2>2, EnvironmentFresh, StepSuffices
  <2>3. CASE Scheduler /\ ~Evict
    BY <2>1, <2>3, SchedulerFresh, StepSuffices
  <2>4. ASSUME NEW e \in Fetchers, FetchOne(e) PROVE FreshInvAt(i)'
    BY <2>1, <2>4, FetchFresh, StepSuffices
  <2> QED
    BY <2>2, <2>3, <2>4 DEF Next
<1>3. \A i \in Ids \ orphaned' : feeds'[i] = None => FreshInvAt(i)'
  BY DEF FreshInvAt
<1> QED
  BY <1>1, <1>2, <1>3 DEF FreshInv

LEMMA InitFresh == Init => FiniteInv /\ FreshInv /\ BodyInv /\ StartedInv
<1> SUFFICES ASSUME Init PROVE FiniteInv /\ FreshInv /\ BodyInv /\ StartedInv
  OBVIOUS
<1>1. /\ \A i \in Ids : feeds[i] = None /\ fetch_state[i] = None /\ items[i] = {}
      /\ \A u \in URL : upstream[u] = {}
      /\ \A e \in Fetchers : fetches[e] = None
  BY DEF Init, StoreInit
<1> QED
  BY <1>1, FS_EmptySet
     DEF FiniteInv, FreshInv, FreshInvAt, StatesHaveFeed, BodyInv, StartedInv

CacheInv ==
  TypeOK /\ OwnInv /\ StartedInv /\ UniqueUrls /\ BodyInv /\ FiniteInv /\ FreshInv

LEMMA AlwaysFresh == Spec => []CacheInv
<1>1. Init => CacheInv
  BY InitType, InitOwn, InitFresh, CacheInit DEF CacheInv
<1>2. CacheInv /\ [Next]_vars => CacheInv'
  BY NextType, NextOwn, NextStarted, NextUnique, NextBody, NextFinite, NextFresh DEF CacheInv
<1> QED
  BY <1>1, <1>2, PTL DEF Spec

\* The validator a feed will send vouches only for items that are stored or
\* that retention dropped, so a 304 never hides a headline: whatever fetches
\* of the feed overlapped, failed between their statements, or were cut off.
THEOREM ValidatorsCover == Spec => []ValidatorCoversItems
<1>1. CacheInv => ValidatorCoversItems
  BY DEF CacheInv, FreshInv, FreshInvAt, RowOK, ValidatorCoversItems, Safe
<1> QED
  BY <1>1, AlwaysFresh, PTL

\* last_ok_at promises no more than is served: of what the publisher lists,
\* all that is older was stored, though other fetches wrote the row meanwhile
\* and the record was made long after the request.
THEOREM FreshAsPromised == Spec => []FreshAsOfLastOK
<1>1. CacheInv => FreshAsOfLastOK
  BY DEF CacheInv, FreshInv, FreshInvAt, RowOK, FreshAsOfLastOK, Safe, DocOf
<1> QED
  BY <1>1, AlwaysFresh, PTL
=============================================================================
