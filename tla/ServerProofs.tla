---------------------------- MODULE ServerProofs ----------------------------
(* The handlers do nothing that Poller does not allow: every step of theirs  *)
(* is a step of the poller or leaves its state alone.  So what PollerProofs  *)
(* shows of the poller with arbitrary callers holds of the whole service.    *)
(* What a request knows between two of its statements makes the answers      *)
(* whole, and a cold answer warm.                                            *)
EXTENDS Server, PollerProofs

-----------------------------------------------------------------------------
(* The types of the requests.                                                *)

LEMMA SetRequest ==
  ASSUME ServerTypeOK, torn' \subseteq Callers, NEW c \in Callers, NEW r \in Request \cup {None},
         requests' = [requests EXCEPT ![c] = r],
         r # None /\ r.pc \in UsesId => r.id # None
  PROVE  ServerTypeOK'
BY DEF ServerTypeOK, UsesId

LEMMA KnownId == \A u \in URL : IdOf(u) \in Ids \cup {None}
BY DEF IdOf

\* What a handler that is at a step knows.
LEMMA AtWork ==
  ASSUME ServerTypeOK, NEW c \in Callers, NEW pc, Is(c, pc)
  PROVE  /\ requests[c] \in Request
         /\ pc \in UsesId => requests[c].id \in Ids
<1>1. requests[c] \in Request /\ requests[c].pc = pc
  BY DEF ServerTypeOK, Is
<1>2. requests[c].id \in Ids \cup {None}
  BY <1>1 DEF Request
<1> QED
  BY <1>1, <1>2 DEF ServerTypeOK, UsesId, Is

LEMMA GoOnType ==
  ASSUME ServerTypeOK, torn' \subseteq Callers, NEW c \in Callers, NEW pc, Is(c, pc),
         NEW to \in RPC, GoOn(c, to), to \in UsesId => pc \in UsesId
  PROVE  ServerTypeOK'
<1>1. requests[c] \in Request /\ (pc \in UsesId => requests[c].id # None)
  BY AtWork DEF ServerTypeOK, UsesId, Is
<1> DEFINE r == [requests[c] EXCEPT !.pc = to]
<1>2. r \in Request /\ r.pc = to /\ r.id = requests[c].id
  BY <1>1 DEF Request
<1>3. requests' = [requests EXCEPT ![c] = r]
  BY DEF GoOn
<1> QED
  BY <1>1, <1>2, <1>3, SetRequest

LEMMA HandleType ==
  ASSUME TypeOK, ServerTypeOK, torn' \subseteq Callers, NEW c \in Callers, Handle(c)
  PROVE  ServerTypeOK'
<1> USE DEF RPC, UsesId
<1>1. ASSUME NEW kind \in Kind, NEW u \in URL, Arrive(c, kind, u) PROVE ServerTypeOK'
  <2> DEFINE r == [kind |-> kind, url |-> u, pc |-> "ensure", id |-> None, ok |-> None,
                   items |-> {}, fetched |-> FALSE]
  <2>1. r \in Request
    BY DEF Request
  <2> QED
    BY <1>1, <2>1, SetRequest DEF Arrive
<1>2. CASE EnsureNew(c)
  BY <1>2, GoOnType DEF EnsureNew
<1>3. CASE EnsureState(c)
  BY <1>3, GoOnType DEF EnsureState
<1>4. CASE EnsureFails(c)
  BY <1>4, GoOnType DEF EnsureFails
<1>5. CASE EnsureKnown(c)
  BY <1>5, GoOnType DEF EnsureKnown
<1>6. CASE Lookup(c)
  <2>1. requests[c] \in Request
    BY <1>6, AtWork DEF Lookup
  <2> DEFINE i == IdOf(requests[c].url)
             r == [requests[c] EXCEPT !.id = i, !.pc = IF i = None THEN "failed" ELSE "state"]
  <2>2. i \in Ids \cup {None}
    BY <2>1, KnownId DEF Request
  <2>3. requests' = [requests EXCEPT ![c] = r]
    BY <1>6 DEF Lookup
  <2> HIDE DEF i
  <2>4. r \in Request /\ (r.pc \in UsesId => r.id # None)
    BY <2>1, <2>2 DEF Request
  <2> QED
    BY <2>3, <2>4, SetRequest
<1>7. CASE ReadStates(c)
  <2>1. requests[c] \in Request /\ requests[c].id \in Ids
    BY <1>7, AtWork DEF ReadStates
  <2> DEFINE st == fetch_state[requests[c].id]
             ok == IF st = None THEN None ELSE st.last_ok_at
             r  == [requests[c] EXCEPT !.ok = ok, !.pc = "list"]
  <2>2. ok \in Nat \cup {None}
    BY <2>1 DEF TypeOK, StoreTypeOK, StateRow
  <2>3. requests' = [requests EXCEPT ![c] = r]
    BY <1>7 DEF ReadStates
  <2> HIDE DEF ok
  <2>4. r \in Request /\ r.id = requests[c].id
    BY <2>1, <2>2 DEF Request
  <2>5. r.id # None
    BY <1>7, <2>4 DEF ReadStates, Is, ServerTypeOK
  <2> QED
    BY <2>3, <2>4, <2>5, SetRequest
<1>8. CASE ReadNoState(c)
  BY <1>8, GoOnType DEF ReadNoState
<1>9. CASE ReadState(c)
  <2>1. requests[c] \in Request /\ requests[c].id \in Ids
    BY <1>9, AtWork DEF ReadState
  <2> DEFINE ok == fetch_state[requests[c].id].last_ok_at
             r  == [requests[c] EXCEPT !.ok = ok, !.pc = "list"]
  <2>2. ok \in Nat \cup {None}
    BY <1>9, <2>1 DEF ReadState, TypeOK, StoreTypeOK, StateRow
  <2>3. requests' = [requests EXCEPT ![c] = r]
    BY <1>9 DEF ReadState
  <2> HIDE DEF ok
  <2>4. r \in Request /\ r.id = requests[c].id
    BY <2>1, <2>2 DEF Request
  <2>5. r.id # None
    BY <1>9, <2>4 DEF ReadState, Is, ServerTypeOK
  <2> QED
    BY <2>3, <2>4, <2>5, SetRequest
<1>10. CASE FoundCold(c)
  BY <1>10, GoOnType DEF FoundCold
<1>11. CASE ColdFetch(c)
  BY <1>11 DEF ColdFetch, ServerTypeOK
<1>13. CASE InFlight(c)
  BY <1>13, GoOnType DEF InFlight
<1>14. CASE ColdStep(c)
  <2>1. requests[c] \in Request /\ requests[c].id # None
    BY <1>14, AtWork DEF ColdStep, ServerTypeOK, Is
  <2>2. CASE requests' = requests
    BY <2>2 DEF ServerTypeOK
  <2>3. ASSUME NEW good \in BOOLEAN,
               requests' = [requests EXCEPT ![c] =
                 [requests[c] EXCEPT !.pc = IF good THEN "again" ELSE "failed",
                                     !.fetched = good]]
        PROVE  ServerTypeOK'
    <3> DEFINE r == [requests[c] EXCEPT !.pc = IF good THEN "again" ELSE "failed",
                                        !.fetched = good]
    <3>1. r \in Request /\ r.id # None
      BY <2>1 DEF Request
    <3> QED
      BY <2>3, <3>1, SetRequest
  <2> DEFINE returned == fetches[c].pc \in {"notmod", "prune"}
  <2>4. \/ requests' = requests
        \/ requests' = [requests EXCEPT ![c] =
             [requests[c] EXCEPT !.pc = IF returned THEN "again" ELSE "failed",
                                 !.fetched = returned]]
    BY <1>14 DEF ColdStep
  <2>5. returned \in BOOLEAN
    OBVIOUS
  <2> HIDE DEF returned
  <2> QED
    BY <2>2, <2>3, <2>4, <2>5
<1>15. CASE ReadAgain(c)
  <2>1. requests[c] \in Request
    BY <1>15, AtWork DEF ReadAgain
  <2> DEFINE i == IdOf(requests[c].url)
  <2>2. i \in Ids \cup {None}
    BY <2>1, KnownId DEF Request
  <2>3. CASE i = None \/ fetch_state[i] = None
    <3>1. GoOn(c, "failed")
      BY <1>15, <2>3 DEF ReadAgain, GoOn
    <3> QED
      BY <1>15, <3>1, GoOnType DEF ReadAgain
  <2>4. CASE i # None /\ fetch_state[i] # None
    <3> DEFINE ok == fetch_state[i].last_ok_at
               r  == [requests[c] EXCEPT !.id = i, !.ok = ok, !.pc = "list"]
    <3>1. ok \in Nat \cup {None}
      BY <2>2, <2>4 DEF TypeOK, StoreTypeOK, StateRow
    <3>2. requests' = [requests EXCEPT ![c] = r]
      BY <1>15, <2>4 DEF ReadAgain
    <3> HIDE DEF i, ok
    <3>3. r \in Request /\ r.id # None
      BY <2>1, <2>2, <2>4, <3>1 DEF Request
    <3> QED
      BY <3>2, <3>3, SetRequest
  <2> QED
    BY <2>3, <2>4
<1>16. CASE ReadItems(c)
  <2>1. requests[c] \in Request /\ requests[c].id \in Ids /\ requests[c].id # None
    BY <1>16, AtWork DEF ReadItems, Is, ServerTypeOK
  <2> DEFINE rows == Listed(items[requests[c].id])
             r == [requests[c] EXCEPT !.items = rows, !.pc = "done"]
  <2>2. rows \in SUBSET Item
    BY <2>1 DEF Listed, TypeOK, StoreTypeOK
  <2>3. requests' = [requests EXCEPT ![c] = r]
    BY <1>16 DEF ReadItems
  <2> HIDE DEF rows
  <2>4. r \in Request /\ r.id # None
    BY <2>1, <2>2 DEF Request
  <2> QED
    BY <2>3, <2>4, SetRequest
<1>17. CASE Leave(c)
  BY <1>17 DEF Leave, ServerTypeOK
<1> QED
  BY <1>1, <1>2, <1>3, <1>4, <1>5, <1>6, <1>7, <1>8, <1>9, <1>10, <1>11, <1>13,
     <1>14, <1>15, <1>16, <1>17 DEF Handle

-----------------------------------------------------------------------------
(* Every step maps to a step of the poller or to a stutter.                  *)

LEMMA HandleIsStep ==
  ASSUME ServerTypeOK, NEW c \in Callers, Handle(c)
  PROVE  [Next]_vars
<1>1. \A pc : Is(c, pc) => requests[c].url \in URL
  BY AtWork DEF Request
<1>2. CASE EnsureNew(c) \/ EnsureState(c) \/ EnsureFails(c)
  BY <1>1, <1>2 DEF EnsureNew, EnsureState, EnsureFails, Next, Environment
<1>3. CASE EnsureKnown(c)
  <2>1. IdOf(requests[c].url) \in Ids \/ UNCHANGED vars
    BY <1>1, <1>3, KnownId DEF EnsureKnown
  <2> QED
    BY <1>3, <2>1 DEF EnsureKnown, Next, Environment
<1>4. CASE ColdFetch(c)
  <2>1. requests[c].id \in Ids
    BY <1>4, AtWork DEF ColdFetch, UsesId
  <2> QED
    BY <1>4, <2>1 DEF ColdFetch, Next, Scheduler
<1>5. CASE ColdStep(c)
  BY <1>5 DEF ColdStep, Next, Fetchers
<1> QED
  BY <1>2, <1>3, <1>4, <1>5 DEF Handle, Arrive, Lookup, ReadStates, ReadNoState, ReadState,
     FoundCold, InFlight, ReadAgain, ReadItems, Leave

LEMMA ServerStep ==
  ASSUME TypeOK, ServerTypeOK, [ServerNext]_serverVars
  PROVE  [Next]_vars /\ ServerTypeOK'
<1>0. torn' \subseteq Callers
  BY DEF ServerTypeOK, ServerNext, ObserveTorn, serverVars
<1>1. ASSUME NEW c \in Callers, Handle(c) PROVE [Next]_vars /\ ServerTypeOK'
  BY <1>0, <1>1, HandleIsStep, HandleType
<1>2. CASE Around
  BY <1>0, <1>2 DEF Around, Next, Environment, Scheduler, Fetchers, ServerTypeOK
<1>3. CASE Stop
  BY <1>0, <1>3 DEF Stop, Next, Environment, ServerTypeOK
<1>4. CASE UNCHANGED serverVars
  BY <1>4 DEF serverVars, ServerTypeOK
<1> QED
  BY <1>1, <1>2, <1>3, <1>4 DEF ServerNext

LEMMA ServerInvariant ==
  ServerSpec => [](TypeOK /\ ServerTypeOK) /\ [][Next]_vars
<1>1. ServerInit => TypeOK /\ ServerTypeOK
  BY InitType DEF ServerInit, ServerTypeOK
<1>2. TypeOK /\ ServerTypeOK /\ [ServerNext]_serverVars => (TypeOK /\ ServerTypeOK)'
  BY ServerStep, NextType
<1>3. TypeOK /\ ServerTypeOK /\ [ServerNext]_serverVars => [Next]_vars
  BY ServerStep
<1> QED
  BY <1>1, <1>2, <1>3, PTL DEF ServerSpec

\* Whatever requests come in and however their statements interleave with
\* fetches and evictions, a handler that reaches a statement of store.go that
\* takes a feed id has looked one up.
THEOREM ServerTyped == ServerSpec => []ServerTypeOK
BY ServerInvariant, PTL

\* The handlers of src/internal/api over the poller behave as the callers the
\* poller was modelled with: a request is a series of steps of Poller, or of
\* steps that leave its state alone.
THEOREM Implementation == ServerSpec => ImplementsPoller
BY ServerInvariant, PTL DEF ImplementsPoller, Spec, ServerSpec, ServerInit

\* So, whatever requests the handlers serve, a cold fetch and the poll loop
\* never work on one feed together while the locks they took run.
THEOREM ServedClaimsExclude == ServerSpec => []LeaseExclusive
BY Implementation, ClaimsExclude DEF ImplementsPoller

-----------------------------------------------------------------------------
(* What the other steps leave of a request, and of its feed's row.           *)

LEMMA OneFetchMoves ==
  ASSUME TypeOK, NEW e \in Fetchers, NEW g \in Fetchers, g # e, FetchOne(e)
  PROVE  fetches'[g] = fetches[g]
<1>1. CASE SelectFeed(e) \/ SelectState(e)
  BY <1>1, SelectFeedReads, SelectStateReads DEF ReadsRow
<1> QED
  BY <1>1 DEF FetchOne, StartGet, RespondNotModified, RespondOK, RespondError, Upsert,
     RecordOK, RecordNotModified, RecordError, Prune, StoreFails, GoTo, Return, TypeOK

LEMMA OthersStand ==
  ASSUME TypeOK, ServerTypeOK, NEW c \in Callers, [ServerNext]_serverVars, ~Handle(c)
  PROVE  \/ requests'[c] = requests[c] /\ fetches'[c] = fetches[c]
         \/ requests'[c] = None /\ fetches'[c] = None
<1>0. c \in Fetchers /\ c \notin Workers
  BY PollerAssumption DEF Fetchers
<1>1. ASSUME NEW d \in Callers, Handle(d), d # c
      PROVE  requests'[c] = requests[c] /\ fetches'[c] = fetches[c]
  <2>1. d \in Fetchers
    BY DEF Fetchers
  <2>2. CASE ColdStep(d)
    BY <1>0, <1>1, <2>1, <2>2, OneFetchMoves DEF ColdStep, ServerTypeOK
  <2>3. CASE EnsureNew(d) \/ EnsureState(d) \/ EnsureFails(d)
    BY <1>1, <2>3 DEF EnsureNew, EnsureState, EnsureFails, GoOn, BeginRegister,
       FinishRegister, AbandonRegister, ServerTypeOK
  <2>4. CASE EnsureKnown(d)
    BY <1>1, <2>4 DEF EnsureKnown, RequestAgain, GoOn, vars, implVars, procVars, ServerTypeOK
  <2>5. CASE ColdFetch(d)
    BY <1>0, <1>1, <2>1, <2>5 DEF ColdFetch, FetchNow, TypeOK, ServerTypeOK
  <2>6. ASSUME UNCHANGED vars, NEW r, requests' = [requests EXCEPT ![d] = r]
        PROVE  requests'[c] = requests[c] /\ fetches'[c] = fetches[c]
    BY <1>1, <2>6 DEF vars, implVars, procVars, ServerTypeOK
  <2> QED
    BY <1>1, <2>2, <2>3, <2>4, <2>5, <2>6 DEF Handle, Arrive, Lookup, ReadStates, ReadNoState,
       ReadState, FoundCold, InFlight, ReadAgain, ReadItems, Leave, GoOn
<1>2. CASE Around
  <2>1. ASSUME NEW w \in Workers, FetchOne(w) PROVE fetches'[c] = fetches[c]
    BY <1>0, <2>1, OneFetchMoves DEF Fetchers
  <2>2. ASSUME NEW w \in Workers, NEW i \in Ids, Dispatch(w, i) PROVE fetches'[c] = fetches[c]
    BY <1>0, <2>2 DEF Dispatch, TypeOK, Fetchers
  <2>3. requests' = requests
    BY <1>2 DEF Around
  <2> QED
    BY <1>2, <2>1, <2>2, <2>3 DEF Around, Tick, Publish, ClaimDueFeeds, Evict, procVars
<1>3. CASE Stop
  BY <1>0, <1>3 DEF Stop, Restart
<1>4. CASE UNCHANGED serverVars
  BY <1>4 DEF serverVars, vars, implVars, procVars
<1> QED
  BY <1>1, <1>2, <1>3, <1>4 DEF ServerNext

\* A request that is not torn has its feed's row.
TornInv == \A c \in Callers \ torn : ~RowLost(c)

LEMMA TornStep ==
  ASSUME ServerTypeOK, TornInv, [ServerNext]_serverVars
  PROVE  /\ TornInv'
         /\ \A c \in Callers \ torn' : requests'[c] # None => c \notin torn
<1>1. CASE ObserveTorn
  BY <1>1 DEF ObserveTorn, TornInv, RowLost
<1>2. CASE UNCHANGED serverVars
  BY <1>2 DEF serverVars, vars, implVars, storeVars, TornInv, RowLost
<1> QED
  BY <1>1, <1>2 DEF ServerNext

LEMMA RowThere ==
  ASSUME ServerTypeOK, TornInv, NEW c \in Callers \ torn,
         requests[c] # None, requests[c].pc \in UsesId
  PROVE  /\ requests[c].id \in Ids \ orphaned
         /\ feeds[requests[c].id] # None
BY DEF TornInv, RowLost

-----------------------------------------------------------------------------
(* Answers are whole.  Once a request has read the time of a good fetch, all *)
(* that was listed before it is safe, and stays so while statements of any   *)
(* fetch run; and of what is safe, the rows it reads have what is asked.     *)

\* x is in the rows S that were read, or retention or the limit left it out.
InAnswer(u, S, x) ==
  \/ [url |-> u, at |-> x] \in S
  \/ x + KeepFor < now
  \/ Cardinality({y \in S : y.at > x}) >= KeepItems
  \/ Cardinality({y \in S : y.at > x}) >= MaxLimit

Whole(r) ==
  r # None =>
    /\ r.pc \in UsesId => feeds[r.id].url = r.url
    /\ r.pc = "list" /\ r.ok # None =>
         r.ok <= now /\ \A x \in Doc(r.url) : x < r.ok => x \in Safe(r.id)
    /\ r.pc = "done" /\ r.ok # None =>
         r.ok <= now /\ \A x \in Doc(r.url) : x < r.ok => InAnswer(r.url, r.items, x)

WholeInv == \A c \in Callers \ torn : Whole(requests[c])

LEMMA ReadWhole ==
  ASSUME TypeOK, FiniteInv, NEW i \in Ids, NEW x \in Nat, x \in Safe(i)
  PROVE  InAnswer(feeds[i].url, Listed(items[i]), x)
<1> DEFINE S == items[i]
           L == Listed(S)
           r == [url |-> feeds[i].url, at |-> x]
<1>1. /\ S \in SUBSET Item /\ IsFiniteSet(S) /\ L \in SUBSET S
      /\ KeepItems \in Nat /\ MaxLimit \in Nat
  BY StoreAssumption, ServerAssumption DEF TypeOK, StoreTypeOK, FiniteInv, Listed
<1>2. \A y \in S : NewerThan(S, y) = Newer(S, y.at) /\ Cardinality(NewerThan(S, y)) \in Nat
  <2>1. \A y \in S : y.at \in Nat /\ NewerThan(S, y) = Newer(S, y.at)
    BY <1>1 DEF NewerThan, Newer, Item
  <2> QED
    BY <1>1, <2>1, NewerCount
<1>3. Cardinality(Newer(S, x)) \in Nat
  BY <1>1, NewerCount
<1>4. ASSUME NEW n \in Nat, n <= MaxLimit, Cardinality(Newer(S, x)) >= n
      PROVE  Cardinality({y \in L : y.at > x}) >= n
  <2>1. \A y \in Newer(S, x) : Cardinality(NewerThan(S, y)) < n => y \in L
    BY <1>1, <1>2, <1>4 DEF Newer, Listed
  <2>2. Cardinality(Newer(L, x)) >= n
    <3> HIDE DEF S, L
    <3> QED
      BY <1>1, <1>4, <2>1, NewestRemain
  <2> QED
    BY <2>2 DEF Newer
<1>5. CASE r \in S
  <2>1. Cardinality(NewerThan(S, r)) < MaxLimit => r \in L
    BY <1>5 DEF Listed
  <2>2. NewerThan(S, r) = Newer(S, x)
    BY DEF NewerThan, Newer
  <2> QED
    BY <1>1, <1>3, <1>4, <2>1, <2>2 DEF InAnswer
<1>6. CASE Cardinality(Newer(S, x)) >= KeepItems
  <2>1. Cardinality(Newer(S, x)) >= MaxLimit \/ KeepItems <= MaxLimit
    BY <1>1, <1>3, <1>6
  <2> QED
    BY <1>1, <1>4, <1>6, <2>1 DEF InAnswer
<1>7. CASE x + KeepFor < now
  BY <1>7 DEF InAnswer
<1> QED
  BY <1>5, <1>6, <1>7 DEF Safe, StoredOrRetired, Newer

\* What the row of a feed that is not orphaned says of its last good fetch.
LEMMA ReadOk ==
  ASSUME CacheInv, NEW i \in Ids \ orphaned, feeds[i] # None, fetch_state[i] # None,
         fetch_state[i].last_ok_at # None
  PROVE  /\ fetch_state[i].last_ok_at <= now
         /\ \A x \in Doc(feeds[i].url) : x < fetch_state[i].last_ok_at => x \in Safe(i)
BY DEF CacheInv, FreshInv, FreshInvAt, RowOK, DocOf

LEMMA IdOfUrl ==
  ASSUME NEW u, IdOf(u) # None
  PROVE  IdOf(u) \in Ids /\ feeds[IdOf(u)] # None /\ feeds[IdOf(u)].url = u
BY DEF IdOf

\* The request stands, or goes from one step to another with the same feed.
LEMMA WholeStands ==
  ASSUME CacheInv, CacheInv', [Next]_vars, NEW r \in Request, NEW q \in Request,
         r # None, Whole(r),
         q.url = r.url, q.id = r.id, q.pc \in UsesId => r.pc \in UsesId,
         q.pc \in {"list", "done"} => q = r,
         q.pc \in UsesId => r.id \in Ids \ orphaned /\ r.id \notin orphaned'
                            /\ feeds[r.id] # None /\ feeds'[r.id] # None
  PROVE  Whole(q)'
<1>1. r.url \in URL /\ now \in Nat /\ now' \in Nat
  BY DEF Request, CacheInv, TypeOK
<1>2. now <= now' /\ Doc(r.url)' \subseteq Doc(r.url) \cup {now}
  BY <1>1, DocLives DEF CacheInv
<1>3. Doc(r.url) \subseteq Nat /\ (r.ok # None => r.ok \in Nat)
  BY <1>1 DEF Doc, CacheInv, TypeOK, Request
<1>4. ASSUME q.pc \in UsesId
      PROVE  feeds'[r.id].url = r.url /\ Safe(r.id) \subseteq Safe(r.id)'
  BY <1>1, <1>4, RowLives DEF CacheInv, Whole
<1>5. ASSUME q.pc = "list", q.ok # None
      PROVE  q.ok <= now' /\ \A x \in Doc(r.url)' : x < q.ok => x \in Safe(r.id)'
  <2>1. q = r /\ r.ok <= now /\ \A x \in Doc(r.url) : x < r.ok => x \in Safe(r.id)
    BY <1>1, <1>5 DEF Whole
  <2>2. Safe(r.id) \subseteq Safe(r.id)'
    BY <1>4, <1>5 DEF UsesId
  <2> QED
    BY <1>1, <1>2, <1>3, <1>5, <2>1, <2>2
<1>6. ASSUME q.pc = "done", q.ok # None
      PROVE  q.ok <= now' /\ \A x \in Doc(r.url)' : x < q.ok => InAnswer(r.url, r.items, x)'
  <2>1. q = r /\ r.ok <= now
        /\ \A x \in Doc(r.url) : x < r.ok => InAnswer(r.url, r.items, x)
    BY <1>1, <1>6 DEF Whole
  <2>2. ASSUME NEW x \in Nat, InAnswer(r.url, r.items, x)
        PROVE  InAnswer(r.url, r.items, x)'
    BY <1>1, <1>2, <2>2, StoreAssumption DEF InAnswer
  <2>3. \A x \in Doc(r.url)' : x < q.ok => x \in Doc(r.url) /\ x < r.ok /\ x \in Nat
    BY <1>1, <1>2, <1>3, <1>6, <2>1
  <2> QED
    BY <1>1, <1>2, <1>3, <1>6, <2>1, <2>2, <2>3
<1>7. q.pc \in {"list", "done"} => q.items = r.items
  OBVIOUS
<1> QED
  BY <1>4, <1>5, <1>6, <1>7 DEF Whole

LEMMA WholeUnchanged ==
  ASSUME UNCHANGED vars, NEW q, Whole(q)
  PROVE  Whole(q)'
BY DEF Whole, InAnswer, Safe, StoredOrRetired, Doc, vars, implVars, storeVars

\* A request that reads nothing from a row, as no row is its own any more.
LEMMA WholeElse ==
  ASSUME NEW q, q # None => q.pc \notin UsesId \cup {"done"}
  PROVE  Whole(q)'
BY DEF Whole, UsesId

\* The statements that only read.
LEMMA WholeReads ==
  ASSUME CacheInv, ServerTypeOK, UNCHANGED vars, NEW c \in Callers, Whole(requests[c]),
         requests[c] # None, requests[c].pc \in UsesId =>
           requests[c].id \in Ids \ orphaned /\ feeds[requests[c].id] # None,
         requests'[c] # None /\ requests'[c].pc \in UsesId => requests'[c].id \notin orphaned,
         \/ Lookup(c) \/ ReadStates(c) \/ ReadState(c) \/ FoundCold(c) \/ InFlight(c)
         \/ ReadAgain(c) \/ ReadItems(c)
  PROVE  Whole(requests'[c])
<1> DEFINE r == requests[c]
<1>1. r \in Request /\ r.url \in URL /\ (r.pc \in UsesId => feeds[r.id].url = r.url)
  BY DEF ServerTypeOK, Request, Whole
<1>2. CASE Lookup(c)
  <2> DEFINE i == IdOf(r.url)
  <2>1. requests'[c] = [r EXCEPT !.id = i, !.pc = IF i = None THEN "failed" ELSE "state"]
    BY <1>2 DEF Lookup, ServerTypeOK
  <2>2. i # None => feeds[i].url = r.url
    BY IdOfUrl
  <2> HIDE DEF i
  <2> QED
    BY <1>1, <2>1, <2>2 DEF Whole, UsesId, Request
<1>3. ASSUME NEW i \in Ids, i \notin orphaned, feeds[i] # None, feeds[i].url = r.url,
             NEW ok, ok # None => fetch_state[i] # None /\ ok = fetch_state[i].last_ok_at,
             requests'[c].url = r.url, requests'[c].id = i, requests'[c].ok = ok,
             requests'[c].pc = "list"
      PROVE  Whole(requests'[c])
  <2>1. ok # None => ok <= now /\ \A x \in Doc(r.url) : x < ok => x \in Safe(i)
    BY <1>3, ReadOk
  <2> QED
    BY <1>3, <2>1 DEF Whole, UsesId
<1>4. CASE ReadStates(c) \/ ReadState(c)
  <2> DEFINE st == fetch_state[r.id]
             ok == IF st = None THEN None ELSE st.last_ok_at
  <2>1. r.pc \in UsesId
    BY <1>4 DEF ReadStates, ReadState, Is, UsesId
  <2>2. requests'[c] = [r EXCEPT !.ok = ok, !.pc = "list"]
    BY <1>4 DEF ReadStates, ReadState, ServerTypeOK
  <2>3. /\ requests'[c].url = r.url /\ requests'[c].id = r.id /\ requests'[c].ok = ok
        /\ requests'[c].pc = "list"
    BY <1>1, <2>2 DEF Request
  <2>4. ok # None => fetch_state[r.id] # None /\ ok = fetch_state[r.id].last_ok_at
    OBVIOUS
  <2> HIDE DEF ok, st
  <2> QED
    BY <1>1, <1>3, <2>1, <2>2, <2>3, <2>4
<1>5. CASE ReadAgain(c)
  <2> DEFINE i == IdOf(r.url)
  <2>1. CASE i = None \/ fetch_state[i] = None
    <3>1. requests'[c] = [r EXCEPT !.pc = "failed"]
      BY <1>5, <2>1 DEF ReadAgain, ServerTypeOK
    <3> QED
      BY <1>1, <3>1 DEF Whole, UsesId, Request
  <2>2. CASE i # None /\ fetch_state[i] # None
    <3> DEFINE ok == fetch_state[i].last_ok_at
    <3>1. requests'[c] = [r EXCEPT !.id = i, !.ok = ok, !.pc = "list"]
      BY <1>5, <2>2 DEF ReadAgain, ServerTypeOK
    <3>2. i \in Ids /\ feeds[i] # None /\ feeds[i].url = r.url
      BY <2>2, IdOfUrl
    <3>3. ok # None => fetch_state[i] # None /\ ok = fetch_state[i].last_ok_at
      BY <2>2
    <3> HIDE DEF i, ok
    <3>4. /\ requests'[c].url = r.url /\ requests'[c].id = i /\ requests'[c].ok = ok
          /\ requests'[c].pc = "list"
      BY <1>1, <3>1 DEF Request
    <3>5. i \notin orphaned \/ requests'[c] = None
      BY <3>4 DEF UsesId
    <3> QED
      BY <1>3, <3>2, <3>3, <3>4, <3>5 DEF Whole
  <2> QED
    BY <2>1, <2>2
<1>6. CASE FoundCold(c) \/ InFlight(c)
  <2>1. r.pc \in UsesId /\ \E to \in {"cold", "again"} : requests'[c] = [r EXCEPT !.pc = to]
    BY <1>6 DEF FoundCold, InFlight, GoOn, Is, UsesId, ServerTypeOK
  <2> QED
    BY <1>1, <2>1 DEF Whole, UsesId, Request
<1>7. CASE ReadItems(c)
  <2> DEFINE S == Listed(items[r.id])
  <2>1. requests'[c] = [r EXCEPT !.items = S, !.pc = "done"] /\ r.pc = "list" /\ r.pc \in UsesId
    BY <1>7 DEF ReadItems, Is, UsesId, ServerTypeOK
  <2>2. ASSUME r.ok # None
        PROVE  r.ok <= now /\ \A x \in Doc(r.url) : x < r.ok => InAnswer(r.url, S, x)
    <3>1. r.ok <= now /\ \A x \in Doc(r.url) : x < r.ok => x \in Safe(r.id)
      BY <2>1, <2>2 DEF Whole
    <3>2. Doc(r.url) \subseteq Nat
      BY <1>1 DEF Doc, CacheInv, TypeOK
    <3>3. ASSUME NEW x \in Nat, x \in Safe(r.id) PROVE InAnswer(r.url, S, x)
      BY <1>1, <2>1, <3>3, ReadWhole DEF CacheInv
    <3> QED
      BY <3>1, <3>2, <3>3
  <2> HIDE DEF S
  <2> QED
    BY <1>1, <2>1, <2>2 DEF Whole, UsesId, Request
<1> QED
  BY <1>2, <1>4, <1>5, <1>6, <1>7

LEMMA WholeStep ==
  ASSUME CacheInv, CacheInv', ServerTypeOK, TornInv, WholeInv, [ServerNext]_serverVars
  PROVE  WholeInv'
<1>1. [Next]_vars /\ ServerTypeOK' /\ TornInv'
  BY ServerStep, TornStep DEF CacheInv
<1> SUFFICES ASSUME NEW c \in Callers, c \notin torn', NEW q, q = requests'[c], q # None
             PROVE  Whole(q)'
  BY DEF WholeInv, Whole
<1> DEFINE r == requests[c]
<1>2. q \in Request /\ c \notin torn /\ Whole(r) /\ r \in Request \cup {None}
  BY <1>1, TornStep DEF WholeInv, ServerTypeOK
<1>3. /\ r # None /\ r.pc \in UsesId => r.id \in Ids \ orphaned /\ feeds[r.id] # None
      /\ q.pc \in UsesId => q.id \in Ids \ orphaned' /\ feeds'[q.id] # None
  BY <1>1, <1>2 DEF TornInv, RowLost
<1>4. ASSUME r # None, q.url = r.url, q.id = r.id, q.pc \in UsesId => r.pc \in UsesId,
             q.pc \in {"list", "done"} => q = r
      PROVE  Whole(q)'
  BY <1>1, <1>2, <1>3, <1>4, WholeStands
<1>5. CASE q = r
  BY <1>4, <1>5
<1>6. ASSUME Handle(c) PROVE Whole(q)'
  <2>1. CASE q.pc \notin UsesId \cup {"done"}
    BY <2>1, WholeElse
  <2>2. CASE ColdFetch(c)
    BY <1>5, <2>2 DEF ColdFetch
  <2>3. CASE ColdStep(c)
    <3>1. \/ q = r
          \/ r.pc = "cold" /\ r # None /\ \E g \in BOOLEAN :
               q = [r EXCEPT !.pc = IF g THEN "again" ELSE "failed", !.fetched = g]
      <4> DEFINE good == fetches[c].pc \in {"notmod", "prune"}
      <4>1. good \in BOOLEAN
        OBVIOUS
      <4>2. \/ requests' = requests
            \/ requests' = [requests EXCEPT ![c] =
                 [requests[c] EXCEPT !.pc = IF good THEN "again" ELSE "failed",
                                     !.fetched = good]]
        BY <2>3 DEF ColdStep
      <4> HIDE DEF good
      <4> QED
        BY <2>3, <4>1, <4>2 DEF ColdStep, Is, ServerTypeOK
    <3> QED
      BY <1>2, <1>4, <1>5, <3>1 DEF UsesId, Request
  <2>4. CASE \/ Lookup(c) \/ ReadStates(c) \/ ReadState(c) \/ FoundCold(c) \/ InFlight(c)
             \/ ReadAgain(c) \/ ReadItems(c)
    <3>1. UNCHANGED vars /\ r # None
      BY <2>4 DEF Lookup, ReadStates, ReadState, FoundCold, InFlight, ReadAgain, ReadItems, Is
    <3>2. orphaned' = orphaned
      BY <3>1 DEF vars
    <3>3. Whole(q)
      BY <1>2, <1>3, <2>4, <3>1, <3>2, WholeReads
    <3> QED
      BY <3>1, <3>3, WholeUnchanged
  <2>5. ASSUME NEW to, GoOn(c, to), r # None PROVE q.pc = to
    BY <1>2, <2>5 DEF GoOn, ServerTypeOK, Request
  <2>6. CASE \/ \E kind \in Kind, u \in URL : Arrive(c, kind, u)
             \/ EnsureNew(c) \/ EnsureState(c) \/ EnsureFails(c) \/ EnsureKnown(c)
             \/ ReadNoState(c) \/ Leave(c)
    <3>1. q.pc \notin UsesId \cup {"done"}
      BY <2>5, <2>6 DEF Arrive, EnsureNew, EnsureState, EnsureFails, EnsureKnown, ReadNoState,
         Leave, Is, UsesId, ServerTypeOK
    <3> QED
      BY <2>1, <3>1
  <2> QED
    BY <1>6, <2>2, <2>3, <2>4, <2>6 DEF Handle
<1> QED
  BY <1>1, <1>5, <1>6, OthersStand DEF CacheInv

-----------------------------------------------------------------------------
(* A cold answer is warm.  A row with a validator has had a good fetch, so a *)
(* 304 to the handler's own request leaves one behind even when it is not    *)
(* recorded; and no statement takes last_ok_at back.                         *)

EtagInv ==
  \A i \in Ids : fetch_state[i] # None /\ fetch_state[i].etag # None =>
                   fetch_state[i].last_ok_at # None

\* What one step does to the row of one feed in fetch_state.
RowChange(i) ==
  \/ fetch_state'[i] = None /\ (fetch_state[i] = None \/ feeds'[i] = None)
  \/ fetch_state'[i] # None /\ fetch_state[i] = None /\ fetch_state'[i].etag = None
  \/ /\ fetch_state'[i] # None /\ fetch_state[i] # None
     /\ fetch_state'[i].etag = fetch_state[i].etag
     /\ fetch_state'[i].last_ok_at = fetch_state[i].last_ok_at
  \/ fetch_state'[i] # None /\ fetch_state'[i].last_ok_at # None

LEMMA RowWritten ==
  ASSUME TypeOK, TypeOK', [Next]_vars
  PROVE  \A i \in Ids : RowChange(i)
<1>0. None \notin Nat /\ None \notin StateRow
  BY StoreAssumption
<1>1. CASE fetch_state' = fetch_state
  BY <1>1 DEF RowChange
<1>2. ASSUME NEW j \in Ids, NEW t \in Nat, InsertFetchState(j, t)
      PROVE  \A i \in Ids : RowChange(i)
  <2>1. [etag |-> None, next_poll_at |-> t, locked_until |-> None, last_ok_at |-> None]
          \in StateRow
    BY <1>2 DEF StateRow
  <2> QED
    BY <1>0, <1>2, <2>1 DEF InsertFetchState, RowChange, TypeOK, StoreTypeOK
<1>3. ASSUME NEW S \in SUBSET Ids, NEW until \in Nat, Lock(S, until),
             \A i \in S : fetch_state[i] # None
      PROVE  \A i \in Ids : RowChange(i)
  <2> SUFFICES ASSUME NEW i \in Ids PROVE RowChange(i)
    OBVIOUS
  <2>1. CASE i \notin S
    BY <1>3, <2>1 DEF Lock, RowChange
  <2>2. CASE i \in S
    <3>1. fetch_state[i] \in StateRow /\ fetch_state[i] # None
      BY <1>3, <2>2 DEF TypeOK, StoreTypeOK
    <3>2. fetch_state'[i] = [fetch_state[i] EXCEPT !.locked_until = until]
      BY <1>3, <2>2 DEF Lock
    <3>3. fetch_state'[i] # None
      BY <3>1, <3>2, LockedRow
    <3>4. /\ fetch_state'[i].etag = fetch_state[i].etag
          /\ fetch_state'[i].last_ok_at = fetch_state[i].last_ok_at
      BY <3>1, <3>2 DEF StateRow
    <3> QED
      BY <3>1, <3>3, <3>4 DEF RowChange
  <2> QED
    BY <2>1, <2>2
<1>4. CASE ClaimDueFeeds
  <2>1. PICK S \in SUBSET Ids : ClaimDue(S, now)
    BY <1>4 DEF ClaimDueFeeds
  <2>2. \A i \in S : fetch_state[i] # None
    BY <2>1 DEF ClaimDue, ClaimableBatch, IsDue
  <2>3. Lock(S, now + LockFor) /\ now + LockFor \in Nat
    BY <2>1, StoreAssumption DEF ClaimDue, TypeOK
  <2> QED
    BY <1>3, <2>2, <2>3
<1>5. ASSUME NEW i \in Ids, ClaimFeed(i, now) PROVE \A k \in Ids : RowChange(k)
  <2>1. {i} \in SUBSET Ids /\ \A k \in {i} : fetch_state[k] # None
    BY <1>5 DEF ClaimFeed
  <2>2. Lock({i}, now + LockFor) /\ now + LockFor \in Nat
    BY <1>5, StoreAssumption DEF ClaimFeed, TypeOK
  <2> QED
    BY <1>3, <2>1, <2>2
<1>6. CASE Evict
  BY <1>6 DEF Evict, EvictFeeds, RowChange
<1>7. ASSUME NEW j \in Ids, NEW tag \in Etag \cup {None}, NEW title, NEW at \in Nat,
             NEW next \in Nat, RecordFetchOK(j, tag, title, at, next)
      PROVE  \A i \in Ids : RowChange(i)
  <2>1. ASSUME fetch_state[j] # None
        PROVE  fetch_state'[j] # None /\ fetch_state'[j].last_ok_at # None
    <3>1. fetch_state[j] \in StateRow
      BY <2>1 DEF TypeOK, StoreTypeOK
    <3> DEFINE row == [etag |-> IF tag = None THEN fetch_state[j].etag ELSE tag,
                       next_poll_at |-> next, locked_until |-> None, last_ok_at |-> at]
    <3>2. row \in StateRow /\ row.last_ok_at \in Nat
      BY <1>7, <3>1 DEF StateRow
    <3>3. fetch_state'[j] = row
      BY <1>7, <2>1 DEF RecordFetchOK, TypeOK, StoreTypeOK
    <3> QED
      BY <1>0, <3>2, <3>3
  <2>2. fetch_state[j] = None => fetch_state'[j] = None
    BY <1>7 DEF RecordFetchOK, TypeOK, StoreTypeOK
  <2>3. \A i \in Ids : i # j => fetch_state'[i] = fetch_state[i]
    BY <1>7 DEF RecordFetchOK, TypeOK, StoreTypeOK
  <2> QED
    BY <2>1, <2>2, <2>3 DEF RowChange
<1>8. ASSUME NEW j \in Ids, NEW next \in Nat, RecordFetchError(j, next)
      PROVE  \A i \in Ids : RowChange(i)
  <2>1. ASSUME fetch_state[j] # None
        PROVE  /\ fetch_state'[j] # None /\ fetch_state'[j].etag = fetch_state[j].etag
               /\ fetch_state'[j].last_ok_at = fetch_state[j].last_ok_at
    <3>1. fetch_state[j] \in StateRow
      BY <2>1 DEF TypeOK, StoreTypeOK
    <3> DEFINE row == [fetch_state[j] EXCEPT !.next_poll_at = next, !.locked_until = None]
    <3>2. row \in StateRow /\ row.etag = fetch_state[j].etag
          /\ row.last_ok_at = fetch_state[j].last_ok_at
      BY <1>8, <3>1 DEF StateRow
    <3>3. fetch_state'[j] = row
      BY <1>8, <2>1 DEF RecordFetchError, TypeOK, StoreTypeOK
    <3> QED
      BY <1>0, <3>2, <3>3
  <2>2. fetch_state[j] = None => fetch_state'[j] = None
    BY <1>8 DEF RecordFetchError, TypeOK, StoreTypeOK
  <2>3. \A i \in Ids : i # j => fetch_state'[i] = fetch_state[i]
    BY <1>8 DEF RecordFetchError, TypeOK, StoreTypeOK
  <2> QED
    BY <2>1, <2>2, <2>3 DEF RowChange
<1>9. ASSUME NEW e \in Fetchers, FetchOne(e) PROVE \A i \in Ids : RowChange(i)
  <2>1. ASSUME fetches[e] # None
        PROVE  /\ fetches[e].d.id \in Ids /\ fetches[e].d.url \in URL
               /\ fetches[e].started \in Nat /\ fetches[e].body \in SUBSET Nat
               /\ \A wait \in OkWaits \cup ErrWaits : fetches[e].started + wait \in Nat
    BY <2>1, PollerAssumption DEF TypeOK, Fetch, Due
  <2>2. CASE RecordOK(e)
    <3>1. fetches[e] # None
      BY <2>2 DEF RecordOK, CanGo, At
    <3>2. EtagOf(fetches[e].d.url, fetches[e].body) \in Etag
      BY <2>1, <3>1 DEF EtagOf, Etag
    <3>3. (IF fetches[e].tag THEN EtagOf(fetches[e].d.url, fetches[e].body) ELSE None)
            \in Etag \cup {None}
      BY <3>2
    <3> QED
      BY <1>7, <2>1, <2>2, <3>1, <3>3 DEF RecordOK
  <2>3. CASE RecordNotModified(e)
    BY <1>7, <2>1, <2>3 DEF RecordNotModified, CanGo, At
  <2>4. CASE RecordError(e)
    BY <1>8, <2>1, <2>4 DEF RecordError, CanGo, At
  <2> QED
    BY <1>1, <1>9, <2>2, <2>3, <2>4 DEF FetchOne, StartGet, RespondNotModified, RespondOK,
       RespondError, Upsert, UpsertItems, Prune, PruneItems, StoreFails, SelectFeed,
       SelectState, storeVars
<1>10. CASE Next
  <2>1. now \in Nat
    BY DEF TypeOK
  <2> QED
    BY <1>1, <1>2, <1>4, <1>5, <1>6, <1>9, <1>10, <2>1
       DEF Next, Environment, Scheduler, Tick, Publish, BeginRegister, InsertFeed,
           FinishRegister, AbandonRegister, RequestAgain, TouchFeed, Dispatch, FetchNow,
           Restart, storeVars
<1> QED
  BY <1>1, <1>10 DEF vars, implVars, storeVars

LEMMA EtagStep ==
  ASSUME EtagInv, \A i \in Ids : RowChange(i)
  PROVE  EtagInv'
BY DEF EtagInv, RowChange

\* A row that is there before and after keeps having had a good fetch.
LEMMA RowKept ==
  ASSUME NEW i \in Ids, RowChange(i), fetch_state[i] # None, feeds'[i] # None
  PROVE  /\ fetch_state'[i] # None
         /\ fetch_state[i].last_ok_at # None => fetch_state'[i].last_ok_at # None
BY DEF RowChange

LEMMA RecordWrites ==
  ASSUME TypeOK, NEW i \in Ids, NEW tag, NEW title, NEW at \in Nat, NEW next,
         fetch_state[i] # None, RecordFetchOK(i, tag, title, at, next)
  PROVE  fetch_state'[i].last_ok_at # None
<1>1. fetch_state'[i].last_ok_at = at
  BY DEF RecordFetchOK, TypeOK, StoreTypeOK
<1> QED
  BY <1>1, StoreAssumption

\* A handler has a fetch of its own only while it waits for it.
ColdOnly == \A c \in Callers : fetches[c] # None => Is(c, "cold")

\* What a request r and the handler's own fetch f know.
Warm(r, f) ==
  /\ f # None =>
       /\ r # None /\ r.pc = "cold" /\ f.d.id = r.id
       /\ fetch_state[r.id] # None
       /\ f.pc = "notmod" => f.d.etag # None
       /\ f.d.etag # None \/ f.pc = "prune" => fetch_state[r.id].last_ok_at # None
  /\ r # None /\ r.fetched =>
       /\ r.pc \in {"again", "list", "done", "failed"}
       /\ r.pc = "again" =>
            fetch_state[r.id] # None /\ fetch_state[r.id].last_ok_at # None
       /\ r.pc \in {"list", "done"} => r.ok # None

WarmInv == \A c \in Callers \ torn : Warm(requests[c], fetches[c])

LEMMA ColdOnlyStep ==
  ASSUME TypeOK, ServerTypeOK, ColdOnly, [ServerNext]_serverVars
  PROVE  ColdOnly'
<1> SUFFICES ASSUME NEW c \in Callers, fetches'[c] # None
             PROVE  requests'[c] # None /\ requests'[c].pc = "cold"
  BY DEF ColdOnly, Is
<1>1. CASE ~Handle(c)
  BY <1>1, OthersStand DEF ColdOnly, Is
<1>2. CASE Handle(c)
  <2>1. CASE ColdFetch(c)
    BY <2>1 DEF ColdFetch, Is
  <2>2. CASE ColdStep(c)
    BY <2>2 DEF ColdStep, Is
  <2>3. ASSUME fetches' = fetches, ~Is(c, "cold") \/ fetches[c] = None PROVE FALSE
    BY <2>3 DEF ColdOnly
  <2>4. CASE \/ EnsureNew(c) \/ EnsureState(c) \/ EnsureFails(c) \/ EnsureKnown(c)
    BY <2>3, <2>4 DEF EnsureNew, EnsureState, EnsureFails, EnsureKnown,
       BeginRegister, FinishRegister, AbandonRegister, RequestAgain, Is,
       vars, implVars, procVars
  <2>5. CASE UNCHANGED vars
    <3>1. fetches' = fetches
      BY <2>5 DEF vars, implVars, procVars
    <3> QED
      BY <1>2, <2>1, <2>2, <2>3, <2>4, <3>1 DEF Handle, Arrive, Lookup, ReadStates, ReadNoState,
         ReadState, FoundCold, InFlight, ReadAgain, ReadItems, Leave, Is
  <2> QED
    BY <1>2, <2>1, <2>2, <2>4, <2>5 DEF Handle, Arrive, Lookup, ReadStates, ReadNoState,
       ReadState, FoundCold, InFlight, ReadAgain, ReadItems, Leave
<1> QED
  BY <1>1, <1>2

LEMMA WarmStands ==
  ASSUME NEW r, NEW f, Warm(r, f), \A i \in Ids : RowChange(i),
         r # None /\ r.pc \in UsesId => r.id \in Ids /\ feeds'[r.id] # None
  PROVE  Warm(r, f)'
BY RowKept DEF Warm, UsesId

LEMMA NotFetched ==
  ASSUME NEW q, q # None => ~q.fetched
  PROVE  Warm(q, None)'
BY DEF Warm

\* A handler's own fetch goes on or returns.
LEMMA WarmColdStep ==
  ASSUME TypeOK, ServerTypeOK, EtagInv, NEW c \in Callers, ColdStep(c), NEW r, r = requests[c],
         Warm(r, fetches[c]), \A i \in Ids : RowChange(i), feeds'[r.id] # None,
         NEW q, q = requests'[c], NEW g, g = fetches'[c]
  PROVE  Warm(q, g)'
<1> DEFINE f == fetches[c]
<1>1. /\ r # None /\ r \in Request /\ r.pc = "cold" /\ r.id \in Ids /\ ~r.fetched
      /\ c \in Fetchers /\ f # None /\ f \in Fetch
  <2>1. f # None
    BY DEF ColdStep, FetchOne, StartGet, RespondNotModified, RespondOK, RespondError, Upsert,
       RecordOK, RecordNotModified, RecordError, Prune, StoreFails, SelectFeed, SelectState,
       CanGo, At
  <2>2. r # None /\ r.pc = "cold" /\ r \in Request
    BY AtWork DEF ColdStep, Is
  <2>3. r.id \in Ids
    BY AtWork DEF ColdStep, UsesId
  <2> QED
    BY <2>1, <2>2, <2>3 DEF Warm, Fetchers, TypeOK
<1>2. /\ f.d.id = r.id /\ fetch_state[r.id] # None
      /\ f.pc = "notmod" => f.d.etag # None
      /\ f.d.etag # None \/ f.pc = "prune" => fetch_state[r.id].last_ok_at # None
  BY <1>1 DEF Warm
<1>3. /\ fetch_state'[r.id] # None
      /\ fetch_state[r.id].last_ok_at # None => fetch_state'[r.id].last_ok_at # None
  BY <1>1, <1>2, RowKept
<1>4. CASE g # None
  <2>1. q = r
    BY <1>4 DEF ColdStep
  <2>2. ASSUME NEW pc, GoTo(c, pc) PROVE g.d = f.d /\ g.pc = pc
    BY <1>1, <2>2 DEF GoTo, TypeOK, Fetch
  <2>3. ~Return(c)
    BY <1>1, <1>4 DEF Return, TypeOK
  <2>4. ASSUME ~SelectFeed(c), ~SelectState(c)
        PROVE  /\ g.d = f.d
               /\ g.pc = "notmod" => f.d.etag # None
               /\ g.pc = "prune" => fetch_state'[r.id].last_ok_at # None
    <3>1. CASE StartGet(c)
      BY <1>1, <3>1 DEF StartGet, TypeOK, Fetch
    <3>2. CASE RespondNotModified(c)
      <4>1. f.d.etag = EtagOf(f.d.url, Doc(f.d.url)) /\ f.d.url \in URL
        BY <1>1, <3>2 DEF RespondNotModified, Fetch, Due
      <4>2. Doc(f.d.url) \in SUBSET Nat
        BY <4>1 DEF Doc, TypeOK
      <4>3. f.d.etag \in Etag
        BY <4>1, <4>2 DEF EtagOf, Etag
      <4> QED
        BY <2>2, <3>2, <4>3, StoreAssumption DEF RespondNotModified
    <3>3. CASE RespondOK(c)
      BY <1>1, <3>3 DEF RespondOK, TypeOK, Fetch
    <3>4. CASE RespondError(c) \/ Upsert(c)
      BY <2>2, <3>4 DEF RespondError, Upsert
    <3>5. CASE RecordOK(c)
      <4>1. f.started \in Nat
        BY <1>1 DEF Fetch
      <4>2. fetch_state'[r.id].last_ok_at # None
        BY <1>1, <1>2, <3>5, <4>1, RecordWrites DEF RecordOK
      <4> QED
        BY <2>2, <3>5, <4>2 DEF RecordOK
    <3> QED
      BY <2>3, <2>4, <3>1, <3>2, <3>3, <3>4, <3>5 DEF ColdStep, FetchOne, RecordNotModified,
         RecordError, Prune, StoreFails
  <2>5. CASE SelectFeed(c)
    <3>1. ReadsRow(c) /\ g.d.etag = f.d.etag
      BY <1>1, <2>5, SelectFeedReads
    <3> QED
      BY <1>1, <1>2, <1>3, <2>1, <3>1 DEF ReadsRow, Warm
  <2>6. CASE SelectState(c)
    <3>1. ReadsRow(c) /\ g.d.etag = fetch_state[r.id].etag
      BY <1>1, <1>2, <2>6, SelectStateReads
    <3>2. g.d.etag # None => fetch_state'[r.id].last_ok_at # None
      BY <1>1, <1>2, <1>3, <3>1 DEF EtagInv
    <3> QED
      BY <1>1, <1>2, <1>3, <2>1, <3>1, <3>2 DEF ReadsRow, Warm
  <2> QED
    BY <1>1, <1>2, <1>3, <2>1, <2>4, <2>5, <2>6 DEF Warm
<1>5. CASE g = None
  <2> DEFINE good == f.pc \in {"notmod", "prune"}
  <2>1. q = [r EXCEPT !.pc = IF good THEN "again" ELSE "failed", !.fetched = good]
    BY <1>5 DEF ColdStep, ServerTypeOK
  <2>2. good => fetch_state'[r.id].last_ok_at # None
    BY <1>2, <1>3
  <2> HIDE DEF good, f
  <2>3. q.id = r.id /\ (q.fetched => q.pc = "again" /\ good)
    BY <1>1, <2>1 DEF Request
  <2> QED
    BY <1>3, <1>5, <2>2, <2>3 DEF Warm
<1> QED
  BY <1>4, <1>5

\* The other steps of a handler.
LEMMA WarmOwnStep ==
  ASSUME TypeOK, UniqueUrls, ServerTypeOK, EtagInv, ColdOnly, NEW c \in Callers,
         NEW r, r = requests[c], Warm(r, fetches[c]), Whole(r),
         r # None /\ r.pc \in UsesId => r.id \in Ids /\ feeds[r.id] # None,
         \A i \in Ids : RowChange(i), Handle(c), ~ColdStep(c),
         NEW q, q = requests'[c], NEW g, g = fetches'[c],
         q # None /\ q.pc \in UsesId => feeds'[q.id] # None
  PROVE  Warm(q, g)'
<1>1. CASE ColdFetch(c)
  <2>1. q = r /\ r # None /\ r.pc = "cold" /\ r.id \in Ids /\ feeds'[r.id] # None
    BY <1>1, AtWork DEF ColdFetch, Is, UsesId
  <2>2. fetch_state[r.id] # None /\ g = StartedFetch("claimed", DueOf(r.id, now + LockFor))
    BY <1>1 DEF ColdFetch, FetchNow, ClaimFeed, TypeOK, Fetchers
  <2>3. g.pc = "claimed" /\ g.d.id = r.id /\ g.d.etag = fetch_state[r.id].etag
    BY <2>2 DEF StartedFetch, DueOf
  <2>4. ~r.fetched
    BY <2>1 DEF Warm
  <2> QED
    BY <2>1, <2>2, <2>3, <2>4, RowKept DEF Warm, EtagInv
<1>2. CASE ~ColdFetch(c)
  <2>1. fetches[c] = None \/ (r # None /\ r.pc = "cold")
    BY DEF ColdOnly, Is
  <2>2. g = None
    <3>1. fetches' = fetches /\ (Is(c, "cold") => fetches[c] = None)
      BY <1>2 DEF Handle, Arrive, EnsureNew, EnsureState, EnsureFails, EnsureKnown, Lookup,
         ReadStates, ReadNoState, ReadState, FoundCold, InFlight, ReadAgain,
         ReadItems, Leave, BeginRegister, FinishRegister, AbandonRegister, RequestAgain,
         Is, vars, implVars, procVars
    <3> QED
      BY <2>1, <3>1 DEF Is
  <2>3. ASSUME NEW to, GoOn(c, to), r # None, r \in Request
        PROVE  q.pc = to /\ q.fetched = r.fetched
    BY <2>3 DEF GoOn, ServerTypeOK, Request
  <2>4. r # None => r \in Request
    BY DEF ServerTypeOK
  <2>5. ASSUME q # None => ~q.fetched PROVE Warm(q, g)'
    BY <2>2, <2>5, NotFetched
  <2>6. CASE \E kind \in Kind, u \in URL : Arrive(c, kind, u)
    BY <2>5, <2>6 DEF Arrive, ServerTypeOK
  <2>7. CASE \/ EnsureNew(c) \/ EnsureState(c) \/ EnsureFails(c) \/ EnsureKnown(c)
             \/ ReadNoState(c) \/ FoundCold(c) \/ InFlight(c)
    <3>1. r # None /\ ~r.fetched
      BY <2>7 DEF Warm, EnsureNew, EnsureState, EnsureFails, EnsureKnown, ReadNoState, FoundCold,
         InFlight, Is
    <3>2. q.fetched = r.fetched
      BY <2>3, <2>4, <2>7, <3>1 DEF EnsureNew, EnsureState, EnsureFails, EnsureKnown,
         ReadNoState, FoundCold, InFlight
    <3> QED
      BY <2>5, <3>1, <3>2
  <2>8. CASE Lookup(c) \/ ReadStates(c) \/ ReadState(c)
    <3>1. r # None /\ ~r.fetched /\ r \in Request
      BY <2>4, <2>8 DEF Warm, Lookup, ReadStates, ReadState, Is
    <3>2. ASSUME NEW x, NEW pc,
                 \/ requests' = [requests EXCEPT ![c] = [requests[c] EXCEPT !.id = x, !.pc = pc]]
                 \/ requests' = [requests EXCEPT ![c] = [requests[c] EXCEPT !.ok = x, !.pc = pc]]
          PROVE  Warm(q, g)'
      <4>1. \/ q = [r EXCEPT !.id = x, !.pc = pc]
            \/ q = [r EXCEPT !.ok = x, !.pc = pc]
        BY <3>2 DEF ServerTypeOK
      <4>2. q.fetched = r.fetched
        BY <3>1, <4>1 DEF Request
      <4> QED
        BY <2>5, <3>1, <4>2
    <3> DEFINE i  == IdOf(requests[c].url)
               st == fetch_state[requests[c].id]
    <3>3. CASE Lookup(c)
      <4>1. requests' = [requests EXCEPT ![c] =
              [requests[c] EXCEPT !.id = i, !.pc = IF i = None THEN "failed" ELSE "state"]]
        BY <3>3 DEF Lookup
      <4> HIDE DEF i
      <4> QED
        BY <3>2, <4>1
    <3>4. CASE ReadStates(c)
      <4>1. requests' = [requests EXCEPT ![c] = [requests[c] EXCEPT
              !.ok = IF st = None THEN None ELSE st.last_ok_at, !.pc = "list"]]
        BY <3>4 DEF ReadStates
      <4> HIDE DEF st
      <4> QED
        BY <3>2, <4>1
    <3>5. CASE ReadState(c)
      BY <3>2, <3>5 DEF ReadState
    <3> QED
      BY <2>8, <3>3, <3>4, <3>5
  <2>9. CASE ReadAgain(c)
    <3>1. /\ r # None /\ r.pc = "again" /\ r \in Request /\ r.id \in Ids
          /\ feeds[r.id] # None /\ feeds[r.id].url = r.url
      BY <2>4, <2>9 DEF ReadAgain, Is, Whole, UsesId
    <3>2. IdOf(r.url) = r.id
      BY <3>1, IdOfUrl DEF UniqueUrls, IdOf
    <3> DEFINE ok == fetch_state[r.id].last_ok_at
    <3>3. \/ q = [r EXCEPT !.pc = "failed"]
          \/ q = [r EXCEPT !.id = r.id, !.ok = ok, !.pc = "list"]
      BY <2>9, <3>2 DEF ReadAgain, ServerTypeOK
    <3>4. r.fetched => ok # None
      BY <3>1 DEF Warm
    <3> HIDE DEF ok
    <3>5. q.fetched = r.fetched /\ (q.pc = "failed" \/ (q.pc = "list" /\ q.ok = ok))
      BY <3>1, <3>3 DEF Request
    <3> QED
      BY <2>2, <3>4, <3>5 DEF Warm
  <2>10. CASE ReadItems(c)
    <3>1. r # None /\ r.pc = "list" /\ r \in Request
      BY <2>4, <2>10 DEF ReadItems, Is
    <3>2. q.fetched = r.fetched /\ q.pc = "done" /\ q.ok = r.ok
      BY <2>10, <3>1 DEF ReadItems, ServerTypeOK, Request
    <3> QED
      BY <2>2, <3>1, <3>2 DEF Warm
  <2>11. CASE Leave(c)
    BY <2>5, <2>11 DEF Leave, ServerTypeOK
  <2> QED
    BY <1>2, <2>6, <2>7, <2>8, <2>9, <2>10, <2>11 DEF Handle
<1> QED
  BY <1>1, <1>2

LEMMA WarmStep ==
  ASSUME CacheInv, CacheInv', ServerTypeOK, TornInv, WholeInv, EtagInv, ColdOnly, WarmInv,
         [ServerNext]_serverVars
  PROVE  EtagInv' /\ ColdOnly' /\ WarmInv'
<1>1. [Next]_vars /\ ServerTypeOK' /\ TornInv' /\ ColdOnly'
  BY ServerStep, TornStep, ColdOnlyStep DEF CacheInv
<1>2. \A i \in Ids : RowChange(i)
  BY <1>1, RowWritten DEF CacheInv
<1> SUFFICES ASSUME NEW c \in Callers, c \notin torn', NEW q, q = requests'[c],
                    NEW g, g = fetches'[c], NEW r, r = requests[c]
             PROVE  Warm(q, g)'
  BY <1>1, <1>2, EtagStep DEF WarmInv, Warm
<1>3. CASE q = None
  BY <1>1, <1>3, NotFetched DEF ColdOnly, Is
<1>4. CASE q # None
  <2>1. c \notin torn /\ Warm(r, fetches[c]) /\ Whole(r)
    BY <1>4, TornStep DEF WarmInv, WholeInv
  <2>2. /\ r # None /\ r.pc \in UsesId => r.id \in Ids /\ feeds[r.id] # None
        /\ q.pc \in UsesId => q.id \in Ids /\ feeds'[q.id] # None
    BY <1>1, <1>4, <2>1 DEF TornInv, RowLost
  <2>3. CASE ~Handle(c)
    <3>1. q = r /\ g = fetches[c]
      BY <1>4, <2>3, OthersStand DEF CacheInv
    <3> QED
      BY <1>2, <1>4, <2>1, <2>2, <3>1, WarmStands
  <2>4. CASE ColdStep(c)
    <3>1. r # None /\ r.pc \in UsesId
      BY <2>4 DEF ColdStep, Is, UsesId
    <3>2. r \in Request
      BY <3>1 DEF ServerTypeOK
    <3>3. \/ q = r
          \/ g = None /\ \E good \in BOOLEAN :
               q = [r EXCEPT !.pc = IF good THEN "again" ELSE "failed", !.fetched = good]
      <4> DEFINE good == fetches[c].pc \in {"notmod", "prune"}
      <4>1. good \in BOOLEAN
        OBVIOUS
      <4>2. \/ requests' = requests
            \/ g = None /\ requests' = [requests EXCEPT ![c] =
                 [requests[c] EXCEPT !.pc = IF good THEN "again" ELSE "failed",
                                     !.fetched = good]]
        BY <2>4 DEF ColdStep
      <4> HIDE DEF good
      <4> QED
        BY <3>1, <4>1, <4>2 DEF ServerTypeOK
    <3>4. CASE q.pc \in UsesId /\ q.id = r.id
      BY <1>2, <1>4, <2>1, <2>2, <2>4, <3>1, <3>4, WarmColdStep DEF CacheInv
    <3>5. CASE g = None /\ ~q.fetched
      BY <3>5, NotFetched
    <3> QED
      BY <3>1, <3>2, <3>3, <3>4, <3>5 DEF Request, UsesId
  <2>5. CASE Handle(c) /\ ~ColdStep(c)
    BY <1>1, <1>2, <1>4, <2>1, <2>2, <2>5, WarmOwnStep DEF CacheInv
  <2> QED
    BY <2>3, <2>4, <2>5
<1> QED
  BY <1>3, <1>4

-----------------------------------------------------------------------------
(* The answers.                                                              *)

AnswerInv == ServerTypeOK /\ TornInv /\ WholeInv /\ EtagInv /\ ColdOnly /\ WarmInv

LEMMA AnswerInit == ServerInit => AnswerInv
<1>1. ServerInit => ServerTypeOK /\ TornInv /\ WholeInv
  BY DEF ServerInit, ServerTypeOK, TornInv, RowLost, WholeInv, Whole
<1>2. ServerInit => EtagInv /\ ColdOnly /\ WarmInv
  BY DEF ServerInit, Init, StoreInit, EtagInv, ColdOnly, WarmInv, Warm, Fetchers
<1> QED
  BY <1>1, <1>2 DEF AnswerInv

LEMMA AnswerStep ==
  ASSUME CacheInv, CacheInv', AnswerInv, [ServerNext]_serverVars
  PROVE  AnswerInv'
<1>1. ServerTypeOK' /\ TornInv'
  BY ServerStep, TornStep DEF AnswerInv, CacheInv
<1>2. WholeInv'
  BY WholeStep DEF AnswerInv
<1>3. EtagInv' /\ ColdOnly' /\ WarmInv'
  BY WarmStep DEF AnswerInv
<1> QED
  BY <1>1, <1>2, <1>3 DEF AnswerInv

LEMMA AlwaysAnswer == ServerSpec => []AnswerInv
<1>1. ServerSpec => []CacheInv
  BY Implementation, AlwaysFresh DEF ImplementsPoller
<1>2. CacheInv /\ CacheInv' /\ AnswerInv /\ [ServerNext]_serverVars => AnswerInv'
  BY AnswerStep
<1> QED
  BY <1>1, <1>2, AnswerInit, PTL DEF ServerSpec

\* server.go:223-229: a client that is given the time of the last good fetch
\* gets every headline its publisher listed by then that retention and the
\* limit leave, whatever fetches, failures and restarts its two reads of the
\* store straddle, and whatever evictions that spare its feed.
THEOREM AnswersWhole == ServerSpec => []AnswerIsWhole
<1>1. AnswerInv => AnswerIsWhole
  BY DEF AnswerInv, WholeInv, Whole, InAnswer, AnswerIsWhole, Answered, Is
<1> QED
  BY <1>1, AlwaysAnswer, PTL

\* README.md:25: a handler whose own fetch of a cold feed was good answers
\* with what a good fetch left, also when its record or prune failed.
THEOREM ColdAnswersWarm == ServerSpec => []ColdAnswerIsWarm
<1>1. AnswerInv => ColdAnswerIsWarm
  BY DEF AnswerInv, WarmInv, Warm, ColdAnswerIsWarm, Answered, Is
<1> QED
  BY <1>1, AlwaysAnswer, PTL
=============================================================================
