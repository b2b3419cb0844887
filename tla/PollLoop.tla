------------------------------ MODULE PollLoop ------------------------------
(* The poll loop over an unbounded stretch of time: which feeds Run claims,  *)
(* what happens to claims and locks when fetches fail, are not recorded or   *)
(* the process stops or is told to, and whether every feed gets its turn.    *)
(* Poller has the same loop statement by statement, with a clock that ends;  *)
(* here a moment of the future counts by how far it is, and the past by its  *)
(* order.                                                                    *)
EXTENDS Integers, FiniteSets

CONSTANTS
  Feed,        \* the feeds clients keep asking for, so that none is evicted
  Worker,      \* Config.Workers: the slots of the semaphore
  Caller,      \* API handlers in FetchNow
  ClaimBatch,  \* Config.ClaimBatch
  LockFor,     \* Config.LockFor
  Waits,       \* from a poll's record to the next poll: never in the past
  None,
  MaxFaults    \* BOUND: how often the process stops or a worker's statement fails

ASSUME PollLoopAssumption ==
  /\ IsFiniteSet(Feed)
  /\ ClaimBatch \in Nat \ {0} /\ LockFor \in Nat \ {0}
  /\ Waits \subseteq Nat \ {0} /\ Waits # {} /\ IsFiniteSet(Waits)
  /\ Worker \cap Caller = {} /\ None \notin Feed
  /\ MaxFaults \in Nat

VARIABLES
  left,   \* how far next_poll_at is: 0 of a feed that is due
  order,  \* <<f, g>> of two due feeds: f has the earlier next_poll_at
  lock,   \* how long locked_until keeps the feed from being claimed
  cold,   \* last_ok_at IS NULL
  batch,  \* Run's local due
  wanted, \* the feed each handler has found cold
  fetch,  \* the feed each goroutine is fetching
  faults,
  phase,  \* where main is: serving, in Shutdown, at <-pollDone, or returned
  loop    \* where Run is: in its select, in wg.Wait, or returned

life == <<phase, loop>>
vars == <<order, left, lock, cold, batch, wanted, fetch, faults, life>>

Due == {f \in Feed : left[f] = 0}

TypeOK ==
  /\ left \in [Feed -> Nat]
  /\ order \subseteq Due \X Due
  /\ lock \in [Feed -> 0..(LockFor + 1)]
  /\ cold \subseteq Feed
  /\ batch \subseteq Feed
  /\ wanted \in [Caller -> Feed \cup {None}]
  /\ fetch \in [Worker \cup Caller -> Feed \cup {None}]
  /\ faults \in 0..MaxFaults
  /\ phase \in {"serve", "shutdown", "join", "down"}
  /\ loop \in {"select", "wait", "returned"}
  \* next_poll_at orders the due feeds: of two, a third is after the first or
  \* before the second.
  /\ \A p \in order : /\ <<p[2], p[1]>> \notin order
                      /\ \A f \in Due : <<p[1], f>> \in order \/ <<f, p[2]>> \in order

\* Feeds are due when registered.
Init ==
  /\ left = [f \in Feed |-> 0]
  /\ order = {}
  /\ lock = [f \in Feed |-> 0]
  /\ cold = Feed
  /\ batch = {}
  /\ wanted = [c \in Caller |-> None]
  /\ fetch = [e \in Worker \cup Caller |-> None]
  /\ faults = 0
  /\ phase = "serve"
  /\ loop = "select"

-----------------------------------------------------------------------------
OneLess(n) == IF n > 0 THEN n - 1 ELSE 0
FallDue == {f \in Feed : left[f] = 1}

\* Mutant: a lock is over only when a record clears it.
Tick_LocksStay ==
  /\ left' = [f \in Feed |-> OneLess(left[f])]
  /\ lock' = lock
  /\ order' = order \cup Due \X FallDue
  /\ UNCHANGED <<cold, batch, wanted, fetch, faults, life>>

Tick ==
  /\ left' = [f \in Feed |-> OneLess(left[f])]
  /\ lock' = [f \in Feed |-> OneLess(lock[f])]
  /\ order' = order \cup Due \X FallDue
  /\ UNCHANGED <<cold, batch, wanted, fetch, faults, life>>

Claimable == {f \in Due : lock[f] = 0}

\* Mutant: LIMIT without ORDER BY next_poll_at.
Batches_Unordered ==
  {S \in SUBSET Claimable \ {{}} :
     Cardinality(S) = IF Cardinality(Claimable) < ClaimBatch
                      THEN Cardinality(Claimable) ELSE ClaimBatch}

\* ORDER BY next_poll_at LIMIT ClaimBatch
Batches ==
  {S \in SUBSET Claimable \ {{}} :
     /\ Cardinality(S) = IF Cardinality(Claimable) < ClaimBatch
                         THEN Cardinality(Claimable) ELSE ClaimBatch
     /\ \A f \in S, g \in Claimable \ S : <<g, f>> \notin order}

\* Mutant: a second too long.
LockAll_Longer(S) ==
  lock' = [f \in Feed |-> IF f \in S THEN LockFor + 2 ELSE lock[f]]

\* locked_until = now + LockFor, and only < now lets it go.
LockAll(S) == lock' = [f \in Feed |-> IF f \in S THEN LockFor + 1 ELSE lock[f]]

\* The signal cancels ctx, with which every statement then fails.
Live == phase = "serve"

ClaimDue ==
  /\ Live /\ loop = "select"
  /\ batch = {}
  /\ \E S \in Batches : LockAll(S) /\ batch' = S
  /\ UNCHANGED <<order, left, cold, wanted, fetch, faults, life>>

\* sem <- struct{}{}; go FetchOne: also with ctx done, if a slot is free.
Dispatch ==
  /\ loop = "select"
  /\ \E w \in Worker, f \in batch :
       /\ fetch[w] = None
       /\ fetch' = [fetch EXCEPT ![w] = f]
       /\ batch' = batch \ {f}
  /\ UNCHANGED <<order, left, lock, cold, wanted, faults, life>>

\* GET /v1/feeds reads the state; the claim is another statement, whatever
\* was recorded in between.
FoundCold(c, f) ==
  /\ phase # "down"
  /\ wanted[c] = None /\ fetch[c] = None
  /\ f \in cold
  /\ wanted' = [wanted EXCEPT ![c] = f]
  /\ UNCHANGED <<order, left, lock, cold, batch, fetch, faults, life>>

\* Due or not; locked, it answers with what there is.
FetchNow(c) ==
  /\ wanted[c] # None
  /\ wanted' = [wanted EXCEPT ![c] = None]
  /\ \/ /\ lock[wanted[c]] = 0
        /\ LockAll({wanted[c]})
        /\ fetch' = [fetch EXCEPT ![c] = wanted[c]]
     \/ lock[wanted[c]] > 0 /\ UNCHANGED <<lock, fetch>>
  /\ UNCHANGED <<order, left, cold, batch, faults, life>>

\* The record of a poll: next_poll_at is set, locked_until NULL.
Record(f) ==
  /\ order' = {p \in order : f \notin {p[1], p[2]}}
  /\ \E wait \in Waits : left' = [left EXCEPT ![f] = wait]
  /\ lock' = [lock EXCEPT ![f] = 0]

\* A worker's ctx is the loop's, a handler's its request's.
CanRecord(e) == e \in Worker => Live

FetchOK(e, f) ==
  /\ fetch[e] = f
  /\ CanRecord(e)
  /\ Record(f)
  /\ cold' = cold \ {f}
  /\ fetch' = [fetch EXCEPT ![e] = None]
  /\ UNCHANGED <<batch, wanted, faults, life>>

FetchFails(e, f) ==
  /\ fetch[e] = f
  /\ CanRecord(e)
  /\ Record(f)
  /\ fetch' = [fetch EXCEPT ![e] = None]
  /\ UNCHANGED <<cold, batch, wanted, faults, life>>

\* FetchNow's budget or the loop's ctx is over, so that nothing can be
\* recorded; or a statement fails.  The lock stays, and so does the feed's
\* place.
Unrecorded(e, f) ==
  /\ fetch[e] = f
  /\ \/ (e \in Caller \/ ~Live) /\ faults' = faults
     \/ Live /\ e \in Worker /\ faults < MaxFaults /\ faults' = faults + 1
  /\ fetch' = [fetch EXCEPT ![e] = None]
  /\ UNCHANGED <<order, left, lock, cold, batch, wanted, life>>

-----------------------------------------------------------------------------
(* The process: told to stop, it ends in order; it may also just stop.       *)

\* SIGTERM, or the listener fails and there is nothing to shut down.
Signal ==
  /\ Live
  /\ faults < MaxFaults
  /\ faults' = faults + 1
  /\ phase' \in {"shutdown", "join"}
  /\ UNCHANGED <<order, left, lock, cold, batch, wanted, fetch, loop>>

\* Run sees ctx done, in its select or with part of a batch to hand out.
LeaveLoop ==
  /\ ~Live /\ loop = "select"
  /\ loop' = "wait"
  /\ batch' = {}
  /\ UNCHANGED <<order, left, lock, cold, wanted, fetch, faults, phase>>

\* Mutant: no wg.Wait.
RunReturns_NoWait ==
  /\ loop = "wait"
  /\ loop' = "returned"
  /\ UNCHANGED <<order, left, lock, cold, batch, wanted, fetch, faults, phase>>

\* wg.Wait
RunReturns ==
  /\ loop = "wait"
  /\ \A w \in Worker : fetch[w] = None
  /\ loop' = "returned"
  /\ UNCHANGED <<order, left, lock, cold, batch, wanted, fetch, faults, phase>>

\* Mutant: Shutdown with a context that does not end.
ShutdownReturns_WhenIdle ==
  /\ phase = "shutdown"
  /\ \A c \in Caller : wanted[c] = None /\ fetch[c] = None
  /\ phase' = "join"
  /\ UNCHANGED <<order, left, lock, cold, batch, wanted, fetch, faults, loop>>

\* The handlers are done, or 20 seconds have passed.
ShutdownReturns ==
  /\ phase = "shutdown"
  /\ phase' = "join"
  /\ UNCHANGED <<order, left, lock, cold, batch, wanted, fetch, faults, loop>>

Stopped ==
  /\ batch' = {}
  /\ wanted' = [c \in Caller |-> None]
  /\ fetch' = [e \in Worker \cup Caller |-> None]
  /\ UNCHANGED <<order, left, lock, cold>>

\* <-pollDone, and the deferred st.Close: what handlers are left ends.
Exit ==
  /\ phase = "join" /\ loop = "returned"
  /\ phase' = "down"
  /\ Stopped
  /\ UNCHANGED <<faults, loop>>

Start ==
  /\ phase = "down"
  /\ phase' = "serve" /\ loop' = "select"
  /\ UNCHANGED <<order, left, lock, cold, batch, wanted, fetch, faults>>

\* The process stops and is started again: claims and fetches are gone.
Restart ==
  /\ faults < MaxFaults
  /\ faults' = faults + 1
  /\ phase' = "serve" /\ loop' = "select"
  /\ Stopped

-----------------------------------------------------------------------------
End(e, f) == FetchOK(e, f) \/ FetchFails(e, f) \/ Unrecorded(e, f)

Lifecycle ==
  Signal \/ LeaveLoop \/ RunReturns \/ ShutdownReturns \/ Exit \/ Start \/ Restart

Next ==
  \/ Tick \/ ClaimDue \/ Dispatch \/ Lifecycle
  \/ \E c \in Caller : FetchNow(c) \/ \E f \in Feed : FoundCold(c, f)
  \/ \E e \in Worker \cup Caller, f \in Feed : End(e, f)

-----------------------------------------------------------------------------
(* Time passes.  The loop's goroutine goes on: the ticker fires for ever and *)
(* a slot of the semaphore that frees is taken.  Every fetch ends, by the    *)
(* client's timeout if nothing else; how is up to the publisher and the      *)
(* disk.  Run sees ctx done, main goes from step to step, Shutdown at the    *)
(* latest by its timeout, and a process that ended is started again.  No     *)
(* handler has to come, and nothing makes one end.                           *)
Running ==
  /\ WF_vars(Tick) /\ WF_vars(ClaimDue) /\ WF_vars(Dispatch)
  /\ \A e \in Worker \cup Caller : WF_vars(\E f \in Feed : End(e, f))
  /\ WF_vars(LeaveLoop) /\ WF_vars(RunReturns)
  /\ WF_vars(ShutdownReturns) /\ WF_vars(Exit) /\ WF_vars(Start)

Spec == Init /\ [][Next]_vars /\ Running

-----------------------------------------------------------------------------
(* Properties.                                                               *)

Fetched(f) == \E e \in Worker \cup Caller : fetch[e] = f

\* Every feed is polled again and again: no other feed, however often it is
\* due, no lock left by a stop or by a poll that was not recorded, and no
\* number of polls that fail keeps one from its turn.
PolledForEver == \A f \in Feed : []<>Fetched(f)

\* The publisher of f and the disk are well some of the time they are needed.
Recovers(f) == \A e \in Worker \cup Caller : SF_vars(FetchOK(e, f))

\* A feed that answers "warming" stops to: if its fetches do not fail for
\* ever, one is recorded, whoever made the others.
WarmsUp == \A f \in Feed : Recovers(f) => <>(f \notin cold)

\* The database is never closed under the poller: when main returns, Run has
\* handed nothing out that is not done, though it went on doing so after the
\* signal and main waits for it only after Shutdown.
StoreOpenForPolls ==
  [][phase' = "down" => batch = {} /\ \A w \in Worker : fetch[w] = None]_vars

\* A process told to stop stops: neither a handler that does not end nor a
\* loop that is waiting for a slot keeps it.
ShutdownEnds == ~Live ~> (phase = "down" \/ Live)
=============================================================================
