--------------------------- MODULE PollLoopProofs ---------------------------
(* What the loop holds in each phase of the process's life, so that main     *)
(* closes the store when nothing of the poller is left to use it.            *)
EXTENDS PollLoop, TLAPS

-----------------------------------------------------------------------------
(* Types, and the order of the due feeds.                                    *)

\* order is a strict order in which feeds due at the same second are alike.
Ordered ==
  /\ order \subseteq Due \X Due
  /\ \A p \in order : /\ <<p[2], p[1]>> \notin order
                      /\ \A f \in Due : <<p[1], f>> \in order \/ <<f, p[2]>> \in order

LEMMA TickOrder ==
  ASSUME TypeOK, Tick
  PROVE  Ordered'
<1>1. Due' = Due \cup FallDue /\ Due \cap FallDue = {}
  BY DEF Tick, TypeOK, Due, FallDue, OneLess
<1>2. order' = order \cup Due \X FallDue
  BY DEF Tick
<1>3. \A f, g : <<f, g>> \in order' <=>
        <<f, g>> \in order \/ (f \in Due /\ g \in FallDue)
  BY <1>2
<1>4. \A p \in order' : p = <<p[1], p[2]>>
  BY <1>2 DEF TypeOK
<1>5. order' \subseteq Due' \X Due'
  BY <1>1, <1>2 DEF TypeOK
<1>6. ASSUME NEW f, NEW g, <<f, g>> \in order'
      PROVE  /\ <<g, f>> \notin order'
             /\ \A h \in Due' : <<f, h>> \in order' \/ <<h, g>> \in order'
  <2>1. CASE <<f, g>> \in order
    <3>1. f \in Due /\ g \in Due /\ <<g, f>> \notin order
          /\ \A h \in Due : <<f, h>> \in order \/ <<h, g>> \in order
      BY <2>1 DEF TypeOK
    <3> QED
      BY <1>1, <1>3, <3>1
  <2>2. CASE f \in Due /\ g \in FallDue
    <3>1. <<g, f>> \notin order
      BY <1>1, <2>2 DEF TypeOK
    <3> QED
      BY <1>1, <1>3, <2>2, <3>1
  <2> QED
    BY <1>3, <1>6, <2>1, <2>2
<1>7. ASSUME NEW p \in order'
      PROVE  /\ <<p[2], p[1]>> \notin order'
             /\ \A h \in Due' : <<p[1], h>> \in order' \/ <<h, p[2]>> \in order'
  <2>1. <<p[1], p[2]>> \in order'
    BY <1>4, <1>7
  <2> QED
    BY <1>6, <2>1
<1> QED
  BY <1>5, <1>7 DEF Ordered

LEMMA RecordOrder ==
  ASSUME TypeOK, NEW f \in Feed, Record(f)
  PROVE  left' \in [Feed -> Nat] /\ Ordered'
<1>1. PICK wait \in Waits : left' = [left EXCEPT ![f] = wait]
  BY DEF Record
<1>2. wait \in Nat \ {0}
  BY PollLoopAssumption
<1>3. left' \in [Feed -> Nat] /\ Due' = Due \ {f}
  BY <1>1, <1>2 DEF TypeOK, Due
<1>4. order' = {p \in order : f \notin {p[1], p[2]}}
  BY DEF Record
<1>5. order' \subseteq Due' \X Due'
  BY <1>3, <1>4 DEF TypeOK
<1>6. \A p \in order' : /\ <<p[2], p[1]>> \notin order'
                        /\ \A g \in Due' : <<p[1], g>> \in order' \/ <<g, p[2]>> \in order'
  BY <1>3, <1>4 DEF TypeOK
<1> QED
  BY <1>3, <1>5, <1>6 DEF Ordered

LEMMA SameOrder ==
  ASSUME TypeOK, UNCHANGED <<order, left>>
  PROVE  left' \in [Feed -> Nat] /\ Ordered'
BY DEF TypeOK, Ordered, Due

LEMMA LockType ==
  ASSUME TypeOK, NEW S \in SUBSET Feed, LockAll(S)
  PROVE  lock' \in [Feed -> 0..(LockFor + 1)]
BY PollLoopAssumption DEF TypeOK, LockAll

LEMMA InitType == Init => TypeOK
BY PollLoopAssumption DEF Init, TypeOK, Due, life

LEMMA NextType ==
  ASSUME TypeOK, [Next]_vars
  PROVE  TypeOK'
<1> USE DEF life
<1>0. ASSUME left' \in [Feed -> Nat], Ordered',
             lock' \in [Feed -> 0..(LockFor + 1)],
             cold' \subseteq Feed, batch' \subseteq Feed,
             wanted' \in [Caller -> Feed \cup {None}],
             fetch' \in [Worker \cup Caller -> Feed \cup {None}],
             faults' \in 0..MaxFaults,
             phase' \in {"serve", "shutdown", "join", "down"},
             loop' \in {"select", "wait", "returned"}
      PROVE  TypeOK'
  BY <1>0 DEF Ordered, TypeOK
<1>1. CASE Tick
  <2>1. left' \in [Feed -> Nat] /\ lock' \in [Feed -> 0..(LockFor + 1)]
    BY <1>1, PollLoopAssumption DEF Tick, OneLess, TypeOK
  <2> QED
    BY <1>0, <1>1, <2>1, TickOrder DEF Tick, TypeOK
<1>2. CASE ClaimDue
  <2>1. PICK S \in SUBSET Feed : LockAll(S) /\ batch' = S
    BY <1>2 DEF ClaimDue, Batches, Claimable, Due
  <2> QED
    BY <1>0, <1>2, <2>1, LockType, SameOrder DEF ClaimDue, TypeOK
<1>3. CASE Dispatch
  BY <1>0, <1>3, SameOrder DEF Dispatch, TypeOK
<1>4. ASSUME NEW c \in Caller, FetchNow(c) PROVE TypeOK'
  <2>1. wanted[c] \in Feed
    BY <1>4 DEF FetchNow, TypeOK
  <2>2. lock' \in [Feed -> 0..(LockFor + 1)]
    BY <1>4, <2>1, LockType DEF FetchNow, TypeOK
  <2> QED
    BY <1>0, <1>4, <2>1, <2>2, SameOrder DEF FetchNow, TypeOK
<1>5. ASSUME NEW c \in Caller, NEW f \in Feed, FoundCold(c, f) PROVE TypeOK'
  BY <1>0, <1>5, SameOrder DEF FoundCold, TypeOK
<1>6. ASSUME NEW e \in Worker \cup Caller, NEW f \in Feed, End(e, f) PROVE TypeOK'
  <2>1. CASE FetchOK(e, f) \/ FetchFails(e, f)
    <3>1. Record(f)
      BY <2>1 DEF FetchOK, FetchFails
    <3>2. lock' \in [Feed -> 0..(LockFor + 1)]
      BY <3>1, PollLoopAssumption DEF Record, TypeOK
    <3> QED
      BY <1>0, <2>1, <3>1, <3>2, RecordOrder DEF FetchOK, FetchFails, TypeOK
  <2>2. CASE Unrecorded(e, f)
    BY <1>0, <2>2, SameOrder, PollLoopAssumption DEF Unrecorded, TypeOK
  <2> QED
    BY <1>6, <2>1, <2>2 DEF End
<1>7. CASE Lifecycle
  <2>1. UNCHANGED <<order, left, lock, cold>>
    BY <1>7 DEF Lifecycle, Signal, LeaveLoop, RunReturns, ShutdownReturns, Exit, Start,
       Restart, Stopped
  <2>2. /\ batch' \subseteq Feed /\ wanted' \in [Caller -> Feed \cup {None}]
        /\ fetch' \in [Worker \cup Caller -> Feed \cup {None}]
    BY <1>7 DEF Lifecycle, Signal, LeaveLoop, RunReturns, ShutdownReturns, Exit, Start,
       Restart, Stopped, TypeOK
  <2>3. /\ faults' \in 0..MaxFaults
        /\ phase' \in {"serve", "shutdown", "join", "down"}
        /\ loop' \in {"select", "wait", "returned"}
    BY <1>7, PollLoopAssumption DEF Lifecycle, Signal, LeaveLoop, RunReturns,
       ShutdownReturns, Exit, Start, Restart, TypeOK
  <2> QED
    BY <1>0, <2>1, <2>2, <2>3, SameOrder DEF TypeOK
<1>8. CASE UNCHANGED vars
  BY <1>8 DEF vars, TypeOK, Due
<1> QED
  BY <1>1, <1>2, <1>3, <1>4, <1>5, <1>6, <1>7, <1>8 DEF Next

-----------------------------------------------------------------------------
(* The life of the process.                                                  *)

\* Run hands out nothing once it is out of its select, and is back only when
\* its workers are; main goes on from <-pollDone only when Run is back.
LifeInv ==
  /\ loop # "select" => batch = {} /\ phase # "serve"
  /\ loop = "returned" => \A w \in Worker : fetch[w] = None
  /\ phase = "down" => loop = "returned"

LEMMA NextLife ==
  ASSUME TypeOK, LifeInv, [Next]_vars
  PROVE  LifeInv'
<1> USE DEF LifeInv, life
<1>1. CASE Tick \/ ClaimDue \/ Dispatch
  BY <1>1 DEF Tick, ClaimDue, Dispatch, Live
<1>2. ASSUME NEW c \in Caller, FetchNow(c) \/ \E f \in Feed : FoundCold(c, f)
      PROVE  LifeInv'
  <2>1. \A w \in Worker : fetch'[w] = fetch[w]
    BY <1>2, PollLoopAssumption DEF FetchNow, FoundCold, TypeOK
  <2> QED
    BY <1>2, <2>1 DEF FetchNow, FoundCold
<1>3. ASSUME NEW e \in Worker \cup Caller, NEW f \in Feed, End(e, f) PROVE LifeInv'
  <2>1. \A w \in Worker : fetch'[w] \in {fetch[w], None}
    BY <1>3 DEF End, FetchOK, FetchFails, Unrecorded, TypeOK
  <2> QED
    BY <1>3, <2>1 DEF End, FetchOK, FetchFails, Unrecorded
<1>4. CASE Lifecycle
  BY <1>4 DEF Lifecycle, Signal, LeaveLoop, RunReturns, ShutdownReturns, Exit, Start,
     Restart, Stopped, Live
<1>5. CASE UNCHANGED vars
  BY <1>5 DEF vars
<1> QED
  BY <1>1, <1>2, <1>3, <1>4, <1>5 DEF Next

LEMMA AlwaysLife == Spec => [](TypeOK /\ LifeInv)
<1>1. Init => LifeInv
  BY DEF Init, LifeInv
<1> QED
  BY <1>1, InitType, NextType, NextLife, PTL DEF Spec

\* Whatever is claimed, recorded or lost, next_poll_at orders the due feeds,
\* and no lock outlives what a claim may set.
THEOREM TypeCorrect == Spec => []TypeOK
BY AlwaysLife, PTL

\* main.go:84-98: st.Close, deferred, runs when Run has nothing handed out
\* that is not done, for any number of workers and whatever stops the process.
THEOREM ClosedAfterPolls == Spec => StoreOpenForPolls
<1> DEFINE A == phase' = "down" => batch = {} /\ \A w \in Worker : fetch[w] = None
<1>1. TypeOK /\ LifeInv /\ [Next]_vars => [A]_vars
  <2> SUFFICES ASSUME TypeOK, LifeInv, Next, phase' = "down"
               PROVE  batch = {} /\ \A w \in Worker : fetch[w] = None
    OBVIOUS
  <2>1. phase = "down" \/ Exit
    BY DEF Next, Tick, ClaimDue, Dispatch, FetchNow, FoundCold, End, FetchOK, FetchFails,
       Unrecorded, Lifecycle, Signal, LeaveLoop, RunReturns, ShutdownReturns, Start, Restart,
       life
  <2> QED
    BY <2>1 DEF Exit, LifeInv
<1> QED
  BY <1>1, AlwaysLife, PTL DEF Spec, StoreOpenForPolls
=============================================================================
