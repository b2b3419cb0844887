------------------------- MODULE HostLimiterProofs -------------------------
(* For any number of goroutines, hosts and any gap, and whatever passes the  *)
(* limiter by: the fetches of a hostname's feeds whose URLs parse exclude    *)
(* each other and are a gap apart.  The argument: the map gives each         *)
(* hostname a slot of its own (its mutex makes look-up and insertion one     *)
(* step), the goroutine that fetches from it is the one that holds the       *)
(* slot's mutex, and what is left of the slot's gap is what is left of its   *)
(* host's.                                                                   *)
EXTENDS HostLimiter, TLAPS

\* The map is written only by the holder of its mutex, who saw it as it is.
MapLocked ==
  \A g \in Fetcher : pc[g] = "lookup" => mu = g /\ slot[g] = slots[host[g]]

\* Two hostnames never share a slot.
OwnSlot ==
  \A h, k \in Hostname : slots[h] # None /\ slots[h] = slots[k] => h = k

\* Past the map a goroutine that took it has its hostname's slot; past the
\* slot's mutex it holds it.
HasSlot ==
  \A g \in Fetcher :
    /\ pc[g] \in {"lock", "sleep", "request"} /\ host[g] # None =>
         slot[g] = slots[host[g]]
    /\ pc[g] \in {"sleep", "request"} /\ host[g] # None => slotMu[slot[g]] = g

\* In the limiter a goroutine has a hostname, past the map some slot; only at
\* its request it sends anything.
Given ==
  \A g \in Fetcher :
    /\ pc[g] \in {"enter", "lookup", "lock", "sleep"} => host[g] # None
    /\ pc[g] \in {"lock", "sleep", "request"} /\ host[g] # None => slot[g] \in Slot
    /\ to[g] # None => pc[g] = "request"

MutexInv == MapLocked /\ OwnSlot /\ HasSlot

\* A slot measures its host's gap; one not in use has none to wait for.
Measures ==
  /\ \A h \in Hostname : slots[h] # None => left[slots[h]] = cool[h]
  /\ \A h \in Hostname : slots[h] = None => cool[h] = 0
  /\ \A s \in Slot : s \notin Used => left[s] = 0

\* A goroutine sleeps as long as the gap it is waiting for lasts.
Sleeps ==
  \A g \in Fetcher :
    /\ pc[g] = "sleep" => sleep[g] = cool[host[g]]
    /\ pc[g] = "request" /\ host[g] # None => cool[host[g]] = 0

GapInv == Measures /\ Sleeps

-----------------------------------------------------------------------------
LEMMA TypeInit == Init => TypeOK /\ Given
BY HostAssumption DEF Init, TypeOK, HostAssumption, PC, Given

LEMMA OneLessType == \A n \in 0..Gap : OneLess(n) \in 0..Gap
BY HostAssumption DEF OneLess, HostAssumption

LEMMA TypeStep == TypeOK /\ Given /\ [Next]_vars => (TypeOK /\ Given)'
<1> SUFFICES ASSUME TypeOK, Given, [Next]_vars PROVE TypeOK' /\ Given'
  OBVIOUS
<1> USE HostAssumption DEF HostAssumption, TypeOK, Given, At, PC
<1>1. CASE Tick
  BY <1>1, OneLessType DEF Tick
<1>2. ASSUME NEW g \in Fetcher, NEW h \in Hostname,
             Call(g, h) \/ CallUnparsed(g, h) \/ Redirect(g, h)
      PROVE  TypeOK' /\ Given'
  BY <1>2 DEF Call, CallUnparsed, Redirect
<1>3. ASSUME NEW g \in Fetcher, LockMap(g) PROVE TypeOK' /\ Given'
  BY <1>3 DEF LockMap
<1>4. ASSUME NEW g \in Fetcher, UnlockMap(g) PROVE TypeOK' /\ Given'
  <2>1. CASE slot[g] # None
    BY <1>4, <2>1 DEF UnlockMap
  <2>2. CASE slot[g] = None
    <3>1. PICK s \in Slot \ Used :
            /\ slots' = [slots EXCEPT ![host[g]] = s]
            /\ slot' = [slot EXCEPT ![g] = s]
      BY <1>4, <2>2 DEF UnlockMap
    <3> QED BY <1>4, <3>1 DEF UnlockMap
  <2> QED BY <2>1, <2>2
<1>5. ASSUME NEW g \in Fetcher, LockSlot(g) PROVE TypeOK' /\ Given'
  <2>1. slot[g] \in Slot
    BY <1>5 DEF LockSlot
  <2>2. left[slot[g]] \in 0..Gap
    BY <2>1
  <2> QED BY <1>5, <2>1, <2>2 DEF LockSlot
<1>6. ASSUME NEW g \in Fetcher, Request(g) PROVE TypeOK' /\ Given'
  BY <1>6 DEF Request
<1>7. ASSUME NEW g \in Fetcher, Release(g) PROVE TypeOK' /\ Given'
  <2>1. slot[g] \in Slot
    BY <1>7 DEF Release
  <2>2. Gap \in 0..Gap
    OBVIOUS
  <2> QED BY <1>7, <2>1, <2>2 DEF Release
<1>8. ASSUME NEW g \in Fetcher, Return(g) PROVE TypeOK' /\ Given'
  BY <1>8 DEF Return
<1>9. CASE UNCHANGED vars
  BY <1>9 DEF vars
<1> QED BY <1>1, <1>2, <1>3, <1>4, <1>5, <1>6, <1>7, <1>8, <1>9 DEF Next, Step

\* Every variable keeps its type, and a goroutine past the map has a slot.
THEOREM Typed == Spec => [](TypeOK /\ Given)
BY TypeInit, TypeStep, PTL DEF Spec

\* Every reachable state of the limiter has the types of its variables, for any
\* number of goroutines, hosts and slots.
THEOREM TypeCorrect == Spec => []TypeOK
BY Typed, PTL

-----------------------------------------------------------------------------
(* Mutual exclusion.                                                         *)

LEMMA MutexInit == Init => MutexInv
BY DEF Init, MutexInv, MapLocked, OwnSlot, HasSlot

LEMMA MutexStep ==
  TypeOK /\ Given /\ MutexInv /\ [Next]_vars => MutexInv'
<1> SUFFICES ASSUME TypeOK, Given, MutexInv, [Next]_vars
             PROVE  MapLocked' /\ OwnSlot' /\ HasSlot'
  BY DEF MutexInv
<1> USE HostAssumption DEF HostAssumption, MutexInv, At
<1>1. CASE Tick
  BY <1>1 DEF Tick, MapLocked, OwnSlot, HasSlot
<1>2. ASSUME NEW g \in Fetcher, NEW h \in Hostname,
             Call(g, h) \/ CallUnparsed(g, h) \/ Redirect(g, h)
      PROVE  MapLocked' /\ OwnSlot' /\ HasSlot'
  BY <1>2 DEF Call, CallUnparsed, Redirect, MapLocked, OwnSlot, HasSlot, TypeOK
<1>3. ASSUME NEW g \in Fetcher, LockMap(g)
      PROVE  MapLocked' /\ OwnSlot' /\ HasSlot'
  <2>1. MapLocked'
    BY <1>3 DEF LockMap, MapLocked, TypeOK
  <2>2. OwnSlot' /\ HasSlot'
    BY <1>3 DEF LockMap, OwnSlot, HasSlot, TypeOK
  <2> QED BY <2>1, <2>2
<1>4. ASSUME NEW g \in Fetcher, UnlockMap(g)
      PROVE  MapLocked' /\ OwnSlot' /\ HasSlot'
  <2>1. mu = g /\ slot[g] = slots[host[g]]
    BY <1>4 DEF UnlockMap, MapLocked
  <2>2. \A f \in Fetcher : pc[f] = "lookup" => f = g
    BY <2>1 DEF MapLocked
  <2>3. MapLocked'
    BY <1>4, <2>2 DEF UnlockMap, MapLocked, TypeOK
  <2>4. CASE slot[g] # None
    <3>1. UNCHANGED <<slots, slot, slotMu, host>>
      BY <1>4, <2>4 DEF UnlockMap
    <3>2. OwnSlot' /\ HasSlot'
      BY <1>4, <2>1, <3>1 DEF UnlockMap, OwnSlot, HasSlot, TypeOK
    <3> QED BY <2>3, <3>2
  <2>5. CASE slot[g] = None
    <3>1. PICK s \in Slot \ Used :
            /\ slots' = [slots EXCEPT ![host[g]] = s]
            /\ slot' = [slot EXCEPT ![g] = s]
      BY <1>4, <2>5 DEF UnlockMap
    <3>2. \A h \in Hostname : slots[h] # s
      BY <3>1 DEF Used
    <3>3. OwnSlot'
      BY <3>1, <3>2 DEF OwnSlot, TypeOK
    <3>4. HasSlot'
      \* Nobody else works with the slot of this hostname: it had none.
      <4>1. \A f \in Fetcher :
              pc[f] \in {"lock", "sleep", "request"} => host[f] # host[g]
        <5>1. host[g] # None /\ slots[host[g]] = None
          BY <1>4, <2>1, <2>5 DEF UnlockMap, Given
        <5> QED BY <5>1 DEF HasSlot, Given
      <4> QED BY <1>4, <3>1, <4>1 DEF UnlockMap, HasSlot, TypeOK
    <3> QED BY <2>3, <3>3, <3>4
  <2> QED BY <2>3, <2>4, <2>5
<1>5. ASSUME NEW g \in Fetcher, LockSlot(g)
      PROVE  MapLocked' /\ OwnSlot' /\ HasSlot'
  <2>1. slot[g] \in Slot
    BY <1>5 DEF LockSlot, Given
  <2> QED BY <1>5, <2>1 DEF LockSlot, MapLocked, OwnSlot, HasSlot, Given, TypeOK
<1>6. ASSUME NEW g \in Fetcher, Request(g)
      PROVE  MapLocked' /\ OwnSlot' /\ HasSlot'
  BY <1>6 DEF Request, MapLocked, OwnSlot, HasSlot, TypeOK
<1>7. ASSUME NEW g \in Fetcher, Release(g)
      PROVE  MapLocked' /\ OwnSlot' /\ HasSlot'
  <2>1. slot[g] \in Slot /\ slotMu[slot[g]] = g
    BY <1>7 DEF Release, Given, HasSlot
  <2>2. \A f \in Fetcher :
          pc[f] \in {"sleep", "request"} /\ host[f] # None /\ f # g =>
            slot[f] # slot[g]
    BY <2>1 DEF HasSlot
  <2> QED BY <1>7, <2>1, <2>2 DEF Release, MapLocked, OwnSlot, HasSlot, Given, TypeOK
<1>8. ASSUME NEW g \in Fetcher, Return(g)
      PROVE  MapLocked' /\ OwnSlot' /\ HasSlot'
  BY <1>8 DEF Return, MapLocked, OwnSlot, HasSlot, TypeOK
<1>9. CASE UNCHANGED vars
  BY <1>9 DEF vars, MapLocked, OwnSlot, HasSlot
<1> QED BY <1>1, <1>2, <1>3, <1>4, <1>5, <1>6, <1>7, <1>8, <1>9 DEF Next, Step

LEMMA MutexExcludes == TypeOK /\ Given /\ MutexInv => OneRequestPerHost
<1> SUFFICES ASSUME TypeOK, Given, MutexInv, NEW f \in Fetcher, NEW g \in Fetcher,
                    to[f] # None, to[f] = to[g], to[f] = host[f], to[g] = host[g]
             PROVE  f = g
  BY DEF OneRequestPerHost, Unlimited
<1>1. slot[f] = slots[host[f]] /\ slot[g] = slots[host[f]]
  BY DEF Given, MutexInv, HasSlot
<1>2. slotMu[slot[f]] = f /\ slotMu[slot[g]] = g
  BY DEF Given, MutexInv, HasSlot
<1> QED BY <1>1, <1>2

\* For any number of goroutines and hosts, two requests to one host overlap
\* only if the hop of a redirect or a URL that does not parse is one of them.
THEOREM Exclusive == Spec => []OneRequestPerHost
<1>1. Spec => [](TypeOK /\ Given)
  BY Typed
<1>2. Init => MutexInv
  BY MutexInit
<1>3. TypeOK /\ Given /\ MutexInv /\ [Next]_vars => MutexInv'
  BY MutexStep
<1>4. TypeOK /\ Given /\ MutexInv => OneRequestPerHost
  BY MutexExcludes
<1> QED BY <1>1, <1>2, <1>3, <1>4, PTL DEF Spec

-----------------------------------------------------------------------------
(* The gap.                                                                  *)

LEMMA GapInit == Init => GapInv
BY DEF Init, GapInv, Measures, Sleeps, Used

LEMMA GapStep ==
  TypeOK /\ Given /\ MutexInv /\ GapInv /\ [Next]_vars => GapInv'
<1> SUFFICES ASSUME TypeOK, Given, MutexInv, GapInv, [Next]_vars
             PROVE  Measures' /\ Sleeps'
  BY DEF GapInv
<1> USE HostAssumption DEF HostAssumption, GapInv, At
<1>0. \A g \in Fetcher : pc[g] \in {"lock", "sleep", "request"} /\ host[g] # None =>
        /\ slots[host[g]] \in Slot /\ slot[g] = slots[host[g]]
        /\ left[slot[g]] = cool[host[g]]
  BY DEF Given, MutexInv, HasSlot, Measures, TypeOK
<1>1. CASE Tick
  <2>1. Measures'
    BY <1>1 DEF Tick, Measures, Used, TypeOK, OneLess
  <2>2. Sleeps'
    BY <1>1 DEF Tick, Sleeps, TypeOK, OneLess, Given
  <2> QED BY <2>1, <2>2
<1>2. ASSUME NEW g \in Fetcher, NEW h \in Hostname,
             Call(g, h) \/ CallUnparsed(g, h) \/ Redirect(g, h)
      PROVE  Measures' /\ Sleeps'
  BY <1>2 DEF Call, CallUnparsed, Redirect, Measures, Sleeps, Used, TypeOK
<1>3. ASSUME NEW g \in Fetcher, LockMap(g) PROVE Measures' /\ Sleeps'
  BY <1>3 DEF LockMap, Measures, Sleeps, Used, TypeOK
<1>4. ASSUME NEW g \in Fetcher, UnlockMap(g) PROVE Measures' /\ Sleeps'
  <2>1. Sleeps'
    BY <1>4 DEF UnlockMap, Sleeps, TypeOK
  <2>2. CASE slot[g] # None
    <3>1. UNCHANGED <<slots, left, cool>>
      BY <1>4, <2>2 DEF UnlockMap
    <3> QED BY <2>1, <3>1 DEF Measures, Used
  <2>3. CASE slot[g] = None
    <3>1. PICK s \in Slot \ Used : slots' = [slots EXCEPT ![host[g]] = s]
      BY <1>4, <2>3 DEF UnlockMap
    <3>2. slots[host[g]] = None /\ UNCHANGED <<left, cool>>
      BY <1>4, <2>3 DEF UnlockMap, MutexInv, MapLocked
    <3>3. host[g] \in Hostname /\ left[s] = 0 /\ cool[host[g]] = 0
      BY <1>4, <3>1, <3>2 DEF UnlockMap, Given, Measures, TypeOK
    <3>4. Used \subseteq Used'
      BY <3>1, <3>2 DEF Used, TypeOK
    <3>5. Measures'
      BY <3>1, <3>2, <3>3, <3>4 DEF Measures, TypeOK
    <3> QED BY <2>1, <3>5
  <2> QED BY <2>2, <2>3
<1>5. ASSUME NEW g \in Fetcher, LockSlot(g) PROVE Measures' /\ Sleeps'
  <2>1. left[slot[g]] = cool[host[g]]
    BY <1>0, <1>5 DEF LockSlot, Given
  <2> QED BY <1>5, <2>1 DEF LockSlot, Measures, Sleeps, Used, TypeOK
<1>6. ASSUME NEW g \in Fetcher, Request(g) PROVE Measures' /\ Sleeps'
  BY <1>6 DEF Request, Measures, Sleeps, Used, TypeOK
<1>7. ASSUME NEW g \in Fetcher, Release(g) PROVE Measures' /\ Sleeps'
  <2>1. slots[host[g]] \in Slot /\ slot[g] = slots[host[g]]
    BY <1>0, <1>7 DEF Release
  <2>2. \A h \in Hostname : h # host[g] => slots[h] # slot[g]
    BY <1>7, <2>1 DEF Release, MutexInv, OwnSlot, TypeOK
  <2>3. Measures'
    BY <1>7, <2>1, <2>2 DEF Release, Measures, Used, TypeOK
  \* No other goroutine sleeps for this host: its mutex was held.
  <2>4. \A f \in Fetcher :
          f # g /\ pc[f] \in {"sleep", "request"} => host[f] # host[g]
    BY <1>7 DEF Release, MutexInv, HasSlot
  <2>5. Sleeps'
    BY <1>7, <2>4 DEF Release, Sleeps, TypeOK
  <2> QED BY <2>3, <2>5
<1>8. ASSUME NEW g \in Fetcher, Return(g) PROVE Measures' /\ Sleeps'
  BY <1>8 DEF Return, Measures, Sleeps, Used, TypeOK
<1>9. CASE UNCHANGED vars
  BY <1>9 DEF vars, Measures, Sleeps, Used
<1> QED BY <1>1, <1>2, <1>3, <1>4, <1>5, <1>6, <1>7, <1>8, <1>9 DEF Next, Step

\* Whatever a fetch of a URL that parses sends, it sends at least the gap after
\* the previous such fetch of its hostname, for any gap.
THEOREM Apart == Spec => []Spaced
<1>1. Spec => [](TypeOK /\ Given)
  BY Typed
<1>2. Init => MutexInv /\ GapInv
  BY MutexInit, GapInit
<1>3. TypeOK /\ Given /\ MutexInv /\ GapInv /\ [Next]_vars
        => MutexInv' /\ GapInv'
  BY MutexStep, GapStep
<1>4. Given /\ GapInv => Spaced
  BY DEF Given, GapInv, Sleeps, Spaced
<1> QED BY <1>1, <1>2, <1>3, <1>4, PTL DEF Spec
=============================================================================
