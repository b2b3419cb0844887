---------------------------- MODULE HostLimiter ----------------------------
(* The per-host limiter of src/internal/poll/hostlimit.go: a map of slots    *)
(* under one mutex, a mutex and the time of the last release in each slot.   *)
(* Workers and FetchNow callers come and go; a request lasts as long as the  *)
(* publisher and the statements after it take.  The limiter knows a host by  *)
(* the hostname of the feed's URL as it is spelled there: a stored URL that  *)
(* url.Parse refuses passes it by, and the hops of a redirect do not return  *)
(* to it.  A moment of the past counts by how much of the gap after it is    *)
(* left, so time has no bound.                                               *)
EXTENDS Integers

CONSTANTS
  Fetcher,   \* goroutines that run fetchOne
  Hostname,  \* url.Hostname() of the feeds and of where they redirect to
  Slot,      \* BOUND: the hostSlot objects that can be allocated
  Gap,       \* Config.HostGap
  None       \* a nil slot, an unlocked mutex, no hostname

ASSUME HostAssumption ==
  /\ Gap \in Nat
  /\ None \notin Fetcher \cup Slot \cup Hostname

VARIABLES
  mu,       \* hostLimiter.mu: who holds it
  slots,    \* hostLimiter.slots: the slot of each hostname, or None
  slotMu,   \* hostSlot.mu: who holds it
  left,     \* hostSlot.last: how much of the gap since it is left
  pc, host, \* where each goroutine is and its feed's hostname, None if the
            \* stored URL does not parse
  slot,     \* its local s
  sleep,    \* what is left of its time.Sleep
  to,       \* OBSERVED: the hostname its request is under way to, or None
  cool      \* OBSERVED: what is left of the gap after a hostname's last fetch

vars == <<mu, slots, slotMu, left, pc, host, slot, sleep, to, cool>>

PC == {"idle", "enter", "lookup", "lock", "sleep", "request"}

Used == {slots[h] : h \in Hostname} \ {None}

TypeOK ==
  /\ mu \in Fetcher \cup {None}
  /\ slots \in [Hostname -> Slot \cup {None}]
  /\ slotMu \in [Slot -> Fetcher \cup {None}]
  /\ left \in [Slot -> 0..Gap]
  /\ pc \in [Fetcher -> PC]
  /\ host \in [Fetcher -> Hostname \cup {None}]
  /\ slot \in [Fetcher -> Slot \cup {None}]
  /\ sleep \in [Fetcher -> 0..Gap]
  /\ to \in [Fetcher -> Hostname \cup {None}]
  /\ cool \in [Hostname -> 0..Gap]

Init ==
  /\ mu = None
  /\ slots = [h \in Hostname |-> None]
  /\ slotMu = [s \in Slot |-> None]
  /\ left = [s \in Slot |-> 0]
  /\ pc = [g \in Fetcher |-> "idle"]
  /\ host = [g \in Fetcher |-> None]
  /\ slot = [g \in Fetcher |-> None]
  /\ sleep = [g \in Fetcher |-> 0]
  /\ to = [g \in Fetcher |-> None]
  /\ cool = [h \in Hostname |-> 0]

At(g, from, next) == pc[g] = from /\ pc' = [pc EXCEPT ![g] = next]

-----------------------------------------------------------------------------
\* fetchOne is called for a feed of h.
Call(g, h) ==
  /\ At(g, "idle", "enter")
  /\ host' = [host EXCEPT ![g] = h]
  /\ UNCHANGED <<mu, slots, slotMu, left, slot, sleep, to, cool>>

\* The stored URL does not parse (it has a blank in front, which CheckURL trims
\* and the store keeps): no limiter, and Get asks h.
CallUnparsed(g, h) ==
  /\ At(g, "idle", "request")
  /\ host' = [host EXCEPT ![g] = None]
  /\ to' = [to EXCEPT ![g] = h]
  /\ UNCHANGED <<mu, slots, slotMu, left, slot, sleep, cool>>

\* Mutant: the map is read and written without hostLimiter.mu.
LockMap_Skipped(g) ==
  /\ At(g, "enter", "lookup")
  /\ slot' = [slot EXCEPT ![g] = slots[host[g]]]
  /\ mu' = mu
  /\ UNCHANGED <<slots, slotMu, left, host, sleep, to, cool>>

\* l.mu.Lock(); s, ok := l.slots[host]
LockMap(g) ==
  /\ At(g, "enter", "lookup")
  /\ mu = None
  /\ mu' = g
  /\ slot' = [slot EXCEPT ![g] = slots[host[g]]]
  /\ UNCHANGED <<slots, slotMu, left, host, sleep, to, cool>>

\* if !ok { s = &hostSlot{}; l.slots[host] = s }; l.mu.Unlock()
UnlockMap(g) ==
  /\ At(g, "lookup", "lock")
  /\ \/ slot[g] # None /\ UNCHANGED <<slots, slot>>
     \/ /\ slot[g] = None
        /\ \E s \in Slot \ Used :
             /\ slots' = [slots EXCEPT ![host[g]] = s]
             /\ slot' = [slot EXCEPT ![g] = s]
  /\ mu' = None
  /\ UNCHANGED <<slotMu, left, host, sleep, to, cool>>

\* s.mu.Lock(); wait := l.gap - time.Since(s.last)
LockSlot(g) ==
  /\ At(g, "lock", "sleep")
  /\ slotMu[slot[g]] = None
  /\ slotMu' = [slotMu EXCEPT ![slot[g]] = g]
  /\ sleep' = [sleep EXCEPT ![g] = left[slot[g]]]
  /\ UNCHANGED <<mu, slots, left, host, slot, to, cool>>

Request(g) ==
  /\ At(g, "sleep", "request")
  /\ sleep[g] = 0
  /\ to' = [to EXCEPT ![g] = host[g]]
  /\ UNCHANGED <<mu, slots, slotMu, left, host, slot, sleep, cool>>

\* Get follows a redirect, to this host or another, with what it holds.
Redirect(g, h) ==
  /\ pc[g] = "request"
  /\ to' = [to EXCEPT ![g] = h]
  /\ UNCHANGED <<mu, slots, slotMu, left, pc, host, slot, sleep, cool>>

\* Mutant: the release forgets s.last = time.Now().
Release_NoStamp(g) ==
  /\ At(g, "request", "idle")
  /\ host[g] # None
  /\ slotMu' = [slotMu EXCEPT ![slot[g]] = None]
  /\ slot' = [slot EXCEPT ![g] = None]
  /\ host' = [host EXCEPT ![g] = None]
  /\ to' = [to EXCEPT ![g] = None]
  /\ cool' = [cool EXCEPT ![host[g]] = Gap]
  /\ UNCHANGED <<mu, slots, left, sleep>>

\* Mutant: an early return of fetchOne misses the release.
Release_Missed(g) ==
  /\ At(g, "request", "idle")
  /\ host[g] # None
  /\ slot' = [slot EXCEPT ![g] = None]
  /\ host' = [host EXCEPT ![g] = None]
  /\ to' = [to EXCEPT ![g] = None]
  /\ cool' = [cool EXCEPT ![host[g]] = Gap]
  /\ UNCHANGED <<mu, slots, slotMu, left, sleep>>

\* s.last = time.Now(); s.mu.Unlock()
Release(g) ==
  /\ At(g, "request", "idle")
  /\ host[g] # None
  /\ left' = [left EXCEPT ![slot[g]] = Gap]
  /\ slotMu' = [slotMu EXCEPT ![slot[g]] = None]
  /\ slot' = [slot EXCEPT ![g] = None]
  /\ host' = [host EXCEPT ![g] = None]
  /\ to' = [to EXCEPT ![g] = None]
  /\ cool' = [cool EXCEPT ![host[g]] = Gap]
  /\ UNCHANGED <<mu, slots, sleep>>

\* Without a slot there is nothing to release.
Return(g) ==
  /\ At(g, "request", "idle")
  /\ host[g] = None
  /\ to' = [to EXCEPT ![g] = None]
  /\ UNCHANGED <<mu, slots, slotMu, left, host, slot, sleep, cool>>

\* Mutant: what is left of a gap long past is not 0.
OneLess_NoFloor(n) == n - 1

OneLess(n) == IF n > 0 THEN n - 1 ELSE 0

Tick ==
  /\ left' = [s \in Slot |-> OneLess(left[s])]
  /\ sleep' = [g \in Fetcher |-> OneLess(sleep[g])]
  /\ cool' = [h \in Hostname |-> OneLess(cool[h])]
  /\ UNCHANGED <<mu, slots, slotMu, pc, host, slot, to>>

Step(g) ==
  LockMap(g) \/ UnlockMap(g) \/ LockSlot(g) \/ Request(g) \/ Release(g) \/ Return(g)

Next ==
  \/ Tick
  \/ \E g \in Fetcher, h \in Hostname :
       Call(g, h) \/ CallUnparsed(g, h) \/ Redirect(g, h)
  \/ \E g \in Fetcher : Step(g)

Spec == Init /\ [][Next]_vars

-----------------------------------------------------------------------------
(* Time passes and every fetch ends (the client has a timeout over all hops, *)
(* statements return).  sync.Mutex does not let a waiter be overtaken for ever: past    *)
(* 1 ms it hands the lock over in order.                                     *)
Fairness ==
  /\ WF_vars(Tick)
  /\ \A g \in Fetcher : /\ SF_vars(LockMap(g)) /\ WF_vars(UnlockMap(g))
                        /\ SF_vars(LockSlot(g)) /\ WF_vars(Request(g))
                        /\ WF_vars(Release(g)) /\ WF_vars(Return(g))

FairSpec == Spec /\ Fairness

\* The request under way was not asked for by its host's name: a hop of a
\* redirect, or a fetch of a URL that does not parse.
Unlimited(g) == to[g] # host[g]

-----------------------------------------------------------------------------
(* Properties.                                                               *)

\* hostlimit.go:8-9, "serializes requests per host", as far as it holds: two
\* requests under way to one host at a time are never both limited, also when
\* the first two fetches from a host race to make its slot.  One of them is
\* the hop of a redirect or comes from a URL that does not parse.
OneRequestPerHost ==
  \A f, g \in Fetcher :
    f # g /\ to[f] # None /\ to[f] = to[g] => Unlimited(f) \/ Unlimited(g)

\* hostlimit.go:26-27: "blocks until the host is free and the gap has elapsed".
\* A fetch of a feed whose URL parses sends nothing, wherever redirects then
\* lead, before the whole gap after the previous such fetch of a feed of its
\* hostname has passed, whichever goroutine made that one and however long
\* this one queued.
Spaced ==
  \A g \in Fetcher : to[g] # None /\ host[g] # None => cool[host[g]] = 0

\* No hostname's queue blocks a fetch for ever: whoever is called gets through.
Served ==
  \A g \in Fetcher : pc[g] = "enter" ~> pc[g] = "request"
=============================================================================
