--------------------------- MODULE ScheduleProofs ---------------------------
(* The waits in closed form for every value of the knobs: the loops of       *)
(* NextInterval and Backoff are powers of two under a cap, and what the      *)
(* columns hold between polls is what the closed forms speak of.             *)
EXTENDS Schedule, WellFoundedInduction, TLAPS

-----------------------------------------------------------------------------
(* Induction over the naturals and functions defined by it, from the least   *)
(* element of a set of naturals.                                             *)

LEMMA LeastNatural ==
  ASSUME NEW T, T \subseteq Nat, T # {}
  PROVE  \E m \in T : \A k \in T : m <= k
<1> DEFINE R == OpToRel(<, Nat)
<1>1. IsWellFoundedOn(R, Nat)
  BY NatLessThanWellFounded
<1>2. \A x, y \in Nat : <<x, y>> \in R <=> x < y
  BY DEF OpToRel
<1> HIDE DEF R
<1>3. PICK m \in T : \A k \in T : ~(<<k, m>> \in R)
  BY <1>1, WFMin
<1>4. \A k \in T : m \in Nat /\ k \in Nat /\ ~(k < m)
  BY <1>2, <1>3
<1> QED BY <1>4

LEMMA AllNaturals ==
  ASSUME NEW S, 0 \in S, \A n \in Nat : n \in S => n + 1 \in S
  PROVE  Nat \subseteq S
<1> SUFFICES ASSUME Nat \ S # {} PROVE FALSE
  OBVIOUS
<1>1. PICK m \in Nat \ S : \A k \in Nat \ S : m <= k
  <2> DEFINE T == Nat \ S
  <2>1. T \subseteq Nat /\ T # {}
    OBVIOUS
  <2> HIDE DEF T
  <2>2. \E m \in T : \A k \in T : m <= k
    BY <2>1, LeastNatural
  <2> QED BY <2>2 DEF T
<1>2. m - 1 \in Nat /\ m - 1 \in S /\ (m - 1) + 1 = m
  BY <1>1
<1> QED BY <1>2

Iterates(f, V, d, h) ==
  /\ f \in [Nat -> V]
  /\ f[0] = d
  /\ \A n \in Nat : f[n + 1] = h[f[n]]

LEMMA Iterate ==
  ASSUME NEW V, NEW d \in V, NEW h \in [V -> V]
  PROVE  \E f : Iterates(f, V, d, h)
<1> DEFINE Prefix(n, g) ==
      /\ g \in [0..n -> V]
      /\ g[0] = d
      /\ \A k \in 0..n : k < n => g[k + 1] = h[g[k]]
<1>1. \A n \in Nat : \E g : Prefix(n, g)
  <2> DEFINE S == {n \in Nat : \E g : Prefix(n, g)}
  <2>1. 0 \in S
    <3>1. Prefix(0, [k \in 0..0 |-> d])
      OBVIOUS
    <3> QED BY <3>1
  <2>2. ASSUME NEW n \in Nat, n \in S PROVE n + 1 \in S
    <3>1. PICK g : Prefix(n, g)
      BY <2>2
    <3> DEFINE G == [k \in 0..(n + 1) |-> IF k <= n THEN g[k] ELSE h[g[n]]]
    <3>2. \A k \in 0..n : G[k] = g[k]
      OBVIOUS
    <3>3. G[n + 1] = h[g[n]]
      OBVIOUS
    <3>4. G \in [0..(n + 1) -> V]
      BY <3>1
    <3> HIDE DEF G
    <3>5. \A k \in 0..(n + 1) : k < n + 1 => G[k + 1] = h[G[k]]
      BY <3>1, <3>2, <3>3
    <3>6. Prefix(n + 1, G)
      BY <3>1, <3>2, <3>4, <3>5
    <3> QED BY <3>6
  <2> HIDE DEF S
  <2>3. Nat \subseteq S
    BY <2>1, <2>2, AllNaturals
  <2> QED BY <2>3 DEF S
<1>2. ASSUME NEW m \in Nat, NEW n \in Nat, NEW a, NEW b, Prefix(m, a), Prefix(n, b)
      PROVE  \A k \in Nat : k <= m /\ k <= n => a[k] = b[k]
  <2> DEFINE S == {k \in Nat : k <= m /\ k <= n => a[k] = b[k]}
  <2>1. 0 \in S
    BY <1>2
  <2>2. ASSUME NEW k \in Nat, k \in S PROVE k + 1 \in S
    BY <1>2, <2>2
  <2> HIDE DEF S
  <2>3. Nat \subseteq S
    BY <2>1, <2>2, AllNaturals
  <2> QED BY <2>3 DEF S
<1> DEFINE p == [n \in Nat |-> CHOOSE g : Prefix(n, g)]
           f == [n \in Nat |-> p[n][n]]
<1>3. \A n \in Nat : Prefix(n, p[n])
  BY <1>1
<1> HIDE DEF p
<1>4. f \in [Nat -> V] /\ f[0] = d
  <2>1. \A n \in Nat : p[n][n] \in V
    BY <1>3
  <2>2. f[0] = d
    BY <1>3
  <2> QED BY <2>1, <2>2
<1>5. ASSUME NEW n \in Nat PROVE f[n + 1] = h[f[n]]
  <2>1. p[n + 1][n] = p[n][n]
    <3>1. n + 1 \in Nat /\ Prefix(n + 1, p[n + 1]) /\ Prefix(n, p[n])
      BY <1>3
    <3> HIDE DEF Prefix
    <3>2. \A k \in Nat : k <= n + 1 /\ k <= n => p[n + 1][k] = p[n][k]
      BY <1>2, <3>1
    <3> QED BY <3>2
  <2>2. p[n + 1][n + 1] = h[p[n + 1][n]]
    BY <1>3
  <2> QED BY <2>1, <2>2
<1> QED BY <1>4, <1>5 DEF Iterates

LEMMA Pow2Value ==
  /\ Pow2 \in [Nat -> Nat \ {0}]
  /\ Pow2[0] = 1
  /\ \A n \in Nat : Pow2[n + 1] = 2 * Pow2[n]
<1> DEFINE V == Nat \ {0}
           h == [x \in V |-> 2 * x]
<1>1. h \in [V -> V] /\ 1 \in V /\ \A x \in V : h[x] = 2 * x
  OBVIOUS
<1> HIDE DEF h, V
<1>2. PICK f : Iterates(f, V, 1, h)
  BY <1>1, Iterate
<1>3. f = [n \in Nat |-> IF n = 0 THEN 1 ELSE 2 * f[n - 1]]
  <2>1. \A n \in Nat : n # 0 => n - 1 \in Nat /\ n = (n - 1) + 1
    OBVIOUS
  <2>2. \A n \in Nat : f[n + 1] = 2 * f[n]
    BY <1>1, <1>2 DEF Iterates
  <2>3. \A n \in Nat : f[n] = IF n = 0 THEN 1 ELSE 2 * f[n - 1]
    BY <1>2, <2>1, <2>2 DEF Iterates
  <2> QED BY <1>2, <2>3 DEF Iterates
<1>4. Pow2 = [n \in Nat |-> IF n = 0 THEN 1 ELSE 2 * Pow2[n - 1]]
  BY <1>3 DEF Pow2
<1>5. Pow2[0] = 1 /\ \A n \in Nat : Pow2[n + 1] = 2 * Pow2[n]
  <2>1. \A n \in Nat : n + 1 \in Nat /\ n + 1 # 0 /\ (n + 1) - 1 = n
    OBVIOUS
  <2>2. \A n \in Nat : Pow2[n] = IF n = 0 THEN 1 ELSE 2 * Pow2[n - 1]
    BY <1>4
  <2> QED BY <2>1, <2>2
<1>6. Pow2 \in [Nat -> V]
  <2> DEFINE S == {n \in Nat : Pow2[n] \in V}
  <2>1. 0 \in S /\ \A n \in Nat : n \in S => n + 1 \in S
    BY <1>1, <1>5 DEF V
  <2> HIDE DEF S
  <2>2. Nat \subseteq S
    BY <2>1, AllNaturals
  <2>3. \A n \in Nat : Pow2[n] \in V
    BY <2>2 DEF S
  <2> QED BY <1>4, <2>3
<1> QED BY <1>5, <1>6 DEF V

LEMMA DoubledValue ==
  ASSUME NEW d \in Nat, NEW cap \in Nat
  PROVE  /\ Doubled(d, 0, cap) = d
         /\ \A n \in Nat :
              /\ Doubled(d, n, cap) \in Nat
              /\ Doubled(d, n + 1, cap) =
                   IF Doubled(d, n, cap) < cap THEN 2 * Doubled(d, n, cap)
                   ELSE Doubled(d, n, cap)
<1> DEFINE h == [b \in Nat |-> IF b < cap THEN 2 * b ELSE b]
           after == CHOOSE g : g = [k \in Nat |->
                      IF k = 0 THEN d
                      ELSE LET b == g[k - 1] IN IF b < cap THEN 2 * b ELSE b]
<1>1. \A n : Doubled(d, n, cap) = after[n]
  BY DEF Doubled
<1>2. h \in [Nat -> Nat] /\ \A b \in Nat : h[b] = IF b < cap THEN 2 * b ELSE b
  OBVIOUS
<1> HIDE DEF h, after
<1>3. PICK f : Iterates(f, Nat, d, h)
  BY <1>2, Iterate
<1>4. f = [k \in Nat |-> IF k = 0 THEN d
                         ELSE LET b == f[k - 1] IN IF b < cap THEN 2 * b ELSE b]
  <2>1. \A n \in Nat : n # 0 => n - 1 \in Nat /\ n = (n - 1) + 1
    OBVIOUS
  <2>2. \A n \in Nat : f[n + 1] = IF f[n] < cap THEN 2 * f[n] ELSE f[n]
    BY <1>2, <1>3 DEF Iterates
  <2>3. \A n \in Nat : f[n] = IF n = 0 THEN d
                              ELSE IF f[n - 1] < cap THEN 2 * f[n - 1] ELSE f[n - 1]
    BY <1>3, <2>1, <2>2 DEF Iterates
  <2> QED BY <1>3, <2>3 DEF Iterates
<1>5. after = [k \in Nat |-> IF k = 0 THEN d
                      ELSE LET b == after[k - 1] IN IF b < cap THEN 2 * b ELSE b]
  BY <1>4 DEF after
<1>6. after[0] = d
      /\ \A n \in Nat : after[n + 1] = IF after[n] < cap THEN 2 * after[n] ELSE after[n]
  <2>1. \A n \in Nat : n + 1 \in Nat /\ n + 1 # 0 /\ (n + 1) - 1 = n
    OBVIOUS
  <2>2. \A n \in Nat : after[n] = IF n = 0 THEN d
                         ELSE IF after[n - 1] < cap THEN 2 * after[n - 1] ELSE after[n - 1]
    BY <1>5
  <2> QED BY <2>1, <2>2
<1>7. \A n \in Nat : after[n] \in Nat
  <2> DEFINE S == {n \in Nat : after[n] \in Nat}
  <2>1. 0 \in S /\ \A n \in Nat : n \in S => n + 1 \in S
    BY <1>6
  <2> HIDE DEF S
  <2>2. Nat \subseteq S
    BY <2>1, AllNaturals
  <2> QED BY <2>2 DEF S
<1> QED BY <1>1, <1>6, <1>7

-----------------------------------------------------------------------------
(* The two loops, capped.                                                    *)

LEMMA CapTwice ==
  ASSUME NEW c \in Nat, NEW x \in Nat, NEW p \in Nat \ {0}
  PROVE  Min2(c, Min2(c, x) * p) = Min2(c, x * p)
<1>1. CASE x <= c
  BY <1>1 DEF Min2
<1>2. CASE c < x
  <2>1. c * p >= c /\ x * p >= x
    OBVIOUS
  <2>2. Min2(c, x) = c /\ c * p \in Nat /\ x * p \in Nat
    BY <1>2 DEF Min2
  <2> QED BY <1>2, <2>1, <2>2 DEF Min2
<1> QED BY <1>1, <1>2

LEMMA CappedDoubling ==
  ASSUME NEW d \in Nat, NEW cap \in Nat
  PROVE  \A n \in Nat : Min2(cap, Doubled(d, n, cap)) = Min2(cap, d * Pow2[n])
<1> DEFINE D(n) == Doubled(d, n, cap)
           S == {n \in Nat : \/ D(n) = d * Pow2[n]
                             \/ cap <= D(n) /\ cap <= d * Pow2[n]}
<1>1. /\ D(0) = d
      /\ \A n \in Nat : D(n) \in Nat /\ D(n + 1) = IF D(n) < cap THEN 2 * D(n) ELSE D(n)
  BY DoubledValue
<1>2. \A n \in Nat : Pow2[n] \in Nat \ {0} /\ Pow2[n + 1] = 2 * Pow2[n]
  BY Pow2Value
<1> HIDE DEF D
<1>3. \A n \in Nat : d * Pow2[n] \in Nat /\ d * Pow2[n + 1] = 2 * (d * Pow2[n])
  BY <1>2
<1>4. 0 \in S
  BY <1>1, Pow2Value
<1>5. ASSUME NEW n \in Nat, n \in S PROVE n + 1 \in S
  <2> DEFINE x == d * Pow2[n]
             y == d * Pow2[n + 1]
  <2>1. x \in Nat /\ y = 2 * x /\ D(n) \in Nat
    BY <1>1, <1>3
  <2>2. D(n) = x \/ (cap <= D(n) /\ cap <= x)
    BY <1>5
  <2>3. D(n + 1) = IF D(n) < cap THEN 2 * D(n) ELSE D(n)
    BY <1>1
  <2> HIDE DEF x, y
  <2>4. D(n + 1) = y \/ (cap <= D(n + 1) /\ cap <= y)
    BY <2>1, <2>2, <2>3
  <2> QED BY <2>4 DEF y
<1> HIDE DEF S
<1>6. Nat \subseteq S
  BY <1>4, <1>5, AllNaturals
<1> SUFFICES ASSUME NEW n \in Nat PROVE Min2(cap, D(n)) = Min2(cap, d * Pow2[n])
  BY DEF D
<1>7. D(n) = d * Pow2[n] \/ (cap <= D(n) /\ cap <= d * Pow2[n])
  BY <1>6 DEF S
<1>8. D(n) \in Nat /\ d * Pow2[n] \in Nat
  BY <1>1, <1>3
<1> QED BY <1>7, <1>8 DEF Min2

\* The publisher's own interval, floored; then what NextInterval and Backoff
\* make of it.
Floored(ttl) == Max2(MinInterval, IF ttl <= 0 THEN DefaultInterval ELSE ttl)

Doublings(quiet) == quiet \div QuietPollsPerDouble

LEMMA FlooredType ==
  ASSUME NEW ttl \in Int
  PROVE  Floored(ttl) \in Nat \ {0} /\ MinInterval <= Floored(ttl)
BY ScheduleAssumption DEF ScheduleAssumption, Floored, Max2

LEMMA DoublingsType ==
  ASSUME NEW quiet \in Nat
  PROVE  Doublings(quiet) \in Nat /\ Pow2[Doublings(quiet)] \in Nat \ {0}
<1>1. Doublings(quiet) \in Nat
  BY ScheduleAssumption DEF ScheduleAssumption, Doublings
<1> QED BY <1>1, Pow2Value

LEMMA NextIntervalIs ==
  ASSUME NEW ttl \in Int, NEW quiet \in Nat
  PROVE  NextInterval(ttl, quiet)
           = Min2(MaxInterval, Floored(ttl) * Pow2[Doublings(quiet)])
<1>1. Floored(ttl) \in Nat /\ MaxInterval \in Nat
  BY FlooredType, ScheduleAssumption DEF ScheduleAssumption
<1>2. Doublings(quiet) \in Nat
  BY DoublingsType
<1>3. Min2(MaxInterval, Doubled(Floored(ttl), Doublings(quiet), MaxInterval))
        = Min2(MaxInterval, Floored(ttl) * Pow2[Doublings(quiet)])
  BY <1>1, <1>2, CappedDoubling
<1>4. NextInterval(ttl, quiet)
        = Min2(MaxInterval, Doubled(Floored(ttl), Doublings(quiet), MaxInterval))
  BY DEF NextInterval, Floored, Doublings
<1> QED BY <1>3, <1>4

LEMMA FirstInterval ==
  ASSUME NEW ttl \in Int
  PROVE  /\ NextInterval(ttl, 0) = Min2(MaxInterval, Floored(ttl))
         /\ NextInterval(ttl, 0) \in Min2(MinInterval, MaxInterval)..MaxInterval
         /\ NextInterval(ttl, 0) \in Nat \ {0}
<1>1. Doublings(0) = 0
  BY ScheduleAssumption DEF ScheduleAssumption, Doublings
<1>2. Floored(ttl) * Pow2[0] = Floored(ttl) /\ Floored(ttl) \in Nat \ {0}
  <2>1. Floored(ttl) \in Nat \ {0} /\ Pow2[0] = 1
    BY FlooredType, Pow2Value
  <2> QED BY <2>1
<1>3. NextInterval(ttl, 0) = Min2(MaxInterval, Floored(ttl))
  BY <1>1, <1>2, NextIntervalIs
<1>4. MinInterval <= Floored(ttl) /\ {MinInterval, MaxInterval} \subseteq Nat \ {0}
  BY FlooredType, ScheduleAssumption DEF ScheduleAssumption
<1> QED BY <1>2, <1>3, <1>4 DEF Min2

\* A stored interval asked for again is the one asked for at first.
LEMMA AskedAgain ==
  ASSUME NEW ttl \in Int, NEW quiet \in Nat
  PROVE  NextInterval(NextInterval(ttl, 0), quiet) = NextInterval(ttl, quiet)
<1> DEFINE own == NextInterval(ttl, 0)
           p == Pow2[Doublings(quiet)]
<1>1. own = Min2(MaxInterval, Floored(ttl)) /\ own \in Nat \ {0}
  BY FirstInterval
<1>2. /\ Floored(ttl) \in Nat \ {0} /\ p \in Nat \ {0}
      /\ NextInterval(ttl, quiet) = Min2(MaxInterval, Floored(ttl) * p)
      /\ NextInterval(own, quiet) = Min2(MaxInterval, Floored(own) * p)
  <2> HIDE DEF own
  <2> QED BY <1>1, NextIntervalIs, FlooredType, DoublingsType
<1>3. /\ MinInterval <= Floored(ttl) /\ {MinInterval, MaxInterval} \subseteq Nat \ {0}
      /\ Floored(own) = Max2(MinInterval, own)
  BY <1>1, ScheduleAssumption DEF ScheduleAssumption, Floored, Max2
<1> HIDE DEF own, p
<1>4. CASE MinInterval <= MaxInterval
  <2>1. Floored(own) = own
    BY <1>1, <1>2, <1>3, <1>4 DEF Min2, Max2
  <2> QED BY <1>1, <1>2, <1>3, <2>1, CapTwice DEF own
<1>5. CASE MaxInterval < MinInterval
  <2>1. Floored(own) >= MaxInterval /\ Floored(ttl) >= MaxInterval
        /\ Floored(own) \in Nat
    BY <1>1, <1>2, <1>3, <1>5 DEF Min2, Max2
  <2>2. Floored(own) * p >= Floored(own) /\ Floored(ttl) * p >= Floored(ttl)
        /\ Floored(own) * p \in Nat /\ Floored(ttl) * p \in Nat
    BY <1>2, <2>1
  <2>3. \A a \in Nat : a >= MaxInterval => Min2(MaxInterval, a) = MaxInterval
    BY <1>3 DEF Min2
  <2> QED BY <1>2, <1>3, <2>1, <2>2, <2>3 DEF own
<1> QED BY <1>3, <1>4, <1>5

LEMMA BackoffIs ==
  ASSUME NEW base \in Nat \ {0}, NEW failCount \in Nat, NEW ra \in Nat,
         NEW status \in Status, NEW jitter \in Jitters
  PROVE  LET d == Max2(ra, Min2(MaxBackoff, base * Pow2[failCount])) IN
           /\ d \in Nat
           /\ Backoff(base, failCount, ra, status, jitter) \in Nat
           /\ Backoff(base, failCount, ra, status, jitter)
                = IF status = "gone" /\ failCount >= GoneAfterFailures THEN Day
                  ELSE (d * jitter) \div 100
<1> DEFINE d == Max2(ra, Min2(MaxBackoff, base * Pow2[failCount]))
           B == Backoff(base, failCount, ra, status, jitter)
<1>1. MaxBackoff \in Nat /\ Day \in Nat /\ jitter \in Nat
  BY ScheduleAssumption DEF ScheduleAssumption
<1>2. Min2(MaxBackoff, Doubled(base, failCount, MaxBackoff))
        = Min2(MaxBackoff, base * Pow2[failCount])
  BY <1>1, CappedDoubling
<1>3. B = IF status = "gone" /\ failCount >= GoneAfterFailures THEN Day
          ELSE (d * jitter) \div 100
  BY <1>2 DEF Backoff
<1>4. d \in Nat
  <2>1. base * Pow2[failCount] \in Nat
    BY Pow2Value
  <2> QED BY <1>1, <2>1 DEF Min2, Max2
<1> HIDE DEF d, B
<1>5. (d * jitter) \div 100 \in Nat
  <2>1. d * jitter \in Nat
    BY <1>1, <1>4
  <2> QED BY <2>1
<1> QED BY <1>1, <1>3, <1>4, <1>5 DEF d, B

-----------------------------------------------------------------------------
(* The columns and the polls behind them: the counters are the runs, and     *)
(* poll_interval_s is what the last document asked for, however many polls   *)
(* were quiet or failed since.                                               *)

Columns ==
  /\ quiet_polls = quietRun /\ fail_count = failRun
  /\ poll_interval = IF asked = None THEN ColumnDefault ELSE NextInterval(asked, 0)
  /\ last \in Status => failRun > 0

LEMMA Inputs ==
  /\ \A ch \in Channels : PublisherTTL(ch) \in Nat
  /\ \A h \in RetryHeaders : RetryAfter(h) \in Nat
<1>1. ASSUME NEW ch \in Channels PROVE PublisherTTL(ch) \in Nat
  <2>1. /\ ch.ttl \in Int /\ ch.period \in Period /\ ch.freq \in Int
    BY ScheduleAssumption DEF ScheduleAssumption
  <2>2. ch.period # "other" => Unit[ch.period] \in Nat
    BY <2>1 DEF Period, Unit
  <2>3. Max2(1, ch.freq) \in Nat \ {0}
    BY <2>1 DEF Max2
  <2>4. \A a \in Nat, b \in Nat \ {0} : a \div b \in Nat
    OBVIOUS
  <2>5. ch.period # "other" =>
          Max2(1, Unit[ch.period] \div Max2(1, ch.freq)) \in Nat
    BY <2>2, <2>3, <2>4 DEF Max2
  <2> QED BY <2>1, <2>5 DEF PublisherTTL, Minute
<1>2. ASSUME NEW h \in RetryHeaders PROVE RetryAfter(h) \in Nat
  BY ScheduleAssumption DEF ScheduleAssumption, RetryAfter, Max2
<1> QED BY <1>1, <1>2

LEMMA Types ==
  ASSUME TypeOK, Columns
  PROVE  /\ poll_interval \in Nat \ {0}
         /\ asked \in Nat \cup {None} /\ (asked # None => asked \in Nat)
         /\ poll_interval <= MaxInterval \/ poll_interval = ColumnDefault
<1>1. asked \in Nat \cup {None}
  BY Inputs DEF TypeOK, TTLs
<1>2. {ColumnDefault, MinInterval, MaxInterval} \subseteq Nat \ {0}
  BY ScheduleAssumption DEF ScheduleAssumption
<1> QED BY <1>1, <1>2 DEF TypeOK, Min2

IInv == TypeOK /\ Columns /\ HealthyWait /\ FailedWait

LEMMA ScheduleInit == Init => IInv
<1>1. ColumnDefault \in Nat
  BY ScheduleAssumption DEF ScheduleAssumption
<1> QED BY <1>1 DEF Init, IInv, TypeOK, Columns, HealthyWait, FailedWait, Kind, Status

LEMMA DocumentStep ==
  ASSUME IInv, NEW ch \in Channels, NEW isNew \in BOOLEAN,
         Document(PublisherTTL(ch), isNew)
  PROVE  IInv'
<1> DEFINE ttl == PublisherTTL(ch)
           quiet == IF isNew THEN 0 ELSE quiet_polls + 1
<1>1. ttl \in Nat /\ ttl \in TTLs /\ ttl # None
  BY Inputs DEF TTLs, None
<1>2. quiet \in Nat /\ quiet_polls = quietRun
  BY DEF IInv, TypeOK, Columns
<1>3. /\ poll_interval' = NextInterval(ttl, 0)
      /\ wait' = NextInterval(ttl, quiet)
      /\ quiet_polls' = quiet /\ quietRun' = quiet
      /\ fail_count' = 0 /\ failRun' = 0 /\ goneRun' = 0
      /\ asked' = ttl /\ last' = "ok" /\ retryAfter' = 0
  BY <1>2 DEF Document
<1> HIDE DEF ttl, quiet
<1>4. wait' = Min2(MaxInterval, Floored(ttl) * Pow2[Doublings(quiet)])
  BY <1>1, <1>2, <1>3, NextIntervalIs
<1>5. wait' \in Nat
  <2>1. Floored(ttl) * Pow2[Doublings(quiet)] \in Nat
    <3>1. Floored(ttl) \in Nat /\ Pow2[Doublings(quiet)] \in Nat
      BY <1>1, <1>2, FlooredType, DoublingsType
    <3> QED BY <3>1
  <2> QED BY <1>4, <2>1, ScheduleAssumption DEF ScheduleAssumption, Min2
<1>6. TypeOK'
  <2>1. NextInterval(ttl, 0) \in Min2(MinInterval, MaxInterval)..MaxInterval
    BY <1>1, FirstInterval
  <2> QED BY <1>1, <1>2, <1>3, <1>5, <2>1 DEF TypeOK, Kind
<1>7. Columns'
  BY <1>1, <1>3 DEF Columns, Status
<1>8. HealthyWait'
  <2>1. Floored(ttl) = Max2(MinInterval, CASE ttl = None -> ColumnDefault
                                           [] ttl = 0    -> DefaultInterval
                                           [] OTHER      -> ttl)
    BY <1>1 DEF Floored, None
  <2> QED BY <1>3, <1>4, <2>1 DEF HealthyWait, Doublings
<1>9. FailedWait'
  BY <1>3 DEF FailedWait, Status
<1> QED BY <1>6, <1>7, <1>8, <1>9 DEF IInv

LEMMA NotModifiedStep ==
  ASSUME IInv, NotModified
  PROVE  IInv'
<1> DEFINE quiet == quiet_polls + 1
           base == CASE asked = None -> ColumnDefault
                     [] asked = 0    -> DefaultInterval
                     [] OTHER        -> asked
<1>1. /\ quiet \in Nat /\ quiet_polls = quietRun
      /\ asked \in Nat \cup {None} /\ poll_interval \in Nat \ {0}
      /\ poll_interval = IF asked = None THEN ColumnDefault ELSE NextInterval(asked, 0)
  BY Types DEF IInv, TypeOK, Columns
<1>2. /\ wait' = NextInterval(poll_interval, quiet)
      /\ quiet_polls' = quiet /\ quietRun' = quiet
      /\ fail_count' = 0 /\ failRun' = 0 /\ goneRun' = 0
      /\ last' = "ok" /\ retryAfter' = 0
      /\ UNCHANGED <<poll_interval, asked>>
  BY <1>1 DEF NotModified
<1>3. /\ wait' = Min2(MaxInterval, Max2(MinInterval, base) * Pow2[Doublings(quiet)])
      /\ Max2(MinInterval, base) \in Nat
  <2>1. CASE asked = None
    <3>1. Floored(ColumnDefault) = Max2(MinInterval, base) /\ ColumnDefault \in Int
      BY <2>1, ScheduleAssumption DEF ScheduleAssumption, Floored, None
    <3> HIDE DEF base, quiet
    <3> QED BY <1>1, <1>2, <2>1, <3>1, NextIntervalIs, FlooredType
  <2>2. CASE asked # None
    <3>1. Floored(asked) = Max2(MinInterval, base) /\ asked \in Int
      BY <1>1, <2>2 DEF Floored
    <3> HIDE DEF base, quiet
    <3>2. wait' = NextInterval(asked, quiet)
      BY <1>1, <1>2, <2>2, <3>1, AskedAgain
    <3> QED BY <1>1, <3>1, <3>2, NextIntervalIs, FlooredType
  <2> QED BY <2>1, <2>2
<1> HIDE DEF quiet
<1>4. wait' \in Nat
  <2>1. Max2(MinInterval, base) * Pow2[Doublings(quiet)] \in Nat
    <3>1. Pow2[Doublings(quiet)] \in Nat
      BY <1>1, DoublingsType
    <3> QED BY <1>3, <3>1
  <2> QED BY <1>3, <2>1, ScheduleAssumption DEF ScheduleAssumption, Min2
<1>5. TypeOK'
  BY <1>1, <1>2, <1>4 DEF IInv, TypeOK, Kind
<1>6. Columns'
  BY <1>2 DEF IInv, Columns, Status
<1>7. HealthyWait'
  BY <1>2, <1>3 DEF HealthyWait, Doublings
<1>8. FailedWait'
  BY <1>2 DEF FailedWait, Status
<1> QED BY <1>5, <1>6, <1>7, <1>8 DEF IInv

LEMMA FailStep ==
  ASSUME IInv, NEW status \in Status, NEW h \in RetryHeaders, NEW jitter \in Jitters,
         Fail(status, RetryAfter(h), jitter)
  PROVE  IInv'
<1> DEFINE ra == RetryAfter(h)
           n == fail_count + 1
<1>1. /\ n \in Nat /\ n > 0 /\ fail_count = failRun /\ ra \in Nat
      /\ poll_interval \in Nat \ {0}
  BY Types, Inputs DEF IInv, TypeOK, Columns
<1>2. /\ wait' = Backoff(poll_interval, n, ra, status, jitter)
      /\ fail_count' = n /\ failRun' = n
      /\ last' = status /\ retryAfter' = ra
      /\ goneRun' = IF status = "gone" THEN goneRun + 1 ELSE 0
      /\ UNCHANGED <<poll_interval, quiet_polls, asked, quietRun>>
  BY <1>1 DEF Fail
<1>3. ra \in {RetryAfter(g) : g \in RetryHeaders} \cup {0}
  OBVIOUS
<1> HIDE DEF ra, n
<1>4. wait' \in Nat
  BY <1>1, <1>2, BackoffIs
<1>5. TypeOK'
  BY <1>1, <1>2, <1>3, <1>4 DEF IInv, TypeOK, Kind
<1>6. Columns'
  BY <1>1, <1>2 DEF IInv, Columns
<1>7. HealthyWait'
  BY <1>2 DEF HealthyWait, Status
<1>8. FailedWait'
  <2> DEFINE d == Max2(ra, Min2(MaxBackoff, poll_interval * Pow2[n]))
  <2>1. Backoff(poll_interval, n, ra, status, jitter)
          = IF status = "gone" /\ n >= GoneAfterFailures THEN Day
            ELSE (d * jitter) \div 100
    BY <1>1, BackoffIs
  <2>2. wait' = IF status = "gone" /\ n >= GoneAfterFailures THEN Day
                ELSE (d * jitter) \div 100
    BY <1>2, <2>1
  <2> HIDE DEF d
  <2>3. \/ status = "gone" /\ n >= GoneAfterFailures /\ wait' = Day
        \/ /\ ~(status = "gone" /\ n >= GoneAfterFailures)
           /\ \E j \in Jitters : wait' = (d * j) \div 100
    BY <2>2
  <2> QED BY <1>2, <2>3 DEF FailedWait, d
<1> QED BY <1>5, <1>6, <1>7, <1>8 DEF IInv

LEMMA ScheduleStep == IInv /\ [Next]_vars => IInv'
<1> SUFFICES ASSUME IInv, [Next]_vars PROVE IInv'
  OBVIOUS
<1>1. CASE UNCHANGED vars
  BY <1>1 DEF vars, columns, observed, IInv, TypeOK, Columns, HealthyWait, FailedWait
<1> QED
  BY <1>1, DocumentStep, NotModifiedStep, FailStep DEF Next

LEMMA Always == Spec => []IInv
BY ScheduleInit, ScheduleStep, PTL DEF Spec

\* Every reachable state of the schedule is type correct.  In particular the
\* stored interval never leaves the configured range, whatever publishers ask
\* for, and however MinInterval compares with MaxInterval.
THEOREM TypeCorrect == Spec => []TypeOK
BY Always, PTL DEF IInv

\* A feed polled with success waits for its publisher's interval, floored,
\* doubled per quiet stretch and capped: no run of 200s, 304s and failures,
\* of any length, makes the growth compound or get lost.
THEOREM HealthyWaits == Spec => []HealthyWait
BY Always, PTL DEF IInv

\* A failed feed waits exactly its own interval doubled per failure and capped,
\* or its larger Retry-After, times a jitter that comes after both; or it is
\* pinned: after any run of polls, of any length.
THEOREM FailedWaits == Spec => []FailedWait
BY Always, PTL DEF IInv

=============================================================================
