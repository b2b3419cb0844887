------------------------------ MODULE Schedule ------------------------------
(* How long one feed waits for its next poll: NextInterval and Backoff of    *)
(* src/internal/poll/config.go, and the columns poll_interval_s, quiet_polls *)
(* and fail_count that fetchOne reads with a claim and the store updates     *)
(* with its outcome.  One claim on the feed at a time (module Poller shows   *)
(* when that holds); a poll whose outcome is not recorded changes nothing    *)
(* here.  Durations are in seconds, as the columns are, without fractions    *)
(* and without overflow: no ttl or Retry-After reaches the 292 years of a    *)
(* time.Duration.                                                            *)
EXTENDS Integers

CONSTANTS
  MinInterval, DefaultInterval, MaxInterval, QuietPollsPerDouble,
  MaxBackoff, GoneAfterFailures,  \* the fields of Config
  ColumnDefault,  \* poll_interval_s of a new row
  Day,            \* the pinned wait
  Channels,       \* what publishers say of their update interval
  RetryHeaders,   \* what responses carry in Retry-After
  Jitters,        \* 0.9 + 0.2*rnd, in percent
  MaxQuiet,       \* BOUND: polls in a row that find nothing new
  MaxFails        \* BOUND: polls in a row that fail

\* sy:updatePeriod, and anything else; what <ttl> and it count in.
Period == {"hourly", "daily", "weekly", "other"}
Unit   == [hourly |-> 3600, daily |-> 86400, weekly |-> 604800]
Minute == 60

\* MinInterval is FEEDS_MIN_POLL and may lie above MaxInterval; the others are
\* fixed by DefaultConfig and by the schema.
ASSUME ScheduleAssumption ==
  /\ {MinInterval, DefaultInterval, MaxInterval, QuietPollsPerDouble, MaxBackoff,
      GoneAfterFailures, ColumnDefault, Day} \subseteq Nat \ {0}
  /\ Channels \subseteq [ttl : Int, period : Period, freq : Int]
  /\ RetryHeaders \subseteq [form : {"absent", "seconds", "date"}, n : Int]
  /\ Jitters \subseteq 90..110
  /\ MaxQuiet \in Nat /\ MaxFails \in Nat

VARIABLES
  poll_interval,  \* poll_interval_s: the publisher's interval, before growth
  quiet_polls,
  fail_count,
  wait,           \* next_poll_at - last_fetch_at
  asked,          \* OBSERVED: the ttl of the last document, None before one
  last,           \* OBSERVED: the kind of the last poll
  retryAfter,     \* OBSERVED: what its response carried
  quietRun,       \* OBSERVED: polls that found nothing new since one that did
  failRun,        \* OBSERVED: failed polls since one that did not fail
  goneRun         \* OBSERVED: 404s and 410s in a row

columns  == <<poll_interval, quiet_polls, fail_count, wait>>
observed == <<asked, last, retryAfter, quietRun, failRun, goneRun>>
vars     == <<columns, observed>>

None   == -1
Status == {"none", "gone", "other"}  \* no usable response, 404 or 410, another
Kind   == {"unpolled", "ok"} \cup Status

Min2(x, y) == IF x < y THEN x ELSE y
Max2(x, y) == IF x > y THEN x ELSE y

\* <ttl> if it is a positive number, else the period over its frequency, and
\* what is under a second is one: the floor of MinInterval replaces both.
PublisherTTL(ch) ==
  IF ch.ttl > 0 THEN ch.ttl * Minute
  ELSE IF ch.period = "other" THEN 0
  ELSE Max2(1, Unit[ch.period] \div Max2(1, ch.freq))

\* Seconds that are not negative, or a date that is not past: n is its distance.
RetryAfter(h) == IF h.form = "absent" THEN 0 ELSE Max2(0, h.n)

TTLs == {PublisherTTL(ch) : ch \in Channels}

-----------------------------------------------------------------------------
(* The loops of both functions double d up to n times while it is below cap. *)
Doubled(d, n, cap) ==
  LET after[k \in Nat] ==
        IF k = 0 THEN d
        ELSE LET b == after[k - 1] IN IF b < cap THEN 2 * b ELSE b
  IN  after[n]

\* Mutant: a publisher's ttl is not floored.
NextInterval_NoFloor(publisherTTL, quietPolls) ==
  LET base == IF publisherTTL <= 0 THEN DefaultInterval ELSE publisherTTL
  IN  Min2(MaxInterval,
           Doubled(base, quietPolls \div QuietPollsPerDouble, MaxInterval))

NextInterval(publisherTTL, quietPolls) ==
  LET base == Max2(MinInterval,
                   IF publisherTTL <= 0 THEN DefaultInterval ELSE publisherTTL)
  IN  Min2(MaxInterval,
           Doubled(base, quietPolls \div QuietPollsPerDouble, MaxInterval))

\* Mutant: the cap is applied after Retry-After.
Backoff_CapsRetryAfter(base, failCount, ra, status, jitter) ==
  IF status = "gone" /\ failCount >= GoneAfterFailures
  THEN Day
  ELSE LET from == IF base <= 0 THEN DefaultInterval ELSE base
           d    == Min2(MaxBackoff, Max2(ra, Doubled(from, failCount, MaxBackoff)))
       IN  (d * jitter) \div 100

Backoff(base, failCount, ra, status, jitter) ==
  IF status = "gone" /\ failCount >= GoneAfterFailures
  THEN Day
  ELSE LET from == IF base <= 0 THEN DefaultInterval ELSE base
           d    == Max2(ra, Min2(MaxBackoff, Doubled(from, failCount, MaxBackoff)))
       IN  (d * jitter) \div 100

-----------------------------------------------------------------------------
TypeOK ==
  /\ poll_interval \in
       {ColumnDefault} \cup Min2(MinInterval, MaxInterval)..MaxInterval
  /\ {quiet_polls, fail_count, wait} \subseteq Nat
  /\ asked \in TTLs \cup {None}
  /\ last \in Kind
  /\ retryAfter \in {RetryAfter(h) : h \in RetryHeaders} \cup {0}
  /\ {quietRun, failRun, goneRun} \subseteq Nat

Init ==
  /\ poll_interval = ColumnDefault
  /\ quiet_polls = 0 /\ fail_count = 0 /\ wait = 0
  /\ asked = None /\ last = "unpolled" /\ retryAfter = 0
  /\ quietRun = 0 /\ failRun = 0 /\ goneRun = 0

\* A 2xx document, with the ttl it asks for and whether an item of it is new.
\* fetchOne counts the quiet polls for the wait, RecordFetchOK for the column.
\* Mutant: the grown interval is stored as the feed's own.
Document_StoresGrown(ttl, isNew) ==
  LET quiet == IF isNew THEN 0 ELSE quiet_polls + 1 IN
    /\ poll_interval' = NextInterval(ttl, quiet)
    /\ wait' = NextInterval(ttl, quiet)
    /\ quiet_polls' = IF isNew THEN 0 ELSE quiet_polls + 1
    /\ fail_count' = 0
    /\ asked' = ttl /\ last' = "ok" /\ retryAfter' = 0
    /\ quietRun' = IF isNew THEN 0 ELSE quietRun + 1
    /\ failRun' = 0 /\ goneRun' = 0

Document(ttl, isNew) ==
  LET quiet == IF isNew THEN 0 ELSE quiet_polls + 1 IN
    /\ poll_interval' = NextInterval(ttl, 0)
    /\ wait' = NextInterval(ttl, quiet)
    /\ quiet_polls' = IF isNew THEN 0 ELSE quiet_polls + 1
    /\ fail_count' = 0
    /\ asked' = ttl /\ last' = "ok" /\ retryAfter' = 0
    /\ quietRun' = IF isNew THEN 0 ELSE quietRun + 1
    /\ failRun' = 0 /\ goneRun' = 0

NotModified ==
  /\ wait' = NextInterval(poll_interval, quiet_polls + 1)
  /\ quiet_polls' = quiet_polls + 1
  /\ fail_count' = 0
  /\ last' = "ok" /\ retryAfter' = 0
  /\ quietRun' = quietRun + 1 /\ failRun' = 0 /\ goneRun' = 0
  /\ UNCHANGED <<poll_interval, asked>>

\* recordError passes Retry-After on only for a response that is not a 2xx.
Fail(status, ra, jitter) ==
  /\ status = "none" => ra = 0
  /\ wait' = Backoff(poll_interval, fail_count + 1, ra, status, jitter)
  /\ fail_count' = fail_count + 1
  /\ last' = status /\ retryAfter' = ra
  /\ failRun' = failRun + 1
  /\ goneRun' = IF status = "gone" THEN goneRun + 1 ELSE 0
  /\ UNCHANGED <<poll_interval, quiet_polls, asked, quietRun>>

Next ==
  \/ \E ch \in Channels : Document(PublisherTTL(ch), TRUE)
  \/ quiet_polls < MaxQuiet /\ \E ch \in Channels : Document(PublisherTTL(ch), FALSE)
  \/ quiet_polls < MaxQuiet /\ NotModified
  \/ fail_count < MaxFails
     /\ \E status \in Status, h \in RetryHeaders, jitter \in Jitters :
          Fail(status, RetryAfter(h), jitter)

Spec == Init /\ [][Next]_vars

-----------------------------------------------------------------------------
(* Properties.                                                               *)

\* 2^n, as the proofs can unfold it.
Pow2[n \in Nat] == IF n = 0 THEN 1 ELSE 2 * Pow2[n - 1]

\* README.md:43-45 in closed form.  A feed polled with success waits for what
\* its last document asked for, floored and doubled once per six polls in a
\* row without anything new, capped: however 200s, 304s and failures mix, the
\* growth neither compounds nor is lost, and new items reset it.
HealthyWait ==
  last = "ok" =>
    LET base == CASE asked = None -> ColumnDefault
                  [] asked = 0    -> DefaultInterval
                  [] OTHER        -> asked
    IN  wait = Min2(MaxInterval,
                    Max2(MinInterval, base) * Pow2[quietRun \div QuietPollsPerDouble])

\* What config.go:87-109 comes to over any mix of polls: a failed feed waits
\* its own interval doubled once per failure in a row and capped, or a larger
\* Retry-After, times the jitter; or exactly a day once it is pinned.  Neither
\* adaptive growth nor what succeeded in between counts.  The jitter comes
\* last: it takes a capped wait to 110% of MaxBackoff, and one that
\* Retry-After sets down to 90% of what the response asked for.
FailedWait ==
  last \in Status =>
    IF last = "gone" /\ failRun >= GoneAfterFailures THEN wait = Day
    ELSE LET d == Max2(retryAfter, Min2(MaxBackoff, poll_interval * Pow2[failRun]))
         IN  \E jitter \in Jitters : wait = (d * jitter) \div 100

\* config.go:21-22: GoneAfterFailures "is how many consecutive 404/410s pin a
\* feed to a daily poll"; README.md:48: "five 404/410s in a row pin the feed
\* to daily".
PinnedOnlyWhenGone ==
  last \in Status /\ wait = Day => goneRun >= GoneAfterFailures
=============================================================================
