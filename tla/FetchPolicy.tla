---------------------------- MODULE FetchPolicy -----------------------------
(***************************************************************************)
(* How long a source waits after a fetch, in seconds: classifyFetchFailure *)
(* and computeNextFetchAt.  A failure waits by a ladder of its kind, by    *)
(* what the publisher asked for in Retry-After, and for a week once its    *)
(* circuit has opened; a block of the source or its origin that ends later *)
(* prevails.  Times are counted from the moment of the outcome.            *)
(***************************************************************************)
EXTENDS Integers, Sequences

Hour == 3600
Day == 24 * Hour
Week == 7 * Day
MinInterval == 900           \* MIN_SOURCE_INTERVAL_SECONDS
MaxRetryAfter == 366 * Day   \* MAX_RETRY_AFTER_SECONDS

\* What a fetch may fail with: a status (410; 401, 403 or 404; 429; 503; another one), a
\* transport error, or a body that is no feed.
Rejected == {"invalid_feed", "unsupported_feed", "oversize"}
Status == {"gone", "denied", "limited", "unavailable", "status"}
Transport == {"network", "dns", "tls"}
Kind == Rejected \cup Status \cup Transport

\* FetchOutcomePolicy.state
State == {"active", "paused", "circuit_open"}

AtLeast(m, n) == IF n < m THEN m ELSE n
AtMost(m, n) == IF n > m THEN m ELSE n

\* Mutant of RetryAfter: a publisher may ask for any wait.
RetryAfterUnbounded(header) == header >= 0

\* parseRetryAfter accepts the header: it is a number of seconds, or a date that many seconds
\* ahead, rounded up. A negative one stands for a missing, malformed or past one.
RetryAfter(header) == header \in 0..MaxRetryAfter

Permanent(kind) == kind \in {"gone", "denied"} \cup Rejected

Ladder(kind) ==
  CASE kind = "gone" -> <<Week>>
    [] kind = "denied" -> <<Day, 3 * Day, Week>>
    [] kind \in Rejected -> <<6 * Hour, Day, Week>>
    [] kind = "limited" -> <<Hour, 2 * Hour, 4 * Hour, Day>>
    [] kind \in {"dns", "tls"} -> <<6 * Hour, Day>>
    [] OTHER -> <<900, 1800, Hour, 2 * Hour, 6 * Hour>>

\* Mutant of Rung: the ladder starts again at its foot.
RungWraps(ladder, failures) == ladder[((failures - 1) % Len(ladder)) + 1]

\* schedule: the last rung for every failure beyond it.
Rung(ladder, failures) == ladder[AtMost(Len(ladder), failures)]

\* The wait before the circuit and the minimum are looked at.
Asked(kind, failures, header) ==
  IF kind \in {"limited", "unavailable"} /\ RetryAfter(header)
  THEN header ELSE Rung(Ladder(kind), failures)

\* Mutant of CircuitOpens: transient failures alone never open it.
CircuitOpensPermanent(kind, failures) == Permanent(kind) /\ failures >= 3

CircuitOpens(kind, failures) == failures >= (IF Permanent(kind) THEN 3 ELSE 8)

Paused(kind, failures) == kind = "gone" \/ (Permanent(kind) /\ failures >= 3)

StateAfter(kind, failures) ==
  IF Paused(kind, failures) THEN "paused"
  ELSE IF CircuitOpens(kind, failures) THEN "circuit_open" ELSE "active"

Base(kind, failures, header) ==
  LET asked == Asked(kind, failures, header) IN
  AtLeast(MinInterval, IF CircuitOpens(kind, failures) THEN AtLeast(Week, asked) ELSE asked)

\* positiveJitter: a random part of a tenth of the wait, fifteen minutes at most, rounded up.
Jitter(base) == 0..AtMost(MinInterval, (base + 9) \div 10)

\* delaySeconds of classifyFetchFailure.
FailureDelay(kind, failures, header, jitter, block) ==
  AtLeast(block, Base(kind, failures, header) + jitter)

\* computeNextFetchAt, which the pipeline calls for fetches that succeeded only.
NextFetchDelay(state, jitter, block) ==
  AtLeast(block, IF state = "active" THEN MinInterval ELSE Week + jitter)
=============================================================================
