------------------------------- MODULE Backoff -------------------------------
(***************************************************************************)
(* The two delays with full jitter: of a retried job (retry_countdown,     *)
(* src/jobs/utils.py) and of an event whose dispatch failed                *)
(* (backoff_delay_seconds, src/outbox/utils.py).  Python's integers do not *)
(* overflow.                                                               *)
(***************************************************************************)
EXTENDS Integers

LOCAL AtLeastZero(n) == IF n > 0 THEN n ELSE 0
LOCAL Lower(m, n) == IF m < n THEN m ELSE n

\* The largest countdown of the retry after `retries` retries.
MaxCountdown(base, cap, retries) == Lower(base ^ AtLeastZero(retries), cap)

\* retry_countdown: random.randint includes both ends.
Countdowns(base, cap, retries) == 0..MaxCountdown(base, cap, retries)

\* The largest delay after the failure that made retry_count what it is.
MaxDelay(base, cap, retryCount) == Lower(base * 2 ^ AtLeastZero(retryCount - 1), cap)

\* backoff_delay_seconds.
Delays(base, cap, retryCount) == 0..MaxDelay(base, cap, retryCount)

\* The reference: the ceiling starts at `first` and is multiplied by `factor` with each
\* further try until it meets the cap.
LOCAL Ceiling(first, factor, cap) ==
  LET c[n \in Nat] == IF n = 0 THEN Lower(first, cap) ELSE Lower(factor * c[n - 1], cap)
  IN c

\* For the bases and caps that config/settings.py allows (ge=1), a countdown is at most
\* what capped multiplication gives; with base 1 the ceiling is one second for ever.
ASSUME CountdownsGrowToCap ==
  \A base \in 1..4, cap \in 1..40, retries \in 0..6 :
    Countdowns(base, cap, retries) = 0..Ceiling(1, base, cap)[retries]

\* The same of the outbox, whose first failure has retry_count 1.
ASSUME DelaysGrowToCap ==
  \A base \in 1..4, cap \in 1..40, retryCount \in 1..6 :
    Delays(base, cap, retryCount) = 0..Ceiling(base, 2, cap)[retryCount - 1]

\* The values in the docstring of retry_countdown (base 2, cap 60), and those of
\* outbox/config.py (base 30, cap 600) up to MAX_PUBLISH_RETRIES.
ASSUME DocumentedDelays ==
  /\ \A retries \in 0..8 :
       MaxCountdown(2, 60, retries) = IF retries >= 6 THEN 60 ELSE 2 ^ retries
  /\ [n \in 1..5 |-> MaxDelay(30, 600, n)] = [n \in 1..5 |-> 15 * 2 ^ n]
=============================================================================
