----------------------------- MODULE JobRowProofs -----------------------------
(***************************************************************************)
(* What the operations of JobRow return is a row, whatever the workers,    *)
(* phases, attempts and lease; and what the refinements need of functions. *)
(***************************************************************************)
EXTENDS JobRow, TLAPS

LEMMA NoLeaseIsInt == NoLease \in Int
BY DEF NoLease

LEMMA NewRowIsRow == NoRow \in Row /\ NewRow("queued") \in Row
BY DEF NoRow, NewRow, Row, Statuses, MarkerPhases, Failures

LEMMA ExhaustedIsRow ==
  ASSUME NEW r \in Row
  PROVE  Exhausted(r) \in Row
BY DEF Exhausted, Row, Statuses, MarkerPhases

LEMMA ClaimedIsRow ==
  ASSUME NEW r \in Row, NEW w \in Workers, NEW t \in Nat
  PROVE  Claimed(r, w, t) \in Row
<1> DEFINE f == IF Lapsed(r, t) THEN "worker_lease_expired" ELSE r.failure
<1>1. r.attempts + 1 \in Nat /\ t + LeaseTicks \in Nat
  BY LeaseAssumption DEF Row
<1>2. f \in Failures
  BY DEF Row, Failures
<1>3. Claimed(r, w, t) = [r EXCEPT !.status = "running",
                                   !.attempts = r.attempts + 1,
                                   !.owner = w,
                                   !.expires = t + LeaseTicks,
                                   !.failure = f]
  BY DEF Claimed
<1> HIDE DEF f
<1> QED
  BY <1>1, <1>2, <1>3 DEF Row, Statuses

LEMMA HeartbeatIsRow ==
  ASSUME NEW r \in Row, NEW t \in Nat
  PROVE  HeartbeatRow(r, t) \in Row
BY LeaseAssumption DEF HeartbeatRow, Row

LEMMA CanceledIsRow ==
  ASSUME NEW r \in Row
  PROVE  Canceled(r) \in Row
BY DEF Canceled, Row, Statuses, MarkerPhases

LEMMA RecoveredIsRow ==
  ASSUME NEW r \in Row
  PROVE  Recovered(r) \in Row
BY DEF Recovered, Exhausted, Row, Statuses, MarkerPhases, Failures

LEMMA SavedOverIsRow ==
  ASSUME NEW r \in Row, NEW c \in Row
  PROVE  SavedOver(r, c) \in Row
BY DEF SavedOver, LaterOf, Row

LEMMA FinalCopiesAreRows ==
  ASSUME NEW c \in Row, NEW retryable \in BOOLEAN
  PROVE  CompletedCopy(c) \in Row /\ FailedCopy(c, retryable) \in Row
<1>1. CompletedCopy(c) \in Row
  BY DEF CompletedCopy, Row, Statuses, MarkerPhases
<1>2. CASE retryable /\ HasAttemptLeft(c)
  <2>1. FailedCopy(c, retryable) =
          [c EXCEPT !.status = "queued", !.phase = "retry_scheduled",
                    !.failure = "retryable", !.owner = NoWorker, !.expires = NoLease]
    BY <1>2 DEF FailedCopy
  <2> QED
    BY <1>1, <2>1 DEF Row, Statuses, MarkerPhases, Failures
<1>3. CASE ~(retryable /\ HasAttemptLeft(c))
  <2> DEFINE failure == IF retryable THEN "retryable" ELSE "permanent"
  <2>1. FailedCopy(c, retryable) =
          [c EXCEPT !.status = "failed", !.phase = "failed",
                    !.failure = failure, !.owner = NoWorker, !.expires = NoLease]
    BY <1>3 DEF FailedCopy
  <2>2. failure \in Failures
    BY DEF Failures
  <2> HIDE DEF failure
  <2> QED
    BY <1>1, <2>1, <2>2 DEF Row, Statuses, MarkerPhases
<1> QED
  BY <1>1, <1>2, <1>3

LEMMA NewRowsAreRows ==
  ASSUME NEW status \in Statuses
  PROVE  NewRow(status) \in Row /\ NewRow(status).status = status
BY DEF NewRow, NoRow, Row, MarkerPhases, Failures

(* What each operation leaves of status, owner and attempts.               *)
LEMMA ClaimedRowIs ==
  ASSUME NEW r \in Row, NEW w, NEW t
  PROVE  /\ Claimed(r, w, t).status = "running" /\ Claimed(r, w, t).owner = w
         /\ Claimed(r, w, t).attempts = r.attempts + 1
BY DEF Claimed, Row

LEMMA SavedOverKeeps ==
  ASSUME NEW r, NEW c \in Row
  PROVE  /\ SavedOver(r, c).status = c.status /\ SavedOver(r, c).owner = c.owner
         /\ SavedOver(r, c).attempts = c.attempts
BY DEF SavedOver, Row

LEMMA LastRowsAre ==
  ASSUME NEW c \in Row
  PROVE  /\ CompletedCopy(c) \in Row /\ CompletedCopy(c).status = "completed"
         /\ CompletedCopy(c).attempts = c.attempts
         /\ \A retryable \in BOOLEAN :
              /\ FailedCopy(c, retryable) \in Row
              /\ FailedCopy(c, retryable).attempts = c.attempts
              /\ FailedCopy(c, retryable).status =
                   IF retryable /\ HasAttemptLeft(c) THEN "queued" ELSE "failed"
<1>1. CompletedCopy(c).status = "completed" /\ CompletedCopy(c).attempts = c.attempts
  BY DEF CompletedCopy, Row
<1>2. ASSUME NEW retryable \in BOOLEAN
      PROVE  /\ FailedCopy(c, retryable).attempts = c.attempts
             /\ FailedCopy(c, retryable).status =
                  IF retryable /\ HasAttemptLeft(c) THEN "queued" ELSE "failed"
  BY DEF FailedCopy, Row
<1> QED
  BY <1>1, <1>2, FinalCopiesAreRows

LEMMA TakenBackRowsAre ==
  ASSUME NEW r \in Row
  PROVE  /\ Exhausted(r).status = "failed" /\ Exhausted(r).attempts = r.attempts
         /\ Recovered(r).attempts = r.attempts
         /\ Recovered(r).status = IF HasAttemptLeft(r) THEN "queued" ELSE "failed"
BY DEF Exhausted, Recovered, Row

(* Functions that differ in one value, or in none.                         *)
LEMMA OneValueChanges ==
  ASSUME NEW S, NEW f, NEW g, NEW j \in S, NEW x,
         f = [k \in S |-> f[k]], g = [k \in S |-> g[k]],
         g[j] = x, \A k \in S : k # j => g[k] = f[k]
  PROVE  g = [f EXCEPT ![j] = x]
OBVIOUS

LEMMA NoValueChanges ==
  ASSUME NEW S, NEW f, NEW g,
         f = [k \in S |-> f[k]], g = [k \in S |-> g[k]],
         \A k \in S : g[k] = f[k]
  PROVE  g = f
OBVIOUS

=============================================================================
