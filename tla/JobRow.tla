------------------------------- MODULE JobRow -------------------------------
(***************************************************************************)
(* One durable job as the repository stores it, and what each repository   *)
(* operation does to that row.  Every operation of repository.py runs      *)
(* under the store's lock (the in-memory lock, or SELECT ... FOR UPDATE),  *)
(* so each is a function from the stored row to the row that replaces it.  *)
(*                                                                         *)
(* Times are integers.  A lease that is None is NoLease, an instant before *)
(* every clock value: "no lease" and "expired" are the same answer.        *)
(***************************************************************************)
EXTENDS Integers

CONSTANTS
  Workers,       \* the processes that can run one delivery of a job
  NoWorker,      \* the lease_owner of a job nobody holds
  Phases,        \* the values job.current_phase takes while a job is worked on
  MaxAttempts,   \* DurableJob.max_attempts
  LeaseTicks     \* job_lease_seconds, in clock ticks

ASSUME WorkersAssumption  == NoWorker \notin Workers
ASSUME AttemptsAssumption == MaxAttempts \in Nat \ {0}
ASSUME LeaseAssumption    == LeaseTicks \in Nat \ {0}

NoLease == -1

Statuses == {"absent", "queued", "scheduled", "running",
             "completed", "failed", "canceled"}

Terminal == {"completed", "failed", "canceled"}

MarkerPhases == {"none", "retry_scheduled", "waiting_for_maintenance_window",
                 "completed", "failed", "canceled"}

Failures == {"none", "worker_lease_expired", "retryable", "permanent"}

Row == [status        : Statuses,
        attempts      : Nat,
        owner         : Workers \cup {NoWorker},
        expires       : Nat \cup {NoLease},
        phase         : Phases \cup MarkerPhases,
        failure       : Failures,
        recoveredFrom : Phases \cup MarkerPhases]

(* A row that has not been inserted yet, and a freshly inserted one.       *)
NoRow == [status |-> "absent", attempts |-> 0, owner |-> NoWorker,
          expires |-> NoLease, phase |-> "none", failure |-> "none",
          recoveredFrom |-> "none"]

NewRow(status) == [NoRow EXCEPT !.status = status]

-----------------------------------------------------------------------------

(* Mutant: a lease counts as expired one tick early.                       *)
MutLeaseIsExpired(expires, now) == expires <= now + 1

LeaseIsExpired(expires, now) == expires <= now

LaterOf(a, b) == IF a >= b THEN a ELSE b

Lapsed(r, now) == r.status = "running" /\ LeaseIsExpired(r.expires, now)

(* Mutant: a running job can be claimed whatever its lease says.           *)
MutClaimable(r, now) == r.status \in {"queued", "running"}

Claimable(r, now) == r.status = "queued" \/ Lapsed(r, now)

HasAttemptLeft(r) == r.attempts < MaxAttempts

(* terminalize_exhausted_job: the retry budget is spent.                   *)
Exhausted(r) ==
  [r EXCEPT !.status = "failed", !.phase = "failed",
            !.owner = NoWorker, !.expires = NoLease]

(* Mutant: the lease length is subtracted from the claim time.             *)
MutClaimed(r, w, now) ==
  [r EXCEPT !.status = "running", !.attempts = @ + 1, !.owner = w,
            !.expires = now - LeaseTicks]

(* claim_job on a claimable row with an attempt left.  The phase and the   *)
(* recovery marker of the previous attempt stay where they are.            *)
Claimed(r, w, now) ==
  [r EXCEPT !.status   = "running",
            !.attempts = @ + 1,
            !.owner    = w,
            !.expires  = now + LeaseTicks,
            !.failure  = IF Lapsed(r, now) THEN "worker_lease_expired" ELSE @]

(* The test shared by heartbeat_job and by save_job with a lease_owner.    *)
HoldsLease(r, w, now) ==
  /\ r.status = "running"
  /\ r.owner = w
  /\ ~LeaseIsExpired(r.expires, now)

HeartbeatRow(r, now) == [r EXCEPT !.expires = now + LeaseTicks]

(* save_job with a lease_owner: the caller's copy replaces the row, but a  *)
(* running row keeps the later of the two leases.                          *)
SavedOver(r, copy) ==
  IF copy.status = "running"
  THEN [copy EXCEPT !.expires = LaterOf(@, r.expires)]
  ELSE copy

(* The copy a worker saves to finish a job, and the one fail_job builds.   *)
CompletedCopy(copy) ==
  [copy EXCEPT !.status = "completed", !.phase = "completed",
               !.owner = NoWorker, !.expires = NoLease]

(* Mutant: fail_job retries without looking at the attempts.               *)
MutFailedCopy(copy, retryable) ==
  [copy EXCEPT !.status = IF retryable THEN "queued" ELSE "failed",
               !.phase = IF retryable THEN "retry_scheduled" ELSE "failed",
               !.owner = NoWorker, !.expires = NoLease]

FailedCopy(copy, retryable) ==
  IF retryable /\ HasAttemptLeft(copy)
  THEN [copy EXCEPT !.status = "queued", !.phase = "retry_scheduled",
                    !.failure = "retryable",
                    !.owner = NoWorker, !.expires = NoLease]
  ELSE [copy EXCEPT !.status = "failed", !.phase = "failed",
                    !.failure = IF retryable THEN "retryable" ELSE "permanent",
                    !.owner = NoWorker, !.expires = NoLease]

(* recover_expired_jobs, for one lapsed row.                               *)
Recovered(r) ==
  LET marked == [r EXCEPT !.failure = "worker_lease_expired",
                          !.recoveredFrom = r.phase,
                          !.owner = NoWorker, !.expires = NoLease]
  IN  IF HasAttemptLeft(r)
      THEN [marked EXCEPT !.status = "queued", !.phase = "retry_scheduled"]
      ELSE Exhausted(marked)

(* Mutant: anything that is not running can be canceled.                   *)
MutCancelable(r) == r.status \notin {"absent", "running"}

(* cancel_job: only the statuses nobody is working on yet.                 *)
Cancelable(r) == r.status \in {"queued", "scheduled"}

Canceled(r) ==
  [r EXCEPT !.status = "canceled", !.phase = "canceled",
            !.owner = NoWorker, !.expires = NoLease]

-----------------------------------------------------------------------------

(* The state that JobPromise gives the job of a row.                       *)
PromisedOf(r) ==
  CASE r.status = "running"   -> "held"
    [] r.status = "completed" -> "done"
    [] r.status = "failed"    -> "dead"
    [] r.status = "canceled"  -> "canceled"
    [] r.status = "absent"    -> "absent"
    [] OTHER                  -> "waiting"

(* The attempts it counts: those of a job that has not ended.              *)
PromisedTriesOf(r) == IF r.status \in Terminal THEN 0 ELSE r.attempts

=============================================================================
