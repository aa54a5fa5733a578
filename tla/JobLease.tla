------------------------------ MODULE JobLease ------------------------------
(***************************************************************************)
(* The durable job protocol: workers that claim a job under a lease, keep  *)
(* the lease with heartbeats, write the job back only while they hold it,  *)
(* and the sweep that hands the jobs of dead workers to somebody else.     *)
(*                                                                         *)
(* A worker reads the clock, then waits for the row lock: every operation  *)
(* carries a time t between the worker's previous reading and now.  A      *)
(* worker may stop for any length of time (it just takes no step), or die. *)
(* Deliveries may be duplicated: any idle worker may try to claim any job. *)
(*                                                                         *)
(* The module holds the operations that respect the lease; it is the whole *)
(* life of a scan job.  Remediation and snapshot-delete jobs are also      *)
(* written by saves that carry no lease owner: RemediationExecution has    *)
(* those.                                                                  *)
(***************************************************************************)
EXTENDS JobRow

CONSTANTS
  Jobs,          \* job ids
  NoTask,         \* what an idle worker works on
  MaxTime        \* bound on the clock

ASSUME JobsAssumption == NoTask \notin Jobs
ASSUME TimeAssumption == MaxTime \in Nat

VARIABLES
  now,           \* the clock
  row,           \* the jobs table
  task,          \* the job each worker is processing
  copy,          \* the DurableJob object the worker got from claim_job
  stamp,         \* the worker's last clock reading
  until          \* the deadline the last claim or heartbeat gave the worker

jobVars == <<now, row, task, copy, stamp, until>>

JobTypeOK ==
  /\ now \in 0..MaxTime
  /\ row \in [Jobs -> Row]
  /\ task \in [Workers -> Jobs \cup {NoTask}]
  /\ copy \in [Workers -> Row]
  /\ stamp \in [Workers -> Nat]
  /\ until \in [Workers -> Int]

JobInit ==
  /\ now = 0
  /\ row = [j \in Jobs |-> NoRow]
  /\ task = [w \in Workers |-> NoTask]
  /\ copy = [w \in Workers |-> NoRow]
  /\ stamp = [w \in Workers |-> 0]
  /\ until = [w \in Workers |-> NoLease]

-----------------------------------------------------------------------------

(* What every way of leaving a job has in common: the worker forgets it.   *)
Forget(w) ==
  /\ task' = [task EXCEPT ![w] = NoTask]
  /\ copy' = [copy EXCEPT ![w] = NoRow]
  /\ stamp' = [stamp EXCEPT ![w] = 0]
  /\ until' = [until EXCEPT ![w] = NoLease]

Reading(w) == stamp[w]..now

(* create_scan_job, or prepare_remediation_job in an open window: insert   *)
(* the job, once per idempotency key.                                      *)
Submit(j) ==
  /\ row[j].status = "absent"
  /\ row' = [row EXCEPT ![j] = NewRow("queued")]
  /\ UNCHANGED <<now, task, copy, stamp, until>>

(* cancel_job.                                                             *)
Cancel(j) ==
  /\ Cancelable(row[j])
  /\ row' = [row EXCEPT ![j] = Canceled(@)]
  /\ UNCHANGED <<now, task, copy, stamp, until>>

Claim(w, j, t) ==
  /\ task[w] = NoTask
  /\ t \in 0..now
  /\ Claimable(row[j], t)
  /\ HasAttemptLeft(row[j])
  /\ LET claimed == Claimed(row[j], w, t)
     IN  /\ row' = [row EXCEPT ![j] = claimed]
         /\ copy' = [copy EXCEPT ![w] = claimed]
         /\ until' = [until EXCEPT ![w] = claimed.expires]
  /\ task' = [task EXCEPT ![w] = j]
  /\ stamp' = [stamp EXCEPT ![w] = t]
  /\ UNCHANGED now

(* A claim that finds the retry budget spent fails the job instead.        *)
ClaimExhausted(w, j, t) ==
  /\ task[w] = NoTask
  /\ t \in 0..now
  /\ Claimable(row[j], t)
  /\ ~HasAttemptLeft(row[j])
  /\ row' = [row EXCEPT ![j] = Exhausted(@)]
  /\ UNCHANGED <<now, task, copy, stamp, until>>

(* heartbeat_job, from the heartbeat loop or from _assert_job_lease.       *)
Heartbeat(w, t) ==
  /\ task[w] # NoTask
  /\ t \in Reading(w)
  /\ HoldsLease(row[task[w]], w, t)
  /\ row' = [row EXCEPT ![task[w]] = HeartbeatRow(@, t)]
  /\ stamp' = [stamp EXCEPT ![w] = t]
  /\ until' = [until EXCEPT ![w] = t + LeaseTicks]
  /\ UNCHANGED <<now, task, copy>>

(* Mutant: the worker keeps the object it had before the save.             *)
MutSavePhase(w, t, p) ==
  /\ task[w] # NoTask
  /\ t \in Reading(w)
  /\ HoldsLease(row[task[w]], w, t)
  /\ row' = [row EXCEPT ![task[w]] = SavedOver(@, [copy[w] EXCEPT !.phase = p])]
  /\ stamp' = [stamp EXCEPT ![w] = t]
  /\ UNCHANGED <<now, task, copy, until>>

(* _save_claimed_job with the next phase.                                  *)
SavePhase(w, t, p) ==
  LET updated == [copy[w] EXCEPT !.phase = p]
  IN  /\ task[w] # NoTask
      /\ t \in Reading(w)
      /\ HoldsLease(row[task[w]], w, t)
      /\ row' = [row EXCEPT ![task[w]] = SavedOver(@, updated)]
      /\ copy' = [copy EXCEPT ![w] = SavedOver(row[task[w]], updated)]
      /\ stamp' = [stamp EXCEPT ![w] = t]
      /\ UNCHANGED <<now, task, until>>

(* The last save of a worker: the job completed, or fail_job ran.          *)
SaveLast(w, t, last) ==
  /\ task[w] # NoTask
  /\ t \in Reading(w)
  /\ HoldsLease(row[task[w]], w, t)
  /\ row' = [row EXCEPT ![task[w]] = SavedOver(@, last)]
  /\ Forget(w)
  /\ UNCHANGED now

Complete(w, t) == SaveLast(w, t, CompletedCopy(copy[w]))

Fail(w, t, retryable) == SaveLast(w, t, FailedCopy(copy[w], retryable))

(* JobLeaseLost: a heartbeat or a save was refused, the worker gives up.   *)
LoseLease(w, t) ==
  /\ task[w] # NoTask
  /\ t \in Reading(w)
  /\ ~HoldsLease(row[task[w]], w, t)
  /\ Forget(w)
  /\ UNCHANGED <<now, row>>

Crash(w) ==
  /\ task[w] # NoTask
  /\ Forget(w)
  /\ UNCHANGED <<now, row>>

(* recover_expired_jobs: one transaction over the lapsed rows that no      *)
(* other transaction has locked (skip_locked), with a clock reading t.     *)
Sweep(t) ==
  /\ t \in 0..now
  /\ \E S \in SUBSET {j \in Jobs : Lapsed(row[j], t)} :
       /\ S # {}
       /\ row' = [j \in Jobs |-> IF j \in S THEN Recovered(row[j]) ELSE row[j]]
  /\ UNCHANGED <<now, task, copy, stamp, until>>

Tick ==
  /\ now < MaxTime
  /\ now' = now + 1
  /\ UNCHANGED <<row, task, copy, stamp, until>>

Working(w, t) ==
  \/ \E j \in Jobs : Claim(w, j, t) \/ ClaimExhausted(w, j, t)
  \/ Heartbeat(w, t)
  \/ \E p \in Phases : SavePhase(w, t, p)
  \/ Complete(w, t)
  \/ \E retryable \in BOOLEAN : Fail(w, t, retryable)
  \/ LoseLease(w, t)

JobNext ==
  \/ Tick
  \/ \E j \in Jobs : Submit(j) \/ Cancel(j)
  \/ \E w \in Workers : Crash(w)
  \/ \E t \in 0..MaxTime : Sweep(t) \/ \E w \in Workers : Working(w, t)

JobSpec == JobInit /\ [][JobNext]_jobVars

-----------------------------------------------------------------------------

(* Worker w was told by its last claim or heartbeat that job j is its own  *)
(* until a deadline that has not passed.                                   *)
Entitled(w, j) == task[w] = j /\ now < until[w]

(* A worker acts on the deadline it remembers, never on the row: while the *)
(* deadline of its last claim_job or heartbeat_job answer has not passed,  *)
(* the stored row still names it as the running owner, whatever the other  *)
(* workers, the sweep and late clock readings did in the meantime.         *)
EntitledWorkerOwnsRow ==
  \A w \in Workers, j \in Jobs :
    Entitled(w, j) => row[j].status = "running" /\ row[j].owner = w

(* save_job writes the worker's whole copy of the job back.  No update by  *)
(* anybody else is lost that way: while the row names a worker as owner,   *)
(* the row and the worker's copy differ at most in when the lease ends.    *)
OwnersCopyIsCurrent ==
  \A w \in Workers, j \in Jobs :
    task[w] = j /\ row[j].status = "running" /\ row[j].owner = w =>
      [copy[w] EXCEPT !.expires = row[j].expires] = row[j]

(* Retries are bounded and a retry is never promised in vain: a job that   *)
(* fail_job or the sweep put back in the queue can always be claimed once  *)
(* more, so claim_job fails an exhausted job only after a lease lapsed.    *)
QueuedJobHasAttemptLeft ==
  \A j \in Jobs :
    /\ row[j].attempts <= MaxAttempts
    /\ row[j].status = "queued" => HasAttemptLeft(row[j])

(* An outcome is final: no late save of a worker that lost its lease, no   *)
(* sweep, cancel or duplicate delivery changes a finished job's row.       *)
OutcomeIsFinal ==
  [][\A j \in Jobs : row[j].status \in Terminal => row'[j] = row[j]]_jobVars

(* The promise the protocol implements.                                    *)
PromisedState == [j \in Jobs |-> PromisedOf(row[j])]

PromisedTries == [j \in Jobs |-> PromisedTriesOf(row[j])]

PromisedLive == [j \in Jobs |-> {w \in Workers : Entitled(w, j)}]

Promise == INSTANCE JobPromise
             WITH state <- PromisedState,
                  tries <- PromisedTries,
                  live  <- PromisedLive

(* The repository's job operations, late clock readings, crashes and       *)
(* sweeps included, implement the abstract promise of JobPromise.          *)
KeepsPromise == Promise!PSpec

=============================================================================
