--------------------------- MODULE SnapshotRetention ---------------------------
(***************************************************************************)
(* Rollback snapshots from their creation to their deletion: the steps of  *)
(* the protected execution that write the snapshot record, the job that    *)
(* deletes it when its retention has passed, the workers that run that     *)
(* job, and the beat tasks that release and recover it.                    *)
(*                                                                         *)
(* The record is saved without looking at the lease; only the job's row is *)
(* guarded by it.  Leases use the relative clock of JobRow, as in          *)
(* RemediationExecution; now counts the ticks of retention.                *)
(***************************************************************************)
EXTENDS JobRow

CONSTANTS
  Snapshots,     \* rollback snapshots, one per protected execution
  Retention,     \* host.snapshot_retention_days, in ticks
  MaxTime,       \* bound: ticks
  MaxLosses,     \* bound: processes that die, or outlive their lease
  Never          \* a delete_after that is None

ASSUME RetentionAssumption ==
  /\ Retention \in Nat /\ MaxTime \in Nat /\ MaxLosses \in Nat
  /\ Never \notin Nat /\ Snapshots # {}
  /\ {"waiting_for_retention", "snapshot_delete"} \subseteq Phases

SnapshotStates ==
  {"absent", "creating", "created", "delete_scheduled", "deleted",
   "rollback_started", "rolled_back", "rollback_failed", "delete_failed"}

Records == [state : SnapshotStates, after : Nat \cup {Never}]

NoRecord == [state |-> "absent", after |-> Never]

VARIABLES
  snap,          \* the stored snapshot records
  stored,        \* whether the platform holds the snapshot
  exec,          \* where the protected execution of each snapshot is
  job,           \* the deletion jobs
  sent,          \* run_snapshot_delete deliveries in the broker
  work,          \* per worker: what it runs and holds
  beat,          \* what the release and the recovery task have in hand
  now,           \* the clock
  losses,        \* the losses still allowed
  disturbed,     \* history: snapshots whose deletion met a loss
  dropped,       \* history: snapshots whose deletion nothing will send again
  soured         \* history: those whose deletion raised once it was completed

hist == <<losses, disturbed, dropped, soured>>
vars == <<snap, stored, exec, job, sent, work, beat, now, hist>>

ExecPoints == {"start", "creating", "created", "rollback", "schedule", "ended"}
Points == {"idle", "claimed", "deleting", "done", "refused", "completing",
           "auditing", "raised", "failed"}

Tasks == [at : Points, of : Snapshots, row : Row, held : Records]
Idle == [at |-> "idle", of |-> CHOOSE s \in Snapshots : TRUE, row |-> NoRow,
         held |-> NoRecord]

TypeOK ==
  /\ snap \in [Snapshots -> Records]
  /\ stored \in [Snapshots -> {"never", "held", "gone"}]
  /\ exec \in [Snapshots -> ExecPoints]
  /\ job \in [Snapshots -> Row]
  /\ sent \subseteq Snapshots
  /\ work \in [Workers -> Tasks]
  /\ beat \in [released : SUBSET Snapshots, recovered : SUBSET Snapshots,
               exhausted : SUBSET Snapshots, ready : SUBSET Snapshots]
  /\ now \in 0 .. MaxTime /\ losses \in 0 .. MaxLosses
  /\ disturbed \subseteq Snapshots /\ dropped \subseteq Snapshots
  /\ soured \subseteq Snapshots

Init ==
  /\ snap = [s \in Snapshots |-> NoRecord]
  /\ stored = [s \in Snapshots |-> "never"]
  /\ exec = [s \in Snapshots |-> "start"]
  /\ job = [s \in Snapshots |-> NoRow]
  /\ sent = {}
  /\ work = [w \in Workers |-> Idle]
  /\ beat = [released |-> {}, recovered |-> {}, exhausted |-> {}, ready |-> {}]
  /\ now = 0 /\ losses = MaxLosses
  /\ disturbed = {} /\ dropped = {} /\ soured = {}

-----------------------------------------------------------------------------
(* The protected execution.                                                *)

SetState(s, state) == snap' = [snap EXCEPT ![s].state = state]
Goto(s, point) == exec' = [exec EXCEPT ![s] = point]
OutsideExec == <<job, sent, work, beat, now, hist>>

(* _create_rollback_snapshot saves the record before it asks the platform. *)
BeginSnapshot(s) ==
  /\ exec[s] = "start" /\ Goto(s, "creating")
  /\ SetState(s, "creating")
  /\ UNCHANGED <<stored, OutsideExec>>

(* The platform answers.  A call that failed may have made the snapshot;   *)
(* its record stays "creating".                                            *)
CreateSnapshot(s) ==
  /\ exec[s] = "creating"
  /\ \/ /\ Goto(s, "created")
        /\ SetState(s, "created")
        /\ stored' = [stored EXCEPT ![s] = "held"]
     \/ /\ Goto(s, "ended")
        /\ \E there \in {"never", "held"} : stored' = [stored EXCEPT ![s] = there]
        /\ UNCHANGED snap
  /\ UNCHANGED OutsideExec

(* Mutant: the retention is subtracted from the hour of creation.          *)
MutPassHealth(s) ==
  /\ exec[s] = "created" /\ Goto(s, "schedule")
  /\ snap' = [snap EXCEPT ![s] = [state |-> "delete_scheduled",
                                  after |-> now - Retention]]
  /\ UNCHANGED <<stored, OutsideExec>>

(* _finish_snapshot_protected_execution after its health checks.           *)
PassHealth(s) ==
  /\ exec[s] = "created" /\ Goto(s, "schedule")
  /\ now + Retention <= MaxTime
  /\ snap' = [snap EXCEPT ![s] = [state |-> "delete_scheduled",
                                  after |-> now + Retention]]
  /\ UNCHANGED <<stored, OutsideExec>>

FailHealth(s) ==
  /\ exec[s] = "created" /\ Goto(s, "rollback")
  /\ SetState(s, "rollback_started")
  /\ UNCHANGED <<stored, OutsideExec>>

RollBack(s) ==
  /\ exec[s] = "rollback" /\ Goto(s, "ended")
  /\ \E state \in {"rolled_back", "rollback_failed"} : SetState(s, state)
  /\ UNCHANGED <<stored, OutsideExec>>

(* _schedule_snapshot_delete_job.                                          *)
ScheduleDelete(s) ==
  /\ exec[s] = "schedule" /\ Goto(s, "ended")
  /\ job' = [job EXCEPT ![s] = [NewRow("scheduled") EXCEPT
                                  !.phase = "waiting_for_retention"]]
  /\ UNCHANGED <<snap, stored, sent, work, beat, now, hist>>

(* The execution raises, or its worker dies.  No other attempt knows this  *)
(* snapshot.                                                               *)
AbandonExec(s) ==
  /\ exec[s] \notin {"start", "ended"} /\ Goto(s, "ended")
  /\ dropped' = IF exec[s] = "schedule" THEN dropped \cup {s} ELSE dropped
  /\ UNCHANGED <<snap, stored, job, sent, work, beat, now, losses, disturbed, soured>>

-----------------------------------------------------------------------------
(* The release task.                                                       *)

(* Mutant: the hour of the deletion is not looked at.                      *)
MutDue(s) == snap[s].after # Never

Due(s) == snap[s].after # Never /\ snap[s].after <= now

(* release_scheduled_snapshot_delete_jobs commits a row at a time...       *)
ReleaseDelete(s) ==
  /\ job[s].status = "scheduled" /\ Due(s)
  /\ job' = [job EXCEPT ![s].status = "queued", ![s].phase = "none"]
  /\ beat' = [beat EXCEPT !.released = @ \cup {s}]
  /\ UNCHANGED <<snap, stored, exec, sent, work, now, hist>>

(* ... and the task sends the deliveries afterwards.                       *)
SendReleased(s) ==
  /\ s \in beat.released
  /\ beat' = [beat EXCEPT !.released = @ \ {s}]
  /\ sent' = sent \cup {s}
  /\ UNCHANGED <<snap, stored, exec, job, work, now, hist>>

-----------------------------------------------------------------------------
(* A worker with a delivery.                                               *)

At(w, point) == work[w].at = point
Move(w, point) == work' = [work EXCEPT ![w].at = point]
Finish(w) == work' = [work EXCEPT ![w] = Idle]
Owns(w) == HoldsLease(job[work[w].of], w, 0)

(* _schedule_retry: a task whose job comes back queued for a retry sends   *)
(* it again, even when another process queued it.                          *)
RetryAfter(s, row) ==
  sent' = IF row.status = "queued" /\ row.phase = "retry_scheduled"
          THEN sent \cup {s} ELSE sent
LeaseLost(w) ==
  /\ Finish(w) /\ RetryAfter(work[w].of, job[work[w].of]) /\ UNCHANGED job

OutsideWork == <<exec, beat, now, hist>>

(* process_snapshot_delete claims the row.  An exhausted one is failed     *)
(* there and then, and its record left as it is.                           *)
ClaimDelete(w, s) ==
  /\ At(w, "idle") /\ s \in sent /\ sent' = sent \ {s}
  /\ IF ~Claimable(job[s], 0) THEN UNCHANGED <<job, work, dropped>>
     ELSE IF ~HasAttemptLeft(job[s])
     THEN /\ job' = [job EXCEPT ![s] = Exhausted(@)]
          /\ dropped' = dropped \cup {s}
          /\ UNCHANGED work
     ELSE /\ job' = [job EXCEPT ![s] = Claimed(@, w, 0)]
          /\ work' = [work EXCEPT ![w] =
               [at |-> "claimed", of |-> s, row |-> Claimed(job[s], w, 0),
                held |-> snap[s]]]
          /\ UNCHANGED dropped
  /\ UNCHANGED <<snap, stored, exec, beat, now, losses, disturbed, soured>>

(* _process_claimed_snapshot_delete saves its phase under the lease.       *)
StartDelete(w) ==
  LET copy == [work[w].row EXCEPT !.phase = "snapshot_delete"]
  IN  /\ At(w, "claimed")
      /\ IF Owns(w)
         THEN /\ job' = [job EXCEPT ![work[w].of] = SavedOver(@, copy)]
              /\ work' = [work EXCEPT ![w].at = "deleting", ![w].row = copy]
              /\ UNCHANGED sent
         ELSE LeaseLost(w)
      /\ UNCHANGED <<snap, stored, OutsideWork>>

(* The platform deletes the snapshot, refuses, or raises; what it was told *)
(* to delete may be gone in every case.                                    *)
DeleteSnapshot(w) ==
  LET s == work[w].of
      Gone == stored' = [stored EXCEPT ![s] = "gone"]
  IN  /\ At(w, "deleting")
      /\ \/ Move(w, "done") /\ Gone
         \/ \E answer \in {"refused", "raised"} :
              Move(w, answer) /\ (Gone \/ UNCHANGED stored)
      /\ UNCHANGED <<snap, job, sent, OutsideWork>>

(* The answer goes into the record the worker read before it.              *)
RecordDelete(w) ==
  /\ work[w].at \in {"done", "refused"}
  /\ snap' = [snap EXCEPT ![work[w].of] =
       [work[w].held EXCEPT
          !.state = IF At(w, "done") THEN "deleted" ELSE "delete_failed"]]
  /\ Move(w, IF At(w, "done") THEN "completing" ELSE "raised")
  /\ UNCHANGED <<stored, job, sent, OutsideWork>>

(* Mutant: the job is completed without a look at its lease.               *)
MutCompleteDelete(w) ==
  LET copy == CompletedCopy(work[w].row)
  IN  /\ At(w, "completing")
      /\ job' = [job EXCEPT ![work[w].of] = copy]
      /\ work' = [work EXCEPT ![w].at = "auditing", ![w].row = copy]
      /\ UNCHANGED <<snap, stored, sent, OutsideWork>>

CompleteDelete(w) ==
  LET copy == CompletedCopy(work[w].row)
  IN  /\ At(w, "completing")
      /\ IF Owns(w)
         THEN /\ job' = [job EXCEPT ![work[w].of] = copy]
              /\ work' = [work EXCEPT ![w].at = "auditing", ![w].row = copy]
              /\ UNCHANGED sent
         ELSE LeaseLost(w)
      /\ UNCHANGED <<snap, stored, OutsideWork>>

AuditDelete(w) ==
  /\ At(w, "auditing") /\ Finish(w)
  /\ UNCHANGED <<snap, stored, job, sent, OutsideWork>>

(* Any other call of the task raises: a save, the alert, or the audit that *)
(* follows the completed job.                                              *)
RaiseError(w) ==
  /\ work[w].at \in {"claimed", "done", "refused", "completing", "auditing"}
  /\ Move(w, "raised")
  /\ soured' = IF At(w, "auditing") THEN soured \cup {work[w].of} ELSE soured
  /\ UNCHANGED <<snap, stored, exec, job, sent, beat, now, losses, disturbed, dropped>>

(* The handler fails the job for good, if it is still its own...           *)
FailDelete(w) ==
  /\ At(w, "raised")
  /\ IF Owns(w)
     THEN job' = [job EXCEPT ![work[w].of] = FailedCopy(work[w].row, FALSE)]
     ELSE UNCHANGED job
  /\ work' = [work EXCEPT ![w].at = "failed", ![w].row = job'[work[w].of]]
  /\ UNCHANGED <<snap, stored, sent, OutsideWork>>

(* Mutant: only an answer the platform gave is recorded.                   *)
MutRecordFailure(w) ==
  /\ At(w, "failed") /\ Finish(w)
  /\ UNCHANGED <<snap, stored, job, sent, OutsideWork>>

(* ... and saves the record in any case.                                   *)
RecordFailure(w) ==
  /\ At(w, "failed") /\ Finish(w)
  /\ snap' = [snap EXCEPT ![work[w].of] =
                [work[w].held EXCEPT !.state = "delete_failed"]]
  /\ RetryAfter(work[w].of, work[w].row)
  /\ UNCHANGED <<stored, job, OutsideWork>>

(* A request to the platform that nobody waits for any longer.             *)
Interrupted(w) ==
  \/ UNCHANGED stored
  \/ At(w, "deleting") /\ stored' = [stored EXCEPT ![work[w].of] = "gone"]

(* The heartbeat of a task finds its lease lost, and cancels it.           *)
CancelTask(w) ==
  /\ At(w, "deleting") /\ ~Owns(w)
  /\ LeaseLost(w) /\ Interrupted(w)
  /\ UNCHANGED <<snap, OutsideWork>>

-----------------------------------------------------------------------------
(* Losses, and the recovery task.                                          *)

(* A worker dies; the broker repeats its delivery.                         *)
Crash(w) ==
  LET s == work[w].of
  IN  /\ ~At(w, "idle") /\ losses > 0
      /\ Finish(w) /\ Interrupted(w)
      /\ sent' = sent \cup {s}
      /\ losses' = losses - 1 /\ disturbed' = disturbed \cup {s}
      /\ UNCHANGED <<snap, exec, job, beat, now, dropped, soured>>

Deserted(s) == \A w \in Workers : At(w, "idle") \/ work[w].of # s

(* The lease runs out: of a worker that died, or of one that stalls.       *)
Lapse(s) ==
  /\ job[s].status = "running" /\ ~LeaseIsExpired(job[s].expires, 0)
  /\ job' = [job EXCEPT ![s].expires = 0]
  /\ disturbed' = disturbed \cup {s}
  /\ IF Deserted(s) THEN UNCHANGED losses ELSE losses > 0 /\ losses' = losses - 1
  /\ UNCHANGED <<snap, stored, exec, sent, work, beat, now, dropped, soured>>

(* recover_expired_jobs in the repository: every lapsed row, at once.      *)
Sweep ==
  LET lapsed == {s \in Snapshots : Lapsed(job[s], 0)}
  IN  /\ lapsed # {}
      /\ job' = [s \in Snapshots |-> IF s \in lapsed THEN Recovered(job[s])
                                                     ELSE job[s]]
      /\ beat' = [beat EXCEPT
           !.recovered = @ \cup {s \in lapsed : HasAttemptLeft(job[s])},
           !.exhausted = @ \cup {s \in lapsed : ~HasAttemptLeft(job[s])}]
      /\ UNCHANGED <<snap, stored, exec, sent, work, now, hist>>

(* Mutant: a job whose record needs no correction is not sent again.       *)
MutRecordSweep(s) ==
  LET failed == s \in beat.exhausted
  IN  /\ s \in beat.exhausted \cup beat.recovered
      /\ beat' = [beat EXCEPT !.exhausted = @ \ {s}, !.recovered = @ \ {s}]
      /\ IF failed THEN SetState(s, "delete_failed") ELSE UNCHANGED snap
      /\ UNCHANGED <<stored, exec, job, sent, work, now, hist>>

(* recover_expired_jobs in the service, for one job.                       *)
RecordSweep(s) ==
  LET failed == s \in beat.exhausted
  IN  /\ s \in beat.exhausted \cup beat.recovered
      /\ beat' = IF failed THEN [beat EXCEPT !.exhausted = @ \ {s}]
                 ELSE [beat EXCEPT !.recovered = @ \ {s}, !.ready = @ \cup {s}]
      /\ IF failed THEN SetState(s, "delete_failed")
         ELSE IF snap[s].state = "delete_failed" THEN SetState(s, "delete_scheduled")
         ELSE UNCHANGED snap
      /\ UNCHANGED <<stored, exec, job, sent, work, now, hist>>

SendRecovered(s) ==
  /\ s \in beat.ready
  /\ beat' = [beat EXCEPT !.ready = @ \ {s}]
  /\ sent' = sent \cup {s}
  /\ UNCHANGED <<snap, stored, exec, job, work, now, hist>>

(* A beat task dies with rows committed and nothing sent.                  *)
BeatDies ==
  LET lost == UNION {beat.released, beat.recovered, beat.exhausted, beat.ready}
  IN  /\ lost # {} /\ losses > 0
      /\ beat' = [released |-> {}, recovered |-> {}, exhausted |-> {}, ready |-> {}]
      /\ losses' = losses - 1
      /\ disturbed' = disturbed \cup lost /\ dropped' = dropped \cup lost
      /\ UNCHANGED <<snap, stored, exec, job, sent, work, now, soured>>

Tick == now < MaxTime /\ now' = now + 1
        /\ UNCHANGED <<snap, stored, exec, job, sent, work, beat, hist>>

-----------------------------------------------------------------------------

ExecStep(s) ==
  \/ BeginSnapshot(s) \/ CreateSnapshot(s) \/ PassHealth(s) \/ FailHealth(s)
  \/ RollBack(s) \/ ScheduleDelete(s)

WorkerStep(w) ==
  \/ \E s \in Snapshots : ClaimDelete(w, s)
  \/ StartDelete(w) \/ DeleteSnapshot(w) \/ RecordDelete(w)
  \/ CompleteDelete(w) \/ AuditDelete(w) \/ FailDelete(w) \/ RecordFailure(w)

BeatStep ==
  \/ Sweep
  \/ \E s \in Snapshots : \/ ReleaseDelete(s) \/ SendReleased(s)
                          \/ RecordSweep(s) \/ SendRecovered(s)

Next ==
  \/ \E s \in Snapshots : ExecStep(s) \/ AbandonExec(s) \/ Lapse(s)
  \/ \E w \in Workers : WorkerStep(w) \/ RaiseError(w) \/ CancelTask(w) \/ Crash(w)
  \/ BeatStep \/ BeatDies \/ Tick

(* Executions, workers and beat tasks go on, time passes, and the lease of *)
(* a dead worker runs out.  Nothing has to fail.                           *)
Fairness ==
  /\ \A s \in Snapshots : WF_vars(ScheduleDelete(s))
  /\ \A s \in Snapshots : WF_vars(Deserted(s) /\ Lapse(s))
  /\ \A w \in Workers : WF_vars(WorkerStep(w))
  /\ WF_vars(BeatStep) /\ WF_vars(Tick)

Spec == Init /\ [][Next]_vars /\ Fairness

-----------------------------------------------------------------------------
(* The platform is told to delete a snapshot only after the change it      *)
(* protects passed its health checks and its whole retention went by,      *)
(* whatever was retried, recovered or delivered twice on the way.  What    *)
(* was rolled back is kept.                                                *)
RetentionIsKept ==
  [][\A s \in Snapshots :
       stored[s] # "gone" /\ stored'[s] = "gone" =>
         snap[s].after # Never /\ snap[s].after <= now]_vars

(* A record that says "deleted" is true, however many workers, sweeps and  *)
(* handlers wrote it.                                                      *)
DeletedIsTrue ==
  \A s \in Snapshots : snap[s].state = "deleted" => stored[s] = "gone"

(* Record and job are saved in separate transactions, the record by anyone *)
(* who holds a copy.  Unless a process was lost, they agree in the end, or *)
(* the deletion raised after its job was completed: what the handler then  *)
(* writes on the record, the job does not say.                             *)
RecordAgrees ==
  \A s \in Snapshots \ disturbed :
    Deserted(s) =>
      /\ job[s].status = "completed" =>
           snap[s].state = IF s \in soured THEN "delete_failed" ELSE "deleted"
      /\ job[s].status = "failed" => snap[s].state = "delete_failed"

(* The deletion jobs as JobPromise sees them: entitled is the worker that  *)
(* runs a job under a lease that has not run out.                          *)
PromisedState == [s \in Snapshots |-> PromisedOf(job[s])]
PromisedTries == [s \in Snapshots |-> PromisedTriesOf(job[s])]
Entitled(w, s) == ~At(w, "idle") /\ work[w].of = s /\ HoldsLease(job[s], w, 0)
PromisedLive == [s \in Snapshots |-> {w \in Workers : Entitled(w, s)}]

Promise == INSTANCE JobPromise
             WITH Jobs  <- Snapshots,
                  state <- PromisedState,
                  tries <- PromisedTries,
                  live  <- PromisedLive

(* Whatever dies, lapses or is delivered twice, deletion jobs keep what    *)
(* the job layer promises: one worker at a time, a bounded number of       *)
(* attempts, and an outcome that no late save takes back.                  *)
KeepsPromise == Promise!PSpec

(* The deletion a record announces comes to an end: its job completes or   *)
(* fails, unless a process died between a commit and what had to follow it *)
(* or the claim itself found the attempts spent.  Its record may disagree  *)
(* then: a slow sweep writes "delete_scheduled" over a later failure.      *)
DeletionSettles ==
  \A s \in Snapshots :
    snap[s].state = "delete_scheduled" ~>
      job[s].status \in {"completed", "failed"} \/ s \in dropped

=============================================================================
