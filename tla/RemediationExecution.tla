------------------------ MODULE RemediationExecution ------------------------
(***************************************************************************)
(* The life of one approved remediation: its durable job, the celery       *)
(* deliveries that process it, the steps of process_remediation up to the  *)
(* playbook that changes the host, and the beat tasks that recover,        *)
(* release or overwrite the job on the side.                               *)
(*                                                                         *)
(* A worker process runs one task at a time.  Every access to the store is *)
(* a step of its own: what a task read may be stale when it writes.  Leases *)
(* use the relative clock of JobRow: "now" is always 0, a live lease ends  *)
(* at LeaseTicks, and time passes by setting the row's expiry to 0.        *)
(***************************************************************************)
EXTENDS JobRow

CONSTANTS
  Immediate,     \* remediation.execution_timing is "immediate"
  InCampaign,    \* the job belongs to a campaign
  Protected,     \* the host needs a snapshot before the change
  CanRaise,      \* a store, provider or collector call may raise
  CrashPoints,   \* the program points where a worker process may die
  MaxLosses,     \* bound: processes that die, or outlive their lease
  MaxCopies,     \* bound: extra deliveries made by the broker
  MaxMsgs        \* bound: deliveries waiting in the queue

ASSUME PhasesHold ==
  {"state_drift_check", "snapshot_create", "ansible_execution",
   "post_reboot_health_check"} \subseteq Phases
ASSUME BoundsAssumption ==
  MaxLosses \in Nat /\ MaxCopies \in Nat /\ MaxMsgs \in Nat

VARIABLES
  row,           \* the stored job
  exec,          \* remediation.execution_state
  campaign,      \* campaign.status, as far as this job can tell
  eligible,      \* what execution_eligibility would answer now
  windowOpen,    \* what TrustedChangeGate.timing would answer now
  api,           \* the request between the commit and the dispatch
  msgs,          \* run_remediation deliveries in the broker
  pc, copy,      \* per worker: where it is, the job object it holds
  note, snap,    \* per worker: executor result or verdict, snapshot state
  touched,       \* history: what happened to the host the plan is for
  warned,        \* history: workers whose check can still see a revocation
  faults         \* the faults still allowed

world == <<eligible, windowOpen, campaign>>
hist  == <<touched, warned, faults>>
local == <<pc, copy, note, snap>>
vars  == <<row, exec, world, api, msgs, local, hist>>

ExecStates == {"not_started", "queued", "waiting_for_window", "running",
               "succeeded", "failed", "blocked", "canceled"}

(* Deliveries of run_remediation: before the heartbeat, and under it.      *)
Early == {"read", "canceled_row", "claimed", "rejecting", "settling"}
Guarded == {"starting", "started", "collecting", "collected", "snapshotting",
            "snap_requested", "snap_created", "ready", "executing", "mutating",
            "finished", "health", "rolling_back", "watched", "recording",
            "completing"}
Delivery == Early \cup Guarded \cup {"raising"}
Beat == {"recovered", "exhausted", "failing_stale", "release",
         "failing_release", "dispatch"}
Points == Delivery \cup Beat \cup {"idle"}

Notes == {"none", "success", "changed", "unchanged", "refused",
          "retryable", "unsafe", "failed", "queued", "blocked"}

Snaps == {"none", "creating", "created", "delete_scheduled",
          "rollback_started", "rolled_back", "rollback_failed"}

(* What the playbooks left on the host: nothing; perhaps something, as an  *)
(* attempt ended inside them; a change that the drift check cannot tell    *)
(* from the approved snapshot (it compares the pending updates, the failed *)
(* units and the reboot flag); or one that it can.                         *)
Marks == {"no", "in_doubt", "unseen", "changed"}

TypeOK ==
  /\ row \in Row
  /\ exec \in ExecStates
  /\ campaign \in {"active", "cancelling", "canceled"}
  /\ eligible \in BOOLEAN /\ windowOpen \in BOOLEAN
  /\ api \in {"idle", "dispatching"}
  /\ msgs \in 0..MaxMsgs
  /\ pc \in [Workers -> Points]
  /\ copy \in [Workers -> Row]
  /\ note \in [Workers -> Notes]
  /\ snap \in [Workers -> Snaps]
  /\ touched \in Marks
  /\ warned \subseteq Workers
  /\ faults \in [losses : 0..MaxLosses, copies : 0..MaxCopies]

Init ==
  /\ row = NoRow
  /\ exec = "not_started"
  /\ campaign = "active"
  /\ eligible = TRUE
  /\ windowOpen \in (IF Immediate THEN {TRUE} ELSE BOOLEAN)
  /\ api = "idle"
  /\ msgs = 0
  /\ pc = [w \in Workers |-> "idle"]
  /\ copy = [w \in Workers |-> NoRow]
  /\ note = [w \in Workers |-> "none"]
  /\ snap = [w \in Workers |-> "none"]
  /\ touched = "no"
  /\ warned = {}
  /\ faults = [losses |-> MaxLosses, copies |-> MaxCopies]

-----------------------------------------------------------------------------
(* Moves of a worker.                                                      *)

Send == msgs' = IF msgs < MaxMsgs THEN msgs + 1 ELSE msgs

Goto(w, p) == pc' = [pc EXCEPT ![w] = p]

Forget(w) ==
  /\ Goto(w, "idle")
  /\ copy' = [copy EXCEPT ![w] = NoRow]
  /\ note' = [note EXCEPT ![w] = "none"]
  /\ snap' = [snap EXCEPT ![w] = "none"]

(* The task returns job r: _schedule_retry sends another delivery if r     *)
(* waits for a retry, then the broker is acknowledged.                     *)
Return(w, r) ==
  /\ Forget(w)
  /\ IF r.status = "queued" /\ r.phase = "retry_scheduled"
     THEN Send ELSE UNCHANGED msgs

(* Mutant: only the expiry of the stored lease is looked at.               *)
MutOwns(w) == ~Lapsed(row, 0)

Owns(w) == HoldsLease(row, w, 0)

(* _save_claimed_job with a new phase, and the lease check that follows.   *)
SaveClaimed(w, phase) ==
  LET updated == [copy[w] EXCEPT !.phase = phase]
  IN  /\ Owns(w)
      /\ row' = SavedOver(row, updated)
      /\ copy' = [copy EXCEPT ![w] = updated]

Step(w, from, to) == pc[w] = from /\ Goto(w, to)

Raise(w, verdict) ==
  /\ Goto(w, "raising")
  /\ note' = [note EXCEPT ![w] = verdict]

-----------------------------------------------------------------------------
(* The operator, through the API.                                          *)

(* prepare_remediation_job: insert the job, once per plan hash.            *)
Prepare ==
  /\ api = "idle" /\ row.status = "absent"
  /\ eligible /\ campaign = "active"
  /\ row' = NewRow(IF windowOpen THEN "queued" ELSE "scheduled")
  /\ exec' = IF windowOpen THEN "queued" ELSE "waiting_for_window"
  /\ api' = IF windowOpen THEN "dispatching" ELSE "idle"
  /\ UNCHANGED <<world, msgs, local, hist>>

(* A second execute request is given the job that exists and dispatches it *)
(* again; in a campaign the duplicate is denied.                           *)
PrepareAgain ==
  /\ api = "idle" /\ row.status = "queued"
  /\ eligible /\ ~InCampaign
  /\ api' = "dispatching"
  /\ UNCHANGED <<row, exec, world, msgs, local, hist>>

Dispatch ==
  /\ api = "dispatching"
  /\ api' = "idle"
  /\ Send
  /\ UNCHANGED <<row, exec, world, local, hist>>

(* cancel_campaign, one transaction.  Other hosts of the campaign may still *)
(* run, so the campaign may stay "cancelling" without our job.             *)
CancelCampaign ==
  /\ InCampaign /\ campaign = "active"
  /\ row.status \notin Terminal
  /\ row' = IF Cancelable(row) THEN Canceled(row) ELSE row
  /\ exec' = IF row.status # "running"
                /\ exec \in {"not_started", "queued", "waiting_for_window"}
             THEN "canceled" ELSE exec
  /\ campaign' \in {"cancelling"} \cup
                   (IF row.status = "running" THEN {} ELSE {"canceled"})
  /\ UNCHANGED <<eligible, windowOpen, api, msgs, local, hist>>

(* _sync_campaign: nothing runs any more.                                  *)
SettleCampaign ==
  /\ campaign = "cancelling" /\ row.status # "running"
  /\ campaign' = "canceled"
  /\ UNCHANGED <<row, exec, eligible, windowOpen, api, msgs, local, hist>>

(* The workers that still have an eligibility check ahead of them.         *)
Checking ==
  {w \in Workers : pc[w] \in {"read", "claimed", "starting", "started",
                              "collecting", "collected", "snapshotting",
                              "snap_requested", "snap_created", "ready"}}

(* Host policy, credentials and rollback alerts change under the job.      *)
Revoke ==
  /\ eligible
  /\ eligible' = FALSE
  /\ warned' = Checking
  /\ UNCHANGED <<row, exec, campaign, windowOpen, api, msgs, local,
                 touched, faults>>

Restore ==
  /\ ~eligible
  /\ eligible' = TRUE
  /\ warned' = {}
  /\ UNCHANGED <<row, exec, campaign, windowOpen, api, msgs, local,
                 touched, faults>>

MoveWindow ==
  /\ ~Immediate
  /\ windowOpen' = ~windowOpen
  /\ UNCHANGED <<row, exec, campaign, eligible, api, msgs, local, hist>>

-----------------------------------------------------------------------------
(* process_remediation, up to the claim.                                   *)

(* A delivery is taken; the job is read.                                   *)
Deliver(w) ==
  /\ pc[w] = "idle" /\ msgs > 0 /\ row.status # "absent"
  /\ msgs' = msgs - 1
  /\ Goto(w, "read")
  /\ copy' = [copy EXCEPT ![w] = row]
  /\ warned' = IF eligible THEN warned ELSE warned \cup {w}
  /\ UNCHANGED <<row, exec, world, api, note, snap, touched, faults>>

CampaignIsCanceled(w) ==
  InCampaign /\ copy[w].status = "queued" /\ campaign = "canceled"

(* The campaign was canceled: cancel_job, if the job is still queued.      *)
CancelOnDelivery(w) ==
  /\ pc[w] = "read" /\ CampaignIsCanceled(w)
  /\ IF row.status = "queued"
     THEN row' = Canceled(row) /\ Goto(w, "canceled_row")
          /\ UNCHANGED <<msgs, copy, note, snap>>
     ELSE row' = row
          /\ IF row.status = "canceled"
             THEN Goto(w, "canceled_row") /\ UNCHANGED <<msgs, copy, note, snap>>
             ELSE Return(w, row)
  /\ UNCHANGED <<exec, world, api, hist>>

SaveCanceled(w) ==
  /\ pc[w] = "canceled_row"
  /\ exec' = "canceled"
  /\ Forget(w)
  /\ UNCHANGED <<row, world, api, msgs, hist>>

(* The window closed since the job was queued: the job object that was     *)
(* read is saved back, whatever the row holds by now.                      *)
Defer(w) ==
  /\ pc[w] = "read" /\ ~CampaignIsCanceled(w)
  /\ copy[w].status = "queued" /\ ~windowOpen
  /\ row' = [copy[w] EXCEPT !.status = "scheduled",
                            !.phase = "waiting_for_maintenance_window"]
  /\ Forget(w)
  /\ UNCHANGED <<exec, world, api, msgs, hist>>

MayClaim(w) ==
  /\ pc[w] = "read" /\ ~CampaignIsCanceled(w)
  /\ copy[w].status = "queued" => windowOpen

Claim(w) ==
  /\ MayClaim(w)
  /\ Claimable(row, 0) /\ HasAttemptLeft(row)
  /\ row' = Claimed(row, w, 0)
  /\ copy' = [copy EXCEPT ![w] = row']
  /\ Goto(w, "claimed")
  /\ UNCHANGED <<exec, world, api, msgs, note, snap, hist>>

(* claim_job answers None: the job is not claimable, or its attempts are   *)
(* spent and the claim itself failed it.                                   *)
ClaimRefused(w) ==
  /\ MayClaim(w)
  /\ ~(Claimable(row, 0) /\ HasAttemptLeft(row))
  /\ row' = IF Claimable(row, 0) THEN Exhausted(row) ELSE row
  /\ Return(w, row')
  /\ UNCHANGED <<exec, world, api, hist>>

-----------------------------------------------------------------------------
(* TrustedChangeGate.stale_recovery: the phase the last sweep recorded,    *)
(* else the phase in the job.                                              *)
RecoveredPhase(r) == IF r.recoveredFrom # "none" THEN r.recoveredFrom ELSE r.phase

UnsafePhases == {"snapshot_create", "ansible_execution",
                 "post_reboot_health_check", "snapshot_rollback"}

(* Mutant: the phase of the playbooks is missing from the list.            *)
MutMayRepeat(r) ==
  RecoveredPhase(r) \notin (UnsafePhases \ {"ansible_execution"})

MayRepeat(r) == RecoveredPhase(r) \notin UnsafePhases

StaleClaim(w) == copy[w].failure = "worker_lease_expired" /\ ~MayRepeat(copy[w])

(* The claimed job may not run: the remediation is blocked, then fail_job. *)
Reject(w) ==
  /\ Step(w, "claimed", "rejecting")
  /\ StaleClaim(w) \/ ~eligible
  /\ exec' = "blocked"
  /\ UNCHANGED <<row, world, api, msgs, copy, note, snap, hist>>

FailRejected(w) ==
  /\ pc[w] = "rejecting"
  /\ row' = IF Owns(w) THEN SavedOver(row, FailedCopy(copy[w], FALSE)) ELSE row
  /\ Return(w, row')
  /\ UNCHANGED <<exec, world, api, hist>>

Accept(w) ==
  /\ Step(w, "claimed", "starting")
  /\ ~StaleClaim(w) /\ eligible
  /\ UNCHANGED <<row, exec, world, api, msgs, copy, note, snap, hist>>

-----------------------------------------------------------------------------
(* _process_claimed_remediation, under the heartbeat.                      *)

Start(w) ==
  /\ Step(w, "starting", "started")
  /\ SaveClaimed(w, "state_drift_check")
  /\ UNCHANGED <<exec, world, api, msgs, note, snap, hist>>

MarkRunning(w) ==
  /\ Step(w, "started", "collecting")
  /\ exec' = "running"
  /\ UNCHANGED <<row, world, api, msgs, copy, note, snap, hist>>

(* Mutant: the fresh collection is not compared with the approved one.     *)
MutCheckDrift(w) ==
  /\ pc[w] = "collecting" /\ Owns(w)
  /\ \/ Goto(w, "collected") /\ UNCHANGED note
     \/ Raise(w, "unsafe")
  /\ UNCHANGED <<row, exec, world, api, msgs, copy, snap, hist>>

(* The host is collected again, the lease checked, the drift compared: a   *)
(* visible change stops the job, whoever made it.                          *)
CheckDrift(w) ==
  /\ pc[w] = "collecting" /\ Owns(w)
  /\ \/ touched # "changed" /\ Goto(w, "collected") /\ UNCHANGED note
     \/ Raise(w, "unsafe")
  /\ UNCHANGED <<row, exec, world, api, msgs, copy, snap, hist>>

(* The eligibility check before the snapshot, and the one before the       *)
(* playbooks.                                                              *)
Blocked(w) ==
  /\ pc[w] \in {"collected", "ready"} /\ ~eligible
  /\ exec' = "blocked"
  /\ Raise(w, "unsafe")
  /\ UNCHANGED <<row, world, api, msgs, copy, snap, hist>>

SkipSnapshot(w) ==
  /\ Step(w, "collected", "ready")
  /\ eligible /\ ~Protected
  /\ UNCHANGED <<row, exec, world, api, msgs, copy, note, snap, hist>>

BeginSnapshot(w) ==
  /\ Step(w, "collected", "snapshotting")
  /\ eligible /\ Protected
  /\ SaveClaimed(w, "snapshot_create")
  /\ UNCHANGED <<exec, world, api, msgs, note, snap, hist>>

RequestSnapshot(w) ==
  /\ Step(w, "snapshotting", "snap_requested")
  /\ snap' = [snap EXCEPT ![w] = "creating"]
  /\ UNCHANGED <<row, exec, world, api, msgs, copy, note, hist>>

(* Mutant: a failed creation is recorded and the change goes on.           *)
MutSnapshotAnswers(w) ==
  /\ Step(w, "snap_requested", "snap_created")
  /\ snap' \in {snap, [snap EXCEPT ![w] = "created"]}
  /\ UNCHANGED <<row, exec, world, api, msgs, copy, note, hist>>

SnapshotAnswers(w) ==
  /\ pc[w] = "snap_requested"
  /\ \/ /\ snap' = [snap EXCEPT ![w] = "created"]
        /\ Goto(w, "snap_created")
        /\ UNCHANGED note
     \/ Raise(w, "unsafe") /\ UNCHANGED snap
  /\ UNCHANGED <<row, exec, world, api, msgs, copy, hist>>

SnapshotKept(w) ==
  /\ Step(w, "snap_created", "ready") /\ Owns(w)
  /\ UNCHANGED <<row, exec, world, api, msgs, copy, note, snap, hist>>

(* Mutant: the eligibility is not checked again after the snapshot.        *)
MutBeginExecution(w) ==
  /\ Step(w, "ready", "executing")
  /\ SaveClaimed(w, "ansible_execution")
  /\ UNCHANGED <<exec, world, api, msgs, note, snap, hist>>

BeginExecution(w) ==
  /\ Step(w, "ready", "executing")
  /\ eligible
  /\ SaveClaimed(w, "ansible_execution")
  /\ UNCHANGED <<exec, world, api, msgs, note, snap, hist>>

Finish(w, result) ==
  /\ Goto(w, "finished")
  /\ note' = [note EXCEPT ![w] = result]

(* The executor's guards and its preflight playbook: nothing has changed.  *)
PreflightFails(w) ==
  /\ pc[w] = "executing"
  /\ \E result \in {"unchanged", "refused"} : Finish(w, result)
  /\ UNCHANGED <<row, exec, world, api, msgs, copy, snap, hist>>

(* The package_upgrade playbook starts.                                    *)
Mutate(w) ==
  /\ Step(w, "executing", "mutating")
  /\ touched' = IF touched = "no" THEN "in_doubt" ELSE touched
  /\ UNCHANGED <<row, exec, world, api, msgs, copy, note, snap, warned, faults>>

ExecutorReports(w) ==
  /\ pc[w] = "mutating"
  /\ \/ /\ \E result \in {"success", "changed"} : Finish(w, result)
        /\ touched' \in {"unseen", "changed"}
        /\ touched = "changed" => touched' = "changed"
     \/ /\ \E result \in {"unchanged", "refused"} : Finish(w, result)
        /\ touched' = IF touched = "in_doubt" THEN "no" ELSE touched
  /\ UNCHANGED <<row, exec, world, api, msgs, copy, snap, warned, faults>>

BeginHealthCheck(w) ==
  /\ Step(w, "finished", "health")
  /\ Protected /\ note[w] = "success"
  /\ SaveClaimed(w, "post_reboot_health_check")
  /\ UNCHANGED <<exec, world, api, msgs, note, snap, hist>>

HealthAnswers(w) ==
  /\ \/ /\ Step(w, "health", "watched")
        /\ snap' = [snap EXCEPT ![w] = "delete_scheduled"]
     \/ /\ Step(w, "health", "rolling_back")
        /\ snap' = [snap EXCEPT ![w] = "rollback_started"]
  /\ UNCHANGED <<row, exec, world, api, msgs, copy, note, hist>>

(* The platform restores the host, whether or not its answer arrives.      *)
RestoreHost(w) ==
  /\ pc[w] = "rolling_back" /\ touched # "no"
  /\ touched' = "no"
  /\ UNCHANGED <<row, exec, world, api, msgs, local, warned, faults>>

(* Both outcomes raise a critical rollback alert, which makes the host     *)
(* ineligible until it is acknowledged.                                    *)
RollbackAnswers(w) ==
  /\ Step(w, "rolling_back", "watched")
  /\ \E s \in {"rolled_back", "rollback_failed"} :
       /\ s = "rolled_back" => touched = "no"
       /\ snap' = [snap EXCEPT ![w] = s]
  /\ note' = [note EXCEPT ![w] = "changed"]
  /\ eligible' = FALSE
  /\ warned' = warned \cup Checking
  /\ UNCHANGED <<row, exec, campaign, windowOpen, api, msgs, copy,
                 touched, faults>>

(* The last lease check: the result is recorded whatever happens after it. *)
KeepResult(w) ==
  /\ \/ Step(w, "finished", "recording") /\ ~(Protected /\ note[w] = "success")
     \/ Step(w, "watched", "recording")
  /\ Owns(w)
  /\ UNCHANGED <<row, exec, world, api, msgs, copy, note, snap, hist>>

(* TrustedChangeGate.execution_outcome.  Whether a failure that is final    *)
(* counts as a safety failure depends on the words of its summary.         *)
Outcomes(result, snapshot) ==
  LET state(s, verdicts) == [state : {s}, verdict : verdicts]
  IN  CASE result = "success" -> state("succeeded", {"none"})
        [] result # "success" /\ snapshot # "none" -> state("blocked", {"unsafe"})
        [] result = "unchanged" /\ snapshot = "none" -> state("queued", {"retryable"})
        [] OTHER -> state("failed", {"failed", "unsafe"})

(* The result is saved with the remediation; a failure is then raised.     *)
RecordResult(w) ==
  /\ pc[w] = "recording"
  /\ \E outcome \in Outcomes(note[w], snap[w]) :
       /\ exec' = outcome.state
       /\ IF outcome.verdict = "none"
          THEN Goto(w, "completing") /\ UNCHANGED note
          ELSE Raise(w, outcome.verdict)
  /\ UNCHANGED <<row, world, api, msgs, copy, snap, hist>>

Complete(w) ==
  /\ pc[w] = "completing" /\ Owns(w)
  /\ row' = SavedOver(row, CompletedCopy(copy[w]))
  /\ Forget(w)
  /\ UNCHANGED <<exec, world, api, msgs, hist>>

(* Any other exception under the heartbeat is retryable.                   *)
RaiseError(w) ==
  /\ CanRaise /\ pc[w] \in Guarded
  /\ Raise(w, "retryable")
  /\ UNCHANGED <<row, exec, world, api, msgs, copy, snap, hist>>

(* The exception handler: fail_job, then the remediation takes a state     *)
(* from the job that fail_job answered, which is the stored one when the   *)
(* lease was lost.                                                         *)
HandleError(w) ==
  LET failed == IF Owns(w)
                THEN SavedOver(row, FailedCopy(copy[w], note[w] = "retryable"))
                ELSE row
  IN  /\ Step(w, "raising", "settling")
      /\ row' = failed
      /\ copy' = [copy EXCEPT ![w] = failed]
      /\ note' = [note EXCEPT ![w] =
                    CASE failed.status = "queued" -> "queued"
                      [] failed.status # "queued" /\ @ = "unsafe" -> "blocked"
                      [] OTHER -> "failed"]
      /\ UNCHANGED <<exec, world, api, msgs, snap, hist>>

(* Mutant: the remediation keeps the state it had before the failure.      *)
MutSettle(w) ==
  /\ pc[w] = "settling"
  /\ Return(w, copy[w])
  /\ UNCHANGED <<row, exec, world, api, hist>>

Settle(w) ==
  /\ pc[w] = "settling"
  /\ exec' = note[w]
  /\ Return(w, copy[w])
  /\ UNCHANGED <<row, world, api, hist>>

(* JobLeaseLost, from the heartbeat loop or from a check: the work stops.  *)
LoseLease(w) ==
  /\ pc[w] \in Guarded /\ ~Owns(w)
  /\ Return(w, row)
  /\ UNCHANGED <<row, exec, world, api, hist>>

-----------------------------------------------------------------------------
(* Beat tasks.                                                             *)

(* Repository.recover_expired_jobs, then the remediation, then fail_job    *)
(* (with no lease to check) or the dispatch.                               *)
Sweep(w) ==
  /\ pc[w] = "idle" /\ Lapsed(row, 0)
  /\ row' = Recovered(row)
  /\ copy' = [copy EXCEPT ![w] = row']
  /\ Goto(w, IF HasAttemptLeft(row) THEN "recovered" ELSE "exhausted")
  /\ UNCHANGED <<exec, world, api, msgs, note, snap, hist>>

SweepRecovered(w) ==
  LET dispatch == MayRepeat(copy[w])
  IN  /\ Step(w, "recovered", IF dispatch THEN "dispatch" ELSE "failing_stale")
      /\ exec' = IF dispatch THEN "queued" ELSE "blocked"
      /\ UNCHANGED <<row, world, api, msgs, copy, note, snap, hist>>

SweepExhausted(w) ==
  /\ pc[w] = "exhausted"
  /\ exec' = IF MayRepeat(copy[w]) THEN "failed" ELSE "blocked"
  /\ Forget(w)
  /\ UNCHANGED <<row, world, api, msgs, hist>>

(* fail_job without a lease owner: the row is replaced whatever it holds.  *)
FailUnleased(w) ==
  /\ pc[w] \in {"failing_stale", "failing_release"}
  /\ row' = FailedCopy(copy[w], FALSE)
  /\ Forget(w)
  /\ UNCHANGED <<exec, world, api, msgs, hist>>

(* Mutant: the recovered job is not sent to a worker.                      *)
MutBeatDispatch(w) ==
  /\ pc[w] = "dispatch"
  /\ Forget(w)
  /\ UNCHANGED <<row, exec, world, api, msgs, hist>>

BeatDispatch(w) ==
  /\ pc[w] = "dispatch"
  /\ Send
  /\ Forget(w)
  /\ UNCHANGED <<row, exec, world, api, hist>>

(* release_scheduled_remediation_jobs: the jobs are listed, then each      *)
(* scheduled one is judged and saved back as it was read.                  *)
ListScheduled(w) ==
  /\ pc[w] = "idle" /\ row.status = "scheduled"
  /\ copy' = [copy EXCEPT ![w] = row]
  /\ Goto(w, "release")
  /\ UNCHANGED <<row, exec, world, api, msgs, note, snap, hist>>

ReleaseCanceled(w) ==
  /\ pc[w] = "release" /\ InCampaign /\ campaign = "canceled"
  /\ row' = [copy[w] EXCEPT !.status = "canceled", !.phase = "canceled"]
  /\ Forget(w)
  /\ UNCHANGED <<exec, world, api, msgs, hist>>

ReleaseBlocked(w) ==
  /\ Step(w, "release", "failing_release")
  /\ ~(InCampaign /\ campaign = "canceled") /\ ~eligible
  /\ exec' = "blocked"
  /\ UNCHANGED <<row, world, api, msgs, copy, note, snap, hist>>

Release(w) ==
  /\ pc[w] = "release"
  /\ ~(InCampaign /\ campaign = "canceled") /\ eligible
  /\ IF windowOpen
     THEN /\ row' = [copy[w] EXCEPT !.status = "queued", !.phase = "none"]
          /\ Goto(w, "dispatch")
          /\ UNCHANGED <<copy, note, snap>>
     ELSE Forget(w) /\ UNCHANGED row
  /\ UNCHANGED <<exec, world, api, msgs, hist>>

-----------------------------------------------------------------------------
(* Faults.                                                                 *)

Working(w) == pc[w] \in Guarded \cup {"claimed", "rejecting", "raising"}

LeaseIsLive == row.status = "running" /\ ~LeaseIsExpired(row.expires, 0)

(* The owner is alive but misses its heartbeats.                           *)
Stall ==
  /\ LeaseIsLive /\ faults.losses > 0
  /\ \E w \in Workers : row.owner = w /\ Working(w)
  /\ row' = [row EXCEPT !.expires = 0]
  /\ faults' = [faults EXCEPT !.losses = @ - 1]
  /\ UNCHANGED <<exec, world, api, msgs, local, touched, warned>>

(* Nobody extends the lease of a worker that is gone.                      *)
Expire ==
  /\ LeaseIsLive
  /\ ~\E w \in Workers : row.owner = w /\ Working(w)
  /\ row' = [row EXCEPT !.expires = 0]
  /\ UNCHANGED <<exec, world, api, msgs, local, hist>>

(* The process dies; its unacknowledged delivery goes back to the queue.   *)
Crash(w) ==
  /\ pc[w] \in CrashPoints \ {"idle"} /\ faults.losses > 0
  /\ faults' = [faults EXCEPT !.losses = @ - 1]
  /\ IF pc[w] \in Delivery THEN Send ELSE UNCHANGED msgs
  /\ Forget(w)
  /\ UNCHANGED <<row, exec, world, api, touched, warned>>

(* The API process dies between the commit and the dispatch.               *)
LoseDispatch ==
  /\ api = "dispatching" /\ "api" \in CrashPoints /\ faults.losses > 0
  /\ api' = "idle"
  /\ faults' = [faults EXCEPT !.losses = @ - 1]
  /\ UNCHANGED <<row, exec, world, msgs, local, touched, warned>>

(* The broker delivers an unacknowledged message once more.                *)
DeliverTwice ==
  /\ faults.copies > 0 /\ msgs < MaxMsgs
  /\ \E w \in Workers : pc[w] \in Delivery
  /\ msgs' = msgs + 1
  /\ faults' = [faults EXCEPT !.copies = @ - 1]
  /\ UNCHANGED <<row, exec, world, api, local, touched, warned>>

-----------------------------------------------------------------------------

DeliveryStep(w) ==
  \/ Deliver(w) \/ CancelOnDelivery(w) \/ SaveCanceled(w) \/ Defer(w)
  \/ Claim(w) \/ ClaimRefused(w) \/ Reject(w) \/ FailRejected(w) \/ Accept(w)

GuardedStep(w) ==
  \/ Start(w) \/ MarkRunning(w) \/ CheckDrift(w) \/ Blocked(w)
  \/ SkipSnapshot(w) \/ BeginSnapshot(w) \/ RequestSnapshot(w)
  \/ SnapshotAnswers(w) \/ SnapshotKept(w) \/ BeginExecution(w)
  \/ PreflightFails(w) \/ Mutate(w) \/ ExecutorReports(w)
  \/ BeginHealthCheck(w) \/ HealthAnswers(w) \/ RestoreHost(w) \/ RollbackAnswers(w)
  \/ KeepResult(w) \/ RecordResult(w) \/ Complete(w)
  \/ HandleError(w) \/ Settle(w) \/ LoseLease(w)

BeatStep(w) ==
  \/ Sweep(w) \/ SweepRecovered(w) \/ SweepExhausted(w) \/ FailUnleased(w)
  \/ BeatDispatch(w) \/ ListScheduled(w) \/ ReleaseCanceled(w)
  \/ ReleaseBlocked(w) \/ Release(w)

Operator ==
  \/ Prepare \/ PrepareAgain \/ CancelCampaign
  \/ Revoke \/ Restore \/ MoveWindow

Fault ==
  \/ Stall \/ DeliverTwice \/ LoseDispatch
  \/ \E w \in Workers : Crash(w) \/ RaiseError(w)

WorkerStep(w) == DeliveryStep(w) \/ GuardedStep(w) \/ BeatStep(w)

Next ==
  \/ Operator \/ Fault \/ Dispatch \/ SettleCampaign \/ Expire
  \/ \E w \in Workers : WorkerStep(w)

Spec == Init /\ [][Next]_vars

(* Celery keeps its workers running and beat keeps firing; time passes.    *)
FairSpec ==
  /\ Spec
  /\ WF_vars(Dispatch) /\ WF_vars(Expire)
  /\ \A w \in Workers : WF_vars(WorkerStep(w))

-----------------------------------------------------------------------------

StartsMutation == \E w \in Workers : pc[w] # "mutating" /\ pc'[w] = "mutating"

(* One lost worker is survived: with a single stalled or dead worker and   *)
(* deliveries repeated by the broker, package_upgrade never starts on a    *)
(* host that an earlier attempt changed or may have changed.               *)
NeverMutatesTwice == [][StartsMutation => touched = "no"]_vars

(* trusted_change.py: "Worker lease expired after mutation may have        *)
(* started; automatic retry is blocked".                                   *)
StaleMutationIsNotRepeated == [][StartsMutation => touched # "in_doubt"]_vars

(* threat-model.md: the service "re-checks state drift before making       *)
(* changes".  Whatever raises after the playbook and is retried, and       *)
(* however often the job is delivered, the playbook does not start on a    *)
(* host that differs visibly from the one that was approved.               *)
ChangedHostIsNotRepeated == [][StartsMutation => touched # "changed"]_vars

(* A job that ended never becomes claimable again: neither the sweep, nor  *)
(* fail_job without a lease owner, nor a late delivery brings it back.     *)
TerminalNeverReopens ==
  [][row.status \in Terminal => row'.status \in Terminal]_vars

(* architecture.md: "Queued or scheduled campaign work can be canceled".    *)
(* After the cancellation the playbook does not start, whatever release,   *)
(* deferral or delivery still holds an older copy of the job.              *)
CanceledWorkDoesNotRun ==
  [](row.status = "canceled" => [](\A w \in Workers : pc[w] # "mutating"))

(* A revocation (policy, credential, rollback alert) that came while the   *)
(* worker had an eligibility check ahead, and was not taken back, stops it  *)
(* before the executor starts, wherever the snapshot and drift steps were. *)
RevocationIsSeen ==
  \A w \in Workers : pc[w] \in {"executing", "mutating"} => w \notin warned

(* On a host that needs protection the executor runs only behind a         *)
(* snapshot this very attempt created.                                     *)
SnapshotCoversMutation ==
  \A w \in Workers :
    Protected /\ pc[w] \in {"executing", "mutating"} => snap[w] = "created"

(* A live claim ends by a step of its owner.                               *)
ClaimIsRespected ==
  [][\A w \in Workers :
       LeaseIsLive /\ row.owner = w /\ row'.owner # w => pc'[w] # pc[w]]_vars

(* When no task is running and the job has ended, the remediation does not *)
(* claim to be running.                                                    *)
RunningIsTruthful ==
  (\A w \in Workers : pc[w] = "idle") /\ row.status \in Terminal =>
    exec # "running"

(* A dispatched job reaches an outcome: retries, lost leases, duplicate    *)
(* deliveries and dead workers delay it, but never leave it waiting.       *)
JobSettles == row.status # "absent" ~> row.status \in Terminal

=============================================================================
