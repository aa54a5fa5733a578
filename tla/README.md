# AISysAdm: verification project

AISysAdm patches Linux hosts: it scans them, lets analysis agents propose
remediation plans, has an operator approve each plan by version and hash, and
executes the approved plan with Ansible from Celery workers. This directory
holds TLA+ models of the control plane, the TLC configurations that check them
on small instances, and TLAPS proofs of the results that matter most.

Paths without a prefix are under `src/apps/api/sysadmin_api/`.

## 1. The system

### Components, their state and their operations

| Component | State | Operations |
| --- | --- | --- |
| Durable job layer (`repository.py`) | the `jobs` table: status, attempts, lease owner and expiry, phase, last failure | `claim_job`, `heartbeat_job`, `save_job`, `recover_expired_jobs`, `cancel_job`, each under a row lock |
| Workers and beat (`tasks.py`, `queue.py`) | deliveries in the broker | `run_scan`, `run_remediation`, `run_snapshot_delete`; beat: dispatch schedules, release maintenance and deletion jobs, recover expired jobs |
| Remediation execution (`service.py`) | the job object a worker holds, `remediation.execution_state`, the rollback snapshot | `prepare_remediation_job`, `process_remediation`, `fail_job`, `recover_expired_jobs`, `release_scheduled_remediation_jobs` |
| Trusted change gate (`trusted_change.py`) | none of its own: plan version, hash and approvals are fields of the remediation | `reconcile_plan`, `approve_plan`, `approve_reboot`, `reject`, `execution_eligibility`, `timing`, `drift`, `execution_outcome`, `stale_recovery`, campaign rules |
| Campaigns (`service.py`, `trusted_change.py`) | campaign status, per-host rows, batch index | propose, approve, approve the reboot, reject per host, execute a batch, cancel, stop after a failure, project and synchronise |
| Scans and schedules (`service.py`, `tasks.py`) | scan record, scan job, host schedule | `create_scan_job`, `process_scan`, `create_due_scan_jobs`, retry, recovery |
| Analysis (`agents.py`, `verifier.py`) | none between calls | findings, peer review, verification, orchestration, risk, reboot assessment, rollout policy |
| Snapshot retention (`service.py`, `snapshots.py`) | rollback snapshot record, deletion job | schedule, release, run, retry and recover the deletion |
| Host inventory (`service.py`, `main.py`) | hosts, schedules | create, update, delete, connection test |
| Credentials (`credentials.py`) | encrypted keys | create, use through a temporary file, delete |
| Login and sessions (`security.py`, `main.py`) | attempt counters in Redis and in memory, sessions | limiter, login, session lookup, logout |
| Executors (`executor.py`) | the host itself | preflight, upgrade, reboot, validation playbooks |
| Collection, providers, redaction, database, configuration, web, Ansible content | see `PROJECT.json` | I/O, parsing, declarations |

### How they interact

An API request commits rows and only then sends a delivery. A worker takes the
delivery, claims the job (a lease with an owner and an expiry), and runs the
work next to a heartbeat loop. Everything it reads is a copy; everything it
writes is a whole object. Saves of the *job* by its worker are refused unless
the stored row still carries the worker's live lease. Saves of the remediation,
the scan, the snapshot and the campaign are not tied to the lease, and the
deferral, release and sweep code save jobs without one. Beat tasks work on the
same rows as the workers. The API is one uvicorn process; its handlers do not
pause, except where they wait for a host.

### What is hard, and what correct means

* **Lease**: duplicate deliveries, stalled workers, late heartbeats, sweeps and
  cancels meet on one row. Correct: one entitled worker, no lost update, bounded
  attempts, outcomes final.
* **Execution**: a worker may die or stall between any two steps, and what it
  did to the host is inferred from a phase name. Correct: the change is not
  repeated blindly, runs only behind its snapshot, never past a revocation, and
  every job ends.
* **Approval**: requests and workers overwrite each other's saves while the
  plan may change. Correct: only what an operator confirmed, by version and
  hash, is executed; a possible reboot has its own confirmation.
* **Campaigns**: several hosts, several workers and the operator read, project
  and save one campaign object. Correct: only confirmed plans start, batches do
  not overlap, what was halted stays halted, no proposal is lost.
* **Scans and schedules**: the check for an active scan, the job, the record, the
  schedule and the delivery are separate steps. Correct: scheduled scans of a host
  do not overlap, a scan does not propose twice without a cause, its record agrees
  with its job, a queued scan is on its way to a worker.
* **Analysis**: providers may answer anything. Correct: no plan over disputed
  evidence, no risk below the policy's floor, no reboot unannounced.
* **Retention**: a record anyone may overwrite, a job under a lease. Correct:
  nothing is deleted early, "deleted" is true, the deletion ends.
* **Inventory and login**: late saves, missing foreign keys, a counter whose
  expiry is a second call. Correct: hosts stay whole, guesses are bounded, a
  lockout ends.

`PROJECT.json` lists the hazards one by one, at the line where each bites.

## 2. Modules

| Module | Models | Used by |
| --- | --- | --- |
| `JobRow` | one row of the jobs table; each repository operation as a function from row to row; `fail_job` | `JobLease`, `RemediationExecution`, `ScanSchedule`, `SnapshotRetention` |
| `JobLease` | clock, workers, late clock readings, claims, heartbeats, saves under a lease, crashes, cancels, sweeps: the whole life of a job | `MCJobs` |
| `JobPromise` | abstract specification: what the job layer promises, without clocks, leases or copies | refined by `JobLease`, `ScanSchedule`, `SnapshotRetention` |
| `RemediationExecution` | one approved remediation: API, broker, workers from delivery to outcome, beat tasks, faults | `MCRemediation` |
| `TrustedChange` | the approval of one plan and the gate in front of every execution | `MCTrustedChange` |
| `CampaignRules` | host states, projection, batch selection and limits as pure operators | `Campaign` |
| `Campaign` | one campaign: requests, proposals, jobs, failures, and the unlocked windows in which its object is read and saved | `MCCampaign` |
| `ScanSchedule` | dispatcher, requests, scan recovery, deaths between commits | `MCScans` |
| `Analysis` | the agents' workflow on one snapshot, for any provider answers | `MCScans` |
| `SnapshotRetention` | record, platform and deletion job of rollback snapshots | `MCUpkeep` |
| `Inventory` | hosts, credentials, schedules, connection tests | `MCUpkeep` |
| `LoginSession` | limiter in Redis and memory, sessions, restart | `MCUpkeep` |
| `JobRowProofs` | what the operations of `JobRow` return | `JobLeaseProofs`, `RemediationProofs`, `SnapshotRetentionProofs`, `ScanProofs` |
| `JobLeaseProofs`, `RemediationProofs`, `SnapshotRetentionProofs`, `TrustedChangeProofs`, `CampaignProofs` | theorems about the module they are named for | |
| `ScanProofs` | theorems about `ScanSchedule` and, at its end, about `Analysis` | |
| `InventoryProofs` | theorems about `Inventory` and, at its end, about `LoginSession` | |
| `MC*` | what TLC needs beside the constants: symmetry sets, input sets too long for a `.cfg` | |

Definitions whose name starts with `Mut` are deliberately wrong variants of the
definition that follows them. No specification uses them; substituting one for
its original must break the property it belongs to.

### Correspondence with the code

*JobRow / JobLease.* `Row` keeps the fields of `DurableJob` that decide
anything: `status`, `attempts`, `lease_owner`, `lease_expires_at`,
`current_phase`, the category of `last_failure`, and
`result.recovered_from_phase`. One operator per repository operation. `t` in
the actions of `JobLease` is the instant the process read *before* it got the
row lock: any value from its previous reading to the present. A stalled worker
is one that takes no step.

*The relative clock.* `RemediationExecution`, `ScanSchedule` and
`SnapshotRetention` need no dates for leases: now is 0, a live lease ends at
`LeaseTicks`, and time passes by setting the row's expiry to 0 (`Stall`,
`Expire`, `Lapse`).

*RemediationExecution.* `pc[w]` is the place of worker `w` in
`process_remediation`, `_process_claimed_remediation`, `execute`,
`_finish_snapshot_protected_execution` or a beat task; every access to the
store is a step. `copy[w]` is the job object it holds. `exec` is
`remediation.execution_state`. `eligible` is what `execution_eligibility` would
answer (policy, credentials, approvals, rollback alerts), `windowOpen` what
`timing` would answer; both change at any moment. `snap[w]` and `note[w]` hold
the attempt's snapshot state and its result or verdict. `touched` and `warned`
are history: what the playbooks left on the host, and which worker can still see
a revocation. `touched` says whether the next attempt's drift check
(`service.py:691-701`) would see it: that check compares the pending updates, the
failed units and the reboot flag, so a change is "changed" or "unseen", or "in
doubt" while nobody knows. A "changed" host never passes `CheckDrift`; one in
doubt may. A rollback makes the host what it was.

*TrustedChange.* A plan is a content; `Hash` is the pair of version and content
(SHA-256 is taken to be injective on payloads). `held[p]` is the remediation
object of process `p`; `Save` writes all of it. Only `Prepare` works under the
row lock. `Edit` stands for whatever changes the content of a stored plan:
nothing in the repository does, but `reconcile_plan` exists for it.

*Campaign.* Every change of the campaign object happens in a *window*
(`win[p]`): read, work on the copy, save all rows. One step reads the
remediations and jobs, projects and saves; the next may come from anybody. Only
the execution of a batch and the cancellation are transactions. `Procs` says how
many windows may be open at once. A remediation is reduced to its two approvals,
its execution state, whether its plan changed and its batch size; jobs and scans
keep their states and attempts, their leases being `JobLease`'s subject. The
release (`service.py:915-960`) and the deferral (`service.py:567-574`) save a copy
of the job: `stage` says how far a task is with its copy, the save (`SaveCopy`)
overwrites whatever the row says by then, and `revived` remembers the jobs whose
cancellation was lost that way. A job is in one such task at a time.

*ScanSchedule.* A scan, its job and its idempotency key are one thing: host,
trigger, minute. The dispatcher's list, its loop over hosts and its deliveries
are steps of `beat`; `asked` are jobs committed by the API whose delivery is
still to be sent. `create_scan_job`'s two commits are one step. One dispatcher
and one recovery task run at a time. `RaiseError` may happen at every point the
handler of `process_scan` covers (`service.py:296-324`), the calls after the saved
remediation and after the completed job included; `proposals` counts the outcomes
a scan left since an attempt was cut short after one, and remembers whether
something raised once the job was completed.

*Analysis.* Claims are the five kinds of finding the two agents make from a
snapshot; reviews, rejections and the plan follow the code with the providers'
answers as inputs, "error" standing for any failure. Agent memory, texts and
confidences are left out.

*SnapshotRetention.* `snap` is the record, `stored` the platform, `exec` where
the protected execution is. Workers hold a copy of row *and* record, and save
the record without a lease. Besides the platform's answer any other call of the
task may raise (`RaiseError`), the audit after the completed job included
(`AuditDelete`, `service.py:1080-1087`); `soured` remembers that one.

*Inventory, LoginSession.* One step per handler, except the connection test; the
dispatcher's list-then-save is there because it resurrects schedules. Redis keys
count down; `Forever` is a key whose `expire` was never executed. `seen` is an
observer: for each client it counts the wrong passwords checked in a window
that may begin at any tick, apart by what let them through, Redis or memory; a
successful login starts the count anew.

*JobPromise.* `JobRow` says what a row is to a caller: `PromisedOf` names its
state and `PromisedTriesOf` its attempts, of which a job that has ended needs
none. Each module that refines the promise adds who is entitled to a job: in
`JobLease` the worker whose remembered deadline has not passed, in
`ScanSchedule` and `SnapshotRetention` the worker that has the job in hand and
its row's live lease.

*MCScans, MCUpkeep.* These runs hold machines that share no variable and no
process. A variable `subject` chooses one machine at the start and the others
rest, so that the run explores the sum and not the product of their states.
`budgets` bound a behaviour's faults and requests, again chosen at the start.

## 3. Runs

| Run | Question | Properties | Answer |
| --- | --- | --- | --- |
| `jobs` | Do claims, heartbeats, saves, sweeps and cancels keep the lease exclusive, and implement `JobPromise`? | `JobTypeOK`, `EntitledWorkerOwnsRow`, `OwnersCopyIsCurrent`, `QueuedJobHasAttemptLeft`, `OutcomeIsFinal`, `KeepsPromise` | yes |
| `campaign` | One party at a time on the campaign object: do unconfirmed plans start, batches overlap, proposals get lost; does a halted job start for any other reason than a release or a deferral that saved its copy over the cancellation? | `TypeOK`, `StartIsConfirmed`, `HaltHolds`, `BatchesDoNotOverlap`, `NoProposalIsLost` | no; that such a save starts it shows in `remediation_canceled_runs` |
| `remediation_one_fault` | One lost worker, one repeated delivery: is the change repeated, an ended job reopened? | `TypeOK`, `NeverMutatesTwice`, `TerminalNeverReopens` | no |
| `remediation_no_loss` | Calls that raise, a repeated delivery, nobody lost: does anyone but the owner end a live claim; does the remediation claim to run when the job has ended; is a host that visibly changed changed again by a retry? | `RunningIsTruthful`, `ClaimIsRespected`, `ChangedHostIsNotRepeated` | no |
| `remediation_window` | Windows that open and close, the release task: is there a change without its snapshot, or past a revocation? | `SnapshotCoversMutation`, `RevocationIsSeen` | no |
| `remediation_settles` | Does every job end? | `JobSettles` | yes, if no process dies between a commit and its dispatch |
| `trusted_change` | Does the gate let through anything an operator did not confirm? | `TypeOK`, `ExecutedPlanWasConfirmed`, `JobWasConfirmed` | no |
| `scans` | Dispatcher, operator, workers and recovery, with calls that raise anywhere and deaths between commits: are there no overlaps, double proposals, records that disagree, forgotten scans; do the jobs implement `JobPromise`? And the workflow of the agents, for every provider answer? | `TypeOK`, `ScheduledScansDoNotOverlap`, `OneProposalPerScan`, `ScanRecordAgrees`, `QueuedScanIsExpected`, `NoPlanOverConflict`, `RiskHasAFloor`, `RebootIsAnnounced`, `KeepsPromise` | all holds, outside the exceptions the properties name |
| `upkeep` | Is a snapshot deleted early, or never, does its record disagree with its job, and do its jobs implement `JobPromise`; does a host lose its credential or schedule; are guesses bounded and lockouts finite? | `TypeOK`, `RecordAgrees`, `HostsAreWhole`, `GuessesAreBounded`, `RetentionIsKept`, `KeepsPromise`, `DeletionSettles`, `LockoutEnds` | holds, outside the exceptions the properties name |
| `remediation_stale_rerun` | Two lost workers and a repeated delivery: is a change that may have happened repeated? | `StaleMutationIsNotRepeated` | violated |
| `remediation_canceled_runs` | A maintenance window, nobody lost: does a job that was canceled still change the host? | `CanceledWorkDoesNotRun` | violated |
| `campaign_lost_proposal` | Two overlapping windows: is a proposal lost? | `NoProposalIsLost` | violated |

The three violations contradict statements of the repository; `PROJECT.json`
quotes them under "findings".

### Bounds

* *Workers*: three for safety of the lease (owner, thief, late owner), two
  where liveness forbids symmetry or other actors fill the third role.
  *Attempts*: three, the default of `max_attempts`; two for liveness and the
  larger systems, so that "retried" and "exhausted" both occur.
* *Clock of `JobLease`*: five ticks with leases of two: an owner can expire, be
  replaced, and the replacement expire.
* *Faults*: `MaxLosses` workers die or stall, `MaxCopies` extra deliveries,
  `MaxMsgs` waiting deliveries. One loss and one copy is the fault model the
  passing remediation runs claim; two losses are where
  `remediation_stale_rerun` fails. Deliveries beyond `MaxMsgs` merge: each takes
  the same first step.
* *TrustedChange*: two processes (reader and overwriter), two contents (one that
  may reboot), two versions: a plan can be approved, changed, approved again.
* *Campaign*: two hosts, the least for which one can be stopped by the other and
  a batch can leave one out; one needs a reboot approval, one has a maintenance
  window and a plan that may change; one scan each, two attempts. Canary 1 and
  batch size 1 or 2 give two batches or one. A second proposal for a host is in
  the model (`Again`, `MaxScans`) and out of the run: it is a known limit below.
* *Scans*: one host, minutes 0 and 1, so that a second due run meets the first;
  two budgets combine the death of a sender with a request or with a lost worker;
  exceptions are not bounded, so that attempts are spent without a loss as well.
  Larger budgets are left to the theorems, which hold for every budget.
* *`remediation_canceled_runs`*: one worker, which is in turn the release task
  and the worker that runs the job, no fault and no repeated delivery: the
  counterexample owes nothing to them.
* *Analysis*: one critical input per rule, each on and off; update sets with
  plain, security and rebooting updates, every kind of provider answer.
* *Retention*: one snapshot (they share only workers), a retention of one tick
  and two ticks of time, two losses.
* *Inventory, login*: one host with two credentials; one client, two tokens, a
  limit and window of two, three faults, so that a guess can fall at either end
  of a window and memory can count beside Redis.

The proofs remove the bounds where they reach. Deadlock checking is off: a
system whose job is done stops, and bounded clocks and ids run out.

### Fairness

* `remediation_settles`: weak fairness of the steps of each worker (Celery
  restarts its processes and beat fires every 30 or 60 seconds; a task that is
  not refused proceeds), of the API's dispatch, and of the expiry of a lease
  nobody extends. It uses immediate timing; with a maintenance window nothing
  forces the window to open while a release runs. `remediation_canceled_runs`
  uses the same fairness with a window: its canceled job is delivered and run
  because workers and deliveries go on.
* `upkeep`, retention: weak fairness of the scheduling of the deletion job, of
  the lapse of a dead worker's lease, of each worker, of the beat tasks and of
  time.
* `upkeep`, login: weak fairness of time only. The client may go on asking.

Nothing is assumed of operators, of the broker's duplications, or of calls that
may raise.

## 4. Proofs

Every assumption is a named `ASSUME` of the module it is about: sentinels are no
members, attempts, leases and bounds are numbers, inputs are of their types.
TLC evaluates each of them in the run of that module.

* `JobLeaseProofs`, for any workers, jobs, phases, attempts and lease.
  `EntitledWorkerOwnsRow` alone is not inductive: a worker acts on the deadline
  it remembers, while a claim or a sweep by somebody else tests the stored
  lease. `DeadlineCovered` adds that a remembered deadline has either passed on
  the clock, or the row names that worker and its stored lease reaches at least
  as far. With `OwnersCopyIsCurrent` (a save writes back the whole copy) and
  `QueuedJobHasAttemptLeft` (a retry counts attempts from that copy) it is
  preserved by every action. `OutcomesAreFinal` follows step by step.
  `KeepsThePromise` is the refinement of `JobPromise`: a job is held when its row
  is running, and its live workers are those whose remembered deadline has not
  passed. One lemma per action names the abstract action it maps to (claims
  start, heartbeats renew, last saves settle, sweeps and exhausted claims
  reclaim, crashes, lost leases and ticks lapse, a saved phase stutters).
  `MappedLive` carries them: a row that is not running, or has lapsed for any
  clock reading, has no live worker.
* `RemediationProofs`, for any workers, phases, losses, repeated deliveries,
  crash points, with and without exceptions and windows. Types need
  `VerdictIsAState` (a handled failure leaves a verdict that is a state of the
  remediation). `SnapshotIsHeld` says of every point from the provider's answer
  to the playbooks what `SnapshotCoversMutation` says of the last two.
  `RevocationIsSeen` rests on `WarnedWhileRevoked`: only a revocation that
  stands has workers to stop, so the last check lets nobody warned through.
  Types and safety are two lemmas per group of actions.

  Four properties hold under a fault bound only, and are proved under it, for
  everything else: any workers, attempts, repeated deliveries and crash points.
  `EveryStepIsAKind` sorts the actions into ten kinds of step by what they do to
  the row and to the workers (a step of the lease's owner, one that saves, a
  claim, a retry, a sweep, a death, an end, an insertion, an expiry, or a step
  aside), and the invariants are preserved kind by kind. `Steady` is what all of
  them need: `IInv`, no window to wait for (`OnTime`), and the copy of a worker
  that owns a live lease is the row as it is stored (`CopyIsCurrent`).
  * `EndedForGood` (`TerminalNeverReopens`) needs `Immediate` and nothing else: a
    copy that could reopen the row belongs to a worker that no longer holds it.
    With a window, the deferral and the release save a row without a lease
    (`service.py:572`, `:957`; the run `remediation_canceled_runs`, section 5).
  * `ClaimsAreRespected` (`ClaimIsRespected`) and `RunningIsTold`
    (`RunningIsTruthful`) need that no process is lost. `Alone` says that a
    running job then has its owner at work, that nobody else works, and that the
    sweep finds nothing; `SaysRunning` follows it. A worker that
    stalls and comes back writes over another's state (`service.py:645`, `:684`;
    section 5).
  * `ChangedHostIsLeft` (`ChangedHostIsNotRepeated`) has the same hypotheses:
    whatever raises after the playbook is retried, and the drift check stops the
    retry. `NotChangedAhead` says that nobody is between that check and the
    playbook while the host is visibly changed; `Alone` keeps a second worker from
    having passed the check before the first one changed the host.
  * `MutatesOnce` (`NeverMutatesTwice`) allows one loss, anywhere. The invariant
    `OneLoss` says that, once the host is touched, the row is `Closed` (no claim
    passes the gate any more), or its owner has saved that the change may have
    begun (`Begun`) and its answer will not be tried again (`WillEnd`). Both
    hypotheses are needed: with two losses the run `remediation_stale_rerun` finds
    the change repeated, and with exceptions a change that the drift check cannot
    see is.
* `TrustedChangeProofs`, for any processes and contents. The executed plan's
  confirmation is not inductive, because a save may restore anything some
  process still holds. `AllVouched` says it of the stored plan *and* of every
  held copy: an approval names a hash an operator sent.
* `CampaignProofs`, for any hosts, proposals and number of overlapping windows:
  types (`CampaignTypeCorrect`; a window of a task must name its scan, which is
  `WindowsAreNamed`), and `StartIsConfirmed`, which needs nothing of the campaign
  object: whatever late windows save over it, the gate reads the remediation.
  `ApprovalsAreGiven` (an approval that still counts is one an operator gave) is
  kept because every other step changes execution states only (`AnswersStand`).
  `HaltHolds`, `BatchesDoNotOverlap` and `NoProposalIsLost` are proved under
  `SingleFile`: one window at a time and one proposal for each host, which is what
  the run `campaign` assumes of two hosts, here for any number of hosts, batch
  sizes and attempts. The code promises no more: a second window loses proposals
  (`campaign_lost_proposal`) and lets a stop miss a job that was queued since, a
  second proposal lets batches overlap (section 5). The invariant `InOrder` says
  that an open window holds the campaign as it is stored (`HeldIsCurrent`), that a
  job belongs to the proposal its row is bound to (`JobsAreBound`), that this
  proposal has been told (`BoundIsTold`), that a host that waits has a scan still
  in flight (`ProposalsRun`), and how job, remediation and history of one proposal
  go together (`JobFits`): a live job of an unchanged plan shows in the execution
  state, hence in the projected row, which is why a batch that finds no row under
  way finds no job under way; a halted proposal has no attempt and no live job,
  and never gets one, because a row is selected only before its first job. The
  copy that a release or a deferral is about to save fits the job too
  (`CopyFits`): the job waits as it did, or has been canceled since, and then the
  save puts it among the `revived`, of which the invariant says neither of these
  (`SaveKeepsOrder`, `CopyKeepsOrder`). `BatchIsSmall` bounds what a batch takes.
  A cancellation and a stop share one shape, `Halts`.
* `SnapshotRetentionProofs`, for any snapshots, workers, retention and losses.
  `HourIsSet` (a job exists only after the hour of deletion is set, and starts
  only when it has come), `WorkersAreLate` (a worker's copies agree with that, and
  it holds "done" only of a snapshot that is gone) and `CreatedFirst` make
  `DeletedIsTrue` inductive (a record that says "deleted" is true; proved, and
  checked by no run); `RetentionIsKept` follows. `RecordAgrees` is about
  copies in several hands, and its exception shrinks what has to be known of them:
  of a deletion that met no loss, `Orderly` says that the sweep never sees its
  job, that its job is claimed once, and that one worker has it, under the lease
  until the job ends and to the last save of the record after that. If something
  raises in between (`soured`), the job is completed and its record says
  "delete_failed", which is what the property then claims. Every other step leaves
  that deletion alone (`SameStaysOrderly`).

  `DeletionsKeepThePromise` is the refinement of `JobPromise`. It needs
  `JobsAreSound`: a job that has not been released has no attempts, a queued one
  has one left, and the copy a lease owner is about to save counts the attempts
  of the row it replaces. `EveryStepIsAKind` sorts all actions into what they do
  to the jobs (taken, saved, ended, submitted, released, given up, aged, swept,
  or none of these), `StaySound` preserves the invariant by kind, and
  `KindsKeepPromise` names the abstract step of each: a taken job starts, a save
  renews, an end settles, an exhausted claim and a sweep reclaim, an aged lease
  lapses, a submission is accepted, and a release stutters, because a job that
  is scheduled or queued is "waiting" either way.
* `ScanProofs`, for any hosts, workers, minutes, attempts, losses and deaths. The
  four scan properties need one another, and the invariant `ScanIInv` has these
  parts. `Lease`: a worker past its claim either owns a running row, has completed
  it or has lost its lease; a proposal that still stands leaves its worker a last
  save, which a thief cannot have overtaken, and an exception there takes its
  standing away (`OneProposalPerScan`). `Expected`: a queued scan is in the
  dispatcher's hands, in the recovery task's or in the broker's, and its record
  may be "failed" only while the worker that failed it still has to requeue it.
  `Calendar`: runs are created at their hour, and a schedule moves past a run
  before its delivery leaves; a dispatcher that died may come back to a run it
  made, but never to one a worker has seen, which is why the scheduled scans of a
  host do not overlap. `Token`: a job asked for again, or swept, is named by one
  waiting hand only. `RecordOK` says which record goes with which row at every
  place of a worker; past the completion an exception leaves "failed". A step is
  first given a shape (a worker's task, a claim, a crash, a sweep, or a step
  outside the workers) and each part is preserved by shape, so that no part meets
  all actions.

  `ScansKeepThePromise` is the refinement of `JobPromise`, by the same shapes.
  To `ScanIInv` it adds `Counts`: a job that does not exist has no attempts, and
  the copy of a worker that owns its lease has the attempts of the stored row
  (a retry counts from the copy, a sweep from the row). A worker that lets go,
  moves on or dies lapses, a saved phase renews, completing and failing settle;
  `RetriesLeft`, a part of `Lease`, is why a claim that finds no attempt left
  meets a lapsed job and not a waiting one. For the workflow of the
  agents, for any provider answers: `PlanIsLast` lets the properties speak of
  complete reviews; `ResponseRules` (a conflict leaves the evidence
  insufficient, the host's scope has the last word), `RiskRules` and `PlanRules`
  are lemmas about the operators alone.
* `InventoryProofs`, for any hosts, credentials, tests and deaths. The types of both
  modules are theorems (`InventoryTypesHold`, `LoginTypesHold`) and no run repeats
  them. `HostsAreWhole`
  is inductive with the types and with `TestsAreOfHosts`; the credential of a
  valid host survives because deletion looks at every row. For logins, with any
  clients, tokens, limit, window and faults, `GuessesHold` is the bound on what
  an observer of any window sees. It is not inductive: the bound of a window
  depends on the counter that is running and on the one before it. `Fits` ties
  the observer to the counter: one that ends inside the rest of the window was
  started in it or counted what came before, so fewer than the limit were let
  through before it; one that outlasts the window may follow another, which adds
  fewer than the limit once more. `RedisFits` and `MemoryFits` say this of the
  two counters, `Live` that a key of Redis is there exactly as long as its expiry
  runs, and a client memory never counted has seen nothing from memory. The
  exceptions the property names are the ones the proof needs: a restart empties
  memory, and memory doubles the bound.
* `JobRowProofs` states once what each operation on a row returns, and when one
  value of a function is all that changes.

Only model-checked, and why:

* liveness (`JobSettles`, `DeletionSettles`, `LockoutEnds`), which this prover
  does not reach.

The three properties of the runs that expect a violation are false of the code and
have no theorem, except that `NoProposalIsLost` is one under `SingleFile`.
`JobPromise` is not refined by `RemediationExecution`: its deferral, its release
and the sweep's second step save a row without a lease, so that it keeps the
promise only where `ClaimsAreRespected` and `EndedForGood` say so.

## 5. Known limits of the code

Met while modelling; no run reports them, unless one is named here. Where a
property names an exception, or a run a smaller fault model, this is why.

Remediation:

* `process_remediation` defers a job it read as queued by saving that object
  (`service.py:572`). If another delivery claimed the job in between and the
  window then closed, the claim is overwritten; if it was canceled in between, the
  cancellation is.
* Whatever raises after the playbook is retried (`service.py:643`). The drift check
  of the next attempt stops it when the updates, the failed units or the reboot
  flag differ from the approved scan (`trusted_change.py:690-721`); a change it does
  not compare is made again.
* Job and remediation are saved separately, so a worker that stalls at
  `service.py:684`, or a handler between `service.py:645` and `service.py:664`,
  can overwrite the execution state of a job that another attempt has ended.
* The release task saves a job it listed earlier, also over a cancellation
  (`service.py:957`; `src/architecture.md:225`), and so does the deferral
  (`service.py:572`): the cancellation is lost, and a halted job starts with only
  one party on the campaign. `HaltHolds` names the exception. The run
  `remediation_canceled_runs` reports it: where another host keeps the campaign
  "cancelling", the job is delivered and its playbook starts.
* A recovery task that dies between its commit and its delivery leaves a queued
  job that nobody looks for (`tasks.py:167`; `src/README.md:31`).
* An approval that read the plan before its rejection saves it as approved
  (`service.py:435`).

Campaigns:

* Hosts that end with nothing to do, or failed, count towards the canary batch,
  so the next batch may exceed it (`agents.py:988`, `trusted_change.py:1013`).
* A host that is proposed for again while its first scan is active gets two
  remediations, and both may execute.
* A reboot policy switched off and on again frees a batch that then runs.
* A stop works on the copy it read and misses the job of a host that was queued
  since. A job that ends in the sweep's exhausted branch (`service.py:1144`) or
  in `claim_job` neither stops the others nor synchronises.
* A worker that dies between its scan's completion and the attachment leaves the
  host waiting for its proposal. So does an attachment that raises, because a host
  of the campaign was deleted (`service.py:2153-2154`); `TellCampaign` has no such
  case, as the model's hosts stay. Other errors of the store inside a campaign's
  window are out of the model.
* The hosts under way of `BatchesDoNotOverlap` leave out a job whose cancellation
  was lost: that one may run beside the next batch.

Scans:

* A scan that became active between the dispatcher's two checks, or a deleted
  host whose schedule it upserts back, makes `create_due_scan_jobs` raise
  (`service.py:871-913`). Jobs it made before are never dispatched
  (`tasks.py:145-150`) and block their hosts' schedules.
* The schedule is saved as it was listed, over an operator's change.
* Scan and job are two commits: a death between them leaves a scan without a job.
* Overlapping dispatchers may overlap scheduled scans; the model runs one.
* Asking again in the minute of a waiting retry sends it off before its record is
  written. A death or an exception between the saved remediation and the
  completion (`service.py:366-388`) makes the retry propose a second time
  (`OneProposalPerScan` names the exception). An exception after the completion,
  in the attachment, an alert or the audit (`service.py:389-413`), writes "failed"
  on the record of a completed job (`ScanRecordAgrees` names it). An exhausted
  claim leaves the scan "running". The scan of a deleted host raises outside the
  handler.

Snapshots:

* Only Proxmox has deletion playbooks (`snapshots.py:28`); on the other platforms
  the provider simulates and records (`src/README.md:315`).
* A host changed or deleted before the retention ends makes the deletion fail,
  for a deleted one outside the handler (`service.py:1006`).
* A worker that lost its lease may record a failure over a deletion another one
  did (`service.py:1033`); a slow sweep may write "delete_scheduled" over a
  later failure; a death between `fail_job` and the record leaves it there. If the
  audit after the completion raises (`service.py:1080-1087`), the handler writes
  "delete_failed" over a deletion whose job completed (`RecordAgrees` names it).
* Snapshots of an attempt that died before the health checks are never deleted.
* Two overlapping releases could queue an ended deletion again; the model runs
  one.

Analysis: evidence that could not be collected is empty text and reads as a
healthy host (`collector.py:376`). A critical kernel finding says that patching
should not proceed, and a plan is made all the same. A security scope without
security updates makes a plan without packages.

Inventory: an SSH credential is not checked when it is attached. A connection
test saves the host it read over an update, and brings a deleted host back.

Login: a counter whose `expire` failed has no end; once over the limit, its
client is locked out for good. Counting in memory beside Redis doubles the
guesses. Expired sessions are deleted only when they are met.

## 6. Not modelled

`PROJECT.json` says for each component what is left out. In short: audit
entries, alerts other than the one that blocks a host, log events, progress
percentages, texts and agent memory; exceptions raised before the heartbeat
starts (the delivery then ends, and the lease is left to the sweep, as after a
crash), and those a store call raises inside an exception handler (as after a
loss); parsing, encryption, password hashing, SSH and provider I/O; redaction;
listing queries; settings; the dashboard; the playbooks. What the tables
guarantee (row locks, one row per idempotency key) is part of the models.

## 7. Plan

Done, in this order: the job layer and its proofs; `RemediationExecution` and its
proofs; `TrustedChange` and its proofs; `Campaign`; `ScanSchedule`; `Analysis`;
`SnapshotRetention`; `Inventory` and `LoginSession`; `ScanProofs`; the campaign's
order with one window at a time; a remediation under a fault bound; a deletion
that met no loss; the types and the limiter of logins; scans and deletions as
refinements of `JobPromise`.

Left:

1. That a session belongs to one client, through restarts and expiries.
2. An abstract campaign that `Campaign` refines.
3. Two dispatchers and two release tasks at a time, with the weaker properties
   that then hold.
4. A weaker promise that `RemediationExecution` refines with windows and losses.
