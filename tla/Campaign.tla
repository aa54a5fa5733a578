------------------------------ MODULE Campaign ------------------------------
(***************************************************************************)
(* One patch campaign (service.py): the operator's requests, the scans     *)
(* that make proposals, the jobs that execute them, and the campaign       *)
(* object they all read, project and save as a whole.                      *)
(*                                                                         *)
(* The object is only ever changed in a window: read the campaign, work on *)
(* the copy, save every row of it.  Nothing locks it in between, except    *)
(* that the execution and the cancellation of a batch are transactions.    *)
(* Procs bounds how many windows are open at a time.  With one process the *)
(* campaign is updated by one party at a time, while jobs, remediations    *)
(* and plans move on underneath; with two, windows overlap.                *)
(*                                                                         *)
(* One step reads the remediations and jobs and saves the projection.      *)
(* The races on the remediation alone are in TrustedChange, those on the   *)
(* job and its worker in JobLease and RemediationExecution.                *)
(***************************************************************************)
EXTENDS CampaignRules

CONSTANTS
  Procs,         \* requests and tasks that have a window open
  Windowed,      \* the hosts patched in a maintenance window
  Again,         \* bound: the hosts whose plan may change, and that may be
                 \* proposed for more than once
  MaxTries,      \* attempts of a job
  NoHost         \* the subject of a request about the whole campaign

ASSUME CampaignAssumption ==
  /\ Windowed \subseteq Hosts /\ Again \subseteq Hosts
  /\ MaxTries \in Nat \ {0} /\ NoHost \notin Hosts

Campaigns ==
  [status : CampaignStatuses, canceled : BOOLEAN, batch : Nat, size : Nat \ {0},
   host : [Hosts -> [state : HostStates, rem : 0 .. MaxScans,
                     job : NoJob .. PatchJob]]]

Remediations ==
  [made : BOOLEAN, changed : BOOLEAN, batch : Nat \ {0},
   approval : {"pending", "approved", "rejected"},
   reboot : {"not_required", "pending", "approved", "blocked", "rejected"},
   exec : DOMAIN ExecutionStates \cup {"not_started", "blocked"}]

PatchJobs ==
  [status : {"none", "scheduled", "queued", "running", "completed", "failed",
             "canceled"},
   tries : 0 .. MaxTries,
   at : {"none", "claimed", "working", "handler"}]

VARIABLES
  camp,          \* the stored campaign
  scan,          \* scan[h][n]: what became of the n-th scan job of host h
  rem,           \* rem[h][n]: the remediation the n-th scan proposed
  patch,         \* patch[h][n]: the job that executes it
  win,           \* per process: the window it has open
  confirmed,     \* history: <<host, scan, what>> that operators approved and
                 \*          that has not changed since
  started,       \* history: the remediations the worker's gate let through
  halted,        \* history: the remediations that a cancel, or a failure
                 \*          elsewhere, found before any worker claimed them
  stage,         \* stage[h][n]: how far a task is with its copy of the waiting
                 \*             job, which it will save over the stored one
  revived        \* history: the jobs whose cancellation was lost that way

aside == <<stage, revived>>

vars == <<camp, scan, rem, patch, win, confirmed, started, halted, aside>>

(* The release of scheduled jobs has listed the job, and has then let it   *)
(* pass; or a delivery has read the job before its window.                 *)
Stages == {"none", "listed", "passed", "read"}

ScanStates ==
  {"none", "queued", "claimed", "running", "found", "empty", "broken", "told",
   "canceled"}

Ops == {"idle", "mark", "tell", "due", "due_stop", "stop", "sync",
        "propose", "approve", "reboot", "reject",
        "propose_synced", "approve_synced", "reboot_synced", "reject_synced"}

(* A window: what it is for, whether a task of its host owns it, and the   *)
(* campaign it read.                                                       *)
Windows ==
  [op : Ops, task : BOOLEAN, host : Hosts \cup {NoHost}, n : 0 .. MaxScans,
   held : Campaigns]

Draft ==
  [status |-> "draft", canceled |-> FALSE, batch |-> 0, size |-> MaxBatch,
   host |-> [h \in Hosts |-> [state |-> "selected", rem |-> 0, job |-> NoJob]]]

NoWindow ==
  [op |-> "idle", task |-> FALSE, host |-> NoHost, n |-> 0, held |-> Draft]

NoRemediation ==
  [made |-> FALSE, changed |-> FALSE, batch |-> 1, approval |-> "pending",
   reboot |-> "pending", exec |-> "not_started"]

PatchJobNone == [status |-> "none", tries |-> 0, at |-> "none"]

TypeOK ==
  /\ camp \in Campaigns
  /\ scan \in [Hosts -> [Scans -> ScanStates]]
  /\ rem \in [Hosts -> [Scans -> Remediations]]
  /\ patch \in [Hosts -> [Scans -> PatchJobs]]
  /\ win \in [Procs -> Windows]
  /\ confirmed \subseteq Hosts \X Scans \X {"plan", "reboot"}
  /\ started \subseteq Hosts \X Scans
  /\ halted \subseteq Hosts \X Scans
  /\ stage \in [Hosts -> [Scans -> Stages]]
  /\ revived \subseteq Hosts \X Scans

(* create_campaign has run.                                                *)
Init ==
  /\ camp = Draft
  /\ scan = [h \in Hosts |-> [n \in Scans |-> "none"]]
  /\ rem = [h \in Hosts |-> [n \in Scans |-> NoRemediation]]
  /\ patch = [h \in Hosts |-> [n \in Scans |-> PatchJobNone]]
  /\ win = [p \in Procs |-> NoWindow]
  /\ confirmed = {} /\ started = {} /\ halted = {}
  /\ stage = [h \in Hosts |-> [n \in Scans |-> "none"]] /\ revived = {}

-----------------------------------------------------------------------------
(* Windows.                                                                *)

Idle(p) == win[p].op = "idle"

(* The task of host h is inside a window; its next step comes after it.    *)
Busy(h) == \E p \in Procs : win[p].task /\ win[p].host = h

Open(p, op, task, h, n) ==
  /\ Idle(p)
  /\ win' = [win EXCEPT ![p] =
       [op |-> op, task |-> task, host |-> h, n |-> n, held |-> camp]]

Close(p) == win' = [win EXCEPT ![p] = NoWindow]

(* A task of host h has to synchronise the campaign of its remediation     *)
(* next, and to stop the other hosts first if its job failed for good.     *)
SyncNext(p, h, n, stop) ==
  /\ Idle(p)
  /\ win' = [win EXCEPT ![p] =
       [op |-> IF stop THEN "due_stop" ELSE "due", task |-> TRUE, host |-> h,
        n |-> n, held |-> Draft]]

(* _sync_campaigns_for_remediation lists the campaigns.  This one is       *)
(* skipped if no row of it names the remediation.                          *)
ReadCampaign(p) ==
  LET w == win[p]
  IN  /\ w.op \in {"due", "due_stop"}
      /\ IF w.host # NoHost /\ camp.host[w.host].rem # w.n
         THEN Close(p)
         ELSE win' = [win EXCEPT ![p].held = camp,
                        ![p].op = IF w.op = "due" THEN "sync" ELSE "stop"]
      /\ UNCHANGED <<camp, scan, rem, patch, confirmed, started, halted, aside>>

Requests == {"propose", "approve", "reboot", "reject"}

Synced(op) ==
  CASE op = "propose" -> "propose_synced" [] op = "approve" -> "approve_synced"
    [] op = "reboot" -> "reboot_synced" [] op = "reject" -> "reject_synced"

(* _sync_campaign on the copy of the window.  A request goes on with the   *)
(* projection, unless the campaign is at an end.                           *)
SyncCampaign(p) ==
  LET w == win[p]
      projected == Project(w.held, rem, patch)
  IN  /\ w.op \in {"sync"} \cup Requests
      /\ camp' = projected
      /\ IF w.op \in Requests /\ projected.status \notin CampaignEnded
         THEN win' = [win EXCEPT ![p].held = projected, ![p].op = Synced(w.op)]
         ELSE Close(p)
      /\ UNCHANGED <<scan, rem, patch, confirmed, started, halted, aside>>

-----------------------------------------------------------------------------
(* Requests.                                                               *)

(* The request reads the campaign: get_campaign and list_campaigns only    *)
(* synchronise it.                                                         *)
Request(p) ==
  /\ \/ \E op \in {"sync", "propose"} : Open(p, op, FALSE, NoHost, 0)
     \/ \E op \in {"approve", "reboot", "reject"}, h \in Hosts :
          Open(p, op, FALSE, h, 0)
  /\ UNCHANGED <<camp, scan, rem, patch, confirmed, started, halted, aside>>

(* The scans of h so far.                                                  *)
Made(h) == Cardinality({n \in Scans : scan[h][n] # "none"})

(* queue_campaign_proposals.                                               *)
QueueProposals(p) ==
  LET c == win[p].held
      hosts == {h \in Hosts :
                  /\ c.host[h].rem = 0 \/ c.host[h].state = "plan_changed"
                  /\ c.host[h].state \notin Proposing}
  IN  /\ win[p].op = "propose_synced"
      /\ \A h \in hosts : Made(h) < IF h \in Again THEN MaxScans ELSE 1
      /\ IF hosts = {} THEN UNCHANGED <<camp, scan>>
         ELSE /\ scan' = [h \in Hosts |->
                   IF h \in hosts THEN [scan[h] EXCEPT ![Made(h) + 1] = "queued"]
                   ELSE scan[h]]
              /\ camp' = [c EXCEPT !.status = "proposing",
                   !.host = [h \in Hosts |->
                     IF h \in hosts
                     THEN [c.host[h] EXCEPT !.state = "proposal_queued",
                                            !.job = Made(h) + 1]
                     ELSE c.host[h]]]
      /\ Close(p)
      /\ UNCHANGED <<rem, patch, confirmed, started, halted, aside>>

(* Mutant: the approval of the plan covers the reboot.                     *)
MutAnswered(op, h, r) ==
  CASE op = "approve_synced" /\ ~r.changed /\ r.approval = "pending" ->
         [r EXCEPT !.approval = "approved", !.reboot = "approved"]
    [] op = "reject_synced" /\ r.approval = "pending" ->
         [r EXCEPT !.approval = "rejected", !.reboot = "rejected",
                   !.exec = "blocked"]
    [] OTHER -> r

(* What approve_remediation_plan, approve_remediation_reboot and           *)
(* reject_remediation make of r.  The policy of a host allows reboots all  *)
(* the time (its changes are in TrustedChange).                            *)
Answered(op, h, r) ==
  CASE op = "approve_synced" /\ ~r.changed /\ r.approval = "pending" ->
         [r EXCEPT !.approval = "approved",
                   !.reboot = IF h \in Risky THEN "pending" ELSE "not_required"]
    [] op = "reboot_synced" /\ ~r.changed /\ r.approval = "approved" /\ h \in Risky ->
         [r EXCEPT !.reboot = "approved"]
    [] op = "reject_synced" /\ r.approval = "pending" ->
         [r EXCEPT !.approval = "rejected", !.reboot = "rejected",
                   !.exec = "blocked"]
    [] OTHER -> r

(* approve_campaign_host, approve_campaign_host_reboot and                 *)
(* reject_campaign_host, once the campaign is synchronised.  The two       *)
(* synchronisations that follow a change, and the one that follows a plan  *)
(* found changed, are one.                                                 *)
AnswerHost(p) ==
  LET w == win[p]
      h == w.host
      n == w.held.host[h].rem
      changed == w.op # "reject_synced" /\ rem[h][n].changed
  IN  /\ w.op \in {"approve_synced", "reboot_synced", "reject_synced"}
      /\ IF n = 0 THEN Close(p) /\ UNCHANGED <<rem, confirmed>>
         ELSE LET r == Answered(w.op, h, rem[h][n])
              IN  /\ rem' = [rem EXCEPT ![h][n] = r]
                  /\ IF r = rem[h][n] /\ ~changed THEN Close(p)
                     ELSE win' = [win EXCEPT ![p].op = "due", ![p].host = NoHost,
                                             ![p].held = Draft]
                  /\ confirmed' = confirmed \cup
                       (IF r = rem[h][n] \/ w.op = "reject_synced" THEN {}
                        ELSE {<<h, n, IF w.op = "approve_synced" THEN "plan"
                                      ELSE "reboot">>})
      /\ UNCHANGED <<camp, scan, patch, started, halted, aside>>

(* prepare_remediation_job for host h: an existing job is returned.        *)
Prepared(h, n, status) ==
  IF patch[h][n].status # "none" THEN patch[h][n]
  ELSE [status |-> status, tries |-> 0, at |-> "none"]

WaitingExec(status) == IF status = "queued" THEN "queued" ELSE "waiting_for_window"

(* _approval_decision and the binding of the job.                          *)
Eligible(h, n) ==
  /\ rem[h][n].approval = "approved" /\ ~rem[h][n].changed
  /\ h \in Risky => rem[h][n].reboot = "approved"

(* The new jobs are what these remediations wait for.                      *)
AwaitExecution(c, taken, times) ==
  rem' = [h \in Hosts |->
    LET n == c.host[h].rem
    IN  IF h \in taken /\ patch[h][n].status = "none"
        THEN [rem[h] EXCEPT ![n].exec = WaitingExec(times[h])]
        ELSE rem[h]]

(* prepare_campaign_execution, one transaction: synchronise, select, make  *)
(* the jobs, start the batch.  A host that some other condition of its     *)
(* gate refuses is blocked; a batch without a job is rolled back.          *)
ExecuteBatch(p) ==
  LET c == Project(camp, rem, patch)
      N(h) == c.host[h].rem
  IN  /\ Idle(p)
      /\ \E selected \in Selections(c, rem) :
         \E taken \in SUBSET {h \in selected : Eligible(h, N(h))} \ {{}} :
         \E times \in [taken -> {"queued", "scheduled"}] :
           /\ \A h \in taken \ Windowed : times[h] = "queued"
           /\ patch' = [h \in Hosts |-> IF h \in taken
                THEN [patch[h] EXCEPT ![N(h)] = Prepared(h, N(h), times[h])]
                ELSE patch[h]]
           /\ AwaitExecution(c, taken, times)
           /\ camp' = StartBatch(
                [c EXCEPT !.host = [h \in Hosts |->
                   IF h \in selected \ taken
                   THEN [c.host[h] EXCEPT !.state = "blocked"] ELSE c.host[h]]],
                [h \in taken |-> Prepared(h, N(h), times[h]).status])
      /\ UNCHANGED <<scan, win, confirmed, started, halted, aside>>

-----------------------------------------------------------------------------
(* Cancel, and stop after a failure.                                       *)

(* The status of the job of a scan.                                        *)
ScanJob(state) ==
  CASE state = "queued" -> "queued"
    [] state \in {"claimed", "running"} -> "running"
    [] state = "canceled" -> "canceled"
    [] OTHER -> "completed"

(* The status of the job that row h of c names.                            *)
NamedJob(c, h) ==
  LET row == c.host[h]
  IN  IF row.job = NoJob THEN "none"
      ELSE IF row.job = PatchJob THEN patch[h][row.rem].status
      ELSE ScanJob(scan[h][row.job])

(* Mutant: only the jobs that wait for their window are canceled.          *)
MutCancelJobs(c, hosts) ==
  /\ patch' = [h \in Hosts |->
       IF h \in hosts /\ c.host[h].job = PatchJob /\ NamedJob(c, h) = "scheduled"
       THEN [patch[h] EXCEPT ![c.host[h].rem].status = "canceled"]
       ELSE patch[h]]
  /\ UNCHANGED scan

(* cancel_job ends the waiting job of each of these hosts.                 *)
CancelJobs(c, hosts) ==
  LET Waiting(h) == h \in hosts /\ NamedJob(c, h) \in {"queued", "scheduled"}
  IN  /\ patch' = [h \in Hosts |->
           IF Waiting(h) /\ c.host[h].job = PatchJob
           THEN [patch[h] EXCEPT ![c.host[h].rem].status = "canceled"]
           ELSE patch[h]]
      /\ scan' = [h \in Hosts |->
           IF Waiting(h) /\ c.host[h].job \in Scans
           THEN [scan[h] EXCEPT ![c.host[h].job] = "canceled"]
           ELSE scan[h]]

(* The remediations bound to these hosts that wait are canceled.           *)
CancelRemediations(c, hosts) ==
  rem' = [h \in Hosts |->
    LET n == c.host[h].rem
    IN  IF /\ h \in hosts /\ n # 0
           /\ rem[h][n].exec \in {"not_started", "queued", "waiting_for_window"}
        THEN [rem[h] EXCEPT ![n].exec = "canceled"]
        ELSE rem[h]]

(* History: what is bound to these hosts and has never been claimed.       *)
Halt(c, hosts) ==
  halted' = halted \cup
    {<<h, c.host[h].rem>> : h \in {k \in hosts : /\ c.host[k].rem # 0
                                                 /\ patch[k][c.host[k].rem].tries = 0}}

WithStates(c, running, canceled) ==
  [c EXCEPT !.host = [h \in Hosts |->
     IF h \in running THEN [c.host[h] EXCEPT !.state = "running"]
     ELSE IF h \in canceled THEN [c.host[h] EXCEPT !.state = "canceled"]
     ELSE c.host[h]]]

(* Nothing is left to cancel.                                              *)
IsComplete(c) ==
  \/ c.status \in {"succeeded", "failed", "canceled"}
  \/ /\ c.status = "partially_succeeded"
     /\ HostsIn(c, Completed \cup Failing) = Hosts

(* cancel_campaign, one transaction.                                       *)
CancelCampaign(p) ==
  LET c == Project(camp, rem, patch)
      open == Hosts \ HostsIn(c, {"succeeded", "failed", "no_action"})
      running == {h \in open : NamedJob(c, h) = "running"}
      canceled == {h \in open : NamedJob(c, h) \in
                                  {"none", "canceled", "queued", "scheduled"}}
  IN  /\ Idle(p)
      /\ ~IsComplete(c)
      /\ CancelJobs(c, open)
      /\ CancelRemediations(c, canceled)
      /\ Halt(c, canceled)
      /\ camp' = [WithStates(c, running, canceled) EXCEPT
           !.canceled = TRUE,
           !.status = IF running # {} THEN "cancelling" ELSE "canceled"]
      /\ UNCHANGED <<win, confirmed, started, aside>>

(* _stop_remaining_campaign_hosts, on the copy the window read.  Every     *)
(* plan has failure_policy.stop_remaining_hosts.                           *)
StopRemaining(p) ==
  LET w == win[p]
      c == w.held
      others == (Hosts \ {w.host}) \
                  HostsIn(c, {"succeeded", "failed", "no_action", "running"})
      running == {h \in others : NamedJob(c, h) = "running"}
      stopped == WithStates(c, running, others \ running)
  IN  /\ w.op = "stop"
      /\ CancelJobs(c, others)
      /\ CancelRemediations(c, others \ running)
      /\ Halt(c, others \ running)
      /\ camp' = stopped
      /\ win' = [win EXCEPT ![p].op = "sync", ![p].held = stopped]
      /\ UNCHANGED <<confirmed, started, aside>>

-----------------------------------------------------------------------------
(* Scan tasks.                                                             *)

SetScan(h, n, from, to) == scan[h][n] \in from /\ scan' = [scan EXCEPT ![h][n] = to]

(* process_scan claims its job and saves its own records.                  *)
ClaimScan(h, n) ==
  /\ SetScan(h, n, {"queued"}, "claimed")
  /\ UNCHANGED <<camp, rem, patch, win, confirmed, started, halted, aside>>

(* _mark_campaign_proposal_running.                                        *)
ReadForMark(p, h, n) ==
  /\ scan[h][n] = "claimed" /\ ~Busy(h)
  /\ Open(p, "mark", TRUE, h, n)
  /\ UNCHANGED <<camp, scan, rem, patch, confirmed, started, halted, aside>>

MarkRunning(p) ==
  LET w == win[p]
  IN  /\ w.op = "mark"
      /\ camp' = [w.held EXCEPT !.status = "proposing",
                                !.host[w.host].state = "proposal_running"]
      /\ SetScan(w.host, w.n, {"claimed"}, "running")
      /\ Close(p)
      /\ UNCHANGED <<rem, patch, confirmed, started, halted, aside>>

(* The scan ends: with a remediation, with nothing to do, or in an error.  *)
EndScan(h, n) ==
  /\ ~Busy(h)
  /\ \/ /\ SetScan(h, n, {"running"}, "found")
        /\ \E size \in {1, MaxBatch} :
             rem' = [rem EXCEPT ![h][n].made = TRUE, ![h][n].batch = size]
     \/ /\ \E to \in {"empty", "broken"} : SetScan(h, n, {"running"}, to)
        /\ UNCHANGED rem
  /\ UNCHANGED <<camp, patch, win, confirmed, started, halted, aside>>

ReadForTell(p, h, n) ==
  /\ scan[h][n] \in {"found", "empty", "broken"} /\ ~Busy(h)
  /\ Open(p, "tell", TRUE, h, n)
  /\ UNCHANGED <<camp, scan, rem, patch, confirmed, started, halted, aside>>

(* _attach_campaign_proposal: bind the row of h to its remediation.        *)
Attached(c, h, n) ==
  LET bound == {rem[k][c.host[k].rem] : k \in {x \in Hosts : c.host[x].rem # 0}}
  IN  [c EXCEPT
        !.host[h] = [state |-> "awaiting_approval", rem |-> n, job |-> NoJob],
        !.size = RolloutLimit(bound \cup {rem[h][n]})]

(* Mutant: a failed scan is not told.                                      *)
MutTold(c, h, n) == IF scan[h][n] = "found" THEN Attached(c, h, n) ELSE c

(* What _attach_campaign_proposal or _mark_campaign_proposal_failed makes  *)
(* of a campaign.                                                          *)
Told(c, h, n) ==
  CASE scan[h][n] = "found" -> Attached(c, h, n)
    [] scan[h][n] = "empty" ->
         [c EXCEPT !.host[h].state = "no_action", !.host[h].job = NoJob]
    [] OTHER -> [c EXCEPT !.host[h].state = "failed"]

(* Either saves that, and goes on to synchronise what it saved.            *)
TellCampaign(p) ==
  LET w == win[p]
      told == Told(w.held, w.host, w.n)
  IN  /\ w.op = "tell"
      /\ camp' = told
      /\ win' = [win EXCEPT ![p].op = "sync", ![p].held = told]
      /\ SetScan(w.host, w.n, {"found", "empty", "broken"}, "told")
      /\ UNCHANGED <<rem, patch, confirmed, started, halted, aside>>

-----------------------------------------------------------------------------
(* Remediation tasks.                                                      *)

Job(h, n, status, at) ==
  patch' = [patch EXCEPT ![h][n].status = status, ![h][n].at = at]

Exec(h, n, state) == rem' = [rem EXCEPT ![h][n].exec = state]

(* A delivery that finds its campaign canceled, as it is stored.           *)
DropCanceled(p, h, n) ==
  /\ patch[h][n].status = "queued" /\ patch[h][n].at = "none" /\ ~Busy(h)
  /\ stage[h][n] = "none"
  /\ camp.status = "canceled"
  /\ Job(h, n, "canceled", "none")
  /\ Exec(h, n, "canceled")
  /\ SyncNext(p, h, n, FALSE)
  /\ UNCHANGED <<camp, scan, confirmed, started, halted, aside>>

Hold(h, n, at) == stage' = [stage EXCEPT ![h][n] = at]

(* The copy is saved over the stored job, whatever that says by now.       *)
SaveCopy(h, n, status) ==
  /\ Hold(h, n, "none")
  /\ Job(h, n, status, "none")
  /\ revived' = revived \cup
       (IF patch[h][n].status = "canceled" THEN {<<h, n>>} ELSE {})

(* A delivery reads the job and its campaign, finds the window closed, and *)
(* puts the job back.  The execution state stays.                          *)
ReadQueued(h, n) ==
  /\ h \in Windowed /\ stage[h][n] = "none"
  /\ patch[h][n].status = "queued" /\ patch[h][n].at = "none" /\ ~Busy(h)
  /\ camp.status # "canceled"
  /\ Hold(h, n, "read")
  /\ UNCHANGED <<camp, scan, rem, patch, win, confirmed, started, halted, revived>>

Defer(p, h, n) ==
  /\ stage[h][n] = "read" /\ ~Busy(h)
  /\ SaveCopy(h, n, "scheduled")
  /\ SyncNext(p, h, n, FALSE)
  /\ UNCHANGED <<camp, scan, rem, confirmed, started, halted>>

(* release_scheduled_remediation_jobs lists the jobs, one run at a time,   *)
(* and takes them one after the other.                                     *)
ListScheduled(h, n) ==
  /\ patch[h][n].status = "scheduled" /\ stage[h][n] = "none"
  /\ Hold(h, n, "listed")
  /\ UNCHANGED <<camp, scan, rem, patch, win, confirmed, started, halted, revived>>

(* The scheduled job of a canceled campaign is dropped, and that of a plan *)
(* that is no longer approved is failed, without a lease to check.         *)
RefuseRelease(p, h, n) ==
  /\ stage[h][n] = "listed" /\ Hold(h, n, "none")
  /\ IF camp.status = "canceled"
     THEN Job(h, n, "canceled", "none") /\ UNCHANGED <<rem, win>>
     ELSE /\ ~Eligible(h, n)
          /\ Job(h, n, "failed", "none")
          /\ Exec(h, n, "blocked")
          /\ SyncNext(p, h, n, FALSE)
  /\ UNCHANGED <<camp, scan, confirmed, started, halted, revived>>

(* The others are released if their window is open, else left alone.       *)
PassRelease(h, n) ==
  /\ stage[h][n] = "listed"
  /\ camp.status # "canceled" /\ Eligible(h, n)
  /\ \E at \in {"passed", "none"} : Hold(h, n, at)
  /\ UNCHANGED <<camp, scan, rem, patch, win, confirmed, started, halted, revived>>

Release(p, h, n) ==
  /\ stage[h][n] = "passed"
  /\ SaveCopy(h, n, "queued")
  /\ SyncNext(p, h, n, FALSE)
  /\ UNCHANGED <<camp, scan, rem, confirmed, started, halted>>

ClaimPatch(h, n) ==
  /\ patch[h][n].status = "queued" /\ patch[h][n].at = "none" /\ ~Busy(h)
  /\ stage[h][n] = "none"
  /\ camp.status # "canceled" /\ patch[h][n].tries < MaxTries
  /\ patch' = [patch EXCEPT ![h][n] = [status |-> "running", at |-> "claimed",
                                       tries |-> patch[h][n].tries + 1]]
  /\ UNCHANGED <<camp, scan, rem, win, confirmed, started, halted, aside>>

(* The worker's gate; what it refuses stops nobody else.                   *)
GatePatch(p, h, n) ==
  /\ patch[h][n].at = "claimed" /\ ~Busy(h)
  /\ IF Eligible(h, n)
     THEN /\ Job(h, n, "running", "working")
          /\ Exec(h, n, "running")
          /\ started' = started \cup {<<h, n>>}
     ELSE /\ Job(h, n, "failed", "none")
          /\ Exec(h, n, "blocked")
          /\ UNCHANGED started
  /\ SyncNext(p, h, n, FALSE)
  /\ UNCHANGED <<camp, scan, confirmed, halted, aside>>

(* The change is done, and remediation and job say so.                     *)
Succeed(p, h, n) ==
  /\ patch[h][n].at = "working" /\ ~Busy(h)
  /\ Job(h, n, "completed", "none")
  /\ Exec(h, n, "succeeded")
  /\ SyncNext(p, h, n, FALSE)
  /\ UNCHANGED <<camp, scan, confirmed, started, halted, aside>>

(* fail_job after an exception or a bad result, retryable or not.          *)
FailPatch(h, n) ==
  /\ patch[h][n].at = "working" /\ ~Busy(h)
  /\ \/ patch[h][n].tries < MaxTries /\ Job(h, n, "queued", "handler")
     \/ Job(h, n, "failed", "handler")
  /\ UNCHANGED <<camp, scan, rem, win, confirmed, started, halted, aside>>

(* The rest of the failure handler of process_remediation.                 *)
HandleFailure(p, h, n) ==
  /\ patch[h][n].at = "handler" /\ ~Busy(h)
  /\ Job(h, n, patch[h][n].status, "none")
  /\ IF patch[h][n].status = "queued" THEN Exec(h, n, "queued")
     ELSE \E state \in {"failed", "blocked"} : Exec(h, n, state)
  /\ SyncNext(p, h, n, patch[h][n].status = "failed")
  /\ UNCHANGED <<camp, scan, confirmed, started, halted, aside>>

(* The worker dies and the sweep finds the lease lapsed: the job is tried  *)
(* again, or blocked because the host may have been changed.               *)
RecoverLost(p, h, n) ==
  /\ patch[h][n].at \in {"claimed", "working"} /\ ~Busy(h)
  /\ patch[h][n].tries < MaxTries
  /\ \/ /\ Job(h, n, "queued", "none")
        /\ Exec(h, n, "queued")
        /\ UNCHANGED win
     \/ /\ patch[h][n].at = "working"
        /\ Job(h, n, "failed", "none")
        /\ Exec(h, n, "blocked")
        /\ SyncNext(p, h, n, TRUE)
  /\ UNCHANGED <<camp, scan, confirmed, started, halted, aside>>

(* The same with no attempt left: no campaign is told.                     *)
ExhaustLost(h, n) ==
  /\ patch[h][n].at \in {"claimed", "working"} /\ ~Busy(h)
  /\ patch[h][n].tries = MaxTries
  /\ Job(h, n, "failed", "none")
  /\ Exec(h, n, "failed")
  /\ UNCHANGED <<camp, scan, win, confirmed, started, halted, aside>>

(* The content of the plan changes, and reconcile_plan drops its approvals *)
(* when it is next read.                                                   *)
ChangePlan(h, n) ==
  LET r == rem[h][n]
  IN  /\ h \in Again /\ r.made /\ ~r.changed
      /\ rem' = [rem EXCEPT ![h][n] =
           [r EXCEPT !.changed = TRUE, !.approval = "pending",
                     !.reboot = IF h \in Risky THEN "pending" ELSE "not_required",
                     !.exec = IF r.exec \in {"running", "succeeded", "failed"}
                              THEN r.exec ELSE "blocked"]]
      /\ confirmed' = confirmed \ {<<h, n, "plan">>, <<h, n, "reboot">>}
      /\ UNCHANGED <<camp, scan, patch, win, started, halted, aside>>

ScanTask(h, n) ==
  \/ ClaimScan(h, n) \/ EndScan(h, n)
  \/ \E p \in Procs : ReadForMark(p, h, n) \/ ReadForTell(p, h, n)

PatchTask(h, n) ==
  \/ ClaimPatch(h, n) \/ FailPatch(h, n) \/ ExhaustLost(h, n)
  \/ ReadQueued(h, n) \/ ListScheduled(h, n) \/ PassRelease(h, n)
  \/ \E p \in Procs :
       \/ DropCanceled(p, h, n) \/ Defer(p, h, n)
       \/ RefuseRelease(p, h, n) \/ Release(p, h, n)
       \/ GatePatch(p, h, n) \/ Succeed(p, h, n) \/ HandleFailure(p, h, n)
       \/ RecoverLost(p, h, n)

Next ==
  \/ \E p \in Procs :
       \/ ReadCampaign(p) \/ SyncCampaign(p) \/ Request(p)
       \/ QueueProposals(p) \/ AnswerHost(p)
       \/ ExecuteBatch(p) \/ CancelCampaign(p) \/ StopRemaining(p)
       \/ MarkRunning(p) \/ TellCampaign(p)
  \/ \E h \in Hosts, n \in Scans :
       ScanTask(h, n) \/ PatchTask(h, n) \/ ChangePlan(h, n)

Spec == Init /\ [][Next]_vars

-----------------------------------------------------------------------------
(* Whichever batch, retry or recovery a job came from, and whatever        *)
(* changed while it waited: the gate lets a plan through only if an        *)
(* operator approved that very plan of that host, and its reboot if one is *)
(* possible, since the plan last changed.                                  *)
StartIsConfirmed ==
  [][\A s \in started' \ started :
       /\ <<s[1], s[2], "plan">> \in confirmed
       /\ s[1] \in Risky => <<s[1], s[2], "reboot">> \in confirmed]_vars

(* What a cancellation, or the failure of another host, found waiting is   *)
(* never started afterwards, except where a release or a deferral under    *)
(* way saved its older copy of the job over the cancellation.              *)
HaltHolds == halted \cap started \subseteq revived

(* Between a job and the end of it lie deferrals, retries, recoveries,     *)
(* plan changes and projections.  All that time the hosts recorded as      *)
(* under way are never more than the smallest batch their policies allow:  *)
(* the next batch waits for the one before.  A job that the gate can only  *)
(* refuse does not count, nor one whose cancellation was lost.             *)
UnderWay ==
  {s \in (Hosts \X Scans) \ revived :
     /\ patch[s[1]][s[2]].status \in {"scheduled", "queued", "running"}
     /\ rem[s[1]][s[2]].exec \in {"queued", "waiting_for_window", "running"}
     /\ Eligible(s[1], s[2]) \/ patch[s[1]][s[2]].at = "working"}

BatchesDoNotOverlap ==
  \A s \in UnderWay : Cardinality(UnderWay) <= rem[s[1]][s[2]].batch

(* When no scan job is left and no window is open, no host still waits     *)
(* for its proposal.                                                       *)
ScansOver ==
  /\ \A p \in Procs : Idle(p)
  /\ \A h \in Hosts, n \in Scans : scan[h][n] \in {"none", "told", "canceled"}

NoProposalIsLost == ScansOver => HostsIn(camp, Proposing) = {}

=============================================================================
