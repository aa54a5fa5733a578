---------------------------- MODULE CampaignRules ----------------------------
(***************************************************************************)
(* The campaign rules of trusted_change.py as pure operators: what state a *)
(* host of a campaign is in, what status follows for the campaign, and     *)
(* which hosts the next batch takes.                                       *)
(*                                                                         *)
(* A campaign is [status, canceled, batch, size, host]: canceled says      *)
(* whether canceled_at is set, batch is current_batch, size is batch_size  *)
(* (total_batches follows from it).  host[h] is the row of host h: its     *)
(* state, the scan whose remediation it is bound to (0: none), and the job *)
(* its job_id names.  changed says of a remediation that its plan is no    *)
(* longer the one the row was bound to by version and hash.                *)
(***************************************************************************)
EXTENDS Integers, FiniteSetsExt

CONSTANTS
  Hosts,         \* the hosts selected for the campaign
  Risky,         \* the hosts whose upgrades may need a reboot
  MaxScans,      \* bound on the proposals made for one host
  MaxBatch,      \* patch_policy.max_batch_size of every host
  Canary         \* patch_policy.canary_count of every host

ASSUME RulesAssumption ==
  /\ Hosts # {} /\ IsFiniteSet(Hosts) /\ Risky \subseteq Hosts
  /\ MaxScans \in Nat \ {0} /\ MaxBatch \in Nat \ {0} /\ Canary \in Nat \ {0}

Scans == 1 .. MaxScans

(* What job_id names: nothing, a scan, or the execution of the bound plan. *)
NoJob == 0
PatchJob == MaxScans + 1

HostStates ==
  {"selected", "proposal_queued", "proposal_running", "awaiting_approval",
   "awaiting_reboot_approval", "approved", "scheduled", "queued", "running",
   "succeeded", "failed", "rejected", "blocked", "canceled", "no_action",
   "plan_changed"}

CampaignStatuses ==
  {"draft", "proposing", "awaiting_approval", "ready", "running",
   "partially_succeeded", "succeeded", "failed", "cancelling", "canceled"}

Proposing == {"proposal_queued", "proposal_running"}
InBatch == {"scheduled", "queued", "running"}
Awaiting == {"awaiting_approval", "awaiting_reboot_approval", "plan_changed"}
Failing == {"failed", "rejected", "blocked", "canceled"}
Completed == {"succeeded", "failed", "canceled", "no_action"}

(* The execution states that decide the state of a host on their own.      *)
ExecutionStates ==
  [succeeded |-> "succeeded", failed |-> "failed", running |-> "running",
   queued |-> "queued", waiting_for_window |-> "scheduled",
   canceled |-> "canceled"]

(* Rounded up.                                                             *)
Batches(n, size) == (n + size - 1) \div size

TotalBatches(c) == Batches(Cardinality(Hosts), c.size)

HostsIn(c, states) == {h \in Hosts : c.host[h].state \in states}

(* _campaign_terminal; "partially_succeeded" is not.                       *)
CampaignEnded == {"cancelling", "canceled", "succeeded", "failed"}

-----------------------------------------------------------------------------
(* Projection of the remediations and jobs on the campaign.                *)

(* Mutant: an execution state is taken for the host state as it is.        *)
MutHostState(row, r, job) ==
  IF job \in {"running", "canceled"} THEN job
  ELSE IF r.exec \in DOMAIN ExecutionStates THEN r.exec
  ELSE IF r.changed THEN "plan_changed"
  ELSE IF r.approval = "approved" THEN "approved"
  ELSE "awaiting_approval"

(* _campaign_host_state: the first rule that applies.                      *)
HostState(row, r, job) ==
  IF job \in {"running", "canceled"} THEN job
  ELSE IF r.exec \in DOMAIN ExecutionStates THEN ExecutionStates[r.exec]
  ELSE IF r.changed \/ (row.state = "plan_changed" /\ r.approval = "pending")
       THEN "plan_changed"
  ELSE IF r.approval = "rejected" THEN "rejected"
  ELSE IF r.exec = "blocked" THEN "blocked"
  ELSE IF r.approval # "approved" THEN "awaiting_approval"
  ELSE IF r.reboot \in {"not_required", "approved"} THEN "approved"
  ELSE IF r.reboot = "pending" THEN "awaiting_reboot_approval"
  ELSE "blocked"

(* _project_terminal_campaign_status.                                      *)
SettledStatus(c) ==
  LET Some(states) == HostsIn(c, states) # {}
      succeeded == Some({"succeeded"})
  IN  IF succeeded /\ Some(Failing \cup Awaiting \cup {"approved"})
      THEN "partially_succeeded"
      ELSE IF Some(Awaiting) THEN "awaiting_approval"
      ELSE IF Some({"approved"}) THEN "ready"
      ELSE IF HostsIn(c, {"succeeded", "no_action"}) = Hosts THEN "succeeded"
      ELSE IF Some(Failing) THEN "failed"
      ELSE "draft"

(* _project_campaign_status.                                               *)
ProjectedStatus(c) ==
  IF c.canceled
  THEN IF HostsIn(c, {"running"}) # {} THEN "cancelling" ELSE "canceled"
  ELSE IF c.status = "canceled" THEN "canceled"
  ELSE IF HostsIn(c, {"selected"}) = Hosts THEN "draft"
  ELSE IF HostsIn(c, Proposing) # {} THEN "proposing"
  ELSE IF HostsIn(c, InBatch) # {} THEN "running"
  ELSE SettledStatus(c)

(* project_campaign: c with the state of every host that has a proposal    *)
(* read from its remediation and job, and what follows from the states.    *)
Project(c, rem, patch) ==
  LET Row(h) ==
        LET row == c.host[h]
            job == IF row.job = PatchJob THEN patch[h][row.rem].status ELSE "none"
        IN  IF row.rem = 0 THEN row
            ELSE [row EXCEPT !.state = HostState(row, rem[h][row.rem], job)]
      rows == [c EXCEPT !.host = [h \in Hosts |-> Row(h)]]
      done == Batches(Cardinality(HostsIn(rows, Completed)), c.size)
  IN  [rows EXCEPT !.status = ProjectedStatus(rows),
                   !.batch = Min({TotalBatches(c), Max({c.batch, done})})]

-----------------------------------------------------------------------------
(* Rollout.                                                                *)

(* rollout_policy: hosts one at a time, or canaries and then batches.      *)
CanaryOf(r) == IF r.batch = 1 THEN 1 ELSE Canary

(* campaign_rollout_limit, over every host and the remediations given.     *)
RolloutLimit(rems) == Min({MaxBatch} \cup {r.batch : r \in rems})

(* The hosts of the campaign a batch may take; rem[h] is bound to its row. *)
Candidates(c, rem) ==
  {h \in HostsIn(c, {"approved"}) :
     c.host[h].rem # 0 /\ ~rem[h][c.host[h].rem].changed}

(* Mutant: a batch may start while another is under way.                   *)
MutBatchRefused(c) == c.status \in CampaignEnded

BatchRefused(c) == c.status \in CampaignEnded \/ HostsIn(c, InBatch) # {}

(* campaign_batch: how many hosts it selects.                              *)
BatchLimit(c, rem) ==
  LET rems == {rem[h][c.host[h].rem] : h \in Candidates(c, rem)}
      limit == Min({c.size} \cup {r.batch : r \in rems})
  IN  IF c.batch > 0 THEN limit ELSE Min({limit} \cup {CanaryOf(r) : r \in rems})

(* The selections campaign_batch may make.  It takes the first hosts by    *)
(* name; any of that number is allowed here.                               *)
Selections(c, rem) ==
  LET all == Candidates(c, rem)
      n == Min({Cardinality(all), BatchLimit(c, rem)})
  IN  IF BatchRefused(c) \/ all = {} THEN {} ELSE kSubset(n, all)

(* start_campaign_batch: started gives the status of each new job.         *)
StartBatch(c, started) ==
  [c EXCEPT
     !.status = "running",
     !.batch = Min({TotalBatches(c), c.batch + 1}),
     !.host = [h \in Hosts |->
                 IF h \in DOMAIN started
                 THEN [c.host[h] EXCEPT
                         !.job = PatchJob,
                         !.state = IF started[h] = "queued" THEN "queued"
                                   ELSE "scheduled"]
                 ELSE c.host[h]]]

=============================================================================
