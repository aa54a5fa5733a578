---------------------------- MODULE TrustedChange ----------------------------
(***************************************************************************)
(* The approval of one remediation plan and the gate in front of every     *)
(* execution (trusted_change.py and its callers in service.py).            *)
(*                                                                         *)
(* API requests and workers read the remediation, decide, and save the     *)
(* whole object back, without a lock between the read and the save: what   *)
(* another process saved in between is overwritten.  Only                  *)
(* prepare_remediation_job locks the row.                                  *)
(*                                                                         *)
(* Nothing in the repository edits the content of a stored plan; the code  *)
(* expects it to happen (reconcile_plan) and its tests do it, so the edit  *)
(* is a step of the environment.  The execution state of the remediation   *)
(* is in RemediationExecution.                                             *)
(***************************************************************************)
EXTENDS Integers

CONSTANTS
  Procs,         \* API requests and worker tasks that run at the same time
  Contents,      \* what a plan can say
  Risky,         \* the contents whose reboot_assessment is not "not_expected"
  Unready,       \* the contents outside the catalog, or without evidence
  NoHash,        \* an approval that names no plan
  MaxVersion     \* bound on plan_version

ASSUME RiskyAssumption   == Risky \subseteq Contents
ASSUME UnreadyAssumption == Unready \subseteq Contents
ASSUME VersionAssumption == MaxVersion \in Nat

(* plan_hash: the payload holds the version and the content, and the       *)
(* digest is taken to be injective.                                        *)
Hash(version, content) == [version |-> version, content |-> content]

Hashes == [version : Nat, content : Contents]

ASSUME NoHashAssumption == NoHash \notin Hashes

Remediation ==
  [content  : Contents,
   version  : Nat,
   hash     : Hashes,
   approval : {"pending", "approved", "rejected"},
   approved : Hashes \cup {NoHash},    \* approved_plan_version and _hash
   reboot   : {"not_required", "pending", "approved", "blocked", "rejected"},
   rebooted : Hashes \cup {NoHash}]    \* reboot_approved_plan_version, _hash

VARIABLES
  rem,           \* the stored remediation
  never,         \* host.patch_policy.reboot_policy is "never"
  jobs,          \* the plan hashes that have an execution job
  op, held, req, \* per process: what it does, its remediation, its request
  confirmed,     \* history: the hashes operators sent to approve the plan
  rebootConfirmed, \* history: the hashes operators sent to approve a reboot
  executed       \* history: the hashes the gate let through to the executor

vars == <<rem, never, jobs, op, held, req, confirmed, rebootConfirmed, executed>>

Ops == {"idle", "approve_sent", "approve", "approve_checked", "reboot_sent",
        "reboot", "reboot_checked", "reject", "gate", "gate_checked", "update"}

TypeOK ==
  /\ rem \in Remediation
  /\ never \in BOOLEAN
  /\ jobs \subseteq Hashes
  /\ op \in [Procs -> Ops]
  /\ held \in [Procs -> Remediation]
  /\ req \in [Procs -> Hashes]
  /\ confirmed \subseteq Hashes
  /\ rebootConfirmed \subseteq Hashes
  /\ executed \subseteq Hashes

(* Mutant: the hash of the new plan is never computed.                     *)
MutNewPlan(content) ==
  [content |-> content, version |-> 1, hash |-> NoHash,
   approval |-> "pending", approved |-> NoHash,
   reboot |-> "pending", rebooted |-> NoHash]

(* _build_remediation.                                                     *)
NewPlan(content) ==
  [content |-> content, version |-> 1, hash |-> Hash(1, content),
   approval |-> "pending", approved |-> NoHash,
   reboot |-> "pending", rebooted |-> NoHash]

(* What an idle process holds.                                             *)
Blank == NewPlan(CHOOSE c \in Contents : TRUE)

Init ==
  /\ \E c \in Contents : rem = NewPlan(c)
  /\ never \in BOOLEAN
  /\ jobs = {}
  /\ op = [p \in Procs |-> "idle"]
  /\ held = [p \in Procs |-> Blank]
  /\ req = [p \in Procs |-> Blank.hash]
  /\ confirmed = {}
  /\ rebootConfirmed = {}
  /\ executed = {}

-----------------------------------------------------------------------------
(* The policy.                                                             *)

Current(r) == Hash(r.version, r.content)

RebootRisk(r) == r.content \in Risky

(* reconcile_plan: a plan that is not the approved one is pending again.   *)
Reconciled(r) ==
  LET contentChanged == r.hash # Current(r)
      version == IF contentChanged THEN r.version + 1 ELSE r.version
  IN  IF ~contentChanged /\ (r.approval = "approved" => r.approved = r.hash)
      THEN r
      ELSE [content |-> r.content, version |-> version,
            hash |-> IF contentChanged THEN Hash(version, r.content) ELSE r.hash,
            approval |-> "pending", approved |-> NoHash,
            reboot |-> IF RebootRisk(r) THEN "pending" ELSE "not_required",
            rebooted |-> NoHash]

(* validate_approval_request, the hostname left out.                       *)
RequestNames(r, hash) == r.hash = hash /\ r.hash = Current(r)

CanApprove(r, hash) ==
  r.approval = "pending" /\ RequestNames(r, hash) /\ r.content \notin Unready

Approved(r) ==
  [r EXCEPT !.approval = "approved", !.approved = r.hash,
            !.reboot = IF RebootRisk(r) THEN "pending" ELSE "not_required",
            !.rebooted = NoHash]

CanApproveReboot(r, hash) ==
  r.approval = "approved" /\ RequestNames(r, hash) /\ RebootRisk(r)

RebootApproved(r) == [r EXCEPT !.reboot = "approved", !.rebooted = r.hash]

Rejected(r) == [r EXCEPT !.approval = "rejected", !.reboot = "rejected"]

(* _approval_decision.                                                     *)
ApprovalHolds(r) ==
  /\ r.content \notin Unready
  /\ r.hash = Current(r)
  /\ r.approval = "approved" /\ r.approved = r.hash
  /\ RebootRisk(r) =>
       r.reboot = "approved" /\ r.rebooted = r.hash /\ ~never

(* _trusted_execution_decision: a plan that had to be reconciled is        *)
(* denied whatever it looks like afterwards.                               *)
Trusted(r) == Reconciled(r) = r /\ ApprovalHolds(r)

-----------------------------------------------------------------------------
(* Requests and tasks.                                                     *)

Start(p, what) == op[p] = "idle" /\ op' = [op EXCEPT ![p] = what]

Done(p) ==
  /\ op' = [op EXCEPT ![p] = "idle"]
  /\ held' = [held EXCEPT ![p] = Blank]
  /\ req' = [req EXCEPT ![p] = Blank.hash]

(* Save the remediation this process holds, changed to r.                  *)
Save(r) == rem' = r

(* An operator confirms the plan version and hash on the screen.  The      *)
(* request is handled later, when the plan may be another one.             *)
SendApproval(p) ==
  /\ Start(p, "approve_sent")
  /\ req' = [req EXCEPT ![p] = rem.hash]
  /\ confirmed' = confirmed \cup {rem.hash}
  /\ UNCHANGED <<rem, never, jobs, held, rebootConfirmed, executed>>

SendReboot(p) ==
  /\ Start(p, "reboot_sent")
  /\ req' = [req EXCEPT ![p] = rem.hash]
  /\ rebootConfirmed' = rebootConfirmed \cup {rem.hash}
  /\ UNCHANGED <<rem, never, jobs, held, confirmed, executed>>

(* The handler reads the remediation.                                      *)
Handle(p) ==
  /\ \/ op[p] = "approve_sent" /\ op' = [op EXCEPT ![p] = "approve"]
     \/ op[p] = "reboot_sent" /\ op' = [op EXCEPT ![p] = "reboot"]
     \/ \E what \in {"reject", "gate", "update"} : Start(p, what)
  /\ held' = [held EXCEPT ![p] = rem]
  /\ UNCHANGED <<rem, never, jobs, req, confirmed, rebootConfirmed, executed>>

(* _ensure_current_remediation_plan, for the operations that call it.      *)
EnsureCurrent(p, from, to) ==
  LET updated == Reconciled(held[p])
  IN  /\ op[p] = from
      /\ updated.version <= MaxVersion
      /\ op' = [op EXCEPT ![p] = to]
      /\ held' = [held EXCEPT ![p] = updated]
      /\ IF updated = held[p] THEN UNCHANGED rem ELSE Save(updated)
      /\ UNCHANGED <<never, jobs, req, confirmed, rebootConfirmed, executed>>

EnsureCurrentPlan(p) ==
  \/ EnsureCurrent(p, "approve", "approve_checked")
  \/ EnsureCurrent(p, "reboot", "reboot_checked")

(* Mutant: the hash in the request is not compared with the plan's.        *)
MutApprovePlan(p) ==
  /\ op[p] = "approve_checked"
  /\ Save(IF held[p].approval = "pending" /\ held[p].content \notin Unready
          THEN Approved(held[p]) ELSE rem)
  /\ Done(p)
  /\ UNCHANGED <<never, jobs, confirmed, rebootConfirmed, executed>>

ApprovePlan(p) ==
  /\ op[p] = "approve_checked"
  /\ Save(IF CanApprove(held[p], req[p]) THEN Approved(held[p]) ELSE rem)
  /\ Done(p)
  /\ UNCHANGED <<never, jobs, confirmed, rebootConfirmed, executed>>

(* A refusal saves the plan as well, if the stored one has become another. *)
ApproveReboot(p) ==
  /\ op[p] = "reboot_checked"
  /\ Save(IF ~CanApproveReboot(held[p], req[p]) THEN held[p]
          ELSE IF never THEN [held[p] EXCEPT !.reboot = "blocked"]
          ELSE RebootApproved(held[p]))
  /\ Done(p)
  /\ UNCHANGED <<never, jobs, confirmed, rebootConfirmed, executed>>

RejectPlan(p) ==
  /\ op[p] = "reject"
  /\ Save(IF held[p].approval = "pending" THEN Rejected(held[p]) ELSE rem)
  /\ Done(p)
  /\ UNCHANGED <<never, jobs, confirmed, rebootConfirmed, executed>>

(* A task that only writes the execution state saves the plan as it read   *)
(* it.                                                                     *)
SaveExecutionState(p) ==
  /\ op[p] = "update"
  /\ Save(held[p])
  /\ Done(p)
  /\ UNCHANGED <<never, jobs, confirmed, rebootConfirmed, executed>>

(* prepare_remediation_job, under the row lock.  A plan that has to be      *)
(* reconciled is denied, and the transaction is rolled back.               *)
Prepare ==
  /\ Trusted(rem)
  /\ jobs' = jobs \cup {rem.hash}
  /\ UNCHANGED <<rem, never, op, held, req, confirmed, rebootConfirmed, executed>>

(* The worker's gate: reconcile, save, then decide on the object it holds. *)
CheckGate(p) ==
  LET updated == Reconciled(held[p])
  IN  /\ op[p] = "gate"
      /\ updated.version <= MaxVersion
      /\ IF updated = held[p]
         THEN /\ op' = [op EXCEPT ![p] = "gate_checked"]
              /\ UNCHANGED <<rem, held, req>>
         ELSE Save(updated) /\ Done(p)
      /\ UNCHANGED <<never, jobs, confirmed, rebootConfirmed, executed>>

(* Mutant: the job's approved hash is not compared with the plan's.        *)
MutExecute(p) ==
  /\ op[p] = "gate_checked"
  /\ executed' = IF ApprovalHolds(held[p]) /\ jobs # {}
                 THEN executed \cup {held[p].hash} ELSE executed
  /\ Done(p)
  /\ UNCHANGED <<rem, never, jobs, confirmed, rebootConfirmed>>

(* execution_eligibility with the job, then the executor.                  *)
Execute(p) ==
  /\ op[p] = "gate_checked"
  /\ executed' = IF ApprovalHolds(held[p]) /\ held[p].hash \in jobs
                 THEN executed \cup {held[p].hash} ELSE executed
  /\ Done(p)
  /\ UNCHANGED <<rem, never, jobs, confirmed, rebootConfirmed>>

Edit ==
  /\ \E c \in Contents \ {rem.content} : Save([rem EXCEPT !.content = c])
  /\ UNCHANGED <<never, jobs, op, held, req, confirmed, rebootConfirmed, executed>>

ChangePolicy ==
  /\ never' = ~never
  /\ UNCHANGED <<rem, jobs, op, held, req, confirmed, rebootConfirmed, executed>>

Next ==
  \/ Edit \/ ChangePolicy \/ Prepare
  \/ \E p \in Procs :
       \/ SendApproval(p) \/ SendReboot(p) \/ Handle(p)
       \/ EnsureCurrentPlan(p) \/ ApprovePlan(p)
       \/ ApproveReboot(p) \/ RejectPlan(p) \/ SaveExecutionState(p)
       \/ CheckGate(p) \/ Execute(p)

Spec == Init /\ [][Next]_vars

-----------------------------------------------------------------------------

(* Whatever was overwritten by unlocked saves, and however the plan was    *)
(* edited: what the gate let through to the executor is exactly a version  *)
(* and hash an operator sent to approve, and if it may reboot the host, a  *)
(* second request approved that for the very same hash.                    *)
ExecutedPlanWasConfirmed ==
  \A h \in executed :
    /\ h \in confirmed
    /\ h.content \in Risky => h \in rebootConfirmed

(* No job outlives the approval it was made for: a plan that runs has a    *)
(* job of its own, made when the plan was trusted.                         *)
JobWasConfirmed == executed \subseteq jobs /\ jobs \subseteq confirmed

=============================================================================
