---------------------------- MODULE CampaignProofs ----------------------------
(***************************************************************************)
(* For any number of hosts, proposals and overlapping windows: what the    *)
(* worker's gate lets through is a plan that an operator approved, of that *)
(* very host and proposal, and that has not changed since; and everything  *)
(* stays of its type.                                                      *)
(*                                                                         *)
(* For any number of hosts, but with one window at a time and one proposal *)
(* for each host: batches do not overlap, what was halted never starts,    *)
(* and no proposal is lost.                                                *)
(***************************************************************************)
EXTENDS Campaign, FiniteSetTheorems, TLAPS

USE DEF aside

RemediationsOK == rem \in [Hosts -> [Scans -> Remediations]]

(* An approval that still counts is one an operator gave.                  *)
ApprovalsAreGiven ==
  \A h \in Hosts, n \in Scans :
    ~rem[h][n].changed =>
      /\ rem[h][n].approval = "approved" => <<h, n, "plan">> \in confirmed
      /\ rem[h][n].reboot = "approved" => <<h, n, "reboot">> \in confirmed

IInv == RemediationsOK /\ ApprovalsAreGiven

(* A step that leaves the answers of the operators alone.                  *)
AnswersStand ==
  /\ RemediationsOK'
  /\ \A h \in Hosts, n \in Scans :
       /\ rem'[h][n].approval = rem[h][n].approval
       /\ rem'[h][n].reboot = rem[h][n].reboot
       /\ rem'[h][n].changed = rem[h][n].changed
  /\ confirmed' = confirmed

LEMMA StandingAnswers ==
  ASSUME IInv, AnswersStand
  PROVE  IInv'
BY DEF IInv, AnswersStand, ApprovalsAreGiven

ExecSet == DOMAIN ExecutionStates \cup {"not_started", "blocked"}

LEMMA ExecStates ==
  ExecSet = {"succeeded", "failed", "running", "queued", "waiting_for_window",
             "canceled", "not_started", "blocked"}
BY DEF ExecSet, ExecutionStates

(* r with another execution state.                                         *)
WithExec(r, state) == [r EXCEPT !.exec = state]

LEMMA ExecAlone ==
  ASSUME NEW r \in Remediations, NEW state \in ExecSet
  PROVE  /\ WithExec(r, state) \in Remediations
         /\ WithExec(r, state).approval = r.approval
         /\ WithExec(r, state).reboot = r.reboot
         /\ WithExec(r, state).changed = r.changed
BY DEF WithExec, Remediations, ExecSet

LEMMA ExecsStand ==
  ASSUME IInv, UNCHANGED confirmed, rem' = [h \in Hosts |-> rem'[h]],
         \A h \in Hosts :
           \/ rem'[h] = rem[h]
           \/ \E m : \E state \in ExecSet :
                rem'[h] = [rem[h] EXCEPT ![m] = WithExec(rem[h][m], state)]
  PROVE  AnswersStand
<1>1. ASSUME NEW h \in Hosts
      PROVE  /\ rem'[h] \in [Scans -> Remediations]
             /\ \A n \in Scans :
                  \/ rem'[h][n] = rem[h][n]
                  \/ \E state \in ExecSet : rem'[h][n] = WithExec(rem[h][n], state)
  <2>0. rem[h] \in [Scans -> Remediations]
    BY DEF IInv, RemediationsOK
  <2>1. CASE rem'[h] = rem[h]
    BY <2>0, <2>1
  <2>2. ASSUME NEW m, NEW state \in ExecSet,
               rem'[h] = [rem[h] EXCEPT ![m] = WithExec(rem[h][m], state)]
        PROVE  /\ rem'[h] \in [Scans -> Remediations]
               /\ \A n \in Scans :
                    \/ rem'[h][n] = rem[h][n]
                    \/ \E s \in ExecSet : rem'[h][n] = WithExec(rem[h][n], s)
    <3>1. CASE m \in Scans
      <4> DEFINE r == WithExec(rem[h][m], state)
      <4>1. r \in Remediations
        BY <2>0, <3>1, ExecAlone
      <4>2. rem'[h] = [rem[h] EXCEPT ![m] = r]
        BY <2>2
      <4>3. r = WithExec(rem[h][m], state)
        OBVIOUS
      <4> HIDE DEF r
      <4>4. rem'[h] \in [Scans -> Remediations]
        BY <2>0, <4>1, <4>2
      <4>5. \A n \in Scans : n # m => rem'[h][n] = rem[h][n]
        BY <2>0, <4>2
      <4>6. rem'[h][m] = WithExec(rem[h][m], state)
        BY <2>0, <3>1, <4>2, <4>3
      <4> QED
        BY <4>4, <4>5, <4>6
    <3>2. CASE m \notin Scans
      <4>1. rem'[h] = rem[h]
        BY <2>0, <2>2, <3>2
      <4> QED
        BY <2>0, <4>1
    <3> QED
      BY <3>1, <3>2
  <2> QED
    BY <2>1, <2>2
<1>2. RemediationsOK'
  BY <1>1 DEF RemediationsOK
<1>3. ASSUME NEW h \in Hosts, NEW n \in Scans
      PROVE  /\ rem'[h][n].approval = rem[h][n].approval
             /\ rem'[h][n].reboot = rem[h][n].reboot
             /\ rem'[h][n].changed = rem[h][n].changed
  <2>1. rem[h][n] \in Remediations
    BY DEF IInv, RemediationsOK
  <2> QED
    BY <1>1, <2>1, ExecAlone
<1> QED
  BY <1>2, <1>3 DEF AnswersStand

LEMMA ExecStands ==
  ASSUME IInv, NEW h \in Hosts, NEW n \in Scans, NEW state \in ExecSet,
         Exec(h, n, state), UNCHANGED confirmed
  PROVE  AnswersStand
<1>1. rem' = [rem EXCEPT ![h] = [rem[h] EXCEPT ![n] = WithExec(rem[h][n], state)]]
  BY DEF Exec, WithExec, IInv, RemediationsOK
<1>2. rem' = [k \in Hosts |-> rem'[k]]
  BY <1>1 DEF IInv, RemediationsOK
<1>3. \A k \in Hosts :
        \/ rem'[k] = rem[k]
        \/ rem'[k] = [rem[k] EXCEPT ![n] = WithExec(rem[k][n], state)]
  BY <1>1 DEF IInv, RemediationsOK
<1> QED
  BY <1>2, <1>3, ExecsStand

LEMMA CancelStands ==
  ASSUME IInv, NEW c, NEW hosts, CancelRemediations(c, hosts), UNCHANGED confirmed
  PROVE  AnswersStand
<1> DEFINE n(h) == c.host[h].rem
           Now(h) == /\ h \in hosts /\ n(h) # 0
                     /\ rem[h][n(h)].exec \in
                          {"not_started", "queued", "waiting_for_window"}
<1>1. rem' = [h \in Hosts |->
               IF Now(h)
               THEN [rem[h] EXCEPT ![n(h)] = WithExec(rem[h][n(h)], "canceled")]
               ELSE rem[h]]
  BY DEF CancelRemediations, WithExec
<1> HIDE DEF Now, n
<1>2. rem' = [h \in Hosts |-> rem'[h]]
  BY <1>1
<1>3. \A h \in Hosts :
        \/ rem'[h] = rem[h]
        \/ rem'[h] = [rem[h] EXCEPT ![n(h)] = WithExec(rem[h][n(h)], "canceled")]
  BY <1>1
<1>4. "canceled" \in ExecSet
  BY ExecStates
<1> QED
  BY <1>2, <1>3, <1>4, ExecsStand

(* Every step of a remediation's task leaves the answers alone.            *)
LEMMA TasksStand ==
  ASSUME IInv, NEW h \in Hosts, NEW n \in Scans, PatchTask(h, n)
  PROVE  AnswersStand
<1>0. ASSUME UNCHANGED <<rem, confirmed>> PROVE AnswersStand
  BY <1>0 DEF IInv, RemediationsOK, AnswersStand
<1>1. CASE ClaimPatch(h, n) \/ FailPatch(h, n) \/ ReadQueued(h, n)
           \/ ListScheduled(h, n) \/ PassRelease(h, n)
           \/ \E p \in Procs : Defer(p, h, n) \/ Release(p, h, n)
  BY <1>0, <1>1 DEF ClaimPatch, FailPatch, ReadQueued, ListScheduled, PassRelease,
                    Defer, Release
<1>2. ASSUME NEW p \in Procs, GatePatch(p, h, n) PROVE AnswersStand
  BY <1>2, ExecStands, ExecStates DEF GatePatch
<1>3. ASSUME NEW p \in Procs, DropCanceled(p, h, n) PROVE AnswersStand
  BY <1>3, ExecStands, ExecStates DEF DropCanceled
<1>4. ASSUME NEW p \in Procs, RefuseRelease(p, h, n) PROVE AnswersStand
  BY <1>0, <1>4, ExecStands, ExecStates DEF RefuseRelease
<1>5. ASSUME NEW p \in Procs, Succeed(p, h, n) PROVE AnswersStand
  BY <1>5, ExecStands, ExecStates DEF Succeed
<1>6. ASSUME NEW p \in Procs, HandleFailure(p, h, n) PROVE AnswersStand
  BY <1>6, ExecStands, ExecStates DEF HandleFailure
<1>7. ASSUME NEW p \in Procs, RecoverLost(p, h, n) PROVE AnswersStand
  BY <1>7, ExecStands, ExecStates DEF RecoverLost
<1>8. CASE ExhaustLost(h, n)
  BY <1>8, ExecStands, ExecStates DEF ExhaustLost
<1> QED
  BY <1>1, <1>2, <1>3, <1>4, <1>5, <1>6, <1>7, <1>8 DEF PatchTask

(* r as a scan proposes it.                                                *)
WithBatch(r, size) == [r EXCEPT !.made = TRUE, !.batch = size]

LEMMA BatchAlone ==
  ASSUME NEW r \in Remediations, NEW size \in Nat \ {0}
  PROVE  /\ WithBatch(r, size) \in Remediations
         /\ WithBatch(r, size).approval = r.approval
         /\ WithBatch(r, size).reboot = r.reboot
         /\ WithBatch(r, size).changed = r.changed
BY DEF WithBatch, Remediations

LEMMA ScansStand ==
  ASSUME IInv, NEW h \in Hosts, NEW n \in Scans, ScanTask(h, n)
  PROVE  AnswersStand
<1>0. ASSUME UNCHANGED <<rem, confirmed>> PROVE AnswersStand
  BY <1>0 DEF IInv, RemediationsOK, AnswersStand
<1>1. CASE ClaimScan(h, n) \/ \E p \in Procs : ReadForMark(p, h, n) \/ ReadForTell(p, h, n)
  BY <1>0, <1>1 DEF ClaimScan, ReadForMark, ReadForTell
<1>2. CASE EndScan(h, n)
  <2>0. confirmed' = confirmed
    BY <1>2 DEF EndScan
  <2>1. CASE UNCHANGED rem
    BY <1>0, <2>0, <2>1
  <2>2. ASSUME NEW size \in {1, MaxBatch},
               rem' = [rem EXCEPT ![h][n].made = TRUE, ![h][n].batch = size]
        PROVE  AnswersStand
    <3>1. size \in Nat \ {0}
      BY RulesAssumption
    <3> DEFINE found == WithBatch(rem[h][n], size)
    <3>2. found \in Remediations /\ found.approval = rem[h][n].approval
          /\ found.reboot = rem[h][n].reboot /\ found.changed = rem[h][n].changed
      BY <3>1, BatchAlone DEF IInv, RemediationsOK
    <3>3. rem' = [rem EXCEPT ![h] = [rem[h] EXCEPT ![n] = found]]
      BY <2>2 DEF WithBatch, IInv, RemediationsOK
    <3> HIDE DEF found
    <3> QED
      BY <2>0, <3>2, <3>3 DEF AnswersStand, IInv, RemediationsOK
  <2> QED
    BY <1>2, <2>1, <2>2 DEF EndScan
<1> QED
  BY <1>1, <1>2 DEF ScanTask

(* The steps of a window other than an answer.                             *)
LEMMA WindowsStand ==
  ASSUME IInv, NEW p \in Procs,
         \/ ReadCampaign(p) \/ SyncCampaign(p) \/ Request(p) \/ QueueProposals(p)
         \/ CancelCampaign(p) \/ StopRemaining(p) \/ MarkRunning(p) \/ TellCampaign(p)
  PROVE  AnswersStand
<1>0. ASSUME UNCHANGED <<rem, confirmed>> PROVE AnswersStand
  BY <1>0 DEF IInv, RemediationsOK, AnswersStand
<1>1. CASE ReadCampaign(p)
  BY <1>0, <1>1 DEF ReadCampaign
<1>2. CASE SyncCampaign(p)
  BY <1>0, <1>2 DEF SyncCampaign
<1>3. CASE Request(p)
  BY <1>0, <1>3 DEF Request
<1>4. CASE QueueProposals(p)
  BY <1>0, <1>4 DEF QueueProposals
<1>5. CASE CancelCampaign(p)
  BY <1>5, CancelStands DEF CancelCampaign
<1>6. CASE StopRemaining(p)
  BY <1>6, CancelStands DEF StopRemaining
<1>7. CASE MarkRunning(p)
  BY <1>0, <1>7 DEF MarkRunning
<1>8. CASE TellCampaign(p)
  BY <1>0, <1>8 DEF TellCampaign
<1> QED
  BY <1>1, <1>2, <1>3, <1>4, <1>5, <1>6, <1>7, <1>8

(* The jobs of a batch are made for the plans as they were answered.       *)
LEMMA BatchStands ==
  ASSUME IInv, NEW p \in Procs, ExecuteBatch(p)
  PROVE  AnswersStand
<1> DEFINE n(h) == Project(camp, rem, patch).host[h].rem
<1>1. confirmed' = confirmed
  BY DEF ExecuteBatch
<1>2. PICK taken, times : AwaitExecution(Project(camp, rem, patch), taken, times)
  BY Zenon DEF ExecuteBatch
<1> DEFINE state(h) == WaitingExec(times[h])
<1>3. rem' = [h \in Hosts |->
               IF h \in taken /\ patch[h][n(h)].status = "none"
               THEN [rem[h] EXCEPT ![n(h)] = WithExec(rem[h][n(h)], state(h))]
               ELSE rem[h]]
  BY <1>2 DEF AwaitExecution, WithExec
<1>4. \A h \in Hosts : state(h) \in ExecSet
  BY ExecStates DEF WaitingExec
<1> HIDE DEF n, state
<1>5. rem' = [h \in Hosts |-> rem'[h]]
  BY <1>3
<1>6. \A h \in Hosts :
        \/ rem'[h] = rem[h]
        \/ rem'[h] = [rem[h] EXCEPT ![n(h)] = WithExec(rem[h][n(h)], state(h))]
  BY <1>3
<1> QED
  BY <1>1, <1>4, <1>5, <1>6, ExecsStand

-----------------------------------------------------------------------------
(* What an operator answers is recorded, and dropped with the plan.        *)

LEMMA AnswersAreGiven ==
  ASSUME IInv, NEW p \in Procs, AnswerHost(p)
  PROVE  IInv'
<1> DEFINE w == win[p]
           h == w.host
           n == w.held.host[h].rem
           r == Answered(w.op, h, rem[h][n])
<1> HIDE DEF w, h, n
<1>1. CASE n = 0
  <2>1. UNCHANGED <<rem, confirmed>>
    BY <1>1 DEF AnswerHost, w, h, n
  <2> QED
    BY <2>1 DEF IInv, RemediationsOK, ApprovalsAreGiven
<1>2. CASE n # 0
  <2>1. /\ w.op \in {"approve_synced", "reboot_synced", "reject_synced"}
        /\ rem' = [rem EXCEPT ![h][n] = r]
        /\ confirmed' = confirmed \cup
             (IF r = rem[h][n] \/ w.op = "reject_synced" THEN {}
              ELSE {<<h, n, IF w.op = "approve_synced" THEN "plan" ELSE "reboot">>})
    BY <1>2 DEF AnswerHost, w, h, n
  <2>2. CASE h \notin Hosts \/ n \notin Scans
    <3>1. rem' = rem
      BY <2>1, <2>2 DEF IInv, RemediationsOK
    <3> QED
      BY <2>1, <3>1 DEF IInv, RemediationsOK, ApprovalsAreGiven
  <2>3. CASE h \in Hosts /\ n \in Scans
    <3>0. rem[h][n] \in Remediations
      BY <2>3 DEF IInv, RemediationsOK
    <3>1. r \in Remediations
      BY <2>1, <3>0, ExecStates DEF Answered, Remediations, ExecSet
    <3>2. /\ r.changed = rem[h][n].changed
          /\ r.approval = "approved" =>
               \/ rem[h][n].approval = "approved"
               \/ r # rem[h][n] /\ w.op = "approve_synced"
          /\ r.reboot = "approved" =>
               \/ rem[h][n].reboot = "approved"
               \/ r # rem[h][n] /\ w.op = "reboot_synced"
      BY <2>1, <3>0 DEF Answered, Remediations
    <3> HIDE DEF r
    <3>3. rem' = [rem EXCEPT ![h] = [rem[h] EXCEPT ![n] = r]]
      BY <2>1, <2>3 DEF IInv, RemediationsOK
    <3>4. RemediationsOK'
      BY <3>1, <3>3 DEF IInv, RemediationsOK
    <3>5. confirmed \subseteq confirmed'
      BY <2>1
    <3>6. ASSUME ~rem'[h][n].changed
          PROVE  /\ rem'[h][n].approval = "approved" => <<h, n, "plan">> \in confirmed'
                 /\ rem'[h][n].reboot = "approved" => <<h, n, "reboot">> \in confirmed'
      <4>1. rem'[h][n] = r
        BY <2>3, <3>3 DEF IInv, RemediationsOK
      <4> QED
        BY <2>1, <2>3, <3>2, <3>5, <3>6, <4>1 DEF IInv, ApprovalsAreGiven
    <3>7. ASSUME NEW k \in Hosts, NEW m \in Scans, k # h \/ m # n
          PROVE  rem'[k][m] = rem[k][m]
      BY <3>3, <3>7 DEF IInv, RemediationsOK
    <3>8. ApprovalsAreGiven'
      BY <2>3, <3>5, <3>6, <3>7 DEF IInv, ApprovalsAreGiven
    <3> QED
      BY <3>4, <3>8 DEF IInv
  <2> QED
    BY <2>2, <2>3
<1> QED
  BY <1>1, <1>2

LEMMA ChangeDropsAnswers ==
  ASSUME IInv, NEW h \in Hosts, NEW n \in Scans, ChangePlan(h, n)
  PROVE  IInv'
<1> DEFINE reboot == IF h \in Risky THEN "pending" ELSE "not_required"
           exec == IF rem[h][n].exec \in {"running", "succeeded", "failed"}
                   THEN rem[h][n].exec ELSE "blocked"
           r == [rem[h][n] EXCEPT !.changed = TRUE, !.approval = "pending",
                                  !.reboot = reboot, !.exec = exec]
<1>0. rem[h][n] \in Remediations
  BY DEF IInv, RemediationsOK
<1>1. exec \in ExecSet
  BY <1>0, ExecStates DEF Remediations, ExecSet
<1>2. reboot \in {"pending", "not_required"}
  OBVIOUS
<1>3. /\ rem' = [rem EXCEPT ![h][n] = r]
      /\ confirmed' = confirmed \ {<<h, n, "plan">>, <<h, n, "reboot">>}
  BY DEF ChangePlan
<1> HIDE DEF exec, reboot
<1>4. r \in Remediations /\ r.changed
  BY <1>0, <1>1, <1>2 DEF Remediations, ExecSet
<1> HIDE DEF r
<1>5. rem' = [rem EXCEPT ![h] = [rem[h] EXCEPT ![n] = r]]
  BY <1>3 DEF IInv, RemediationsOK
<1>6. RemediationsOK'
  BY <1>4, <1>5 DEF IInv, RemediationsOK
<1>7. ASSUME NEW k \in Hosts, NEW m \in Scans
      PROVE  \/ k = h /\ m = n /\ rem'[k][m].changed
             \/ (k # h \/ m # n) /\ rem'[k][m] = rem[k][m]
  BY <1>4, <1>5 DEF IInv, RemediationsOK
<1>8. ASSUME NEW k \in Hosts, NEW m \in Scans, k # h \/ m # n
      PROVE  \A what \in {"plan", "reboot"} :
               <<k, m, what>> \in confirmed => <<k, m, what>> \in confirmed'
  BY <1>3, <1>8
<1>9. ApprovalsAreGiven'
  BY <1>7, <1>8 DEF IInv, ApprovalsAreGiven
<1> QED
  BY <1>6, <1>9 DEF IInv

-----------------------------------------------------------------------------

LEMMA InitGiven == Init => IInv
BY ExecStates, RulesAssumption
   DEF Init, IInv, RemediationsOK, ApprovalsAreGiven, NoRemediation, Remediations,
       ExecSet

LEMMA StepGiven == IInv /\ [Next]_vars => IInv'
<1> SUFFICES ASSUME IInv, [Next]_vars PROVE IInv'
  OBVIOUS
<1>1. ASSUME NEW h \in Hosts, NEW n \in Scans,
             ScanTask(h, n) \/ PatchTask(h, n) \/ ChangePlan(h, n)
      PROVE  IInv'
  BY <1>1, ScansStand, TasksStand, StandingAnswers, ChangeDropsAnswers
<1>2. ASSUME NEW p \in Procs,
             \/ ReadCampaign(p) \/ SyncCampaign(p) \/ Request(p)
             \/ QueueProposals(p) \/ AnswerHost(p)
             \/ ExecuteBatch(p) \/ CancelCampaign(p) \/ StopRemaining(p)
             \/ MarkRunning(p) \/ TellCampaign(p)
      PROVE  IInv'
  BY <1>2, WindowsStand, BatchStands, StandingAnswers, AnswersAreGiven
<1>3. CASE UNCHANGED vars
  BY <1>3 DEF vars, IInv, RemediationsOK, ApprovalsAreGiven
<1> QED
  BY <1>1, <1>2, <1>3 DEF Next

(* The approvals that are stored and still count were given by an operator *)
(* for that host and proposal, through every projection, batch, retry and  *)
(* plan change.                                                            *)
THEOREM InductiveInvariant == Spec => []IInv
<1> QED
  BY InitGiven, StepGiven, PTL DEF Spec

(* process_remediation's gate starts only what an operator approved for    *)
(* that host since its plan last changed, and a risky host only with its   *)
(* reboot approved as well.                                                *)
THEOREM StartsAreConfirmed == Spec => StartIsConfirmed
<1> DEFINE Good == \A s \in started' \ started :
                     /\ <<s[1], s[2], "plan">> \in confirmed
                     /\ s[1] \in Risky => <<s[1], s[2], "reboot">> \in confirmed
<1>1. ASSUME IInv, NEW p \in Procs, NEW h \in Hosts, NEW n \in Scans,
             GatePatch(p, h, n)
      PROVE  Good
  <2>1. CASE Eligible(h, n)
    <3>1. started' = started \cup {<<h, n>>}
      BY <1>1, <2>1 DEF GatePatch
    <3>2. /\ <<h, n, "plan">> \in confirmed
          /\ h \in Risky => <<h, n, "reboot">> \in confirmed
      BY <1>1, <2>1 DEF Eligible, IInv, ApprovalsAreGiven
    <3> QED
      BY <3>1, <3>2
  <2>2. CASE ~Eligible(h, n)
    BY <1>1, <2>2 DEF GatePatch
  <2> QED
    BY <2>1, <2>2
<1>2. ASSUME UNCHANGED started
      PROVE  Good
  BY <1>2
<1>3. ASSUME NEW h \in Hosts, NEW n \in Scans, PatchTask(h, n), IInv
      PROVE  Good
  BY <1>1, <1>2, <1>3
     DEF PatchTask, ClaimPatch, FailPatch, ExhaustLost, DropCanceled, ReadQueued,
         Defer, ListScheduled, RefuseRelease, PassRelease, Release, Succeed,
         HandleFailure, RecoverLost
<1>4. ASSUME NEW h \in Hosts, NEW n \in Scans, ScanTask(h, n) \/ ChangePlan(h, n)
      PROVE  Good
  BY <1>2, <1>4 DEF ScanTask, ClaimScan, EndScan, ReadForMark, ReadForTell,
                    ChangePlan
<1>5. ASSUME NEW p \in Procs,
             \/ ReadCampaign(p) \/ SyncCampaign(p) \/ Request(p)
             \/ QueueProposals(p) \/ AnswerHost(p)
             \/ ExecuteBatch(p) \/ CancelCampaign(p) \/ StopRemaining(p)
             \/ MarkRunning(p) \/ TellCampaign(p)
      PROVE  Good
  BY <1>2, <1>5 DEF ReadCampaign, SyncCampaign, Request, QueueProposals,
                    AnswerHost, ExecuteBatch, CancelCampaign, StopRemaining,
                    MarkRunning, TellCampaign
<1>6. ASSUME UNCHANGED vars
      PROVE  Good
  BY <1>2, <1>6 DEF vars
<1> HIDE DEF Good
<1>7. ASSUME IInv, [Next]_vars
      PROVE  Good
  BY <1>3, <1>4, <1>5, <1>6, <1>7 DEF Next
<1>8. Spec => [][Good]_vars
  BY <1>7, InductiveInvariant, PTL DEF Spec
<1> QED
  BY <1>8 DEF Good, StartIsConfirmed

LEMMA LeastNatural ==
  ASSUME NEW S \in SUBSET Nat, S # {}
  PROVE  /\ Min(S) \in S
         /\ \A y \in S : Min(S) <= y
<1> DEFINE R == {p \in Nat \X Nat : p[1] < p[2]}
<1>1. IsWellFoundedOn(R, Nat)
  BY NatLessThanWellFounded, Zenon DEF OpToRel
<1> HIDE DEF R
<1>2. PICK x \in S : \A y \in S : <<y, x>> \notin R
  BY <1>1, WFMin
<1>3. ASSUME NEW y \in S
      PROVE  x <= y
  <2> DEFINE pair == <<y, x>>
  <2>1. pair \in Nat \X Nat /\ pair[1] = y /\ pair[2] = x
    OBVIOUS
  <2>2. ~ (pair[1] < pair[2])
    BY <1>2, <2>1, Zenon DEF R
  <2> QED
    BY <2>1, <2>2
<1> QED
  BY <1>3, Zenon DEF Min

LEMMA GreatestOfTwo ==
  ASSUME NEW a \in Nat, NEW b \in Nat
  PROVE  Max({a, b}) \in Nat
<1>1. \E x \in {a, b} : \A y \in {a, b} : x >= y
  OBVIOUS
<1>2. Max({a, b}) \in {a, b}
  BY <1>1, Zenon DEF Max
<1> QED
  BY <1>2

-----------------------------------------------------------------------------
(* Types of the campaign's rules.                                          *)

JobsOK == patch \in [Hosts -> [Scans -> PatchJobs]]

Rows == [state : HostStates, rem : 0 .. MaxScans, job : NoJob .. PatchJob]

LEMMA ScanRange ==
  /\ Scans \subseteq Nat /\ 0 \notin Scans /\ Scans \subseteq 0 .. MaxScans
  /\ \A n \in 0 .. MaxScans : n # 0 => n \in Scans
  /\ NoJob = 0 /\ PatchJob = MaxScans + 1 /\ PatchJob \notin Scans
  /\ \A n \in Scans : n \in NoJob .. PatchJob
  /\ NoJob \in NoJob .. PatchJob /\ PatchJob \in NoJob .. PatchJob
  /\ NoJob \notin Scans /\ NoJob # PatchJob
BY RulesAssumption DEF Scans, NoJob, PatchJob

LEMMA HostsCount ==
  ASSUME NEW S \in SUBSET Hosts
  PROVE  IsFiniteSet(S) /\ Cardinality(S) \in Nat
BY RulesAssumption, FS_Subset, FS_CardinalityType

LEMMA BatchesType ==
  ASSUME NEW n \in Nat, NEW size \in Nat \ {0}
  PROVE  Batches(n, size) \in Nat
<1>1. n + size - 1 \in Nat
  OBVIOUS
<1> QED
  BY <1>1 DEF Batches

(* A campaign with other rows.                                             *)
LEMMA NewRows ==
  ASSUME NEW c \in Campaigns, NEW rows \in [Hosts -> Rows]
  PROVE  /\ [c EXCEPT !.host = rows] \in Campaigns
         /\ [c EXCEPT !.host = rows].host = rows
         /\ [c EXCEPT !.host = rows].canceled = c.canceled
         /\ [c EXCEPT !.host = rows].size = c.size
BY DEF Campaigns, Rows

(* What _campaign_host_state answers is a state of a host, and never one   *)
(* of a host that waits for its proposal.                                  *)
LEMMA HostStateType ==
  ASSUME NEW row, NEW r \in Remediations, NEW job
  PROVE  HostState(row, r, job) \in HostStates \ (Proposing \cup {"selected", "no_action"})
BY ExecStates DEF HostState, HostStates, Proposing, Remediations, ExecutionStates

(* The job the projection looks at.                                        *)
BoundJob(c, h) ==
  IF c.host[h].job = PatchJob THEN patch[h][c.host[h].rem].status ELSE "none"

(* The projection changes states of hosts with a proposal, the status and  *)
(* the batch, and nothing else.                                            *)
LEMMA Projection ==
  ASSUME RemediationsOK, NEW c \in Campaigns
  PROVE  /\ Project(c, rem, patch) \in Campaigns
         /\ Project(c, rem, patch).canceled = c.canceled
         /\ Project(c, rem, patch).size = c.size
         /\ \A h \in Hosts :
              /\ Project(c, rem, patch).host[h].rem = c.host[h].rem
              /\ Project(c, rem, patch).host[h].job = c.host[h].job
              /\ Project(c, rem, patch).host[h].state =
                   IF c.host[h].rem = 0 THEN c.host[h].state
                   ELSE HostState(c.host[h], rem[h][c.host[h].rem], BoundJob(c, h))
<1> DEFINE Row(h) == IF c.host[h].rem = 0 THEN c.host[h]
                     ELSE [c.host[h] EXCEPT !.state =
                             HostState(c.host[h], rem[h][c.host[h].rem], BoundJob(c, h))]
           rows == [h \in Hosts |-> Row(h)]
           moved == [c EXCEPT !.host = rows]
           done == Batches(Cardinality(HostsIn(moved, Completed)), c.size)
           batch == Min({TotalBatches(c), Max({moved.batch, done})})
<1>1. Project(c, rem, patch) =
        [moved EXCEPT !.status = ProjectedStatus(moved),
                      !.batch = Min({TotalBatches(c), Max({c.batch, done})})]
  BY Zenon DEF Project, BoundJob
<1>2. ASSUME NEW h \in Hosts
      PROVE  /\ Row(h) \in Rows
             /\ Row(h).rem = c.host[h].rem /\ Row(h).job = c.host[h].job
             /\ Row(h).state =
                  IF c.host[h].rem = 0 THEN c.host[h].state
                  ELSE HostState(c.host[h], rem[h][c.host[h].rem], BoundJob(c, h))
  <2>1. c.host[h] \in Rows
    BY DEF Campaigns, Rows
  <2>2. CASE c.host[h].rem = 0
    BY <2>1, <2>2
  <2>3. CASE c.host[h].rem # 0
    <3> DEFINE state == HostState(c.host[h], rem[h][c.host[h].rem], BoundJob(c, h))
    <3>1. rem[h][c.host[h].rem] \in Remediations
      BY <2>1, <2>3, ScanRange DEF RemediationsOK, Rows
    <3>2. state \in HostStates
      BY <3>1, HostStateType
    <3> HIDE DEF state
    <3>3. Row(h) = [c.host[h] EXCEPT !.state = state]
      BY <2>3 DEF state
    <3> QED
      BY <2>1, <2>3, <3>2, <3>3 DEF Rows, state
  <2> QED
    BY <2>2, <2>3
<1> HIDE DEF Row
<1>3. rows \in [Hosts -> Rows]
  BY <1>2
<1> HIDE DEF rows
<1>4. moved \in Campaigns /\ moved.host = rows /\ moved.canceled = c.canceled
      /\ moved.size = c.size /\ moved.batch = c.batch
  BY <1>3, NewRows DEF Campaigns
<1> HIDE DEF moved
<1>5. ProjectedStatus(moved) \in CampaignStatuses
  BY DEF ProjectedStatus, SettledStatus, CampaignStatuses
<1>6. batch \in Nat
  <2>1. Cardinality(HostsIn(moved, Completed)) \in Nat /\ Cardinality(Hosts) \in Nat
    BY HostsCount DEF HostsIn
  <2>2. c.size \in Nat \ {0} /\ moved.batch \in Nat
    BY <1>4 DEF Campaigns
  <2>3. done \in Nat /\ TotalBatches(c) \in Nat
    BY <2>1, <2>2, BatchesType DEF TotalBatches
  <2> HIDE DEF done
  <2>4. {TotalBatches(c), Max({moved.batch, done})} \in SUBSET Nat
    BY <2>2, <2>3, GreatestOfTwo
  <2> QED
    BY <2>4, LeastNatural
<1> HIDE DEF batch, done
<1>7. Project(c, rem, patch) =
        [moved EXCEPT !.status = ProjectedStatus(moved), !.batch = batch]
  BY <1>1, <1>4 DEF batch
<1>8. /\ Project(c, rem, patch) \in Campaigns
      /\ Project(c, rem, patch).host = rows
      /\ Project(c, rem, patch).canceled = c.canceled
      /\ Project(c, rem, patch).size = c.size
  BY <1>4, <1>5, <1>6, <1>7 DEF Campaigns
<1>9. \A h \in Hosts : rows[h] = Row(h)
  BY DEF rows
<1> QED
  BY <1>2, <1>8, <1>9

(* The rows of some hosts in another state.                                *)
LEMMA StatesType ==
  ASSUME NEW c \in Campaigns, NEW running, NEW canceled
  PROVE  /\ WithStates(c, running, canceled) \in Campaigns
         /\ WithStates(c, running, canceled).canceled = c.canceled
         /\ WithStates(c, running, canceled).size = c.size
         /\ \A h \in Hosts :
              /\ WithStates(c, running, canceled).host[h].rem = c.host[h].rem
              /\ WithStates(c, running, canceled).host[h].job = c.host[h].job
              /\ WithStates(c, running, canceled).host[h].state =
                   IF h \in running THEN "running"
                   ELSE IF h \in canceled THEN "canceled" ELSE c.host[h].state
<1> DEFINE Row(h) == IF h \in running THEN [c.host[h] EXCEPT !.state = "running"]
                     ELSE IF h \in canceled THEN [c.host[h] EXCEPT !.state = "canceled"]
                     ELSE c.host[h]
           rows == [h \in Hosts |-> Row(h)]
<1>1. WithStates(c, running, canceled) = [c EXCEPT !.host = rows]
  BY Zenon DEF WithStates
<1>2. ASSUME NEW h \in Hosts
      PROVE  /\ Row(h) \in Rows
             /\ Row(h).rem = c.host[h].rem /\ Row(h).job = c.host[h].job
             /\ Row(h).state = IF h \in running THEN "running"
                               ELSE IF h \in canceled THEN "canceled" ELSE c.host[h].state
  <2>1. c.host[h] \in Rows
    BY DEF Campaigns, Rows
  <2> QED
    BY <2>1 DEF Rows, HostStates
<1> HIDE DEF Row
<1>3. rows \in [Hosts -> Rows] /\ \A h \in Hosts : rows[h] = Row(h)
  BY <1>2
<1> HIDE DEF rows
<1> QED
  BY <1>1, <1>2, <1>3, NewRows

(* A batch that starts.                                                    *)
LEMMA StartType ==
  ASSUME NEW c \in Campaigns, NEW jobs
  PROVE  /\ StartBatch(c, jobs) \in Campaigns
         /\ StartBatch(c, jobs).canceled = c.canceled
         /\ StartBatch(c, jobs).size = c.size
         /\ \A h \in Hosts :
              /\ StartBatch(c, jobs).host[h].rem = c.host[h].rem
              /\ StartBatch(c, jobs).host[h].job =
                   IF h \in DOMAIN jobs THEN PatchJob ELSE c.host[h].job
              /\ StartBatch(c, jobs).host[h].state \in
                   IF h \in DOMAIN jobs THEN {"queued", "scheduled"} ELSE {c.host[h].state}
<1> DEFINE Row(h) == IF h \in DOMAIN jobs
                     THEN [c.host[h] EXCEPT !.job = PatchJob,
                             !.state = IF jobs[h] = "queued" THEN "queued" ELSE "scheduled"]
                     ELSE c.host[h]
           rows == [h \in Hosts |-> Row(h)]
           moved == [c EXCEPT !.host = rows]
           batch == Min({TotalBatches(c), c.batch + 1})
<1>1. StartBatch(c, jobs) =
        [c EXCEPT !.status = "running", !.batch = batch, !.host = rows]
  BY Zenon DEF StartBatch
<1>2. ASSUME NEW h \in Hosts
      PROVE  /\ Row(h) \in Rows
             /\ Row(h).rem = c.host[h].rem
             /\ Row(h).job = IF h \in DOMAIN jobs THEN PatchJob ELSE c.host[h].job
             /\ Row(h).state \in
                  IF h \in DOMAIN jobs THEN {"queued", "scheduled"} ELSE {c.host[h].state}
  <2>1. c.host[h] \in Rows
    BY DEF Campaigns, Rows
  <2>2. CASE h \in DOMAIN jobs
    <3> DEFINE state == IF jobs[h] = "queued" THEN "queued" ELSE "scheduled"
    <3>1. state \in {"queued", "scheduled"} /\ state \in HostStates
      BY DEF HostStates
    <3> HIDE DEF state
    <3>2. Row(h) = [c.host[h] EXCEPT !.job = PatchJob, !.state = state]
      BY <2>2 DEF state
    <3> QED
      BY <2>1, <2>2, <3>1, <3>2, ScanRange DEF Rows
  <2>3. CASE h \notin DOMAIN jobs
    BY <2>1, <2>3
  <2> QED
    BY <2>2, <2>3
<1> HIDE DEF Row
<1>3. rows \in [Hosts -> Rows] /\ \A h \in Hosts : rows[h] = Row(h)
  BY <1>2
<1> HIDE DEF rows
<1>4. batch \in Nat
  <2>1. c.batch + 1 \in Nat /\ c.size \in Nat \ {0}
    BY DEF Campaigns
  <2>2. TotalBatches(c) \in Nat
    BY <2>1, HostsCount, BatchesType DEF TotalBatches
  <2> QED
    BY <2>1, <2>2, LeastNatural
<1> HIDE DEF batch
<1>5. /\ StartBatch(c, jobs) \in Campaigns /\ StartBatch(c, jobs).host = rows
      /\ StartBatch(c, jobs).canceled = c.canceled /\ StartBatch(c, jobs).size = c.size
  BY <1>1, <1>3, <1>4 DEF Campaigns, Rows, CampaignStatuses
<1> QED
  BY <1>2, <1>3, <1>5

(* One row in another state.                                               *)
LEMMA RowType ==
  ASSUME NEW c \in Campaigns, NEW h \in Hosts, NEW row \in Rows
  PROVE  /\ [c EXCEPT !.host[h] = row] \in Campaigns
         /\ [c EXCEPT !.host[h] = row].canceled = c.canceled
         /\ [c EXCEPT !.host[h] = row].host = [c.host EXCEPT ![h] = row]
BY DEF Campaigns, Rows

(* What the end of a scan makes of the campaign.                           *)
LEMMA ToldType ==
  ASSUME RemediationsOK, NEW c \in Campaigns, NEW h \in Hosts, NEW n \in Scans
  PROVE  /\ Told(c, h, n) \in Campaigns
         /\ Told(c, h, n).canceled = c.canceled
         /\ \A k \in Hosts : k # h => Told(c, h, n).host[k] = c.host[k]
         /\ Told(c, h, n).host[h].state \in {"awaiting_approval", "no_action", "failed"}
         /\ Told(c, h, n).host[h].rem = IF scan[h][n] = "found" THEN n ELSE c.host[h].rem
<1>0. c.host \in [Hosts -> Rows] /\ c.host[h] \in Rows
  BY DEF Campaigns, Rows
<1>1. CASE scan[h][n] = "found"
  <2> DEFINE bound == {rem[k][c.host[k].rem] : k \in {x \in Hosts : c.host[x].rem # 0}}
             size == RolloutLimit(bound \cup {rem[h][n]})
             row == [state |-> "awaiting_approval", rem |-> n, job |-> NoJob]
  <2>1. Told(c, h, n) = [c EXCEPT !.host[h] = row, !.size = size]
    BY <1>1 DEF Told, Attached
  <2>2. size \in Nat \ {0}
    <3> DEFINE sizes == {MaxBatch} \cup {r.batch : r \in bound \cup {rem[h][n]}}
    <3>1. ASSUME NEW k \in Hosts, c.host[k].rem # 0
          PROVE  rem[k][c.host[k].rem].batch \in Nat \ {0}
      BY <1>0, <3>1, ScanRange DEF RemediationsOK, Remediations, Rows
    <3>2. rem[h][n].batch \in Nat \ {0}
      BY DEF RemediationsOK, Remediations
    <3>3. sizes \in SUBSET (Nat \ {0})
      BY <3>1, <3>2, RulesAssumption
    <3> HIDE DEF sizes
    <3>4. sizes # {}
      BY DEF sizes
    <3>5. Min(sizes) \in sizes
      BY <3>3, <3>4, LeastNatural
    <3> QED
      BY <3>3, <3>5 DEF RolloutLimit, sizes
  <2> HIDE DEF size
  <2>3. row \in Rows
    BY ScanRange DEF Rows, HostStates
  <2>4. row.state = "awaiting_approval" /\ row.rem = n
    OBVIOUS
  <2> HIDE DEF row
  <2> DEFINE told == [c EXCEPT !.host[h] = row, !.size = size]
  <2>5. told \in Campaigns /\ told.canceled = c.canceled
        /\ told.host = [c.host EXCEPT ![h] = row]
    BY <1>0, <2>2, <2>3 DEF Campaigns, Rows
  <2> HIDE DEF told
  <2>6. Told(c, h, n) = told
    BY <2>1 DEF told
  <2> QED
    BY <1>0, <1>1, <2>4, <2>5, <2>6
<1>2. CASE scan[h][n] = "empty"
  <2> DEFINE row == [c.host[h] EXCEPT !.state = "no_action", !.job = NoJob]
  <2>1. Told(c, h, n) = [c EXCEPT !.host[h] = row]
    BY <1>2 DEF Told, Campaigns
  <2>2. row \in Rows /\ row.state = "no_action" /\ row.rem = c.host[h].rem
    BY <1>0, ScanRange DEF Rows, HostStates
  <2> HIDE DEF row
  <2> QED
    BY <1>0, <1>2, <2>1, <2>2, RowType
<1>3. CASE scan[h][n] \notin {"found", "empty"}
  <2> DEFINE row == [c.host[h] EXCEPT !.state = "failed"]
  <2>1. Told(c, h, n) = [c EXCEPT !.host[h] = row]
    BY <1>3 DEF Told, Campaigns
  <2>2. row \in Rows /\ row.state = "failed" /\ row.rem = c.host[h].rem
    BY <1>0 DEF Rows, HostStates
  <2> HIDE DEF row
  <2> QED
    BY <1>0, <1>3, <2>1, <2>2, RowType
<1> QED
  BY <1>1, <1>2, <1>3

-----------------------------------------------------------------------------
(* Types of the variables.                                                 *)

CampOK == camp \in Campaigns
ScansOK == scan \in [Hosts -> [Scans -> ScanStates]]
WindowsOK == win \in [Procs -> Windows]
HistoryOK ==
  /\ confirmed \subseteq Hosts \X Scans \X {"plan", "reboot"}
  /\ started \subseteq Hosts \X Scans /\ halted \subseteq Hosts \X Scans
  /\ stage \in [Hosts -> [Scans -> Stages]] /\ revived \subseteq Hosts \X Scans

LEMMA TypesAre ==
  /\ TypeOK <=> /\ CampOK /\ ScansOK /\ RemediationsOK /\ JobsOK
                /\ WindowsOK /\ HistoryOK
  /\ TypeOK' <=> /\ CampOK' /\ ScansOK' /\ RemediationsOK' /\ JobsOK'
                 /\ WindowsOK' /\ HistoryOK'
BY DEF TypeOK, CampOK, ScansOK, RemediationsOK, JobsOK, WindowsOK, HistoryOK

LEMMA DraftType == Draft \in Campaigns /\ NoWindow \in Windows
<1>1. Draft.host \in [Hosts -> Rows]
  BY ScanRange, RulesAssumption DEF Draft, Rows, HostStates
<1>2. Draft \in Campaigns
  BY <1>1, RulesAssumption DEF Draft, Campaigns, Rows, CampaignStatuses
<1> QED
  BY <1>2, RulesAssumption DEF NoWindow, Windows, Ops

LEMMA WindowType ==
  ASSUME WindowsOK, NEW p \in Procs, NEW w \in Windows, win' = [win EXCEPT ![p] = w]
  PROVE  WindowsOK'
BY DEF WindowsOK

LEMMA OpenType ==
  ASSUME CampOK, WindowsOK, NEW p \in Procs, NEW op \in Ops, NEW task \in BOOLEAN,
         NEW h \in Hosts \cup {NoHost}, NEW n \in 0 .. MaxScans, Open(p, op, task, h, n)
  PROVE  WindowsOK'
<1> DEFINE w == [op |-> op, task |-> task, host |-> h, n |-> n, held |-> camp]
<1>1. w \in Windows
  BY DEF Windows, CampOK
<1>2. win' = [win EXCEPT ![p] = w]
  BY DEF Open
<1> HIDE DEF w
<1> QED
  BY <1>1, <1>2, WindowType

LEMMA CloseType ==
  ASSUME WindowsOK, NEW p \in Procs, Close(p)
  PROVE  WindowsOK'
BY DraftType, WindowType DEF Close

LEMMA SyncNextType ==
  ASSUME WindowsOK, NEW p \in Procs, NEW h \in Hosts, NEW n \in Scans,
         NEW stop, SyncNext(p, h, n, stop)
  PROVE  WindowsOK'
<1> DEFINE op == IF stop THEN "due_stop" ELSE "due"
           w == [op |-> op, task |-> TRUE, host |-> h, n |-> n, held |-> Draft]
<1>1. op \in Ops /\ n \in 0 .. MaxScans
  BY ScanRange DEF Ops
<1>2. win' = [win EXCEPT ![p] = w]
  BY DEF SyncNext
<1> HIDE DEF op
<1>3. w \in Windows
  BY <1>1, DraftType DEF Windows
<1> HIDE DEF w
<1> QED
  BY <1>2, <1>3, WindowType

LEMMA NextOpType ==
  ASSUME WindowsOK, NEW p \in Procs, NEW op \in Ops, NEW c \in Campaigns,
         win' = [win EXCEPT ![p].op = op, ![p].held = c]
  PROVE  WindowsOK'
<1> DEFINE w == [win[p] EXCEPT !.op = op, !.held = c]
<1>1. w \in Windows
  BY DEF WindowsOK, Windows
<1>2. win' = [win EXCEPT ![p] = w]
  BY DEF WindowsOK, Windows
<1> HIDE DEF w
<1> QED
  BY <1>1, <1>2, WindowType

LEMMA JobType ==
  ASSUME JobsOK, NEW h \in Hosts, NEW n \in Scans,
         NEW status \in {"none", "scheduled", "queued", "running", "completed",
                         "failed", "canceled"},
         NEW at \in {"none", "claimed", "working", "handler"}, Job(h, n, status, at)
  PROVE  /\ JobsOK'
         /\ patch' = [patch EXCEPT ![h] = [patch[h] EXCEPT ![n] =
                        [status |-> status, tries |-> patch[h][n].tries, at |-> at]]]
<1>1. patch[h] \in [Scans -> PatchJobs] /\ patch[h][n] \in PatchJobs
  BY DEF JobsOK
<1> DEFINE j == [status |-> status, tries |-> patch[h][n].tries, at |-> at]
<1>2. j \in PatchJobs
  BY <1>1 DEF PatchJobs
<1>3. patch' = [patch EXCEPT ![h] = [patch[h] EXCEPT ![n] = j]]
  <2> DEFINE f == [patch[h] EXCEPT ![n].status = status, ![n].at = at]
  <2>1. patch' = [patch EXCEPT ![h] = f]
    BY DEF Job, JobsOK
  <2>2. f = [patch[h] EXCEPT ![n] = j]
    BY <1>1 DEF PatchJobs
  <2> QED
    BY <2>1, <2>2
<1>4. JobsOK'
  <2> HIDE DEF j
  <2> QED
    BY <1>1, <1>2, <1>3 DEF JobsOK
<1> QED
  BY <1>3, <1>4

LEMMA ScanType ==
  ASSUME ScansOK, NEW h \in Hosts, NEW n \in Scans, NEW from, NEW to \in ScanStates,
         SetScan(h, n, from, to)
  PROVE  /\ ScansOK'
         /\ scan' = [scan EXCEPT ![h] = [scan[h] EXCEPT ![n] = to]]
         /\ scan[h][n] \in from
<1>1. scan' = [scan EXCEPT ![h] = [scan[h] EXCEPT ![n] = to]]
  BY DEF ScansOK, SetScan
<1> QED
  BY <1>1 DEF ScansOK, SetScan

LEMMA MadeType ==
  ASSUME NEW h
  PROVE  Made(h) \in Nat
<1>1. IsFiniteSet(Scans)
  BY RulesAssumption, FS_Interval DEF Scans
<1> QED
  BY <1>1, FS_Subset, FS_CardinalityType DEF Made

(* Everything but the remediations, whose type is proved above.            *)
RestOK == CampOK /\ ScansOK /\ JobsOK /\ WindowsOK /\ HistoryOK

LEMMA CancelJobsType ==
  ASSUME TypeOK, NEW c, NEW hosts, CancelJobs(c, hosts)
  PROVE  ScansOK' /\ JobsOK'
<1> DEFINE Waiting(h) == h \in hosts /\ NamedJob(c, h) \in {"queued", "scheduled"}
<1>1. patch' = [h \in Hosts |->
                  IF Waiting(h) /\ c.host[h].job = PatchJob
                  THEN [patch[h] EXCEPT ![c.host[h].rem].status = "canceled"]
                  ELSE patch[h]]
      /\ scan' = [h \in Hosts |->
                  IF Waiting(h) /\ c.host[h].job \in Scans
                  THEN [scan[h] EXCEPT ![c.host[h].job] = "canceled"]
                  ELSE scan[h]]
  BY DEF CancelJobs
<1> HIDE DEF Waiting
<1>2. ASSUME NEW h \in Hosts, NEW n
      PROVE  [patch[h] EXCEPT ![n].status = "canceled"] \in [Scans -> PatchJobs]
  <2>1. CASE n \in Scans
    <3> DEFINE j == [patch[h][n] EXCEPT !.status = "canceled"]
    <3>0. patch[h] \in [Scans -> PatchJobs] /\ patch[h][n] \in PatchJobs
      BY <2>1, TypesAre DEF JobsOK
    <3>1. patch[h] \in [Scans -> PatchJobs] /\ j \in PatchJobs
      BY <3>0 DEF PatchJobs
    <3>2. [patch[h] EXCEPT ![n].status = "canceled"] = [patch[h] EXCEPT ![n] = j]
      OBVIOUS
    <3> HIDE DEF j
    <3> QED
      BY <3>1, <3>2
  <2>2. CASE n \notin Scans
    BY <2>2, TypesAre DEF JobsOK
  <2> QED
    BY <2>1, <2>2
<1>3. ASSUME NEW h \in Hosts, NEW n
      PROVE  [scan[h] EXCEPT ![n] = "canceled"] \in [Scans -> ScanStates]
  BY TypesAre DEF ScansOK, ScanStates
<1>4. JobsOK'
  BY <1>1, <1>2, TypesAre DEF JobsOK
<1>5. ScansOK'
  BY <1>1, <1>3, TypesAre DEF ScansOK
<1> QED
  BY <1>4, <1>5

LEMMA HaltType ==
  ASSUME TypeOK, NEW c \in Campaigns, NEW hosts \in SUBSET Hosts, Halt(c, hosts)
  PROVE  halted' \subseteq Hosts \X Scans
<1>1. ASSUME NEW h \in hosts, c.host[h].rem # 0
      PROVE  <<h, c.host[h].rem>> \in Hosts \X Scans
  BY <1>1, ScanRange DEF Campaigns
<1> QED
  BY <1>1, TypesAre DEF Halt, HistoryOK

LEMMA QueueType ==
  ASSUME TypeOK, NEW p \in Procs, QueueProposals(p)
  PROVE  RestOK'
<1> DEFINE c == win[p].held
           hosts == {h \in Hosts :
                       /\ c.host[h].rem = 0 \/ c.host[h].state = "plan_changed"
                       /\ c.host[h].state \notin Proposing}
           Row(h) == IF h \in hosts
                     THEN [c.host[h] EXCEPT !.state = "proposal_queued",
                                            !.job = Made(h) + 1]
                     ELSE c.host[h]
           rows == [h \in Hosts |-> Row(h)]
<1>0. c \in Campaigns /\ c.host \in [Hosts -> Rows]
  BY TypesAre DEF WindowsOK, Windows, Campaigns, Rows
<1>1. /\ Close(p) /\ patch' = patch /\ UNCHANGED <<confirmed, started, halted, aside>>
      /\ \A h \in hosts : Made(h) < IF h \in Again THEN MaxScans ELSE 1
      /\ \/ UNCHANGED <<camp, scan>>
         \/ /\ camp' = [c EXCEPT !.status = "proposing", !.host = rows]
            /\ scan' = [h \in Hosts |->
                 IF h \in hosts THEN [scan[h] EXCEPT ![Made(h) + 1] = "queued"]
                 ELSE scan[h]]
  BY Zenon DEF QueueProposals
<1>2. ASSUME NEW h \in Hosts PROVE Row(h) \in Rows
  <2>1. CASE h \in hosts
    <3> DEFINE job == Made(h) + 1
    <3>1. Made(h) < MaxScans
      <4>1. Made(h) < IF h \in Again THEN MaxScans ELSE 1
        BY <1>1, <2>1
      <4> HIDE DEF hosts
      <4> QED
        BY <4>1, MadeType, RulesAssumption
    <3>2. job \in NoJob .. PatchJob
      BY <3>1, MadeType, RulesAssumption, ScanRange
    <3> HIDE DEF job
    <3>3. Row(h) = [c.host[h] EXCEPT !.state = "proposal_queued", !.job = job]
      BY <2>1 DEF job
    <3>4. c.host[h] \in Rows
      BY <1>0
    <3> HIDE DEF Row, c
    <3> QED
      BY <3>2, <3>3, <3>4 DEF Rows, HostStates
  <2>2. CASE h \notin hosts
    BY <1>0, <2>2
  <2> QED
    BY <2>1, <2>2
<1> HIDE DEF Row
<1>3. rows \in [Hosts -> Rows]
  BY <1>2
<1> HIDE DEF rows
<1>4. CampOK'
  <2> HIDE DEF c, hosts
  <2>1. [c EXCEPT !.status = "proposing", !.host = rows] \in Campaigns
    BY <1>0, <1>3 DEF Campaigns, Rows, CampaignStatuses
  <2> QED
    BY <1>1, <2>1, TypesAre DEF CampOK
<1>5. ScansOK'
  <2>1. ASSUME NEW h \in Hosts, NEW n
        PROVE  [scan[h] EXCEPT ![n] = "queued"] \in [Scans -> ScanStates]
    BY TypesAre DEF ScansOK, ScanStates
  <2> HIDE DEF hosts, c
  <2> QED
    BY <1>1, <2>1, TypesAre DEF ScansOK
<1> QED
  BY <1>1, <1>4, <1>5, CloseType, TypesAre DEF RestOK, JobsOK, HistoryOK

(* The batch a transaction selects, of which these hosts get a job.         *)
Launch(c, selected, taken, times) ==
  /\ selected \in Selections(c, rem)
  /\ taken \in SUBSET {h \in selected : Eligible(h, c.host[h].rem)} \ {{}}
  /\ times \in [taken -> {"queued", "scheduled"}]
  /\ patch' = [h \in Hosts |-> IF h \in taken
       THEN [patch[h] EXCEPT
               ![c.host[h].rem] = Prepared(h, c.host[h].rem, times[h])]
       ELSE patch[h]]
  /\ AwaitExecution(c, taken, times)
  /\ camp' = StartBatch(
       [c EXCEPT !.host = [h \in Hosts |->
          IF h \in selected \ taken
          THEN [c.host[h] EXCEPT !.state = "blocked"] ELSE c.host[h]]],
       [h \in taken |-> Prepared(h, c.host[h].rem, times[h]).status])

LEMMA BatchParts ==
  ASSUME NEW p \in Procs, ExecuteBatch(p)
  PROVE  /\ Idle(p) /\ UNCHANGED <<scan, win, confirmed, started, halted, aside>>
         /\ \E selected, taken, times :
              Launch(Project(camp, rem, patch), selected, taken, times)
<1> DEFINE c == Project(camp, rem, patch)
           N(h) == c.host[h].rem
<1>1. PICK selected \in Selections(c, rem) :
        \E taken \in SUBSET {h \in selected : Eligible(h, N(h))} \ {{}} :
        \E times \in [taken -> {"queued", "scheduled"}] :
          /\ \A h \in taken \ Windowed : times[h] = "queued"
          /\ patch' = [h \in Hosts |-> IF h \in taken
               THEN [patch[h] EXCEPT ![N(h)] = Prepared(h, N(h), times[h])]
               ELSE patch[h]]
          /\ AwaitExecution(c, taken, times)
          /\ camp' = StartBatch(
               [c EXCEPT !.host = [h \in Hosts |->
                  IF h \in selected \ taken
                  THEN [c.host[h] EXCEPT !.state = "blocked"] ELSE c.host[h]]],
               [h \in taken |-> Prepared(h, N(h), times[h]).status])
  BY Zenon DEF ExecuteBatch
<1>2. PICK taken \in SUBSET {h \in selected : Eligible(h, N(h))} \ {{}} :
        \E times \in [taken -> {"queued", "scheduled"}] :
          /\ patch' = [h \in Hosts |-> IF h \in taken
               THEN [patch[h] EXCEPT ![N(h)] = Prepared(h, N(h), times[h])]
               ELSE patch[h]]
          /\ AwaitExecution(c, taken, times)
          /\ camp' = StartBatch(
               [c EXCEPT !.host = [h \in Hosts |->
                  IF h \in selected \ taken
                  THEN [c.host[h] EXCEPT !.state = "blocked"] ELSE c.host[h]]],
               [h \in taken |-> Prepared(h, N(h), times[h]).status])
  BY <1>1, Zenon
<1>4. \E times : Launch(c, selected, taken, times)
  BY <1>2, Zenon DEF Launch
<1>3. Idle(p) /\ UNCHANGED <<scan, win, confirmed, started, halted, aside>>
  BY Zenon DEF ExecuteBatch
<1> QED
  BY <1>3, <1>4

LEMMA BatchType ==
  ASSUME TypeOK, NEW p \in Procs, ExecuteBatch(p)
  PROVE  RestOK'
<1> DEFINE c == Project(camp, rem, patch)
           N(h) == c.host[h].rem
<1>0. c \in Campaigns
  BY TypesAre, Projection DEF CampOK
<1>1. PICK selected, taken, times : Launch(c, selected, taken, times)
  BY BatchParts
<1>3. /\ times \in [taken -> {"queued", "scheduled"}]
      /\ patch' = [h \in Hosts |-> IF h \in taken
           THEN [patch[h] EXCEPT ![N(h)] = Prepared(h, N(h), times[h])]
           ELSE patch[h]]
      /\ camp' = StartBatch(
           [c EXCEPT !.host = [h \in Hosts |->
              IF h \in selected \ taken
              THEN [c.host[h] EXCEPT !.state = "blocked"] ELSE c.host[h]]],
           [h \in taken |-> Prepared(h, N(h), times[h]).status])
  BY <1>1, Zenon DEF Launch
<1> HIDE DEF c
<1>4. c.host \in [Hosts -> Rows]
  BY <1>0 DEF Campaigns, Rows
<1> DEFINE rows == [h \in Hosts |->
              IF h \in selected \ taken
              THEN [c.host[h] EXCEPT !.state = "blocked"] ELSE c.host[h]]
<1>5. rows \in [Hosts -> Rows]
  <2>1. \A h \in Hosts : [c.host[h] EXCEPT !.state = "blocked"] \in Rows
    BY <1>4 DEF Rows, HostStates
  <2> QED
    BY <1>4, <2>1
<1> DEFINE jobs == [h \in taken |-> Prepared(h, N(h), times[h]).status]
<1>6. camp' = StartBatch([c EXCEPT !.host = rows], jobs)
  BY <1>3
<1> HIDE DEF rows, jobs
<1>7. CampOK'
  BY <1>0, <1>5, <1>6, NewRows, StartType DEF CampOK
<1>8. JobsOK'
  <2>1. ASSUME NEW h \in taken, h \in Hosts, N(h) \in Scans
        PROVE  Prepared(h, N(h), times[h]) \in PatchJobs
    <3>1. times[h] \in {"queued", "scheduled"}
      BY <1>3
    <3>2. patch[h][N(h)] \in PatchJobs
      BY <2>1, TypesAre DEF JobsOK
    <3> QED
      BY <3>1, <3>2, CampaignAssumption DEF Prepared, PatchJobs
  <2>2. ASSUME NEW h \in Hosts, h \in taken
        PROVE  [patch[h] EXCEPT ![N(h)] = Prepared(h, N(h), times[h])]
                 \in [Scans -> PatchJobs]
    <3>1. ASSUME NEW n, NEW j, n \in Scans => j \in PatchJobs
          PROVE  [patch[h] EXCEPT ![n] = j] \in [Scans -> PatchJobs]
      <4>1. patch[h] \in [Scans -> PatchJobs]
        BY TypesAre DEF JobsOK
      <4> QED
        BY <3>1, <4>1
    <3> QED
      BY <2>1, <2>2, <3>1, Zenon
  <2> HIDE DEF N
  <2> QED
    BY <1>3, <2>2, TypesAre DEF JobsOK
<1>9. UNCHANGED <<scan, win, confirmed, started, halted, aside>>
  BY BatchParts
<1> QED
  BY <1>7, <1>8, <1>9, TypesAre DEF RestOK, ScansOK, WindowsOK, HistoryOK

LEMMA CancelType ==
  ASSUME TypeOK, NEW p \in Procs, CancelCampaign(p)
  PROVE  RestOK'
<1> DEFINE c == Project(camp, rem, patch)
           open == Hosts \ HostsIn(c, {"succeeded", "failed", "no_action"})
           running == {h \in open : NamedJob(c, h) = "running"}
           canceled == {h \in open : NamedJob(c, h) \in
                                       {"none", "canceled", "queued", "scheduled"}}
           status == IF running # {} THEN "cancelling" ELSE "canceled"
<1>0. c \in Campaigns
  BY TypesAre, Projection DEF CampOK
<1>1. /\ CancelJobs(c, open) /\ Halt(c, canceled)
      /\ camp' = [WithStates(c, running, canceled) EXCEPT
                    !.canceled = TRUE, !.status = status]
      /\ UNCHANGED <<win, confirmed, started, aside>>
  BY Zenon DEF CancelCampaign
<1>2. canceled \in SUBSET Hosts /\ status \in CampaignStatuses
  BY DEF CampaignStatuses
<1> HIDE DEF c, open, running, canceled, status
<1>3. CampOK'
  <2>1. WithStates(c, running, canceled) \in Campaigns
    BY <1>0, StatesType
  <2> QED
    BY <1>1, <1>2, <2>1 DEF CampOK, Campaigns
<1>4. ScansOK' /\ JobsOK'
  BY <1>1, CancelJobsType
<1>5. halted' \subseteq Hosts \X Scans
  BY <1>0, <1>1, <1>2, HaltType
<1> QED
  BY <1>1, <1>3, <1>4, <1>5, TypesAre DEF RestOK, WindowsOK, HistoryOK

LEMMA StopType ==
  ASSUME TypeOK, NEW p \in Procs, StopRemaining(p)
  PROVE  RestOK'
<1> DEFINE c == win[p].held
           others == (Hosts \ {win[p].host}) \
                       HostsIn(c, {"succeeded", "failed", "no_action", "running"})
           running == {h \in others : NamedJob(c, h) = "running"}
           stopped == WithStates(c, running, others \ running)
<1>0. c \in Campaigns
  BY TypesAre DEF WindowsOK, Windows
<1>1. /\ CancelJobs(c, others) /\ Halt(c, others \ running)
      /\ camp' = stopped
      /\ win' = [win EXCEPT ![p].op = "sync", ![p].held = stopped]
      /\ UNCHANGED <<confirmed, started, aside>>
  BY Zenon DEF StopRemaining
<1>2. others \ running \in SUBSET Hosts
  OBVIOUS
<1> HIDE DEF c, others, running
<1>3. stopped \in Campaigns
  BY <1>0, StatesType
<1> HIDE DEF stopped
<1>4. ScansOK' /\ JobsOK'
  BY <1>1, CancelJobsType
<1>5. halted' \subseteq Hosts \X Scans
  BY <1>0, <1>1, <1>2, HaltType
<1>6. WindowsOK'
  <2>1. "sync" \in Ops
    BY DEF Ops
  <2> QED
    BY <1>1, <1>3, <2>1, NextOpType, TypesAre
<1> QED
  BY <1>1, <1>3, <1>4, <1>5, <1>6, TypesAre DEF RestOK, CampOK, HistoryOK

LEMMA MarkType ==
  ASSUME TypeOK, NEW p \in Procs, MarkRunning(p)
  PROVE  RestOK'
<1> DEFINE w == win[p]
<1>1. w \in Windows /\ w.op = "mark"
  BY TypesAre DEF WindowsOK, MarkRunning
<1>2. /\ camp' = [w.held EXCEPT !.status = "proposing",
                                !.host[w.host].state = "proposal_running"]
      /\ SetScan(w.host, w.n, {"claimed"}, "running")
      /\ Close(p)
      /\ UNCHANGED <<patch, confirmed, started, halted, aside>>
  BY Zenon DEF MarkRunning
<1> HIDE DEF w
<1>3. CampOK'
  <2> DEFINE c == w.held
             row == [c.host[w.host] EXCEPT !.state = "proposal_running"]
             rows == [c.host EXCEPT ![w.host].state = "proposal_running"]
  <2>1. c \in Campaigns /\ c.host \in [Hosts -> Rows]
    BY <1>1 DEF Windows, Campaigns, Rows
  <2>2. rows \in [Hosts -> Rows]
    BY <2>1 DEF Rows, HostStates
  <2>3. camp' = [c EXCEPT !.status = "proposing", !.host = rows]
    BY <1>2, <2>1 DEF Campaigns
  <2> HIDE DEF c, rows
  <2> QED
    BY <2>1, <2>2, <2>3 DEF CampOK, Campaigns, Rows, CampaignStatuses
<1>4. ScansOK'
  BY <1>2, TypesAre DEF ScansOK, SetScan, ScanStates
<1> QED
  BY <1>2, <1>3, <1>4, CloseType, TypesAre DEF RestOK, JobsOK, HistoryOK

LEMMA TellType ==
  ASSUME TypeOK, NEW p \in Procs, TellCampaign(p), win[p].host \in Hosts,
         win[p].n \in Scans
  PROVE  RestOK'
<1> DEFINE told == Told(win[p].held, win[p].host, win[p].n)
<1>1. /\ camp' = told
      /\ win' = [win EXCEPT ![p].op = "sync", ![p].held = told]
      /\ SetScan(win[p].host, win[p].n, {"found", "empty", "broken"}, "told")
      /\ UNCHANGED <<patch, confirmed, started, halted, aside>>
  BY Zenon DEF TellCampaign
<1>2. told \in Campaigns
  BY ToldType, TypesAre DEF WindowsOK, Windows
<1> HIDE DEF told
<1>3. ScansOK'
  BY <1>1, TypesAre DEF ScansOK, SetScan, ScanStates
<1>4. WindowsOK'
  <2>1. "sync" \in Ops
    BY DEF Ops
  <2> QED
    BY <1>1, <1>2, <2>1, NextOpType, TypesAre
<1> QED
  BY <1>1, <1>2, <1>3, <1>4, TypesAre DEF RestOK, CampOK, JobsOK, HistoryOK

(* A window of a task names its host and its scan; a request about a host  *)
(* names the host.                                                         *)
Named(w) ==
  /\ w.op \in {"mark", "tell"} => w.host \in Hosts /\ w.n \in Scans
  /\ w.op \in {"approve", "reboot", "reject", "approve_synced", "reboot_synced",
               "reject_synced"} => w.host \in Hosts

WindowsAreNamed == \A p \in Procs : Named(win[p])

LEMMA OneWindowNamed ==
  ASSUME WindowsOK, WindowsAreNamed, NEW p \in Procs, NEW w,
         win' = [win EXCEPT ![p] = w], Named(w)
  PROVE  WindowsAreNamed'
BY DEF WindowsAreNamed, WindowsOK, Named

LEMMA ClosedIsNamed ==
  ASSUME WindowsOK, WindowsAreNamed, NEW p \in Procs, Close(p)
  PROVE  WindowsAreNamed'
BY OneWindowNamed DEF Close, NoWindow, Named

LEMMA DueIsNamed ==
  ASSUME WindowsOK, WindowsAreNamed, NEW p \in Procs, NEW h, NEW n, NEW stop,
         SyncNext(p, h, n, stop)
  PROVE  WindowsAreNamed'
<1> DEFINE op == IF stop THEN "due_stop" ELSE "due"
           w == [op |-> op, task |-> TRUE, host |-> h, n |-> n, held |-> Draft]
<1>1. op \in {"due", "due_stop"}
  OBVIOUS
<1>2. win' = [win EXCEPT ![p] = w]
  BY DEF SyncNext
<1> HIDE DEF op
<1>3. Named(w)
  BY <1>1 DEF Named
<1> HIDE DEF w
<1> QED
  BY <1>2, <1>3, OneWindowNamed

LEMMA NextOpNamed ==
  ASSUME WindowsOK, WindowsAreNamed, NEW p \in Procs, NEW op, NEW c,
         win' = [win EXCEPT ![p].op = op, ![p].held = c],
         op \in {"mark", "tell"} => win[p].op \in {"mark", "tell"},
         op \in {"approve", "reboot", "reject", "approve_synced", "reboot_synced",
                 "reject_synced"} => win[p].host \in Hosts
  PROVE  WindowsAreNamed'
<1> DEFINE w == [win[p] EXCEPT !.op = op, !.held = c]
<1>1. win' = [win EXCEPT ![p] = w]
  BY DEF WindowsOK, Windows
<1>2. w.op = op /\ w.host = win[p].host /\ w.n = win[p].n
  BY DEF WindowsOK, Windows
<1> HIDE DEF w
<1>3. Named(win[p])
  BY DEF WindowsAreNamed
<1>4. Named(w)
  BY <1>2, <1>3 DEF Named
<1> QED
  BY <1>1, <1>4, OneWindowNamed

-----------------------------------------------------------------------------
(* The windows that are left.                                              *)

LEMMA ReadType ==
  ASSUME TypeOK, WindowsAreNamed, NEW p \in Procs, ReadCampaign(p)
  PROVE  RestOK' /\ WindowsAreNamed'
<1>1. \/ Close(p)
      \/ \E op \in {"sync", "stop"} : win' = [win EXCEPT ![p].held = camp, ![p].op = op]
  BY DEF ReadCampaign
<1>2. WindowsOK' /\ WindowsAreNamed'
  <2>1. CASE Close(p)
    BY <2>1, CloseType, ClosedIsNamed, TypesAre
  <2>2. ASSUME NEW op \in {"sync", "stop"},
               win' = [win EXCEPT ![p].held = camp, ![p].op = op]
        PROVE  WindowsOK' /\ WindowsAreNamed'
    <3>1. win' = [win EXCEPT ![p].op = op, ![p].held = camp]
      BY <2>2, TypesAre DEF WindowsOK, Windows
    <3>2. op \in Ops /\ camp \in Campaigns
      BY TypesAre DEF Ops, CampOK
    <3> QED
      BY <3>1, <3>2, NextOpType, NextOpNamed, TypesAre
  <2> QED
    BY <1>1, <2>1, <2>2
<1> QED
  BY <1>2, TypesAre DEF ReadCampaign, RestOK, CampOK, ScansOK, JobsOK, HistoryOK

LEMMA SyncType ==
  ASSUME TypeOK, WindowsAreNamed, NEW p \in Procs, SyncCampaign(p)
  PROVE  RestOK' /\ WindowsAreNamed'
<1> DEFINE w == win[p]
           projected == Project(w.held, rem, patch)
<1>1. /\ w.op \in {"sync"} \cup Requests /\ camp' = projected
      /\ UNCHANGED <<scan, patch, confirmed, started, halted, aside>>
      /\ \/ Close(p)
         \/ /\ w.op \in Requests
            /\ win' = [win EXCEPT ![p].held = projected, ![p].op = Synced(w.op)]
  BY Zenon DEF SyncCampaign
<1>2. projected \in Campaigns
  BY Projection, TypesAre DEF WindowsOK, Windows
<1>3. WindowsOK' /\ WindowsAreNamed'
  <2>1. CASE Close(p)
    BY <2>1, CloseType, ClosedIsNamed, TypesAre
  <2>2. CASE /\ w.op \in Requests
             /\ win' = [win EXCEPT ![p].held = projected, ![p].op = Synced(w.op)]
    <3> DEFINE op == Synced(w.op)
    <3>1. /\ op \in {"propose_synced", "approve_synced", "reboot_synced", "reject_synced"}
          /\ op # "propose_synced" => w.op \in {"approve", "reboot", "reject"}
      BY <2>2 DEF Synced, Requests
    <3>2. op \in Ops
      BY <3>1 DEF Ops
    <3>3. op # "propose_synced" => w.host \in Hosts
      BY <3>1 DEF WindowsAreNamed, Named
    <3> HIDE DEF op, projected
    <3>4. win' = [win EXCEPT ![p].op = op, ![p].held = projected]
      BY <2>2, TypesAre DEF WindowsOK, Windows, op
    <3> QED
      BY <1>2, <3>1, <3>2, <3>3, <3>4, NextOpType, NextOpNamed, TypesAre
  <2> QED
    BY <1>1, <2>1, <2>2
<1> HIDE DEF projected, w
<1> QED
  BY <1>1, <1>2, <1>3, TypesAre DEF RestOK, CampOK, ScansOK, JobsOK, HistoryOK

LEMMA OpenedIsNamed ==
  ASSUME WindowsOK, WindowsAreNamed, NEW p \in Procs, NEW op, NEW task, NEW h, NEW n,
         Open(p, op, task, h, n),
         op \in {"mark", "tell"} => h \in Hosts /\ n \in Scans,
         op \in {"approve", "reboot", "reject"} => h \in Hosts,
         op \notin {"approve_synced", "reboot_synced", "reject_synced"}
  PROVE  WindowsAreNamed'
BY OneWindowNamed DEF Open, Named

LEMMA RequestType ==
  ASSUME TypeOK, WindowsAreNamed, NEW p \in Procs, Request(p)
  PROVE  RestOK' /\ WindowsAreNamed'
<1>1. ASSUME NEW op \in {"sync", "propose"}, Open(p, op, FALSE, NoHost, 0)
      PROVE  WindowsOK' /\ WindowsAreNamed'
  <2>1. op \in Ops /\ 0 \in 0 .. MaxScans
    BY RulesAssumption DEF Ops
  <2> QED
    BY <1>1, <2>1, OpenType, OpenedIsNamed, TypesAre
<1>2. ASSUME NEW op \in {"approve", "reboot", "reject"}, NEW h \in Hosts,
             Open(p, op, FALSE, h, 0)
      PROVE  WindowsOK' /\ WindowsAreNamed'
  <2>1. op \in Ops /\ 0 \in 0 .. MaxScans
    BY RulesAssumption DEF Ops
  <2> QED
    BY <1>2, <2>1, OpenType, OpenedIsNamed, TypesAre
<1>3. WindowsOK' /\ WindowsAreNamed'
  BY <1>1, <1>2 DEF Request
<1> QED
  BY <1>3, TypesAre DEF Request, RestOK, CampOK, ScansOK, JobsOK, HistoryOK

LEMMA AnswerType ==
  ASSUME TypeOK, WindowsAreNamed, NEW p \in Procs, AnswerHost(p)
  PROVE  RestOK' /\ WindowsAreNamed'
<1> DEFINE w == win[p]
           h == w.host
           n == w.held.host[h].rem
<1>1. w.op \in {"approve_synced", "reboot_synced", "reject_synced"}
  BY DEF AnswerHost
<1>2. h \in Hosts /\ w \in Windows /\ w.held \in Campaigns
  BY <1>1, TypesAre DEF WindowsAreNamed, Named, WindowsOK, Windows
<1>3. n \in 0 .. MaxScans
  BY <1>2 DEF Campaigns
<1>4. WindowsOK' /\ WindowsAreNamed'
  <2>1. CASE Close(p)
    BY <2>1, CloseType, ClosedIsNamed, TypesAre
  <2>2. CASE win' = [win EXCEPT ![p].op = "due", ![p].host = NoHost, ![p].held = Draft]
    <3> DEFINE v == [w EXCEPT !.op = "due", !.host = NoHost, !.held = Draft]
    <3>1. v \in Windows /\ Named(v)
      BY <1>2, DraftType DEF Windows, Ops, Named
    <3>2. win' = [win EXCEPT ![p] = v]
      BY <2>2, TypesAre DEF WindowsOK
    <3> HIDE DEF v
    <3> QED
      BY <3>1, <3>2, OneWindowNamed, WindowType, TypesAre
  <2> QED
    BY <2>1, <2>2, Zenon DEF AnswerHost
<1>5. confirmed' \subseteq Hosts \X Scans \X {"plan", "reboot"}
  <2>1. \/ confirmed' = confirmed
        \/ /\ n # 0
           /\ \E what \in {"plan", "reboot"} :
                confirmed' = confirmed \cup {<<h, n, what>>}
    <3>1. CASE n = 0
      BY <3>1 DEF AnswerHost
    <3>2. CASE n # 0
      <4> DEFINE r == Answered(w.op, h, rem[h][n])
                 what == IF w.op = "approve_synced" THEN "plan" ELSE "reboot"
      <4>1. confirmed' = confirmed \cup
              (IF r = rem[h][n] \/ w.op = "reject_synced" THEN {} ELSE {<<h, n, what>>})
        BY <3>2, Zenon DEF AnswerHost
      <4> HIDE DEF r
      <4> QED
        BY <3>2, <4>1
    <3> QED
      BY <3>1, <3>2
  <2>2. n # 0 => n \in Scans
    BY <1>3, ScanRange
  <2> HIDE DEF n, h, w
  <2> QED
    BY <1>2, <2>1, <2>2, TypesAre DEF HistoryOK
<1>6. UNCHANGED <<camp, scan, patch, started, halted, aside>>
  BY DEF AnswerHost
<1> QED
  BY <1>4, <1>5, <1>6, TypesAre DEF RestOK, CampOK, ScansOK, JobsOK, HistoryOK

-----------------------------------------------------------------------------
(* The tasks.                                                              *)

LEMMA ScanTaskType ==
  ASSUME TypeOK, WindowsAreNamed, NEW h \in Hosts, NEW n \in Scans, ScanTask(h, n)
  PROVE  RestOK' /\ WindowsAreNamed'
<1>1. CASE ClaimScan(h, n)
  <2>1. "claimed" \in ScanStates
    BY DEF ScanStates
  <2>2. ScansOK'
    BY <1>1, <2>1, ScanType, TypesAre DEF ClaimScan
  <2> QED
    BY <1>1, <2>2, TypesAre
       DEF ClaimScan, RestOK, CampOK, JobsOK, WindowsOK, HistoryOK, WindowsAreNamed
<1>2. CASE EndScan(h, n)
  <2>1. {"found", "empty", "broken"} \subseteq ScanStates
    BY DEF ScanStates
  <2>2. ScansOK'
    BY <1>2, <2>1, ScanType, TypesAre DEF EndScan
  <2> QED
    BY <1>2, <2>2, TypesAre
       DEF EndScan, RestOK, CampOK, JobsOK, WindowsOK, HistoryOK, WindowsAreNamed
<1>3. ASSUME NEW p \in Procs, ReadForMark(p, h, n) \/ ReadForTell(p, h, n)
      PROVE  RestOK' /\ WindowsAreNamed'
  <2>1. PICK op \in {"mark", "tell"} : Open(p, op, TRUE, h, n)
    BY <1>3 DEF ReadForMark, ReadForTell
  <2>2. op \in Ops /\ n \in 0 .. MaxScans
    BY ScanRange DEF Ops
  <2>3. WindowsOK' /\ WindowsAreNamed'
    BY <2>1, <2>2, OpenType, OpenedIsNamed, TypesAre
  <2> QED
    BY <1>3, <2>3, TypesAre
       DEF ReadForMark, ReadForTell, RestOK, CampOK, ScansOK, JobsOK, HistoryOK
<1> QED
  BY <1>1, <1>2, <1>3 DEF ScanTask

(* The parts of a step of a remediation's task: its job, or none, moves,   *)
(* and its copy; a window is opened, or all of them are left alone.        *)
LEMMA TaskParts ==
  ASSUME NEW h \in Hosts, NEW n \in Scans, PatchTask(h, n),
         patch[h][n] \in PatchJobs
  PROVE  /\ \/ ClaimPatch(h, n)
            \/ UNCHANGED patch
            \/ \E status \in {"none", "scheduled", "queued", "running", "completed",
                              "failed", "canceled"} :
               \E at \in {"none", "claimed", "working", "handler"} :
                 Job(h, n, status, at)
         /\ \/ UNCHANGED win
            \/ \E p \in Procs, stop \in BOOLEAN : SyncNext(p, h, n, stop)
         /\ UNCHANGED stage \/ \E at \in Stages : Hold(h, n, at)
         /\ revived' = revived \/ revived' = revived \cup {<<h, n>>}
         /\ started' = started \/ started' = started \cup {<<h, n>>}
         /\ UNCHANGED <<camp, scan, confirmed, halted>>
<1>1. CASE ClaimPatch(h, n)
  BY <1>1 DEF ClaimPatch
<1>2. CASE FailPatch(h, n) \/ ExhaustLost(h, n)
  BY <1>2 DEF FailPatch, ExhaustLost
<1>3. CASE ReadQueued(h, n) \/ ListScheduled(h, n) \/ PassRelease(h, n)
  BY <1>3 DEF ReadQueued, ListScheduled, PassRelease, Stages
<1>4. ASSUME NEW p \in Procs,
             Defer(p, h, n) \/ Release(p, h, n) \/ RefuseRelease(p, h, n)
      PROVE  /\ \E status \in {"scheduled", "queued", "failed", "canceled"} :
                  Job(h, n, status, "none")
             /\ UNCHANGED win \/ \E stop \in BOOLEAN : SyncNext(p, h, n, stop)
             /\ \E at \in Stages : Hold(h, n, at)
             /\ revived' = revived \/ revived' = revived \cup {<<h, n>>}
             /\ UNCHANGED <<camp, scan, confirmed, started, halted>>
  BY <1>4 DEF Defer, Release, RefuseRelease, SaveCopy, Stages
<1>5. ASSUME NEW p \in Procs,
             \/ DropCanceled(p, h, n) \/ GatePatch(p, h, n) \/ Succeed(p, h, n)
             \/ HandleFailure(p, h, n) \/ RecoverLost(p, h, n)
      PROVE  /\ \E status \in {"none", "scheduled", "queued", "running", "completed",
                               "failed", "canceled"} :
                \E at \in {"none", "claimed", "working", "handler"} :
                  Job(h, n, status, at)
             /\ UNCHANGED win \/ \E stop \in BOOLEAN : SyncNext(p, h, n, stop)
             /\ started' = started \/ started' = started \cup {<<h, n>>}
             /\ UNCHANGED <<camp, scan, confirmed, halted, aside>>
  BY <1>5 DEF DropCanceled, GatePatch, Succeed, HandleFailure, RecoverLost, PatchJobs
<1> QED
  BY <1>1, <1>2, <1>3, <1>4, <1>5 DEF PatchTask

LEMMA PatchTaskType ==
  ASSUME TypeOK, WindowsAreNamed, NEW h \in Hosts, NEW n \in Scans, PatchTask(h, n)
  PROVE  RestOK' /\ WindowsAreNamed'
<1>0. patch[h][n] \in PatchJobs
  BY TypesAre DEF JobsOK
<1>1. JobsOK'
  <2>1. CASE ClaimPatch(h, n)
    <3> DEFINE j == [status |-> "running", at |-> "claimed",
                     tries |-> patch[h][n].tries + 1]
    <3>1. j \in PatchJobs
      BY <1>0, <2>1, CampaignAssumption DEF ClaimPatch, PatchJobs
    <3>2. patch' = [patch EXCEPT ![h][n] = j]
      BY <2>1 DEF ClaimPatch
    <3> HIDE DEF j
    <3> QED
      BY <3>1, <3>2, TypesAre DEF JobsOK
  <2>2. CASE UNCHANGED patch
    BY <2>2, TypesAre DEF JobsOK
  <2> QED
    BY <1>0, <2>1, <2>2, TaskParts, JobType, TypesAre
<1>2. WindowsOK' /\ WindowsAreNamed'
  <2>1. CASE UNCHANGED win
    BY <2>1, TypesAre DEF WindowsOK, WindowsAreNamed
  <2> QED
    BY <1>0, <2>1, TaskParts, SyncNextType, DueIsNamed, TypesAre
<1>3. HistoryOK'
  <2>1. stage' \in [Hosts -> [Scans -> Stages]]
    BY <1>0, TaskParts, TypesAre DEF Hold, HistoryOK
  <2> QED
    BY <1>0, <2>1, TaskParts, TypesAre DEF HistoryOK
<1> QED
  BY <1>0, <1>1, <1>2, <1>3, TaskParts, TypesAre DEF RestOK, CampOK, ScansOK

LEMMA InitTypes == Init => TypeOK /\ WindowsAreNamed
<1> SUFFICES ASSUME Init PROVE TypeOK /\ WindowsAreNamed
  OBVIOUS
<1>1. PatchJobNone \in PatchJobs
  BY CampaignAssumption DEF PatchJobNone, PatchJobs
<1>2. CampOK /\ ScansOK /\ JobsOK /\ WindowsOK /\ HistoryOK
  BY <1>1, DraftType
     DEF Init, CampOK, ScansOK, JobsOK, WindowsOK, HistoryOK, ScanStates, Stages
<1>3. WindowsAreNamed
  BY DEF Init, WindowsAreNamed, Named, NoWindow
<1> QED
  BY <1>2, <1>3, InitGiven, TypesAre DEF IInv

LEMMA StepTypes ==
  ASSUME IInv, TypeOK, WindowsAreNamed, [Next]_vars
  PROVE  TypeOK' /\ WindowsAreNamed'
<1>0. RemediationsOK'
  BY StepGiven DEF IInv
<1>1. ASSUME NEW p \in Procs,
             \/ QueueProposals(p) \/ ExecuteBatch(p) \/ CancelCampaign(p)
             \/ StopRemaining(p) \/ MarkRunning(p) \/ TellCampaign(p)
      PROVE  RestOK' /\ WindowsAreNamed'
  <2>1. RestOK'
    <3>1. TellCampaign(p) => win[p].host \in Hosts /\ win[p].n \in Scans
      BY DEF TellCampaign, WindowsAreNamed, Named
    <3> QED
      BY <1>1, <3>1, QueueType, BatchType, CancelType, StopType, MarkType, TellType
  <2>2. CASE QueueProposals(p) \/ MarkRunning(p)
    BY <2>1, <2>2, ClosedIsNamed, TypesAre DEF QueueProposals, MarkRunning
  <2>3. CASE ExecuteBatch(p) \/ CancelCampaign(p)
    <3>1. win' = win
      BY <2>3, BatchParts, Zenon DEF CancelCampaign
    <3> QED
      BY <2>1, <3>1 DEF WindowsAreNamed, Named
  <2>4. CASE StopRemaining(p) \/ TellCampaign(p)
    <3>1. PICK c : win' = [win EXCEPT ![p].op = "sync", ![p].held = c]
      BY <2>4, Zenon DEF StopRemaining, TellCampaign
    <3> DEFINE w == [win[p] EXCEPT !.op = "sync", !.held = c]
    <3>2. win' = [win EXCEPT ![p] = w] /\ Named(w)
      BY <3>1, TypesAre DEF WindowsOK, Windows, Named
    <3> HIDE DEF w
    <3> QED
      BY <2>1, <3>2, OneWindowNamed, TypesAre
  <2> QED
    BY <1>1, <2>1, <2>2, <2>3, <2>4
<1>2. ASSUME NEW p \in Procs,
             ReadCampaign(p) \/ SyncCampaign(p) \/ Request(p) \/ AnswerHost(p)
      PROVE  RestOK' /\ WindowsAreNamed'
  BY <1>2, ReadType, SyncType, RequestType, AnswerType
<1>3. ASSUME NEW h \in Hosts, NEW n \in Scans,
             ScanTask(h, n) \/ PatchTask(h, n) \/ ChangePlan(h, n)
      PROVE  RestOK' /\ WindowsAreNamed'
  <2>1. CASE ChangePlan(h, n)
    <3>1. confirmed' \subseteq confirmed
      BY <2>1 DEF ChangePlan
    <3> QED
      BY <2>1, <3>1, TypesAre
         DEF ChangePlan, RestOK, CampOK, ScansOK, JobsOK, WindowsOK, HistoryOK,
             WindowsAreNamed
  <2> QED
    BY <1>3, <2>1, ScanTaskType, PatchTaskType
<1>4. ASSUME UNCHANGED vars
      PROVE  RestOK' /\ WindowsAreNamed'
  BY <1>4, TypesAre
     DEF vars, RestOK, CampOK, ScansOK, JobsOK, WindowsOK, HistoryOK, WindowsAreNamed, Named
<1>5. RestOK' /\ WindowsAreNamed'
  BY <1>1, <1>2, <1>3, <1>4 DEF Next
<1> QED
  BY <1>0, <1>5, TypesAre DEF RestOK

(* The campaign object, the windows and everything underneath stay of      *)
(* their types however many windows overlap: projections, batch numbers    *)
(* and limits included, and a window of a task always names its scan.      *)
THEOREM CampaignTypeCorrect == Spec => []TypeOK
<1>1. IInv /\ TypeOK /\ WindowsAreNamed /\ [Next]_vars => (TypeOK /\ WindowsAreNamed)'
  BY StepTypes
<1> QED
  BY <1>1, InitTypes, InductiveInvariant, PTL DEF Spec

-----------------------------------------------------------------------------
(* One window at a time, and one proposal for each host: then batches,     *)
(* halts and proposals are in order for any number of hosts and attempts.  *)
(* With more of either they are not; the README says how.                  *)

SingleFile == MaxScans = 1 /\ \A p, q \in Procs : p = q

InFlight == {"queued", "claimed", "running", "found", "empty", "broken"}
Live == {"scheduled", "queued", "running"}
Pending == {"queued", "waiting_for_window", "running"}

(* A window that has read the campaign holds it as it is stored.           *)
HeldIsCurrent ==
  \A p \in Procs : win[p].op \notin {"idle", "due", "due_stop"} => win[p].held = camp

(* A host is bound to the proposal of a scan that has been told.           *)
BoundIsTold ==
  \A h \in Hosts : camp.host[h].rem # 0 => scan[h][camp.host[h].rem] = "told"

(* A job belongs to the proposal its host is bound to, and its row says so.*)
JobsAreBound ==
  \A h \in Hosts, n \in Scans :
    patch[h][n].status # "none" =>
      camp.host[h].rem = n /\ camp.host[h].job = PatchJob

(* A host that waits for its proposal has a scan that will be told.        *)
ProposalsRun ==
  \A h \in Hosts :
    camp.host[h].state \in Proposing => \E n \in Scans : scan[h][n] \in InFlight

CampaignFits == HeldIsCurrent /\ BoundIsTold /\ JobsAreBound /\ ProposalsRun

(* The approvals the gate asks for.                                        *)
Allowed(h, r) ==
  r.approval = "approved" /\ (h \in Risky => r.reboot = "approved")

(* How job and remediation go together: a job was made for an approved     *)
(* plan, and that plan still is approved or has changed for good; while it *)
(* lives the remediation waits or runs; what was begun has been claimed,   *)
(* and what was halted has not, and never will be.  The last two do not    *)
(* hold for a job whose cancellation was lost.                             *)
JobFits(h, j, r, begun, stopped, back) ==
  /\ j.status = "none" => j.tries = 0 /\ j.at = "none" /\ ~back
  /\ j.status # "none" => r.exec # "not_started" /\ (r.changed \/ Allowed(h, r))
  /\ j.status = "running" <=> j.at \in {"claimed", "working"}
  /\ j.at = "handler" => j.status \in {"queued", "failed", "canceled"}
  /\ j.at # "none" => j.tries > 0
  /\ j.status \in Live /\ ~r.changed /\ ~back => r.exec \in Pending
  /\ begun => j.tries > 0
  /\ stopped /\ ~back => j.tries = 0 /\ j.status \notin Live /\ r.exec # "not_started"

(* A task holds a copy of a job only while nobody works on that; it waits  *)
(* as it did when it was read, or it has been canceled since.              *)
CopyFits(j, held) ==
  /\ held # "none" => j.at = "none"
  /\ held \in {"listed", "passed"} => j.status \in {"scheduled", "canceled"}
  /\ held = "read" => j.status \in {"queued", "canceled"}

JobsFit ==
  \A h \in Hosts, n \in Scans :
    /\ JobFits(h, patch[h][n], rem[h][n], <<h, n>> \in started,
               <<h, n>> \in halted, <<h, n>> \in revived)
    /\ CopyFits(patch[h][n], stage[h][n])

(* The pair counts as under way.                                           *)
Counts(h, j, r, back) ==
  /\ ~back /\ j.status \in Live /\ r.exec \in Pending
  /\ (~r.changed /\ Allowed(h, r)) \/ j.at = "working"

InOrder == CampaignFits /\ JobsFit /\ BatchesDoNotOverlap

-----------------------------------------------------------------------------
(* The campaign object.                                                    *)

(* Only one process: what another window does not hold, none does.         *)
LEMMA OneHolds ==
  ASSUME TypeOK, SingleFile, NEW p \in Procs, NEW w \in Windows,
         win' = [win EXCEPT ![p] = w],
         w.op \notin {"idle", "due", "due_stop"} => w.held = camp'
  PROVE  HeldIsCurrent'
BY TypesAre DEF SingleFile, HeldIsCurrent, WindowsOK

LEMMA AllIdle ==
  ASSUME SingleFile, NEW p \in Procs, Idle(p), win' = win
  PROVE  HeldIsCurrent'
BY DEF SingleFile, HeldIsCurrent, Idle

LEMMA ClosedHolds ==
  ASSUME TypeOK, SingleFile, NEW p \in Procs, Close(p)
  PROVE  HeldIsCurrent'
<1>1. NoWindow.op = "idle"
  BY DEF NoWindow
<1> QED
  BY <1>1, DraftType, OneHolds DEF Close

LEMMA SyncHolds ==
  ASSUME TypeOK, SingleFile, NEW p \in Procs, NEW op,
         win' = [win EXCEPT ![p].op = op, ![p].held = camp'], WindowsOK'
  PROVE  HeldIsCurrent'
BY TypesAre DEF SingleFile, HeldIsCurrent, WindowsOK, Windows

(* What a step may do to the rows of the campaign: keep the proposals and  *)
(* jobs they name, and let nobody new wait for a proposal.                 *)
LEMMA RowsStand ==
  ASSUME TypeOK, CampaignFits, HeldIsCurrent',
         scan' = scan,
         \A h \in Hosts :
           /\ camp'.host[h].rem = camp.host[h].rem
           /\ camp'.host[h].job = camp.host[h].job
           /\ camp'.host[h].state \in Proposing => camp.host[h].state \in Proposing,
         \A h \in Hosts, n \in Scans :
           patch'[h][n].status # "none" => patch[h][n].status # "none"
  PROVE  CampaignFits'
BY DEF CampaignFits, BoundIsTold, JobsAreBound, ProposalsRun

LEMMA NothingStands ==
  ASSUME TypeOK, CampaignFits, HeldIsCurrent', UNCHANGED <<camp, scan>>,
         \A h \in Hosts, n \in Scans :
           patch'[h][n].status # "none" => patch[h][n].status # "none"
  PROVE  CampaignFits'
BY RowsStand

(* The projection keeps who waits for a proposal.                          *)
LEMMA ProjectionStands ==
  ASSUME TypeOK, NEW c \in Campaigns, NEW h \in Hosts,
         Project(c, rem, patch).host[h].state \in Proposing
  PROVE  c.host[h].state \in Proposing
<1>1. CASE c.host[h].rem = 0
  BY <1>1, Projection, TypesAre
<1>2. CASE c.host[h].rem # 0
  <2>1. rem[h][c.host[h].rem] \in Remediations
    BY <1>2, ScanRange, TypesAre DEF RemediationsOK, Campaigns
  <2>2. Project(c, rem, patch).host[h].state =
          HostState(c.host[h], rem[h][c.host[h].rem], BoundJob(c, h))
    BY <1>2, Projection, TypesAre
  <2> QED
    BY <2>1, <2>2, HostStateType
<1> QED
  BY <1>1, <1>2

LEMMA SyncFits ==
  ASSUME TypeOK, SingleFile, CampaignFits, NEW p \in Procs, SyncCampaign(p),
         WindowsOK'
  PROVE  CampaignFits'
<1> DEFINE w == win[p]
           projected == Project(w.held, rem, patch)
<1>1. /\ w.op \in {"sync"} \cup Requests /\ camp' = projected
      /\ UNCHANGED <<scan, patch>>
      /\ \/ Close(p)
         \/ win' = [win EXCEPT ![p].held = projected, ![p].op = Synced(w.op)]
  BY Zenon DEF SyncCampaign
<1>2. w.held = camp
  BY <1>1 DEF CampaignFits, HeldIsCurrent, Requests
<1>3. camp \in Campaigns
  BY TypesAre DEF CampOK
<1>4. HeldIsCurrent'
  <2>1. CASE Close(p)
    BY <2>1, ClosedHolds
  <2>2. CASE win' = [win EXCEPT ![p].held = projected, ![p].op = Synced(w.op)]
    <3> DEFINE op == Synced(w.op)
    <3> HIDE DEF op, projected
    <3>1. win' = [win EXCEPT ![p].op = op, ![p].held = projected]
      BY <2>2, TypesAre DEF WindowsOK, Windows, op
    <3> QED
      BY <1>1, <3>1, SyncHolds
  <2> QED
    BY <1>1, <2>1, <2>2
<1>5. \A h \in Hosts :
        /\ camp'.host[h].rem = camp.host[h].rem
        /\ camp'.host[h].job = camp.host[h].job
        /\ camp'.host[h].state \in Proposing => camp.host[h].state \in Proposing
  BY <1>1, <1>2, <1>3, Projection, ProjectionStands, TypesAre
<1> QED
  BY <1>1, <1>4, <1>5, RowsStand

LEMMA ReadFits ==
  ASSUME TypeOK, SingleFile, CampaignFits, NEW p \in Procs, ReadCampaign(p), WindowsOK'
  PROVE  CampaignFits'
<1>1. /\ UNCHANGED <<camp, scan, patch>>
      /\ \/ Close(p)
         \/ \E op \in {"sync", "stop"} : win' = [win EXCEPT ![p].held = camp, ![p].op = op]
  BY DEF ReadCampaign
<1>2. HeldIsCurrent'
  <2>1. CASE Close(p)
    BY <2>1, ClosedHolds
  <2>2. ASSUME NEW op, win' = [win EXCEPT ![p].held = camp, ![p].op = op]
        PROVE  HeldIsCurrent'
    <3>1. win' = [win EXCEPT ![p].op = op, ![p].held = camp']
      BY <1>1, <2>2, TypesAre DEF WindowsOK, Windows
    <3> QED
      BY <3>1, SyncHolds
  <2> QED
    BY <1>1, <2>1, <2>2
<1> QED
  BY <1>1, <1>2, NothingStands

LEMMA OpenHolds ==
  ASSUME TypeOK, SingleFile, NEW p \in Procs, NEW op, NEW task, NEW h, NEW n,
         Open(p, op, task, h, n), WindowsOK', camp' = camp
  PROVE  HeldIsCurrent'
BY TypesAre DEF Open, SingleFile, HeldIsCurrent, WindowsOK

LEMMA RequestFits ==
  ASSUME TypeOK, SingleFile, CampaignFits, NEW p \in Procs, Request(p), WindowsOK'
  PROVE  CampaignFits'
<1>1. UNCHANGED <<camp, scan, patch>>
  BY DEF Request
<1>2. HeldIsCurrent'
  BY <1>1, OpenHolds DEF Request
<1> QED
  BY <1>1, <1>2, NothingStands

LEMMA AnswerFits ==
  ASSUME TypeOK, SingleFile, CampaignFits, NEW p \in Procs, AnswerHost(p), WindowsOK'
  PROVE  CampaignFits'
<1>1. UNCHANGED <<camp, scan, patch>>
  BY DEF AnswerHost
<1>2. HeldIsCurrent'
  <2>1. CASE Close(p)
    BY <2>1, ClosedHolds
  <2>2. CASE win' = [win EXCEPT ![p].op = "due", ![p].host = NoHost, ![p].held = Draft]
    BY <2>2, TypesAre DEF SingleFile, HeldIsCurrent, WindowsOK, Windows
  <2> QED
    BY <2>1, <2>2, Zenon DEF AnswerHost
<1> QED
  BY <1>1, <1>2, NothingStands

(* There is one scan of a host.                                            *)
LEMMA OneScan ==
  ASSUME SingleFile
  PROVE  Scans = {1} /\ PatchJob = 2 /\ NoJob = 0
BY DEF SingleFile, Scans, PatchJob, NoJob

(* A host whose scan has not been told has no proposal and no job.         *)
LEMMA UntoldIsFree ==
  ASSUME TypeOK, SingleFile, CampaignFits, NEW h \in Hosts, NEW n \in Scans,
         scan[h][n] # "told"
  PROVE  camp.host[h].rem = 0 /\ \A m \in Scans : patch[h][m].status = "none"
<1>1. camp.host[h].rem \in {0, 1}
  BY TypesAre DEF SingleFile, CampOK, Campaigns
<1>2. camp.host[h].rem = 0
  BY <1>1, OneScan DEF CampaignFits, BoundIsTold
<1> QED
  BY <1>2, OneScan DEF CampaignFits, JobsAreBound

LEMMA NoneMade ==
  ASSUME NEW h \in Hosts, Made(h) < 1
  PROVE  \A n \in Scans : scan[h][n] = "none"
<1> DEFINE made == {n \in Scans : scan[h][n] # "none"}
<1>1. IsFiniteSet(made)
  BY RulesAssumption, FS_Interval, FS_Subset DEF Scans
<1>2. Cardinality(made) = 0
  BY MadeType DEF Made
<1>3. made = {}
  BY <1>1, <1>2, FS_EmptySet
<1> QED
  BY <1>3

LEMMA QueueFits ==
  ASSUME TypeOK, SingleFile, CampaignFits, NEW p \in Procs, QueueProposals(p)
  PROVE  CampaignFits'
<1> DEFINE c == win[p].held
           hosts == {h \in Hosts :
                       /\ c.host[h].rem = 0 \/ c.host[h].state = "plan_changed"
                       /\ c.host[h].state \notin Proposing}
           Row(h) == IF h \in hosts
                     THEN [c.host[h] EXCEPT !.state = "proposal_queued",
                                            !.job = Made(h) + 1]
                     ELSE c.host[h]
           rows == [h \in Hosts |-> Row(h)]
<1>1. /\ Close(p) /\ patch' = patch /\ win[p].op = "propose_synced"
      /\ \A h \in hosts : Made(h) < IF h \in Again THEN MaxScans ELSE 1
      /\ \/ UNCHANGED <<camp, scan>>
         \/ /\ camp' = [c EXCEPT !.status = "proposing", !.host = rows]
            /\ scan' = [h \in Hosts |->
                 IF h \in hosts THEN [scan[h] EXCEPT ![Made(h) + 1] = "queued"]
                 ELSE scan[h]]
  BY Zenon DEF QueueProposals
<1>2. c = camp
  BY <1>1 DEF CampaignFits, HeldIsCurrent
<1>3. HeldIsCurrent'
  BY <1>1, ClosedHolds
<1>4. CASE UNCHANGED <<camp, scan>>
  BY <1>1, <1>3, <1>4, NothingStands
<1>5. CASE /\ camp' = [c EXCEPT !.status = "proposing", !.host = rows]
           /\ scan' = [h \in Hosts |->
                IF h \in hosts THEN [scan[h] EXCEPT ![Made(h) + 1] = "queued"]
                ELSE scan[h]]
  <2>1. \A h \in hosts : Made(h) < 1
    BY <1>1, SingleFile DEF SingleFile
  <2>2. ASSUME NEW h \in hosts
        PROVE  /\ h \in Hosts /\ camp.host[h].rem = 0
               /\ \A m \in Scans : patch[h][m].status = "none"
               /\ Made(h) + 1 = 1
    <3>1. scan[h][1] # "told"
      BY <2>1, OneScan, NoneMade
    <3> QED
      BY <2>1, <3>1, OneScan, UntoldIsFree, MadeType
  <2> HIDE DEF hosts, Row
  <2>3. camp'.host = rows /\ \A h \in Hosts : rows[h] = Row(h)
    <3> HIDE DEF rows
    <3>1. camp'.host = rows
      BY <1>2, <1>5, TypesAre DEF CampOK, Campaigns
    <3> QED
      BY <3>1 DEF rows
  <2>4. ASSUME NEW h \in Hosts
        PROVE  \/ /\ h \notin hosts
                  /\ camp'.host[h] = camp.host[h] /\ scan'[h] = scan[h]
               \/ /\ h \in hosts
                  /\ camp'.host[h].rem = 0 /\ scan'[h][1] = "queued"
    <3>1. CASE h \in hosts
      <4>1. Row(h).rem = 0
        <5>1. c.host[h] \in Rows
          BY <1>2, TypesAre DEF CampOK, Campaigns, Rows
        <5>2. [c.host[h] EXCEPT !.state = "proposal_queued", !.job = Made(h) + 1].rem
                = c.host[h].rem
          BY <5>1 DEF Rows
        <5> HIDE DEF c
        <5> QED
          BY <1>2, <2>2, <3>1, <5>2 DEF Row
      <4>2. scan'[h] = [scan[h] EXCEPT ![1] = "queued"]
        BY <1>5, <2>2, <3>1
      <4> QED
        BY <2>3, <3>1, <4>1, <4>2, OneScan, TypesAre DEF ScansOK
    <3>2. CASE h \notin hosts
      BY <1>2, <1>5, <2>3, <3>2 DEF Row
    <3> QED
      BY <3>1, <3>2
  <2>5. BoundIsTold'
    BY <2>4 DEF CampaignFits, BoundIsTold
  <2>6. JobsAreBound'
    BY <1>1, <2>2, <2>4 DEF CampaignFits, JobsAreBound
  <2>7. ProposalsRun'
    BY <2>4, OneScan DEF CampaignFits, ProposalsRun, InFlight
  <2> QED
    BY <1>3, <2>5, <2>6, <2>7 DEF CampaignFits
<1> QED
  BY <1>1, <1>4, <1>5

(* A scan that moves on, short of being told.                              *)
LEMMA ScanMoves ==
  ASSUME TypeOK, SingleFile, CampaignFits, NEW h \in Hosts, NEW n \in Scans,
         scan[h][n] \in InFlight, NEW to \in InFlight,
         scan' = [scan EXCEPT ![h][n] = to], patch' = patch,
         HeldIsCurrent',
         \A k \in Hosts :
           /\ camp'.host[k].rem = camp.host[k].rem
           /\ camp'.host[k].job = camp.host[k].job
           /\ k # h /\ camp'.host[k].state \in Proposing => camp.host[k].state \in Proposing
  PROVE  CampaignFits'
<1>1. \A k \in Hosts, m \in Scans :
        scan'[k][m] = IF k = h /\ m = n THEN to ELSE scan[k][m]
  BY TypesAre DEF ScansOK
<1>2. \A k \in Hosts : camp.host[k].rem \in {0} \cup Scans
  BY ScanRange, TypesAre DEF CampOK, Campaigns
<1>3. BoundIsTold'
  BY <1>1, <1>2 DEF CampaignFits, BoundIsTold, InFlight
<1>4. JobsAreBound'
  BY DEF CampaignFits, JobsAreBound
<1>5. ProposalsRun'
  BY <1>1 DEF CampaignFits, ProposalsRun
<1> QED
  BY <1>3, <1>4, <1>5 DEF CampaignFits

LEMMA MarkFits ==
  ASSUME TypeOK, SingleFile, CampaignFits, WindowsAreNamed,
         NEW p \in Procs, MarkRunning(p)
  PROVE  CampaignFits'
<1> DEFINE w == win[p]
<1>1. /\ camp' = [w.held EXCEPT !.status = "proposing",
                                !.host[w.host].state = "proposal_running"]
      /\ w.op = "mark" /\ w.host \in Hosts /\ w.n \in Scans
      /\ SetScan(w.host, w.n, {"claimed"}, "running")
      /\ Close(p) /\ patch' = patch
  BY DEF MarkRunning, WindowsAreNamed, Named
<1>2. w.held = camp
  BY <1>1 DEF CampaignFits, HeldIsCurrent
<1> HIDE DEF w
<1>3. camp'.host = [camp.host EXCEPT ![w.host].state = "proposal_running"]
  BY <1>1, <1>2, TypesAre DEF CampOK, Campaigns
<1>4. camp.host \in [Hosts -> Rows]
  BY TypesAre DEF CampOK, Campaigns, Rows
<1>5. \A k \in Hosts :
        /\ camp'.host[k].rem = camp.host[k].rem
        /\ camp'.host[k].job = camp.host[k].job
        /\ k # w.host => camp'.host[k] = camp.host[k]
  BY <1>3, <1>4 DEF Rows
<1>6. HeldIsCurrent'
  BY <1>1, ClosedHolds
<1> QED
  BY <1>1, <1>5, <1>6, ScanMoves DEF SetScan, InFlight

LEMMA TellFits ==
  ASSUME TypeOK, SingleFile, CampaignFits, WindowsAreNamed,
         NEW p \in Procs, TellCampaign(p), WindowsOK'
  PROVE  CampaignFits'
<1> DEFINE h == win[p].host
           n == win[p].n
           told == Told(win[p].held, h, n)
<1>1. /\ camp' = told /\ win[p].op = "tell"
      /\ win' = [win EXCEPT ![p].op = "sync", ![p].held = told]
      /\ SetScan(h, n, {"found", "empty", "broken"}, "told")
      /\ patch' = patch
  BY Zenon DEF TellCampaign
<1>2. h \in Hosts /\ n \in Scans /\ win[p].held = camp
  BY <1>1 DEF WindowsAreNamed, Named, CampaignFits, HeldIsCurrent
<1>3. HeldIsCurrent'
  BY <1>1, SyncHolds
<1>4. /\ \A k \in Hosts : k # h => camp'.host[k] = camp.host[k]
      /\ camp'.host[h].state \notin Proposing
      /\ camp'.host[h].rem = IF scan[h][n] = "found" THEN n ELSE camp.host[h].rem
  <2>1. camp \in Campaigns
    BY TypesAre DEF CampOK
  <2> QED
    BY <1>1, <1>2, <2>1, ToldType, TypesAre DEF Proposing
<1> HIDE DEF told, h, n
<1>5. /\ scan[h][n] # "told"
      /\ \A k \in Hosts, m \in Scans :
           scan'[k][m] = IF k = h /\ m = n THEN "told" ELSE scan[k][m]
  BY <1>1, <1>2, TypesAre DEF SetScan, ScansOK
<1>6. camp.host[h].rem = 0 /\ \A m \in Scans : patch[h][m].status = "none"
  BY <1>2, <1>5, UntoldIsFree
<1>7. BoundIsTold'
  <2>1. \A k \in Hosts : camp.host[k].rem \in {0} \cup Scans
    BY ScanRange, TypesAre DEF CampOK, Campaigns
  <2> QED
    BY <1>2, <1>4, <1>5, <1>6, <2>1 DEF CampaignFits, BoundIsTold
<1>8. JobsAreBound'
  BY <1>1, <1>4, <1>6 DEF CampaignFits, JobsAreBound
<1>9. ProposalsRun'
  BY <1>4, <1>5 DEF CampaignFits, ProposalsRun
<1> QED
  BY <1>3, <1>7, <1>8, <1>9 DEF CampaignFits

LEMMA ScanTaskFits ==
  ASSUME TypeOK, SingleFile, CampaignFits, NEW h \in Hosts, NEW n \in Scans,
         ScanTask(h, n), WindowsOK'
  PROVE  CampaignFits'
<1>1. CASE ClaimScan(h, n) \/ EndScan(h, n)
  <2>1. PICK to \in InFlight : SetScan(h, n, InFlight, to)
    BY <1>1 DEF ClaimScan, EndScan, SetScan, InFlight
  <2>2. UNCHANGED <<camp, patch, win>>
    BY <1>1 DEF ClaimScan, EndScan
  <2>3. HeldIsCurrent'
    BY <2>2 DEF CampaignFits, HeldIsCurrent
  <2> QED
    BY <2>1, <2>2, <2>3, ScanMoves DEF SetScan
<1>2. ASSUME NEW p \in Procs, ReadForMark(p, h, n) \/ ReadForTell(p, h, n)
      PROVE  CampaignFits'
  <2>1. UNCHANGED <<camp, scan, patch>> /\ \E op : Open(p, op, TRUE, h, n)
    BY <1>2 DEF ReadForMark, ReadForTell
  <2>2. HeldIsCurrent'
    BY <2>1, OpenHolds
  <2> QED
    BY <2>1, <2>2, NothingStands
<1> QED
  BY <1>1, <1>2 DEF ScanTask

(* The job of a step of a task, and the jobs of the others.                *)
LEMMA JobMoves ==
  ASSUME TypeOK, NEW h \in Hosts, NEW n \in Scans, NEW status, NEW at,
         Job(h, n, status, at)
  PROVE  /\ patch'[h][n] = [status |-> status, tries |-> patch[h][n].tries, at |-> at]
         /\ \A k \in Hosts, m \in Scans : k # h \/ m # n => patch'[k][m] = patch[k][m]
<1> DEFINE f == [patch[h] EXCEPT ![n].status = status, ![n].at = at]
<1>1. patch' = [patch EXCEPT ![h] = f]
  BY TypesAre DEF Job, JobsOK
<1>2. patch[h] \in [Scans -> PatchJobs] /\ patch[h][n] \in PatchJobs
  BY TypesAre DEF JobsOK
<1>3. /\ f[n] = [status |-> status, tries |-> patch[h][n].tries, at |-> at]
      /\ \A m \in Scans : m # n => f[m] = patch[h][m]
  BY <1>2 DEF PatchJobs
<1> HIDE DEF f
<1> QED
  BY <1>1, <1>3, TypesAre DEF JobsOK

(* A task of a remediation works on a job that has been made.              *)
LEMMA TaskHasJob ==
  ASSUME TypeOK, JobsFit, NEW h \in Hosts, NEW n \in Scans, PatchTask(h, n)
  PROVE  patch[h][n].status # "none"
<1>1. JobFits(h, patch[h][n], rem[h][n], <<h, n>> \in started,
              <<h, n>> \in halted, <<h, n>> \in revived)
  BY DEF JobsFit
<1>2. CopyFits(patch[h][n], stage[h][n])
  BY DEF JobsFit
<1>3. patch[h][n].status = "none" => patch[h][n].at = "none" /\ stage[h][n] = "none"
  <2>1. stage[h][n] \in Stages
    BY TypesAre DEF HistoryOK
  <2> QED
    BY <1>1, <1>2, <2>1 DEF JobFits, CopyFits, Stages
<1> QED
  BY <1>3
     DEF PatchTask, ClaimPatch, FailPatch, ExhaustLost, DropCanceled, ReadQueued,
         Defer, ListScheduled, RefuseRelease, PassRelease, Release, GatePatch,
         Succeed, HandleFailure, RecoverLost

LEMMA PatchTaskFits ==
  ASSUME TypeOK, SingleFile, CampaignFits, JobsFit, NEW h \in Hosts, NEW n \in Scans,
         PatchTask(h, n)
  PROVE  CampaignFits'
<1>0. patch[h][n] \in PatchJobs
  BY TypesAre DEF JobsOK
<1>1. UNCHANGED <<camp, scan>>
  BY <1>0, TaskParts
<1>2. HeldIsCurrent'
  <2>1. CASE UNCHANGED win
    BY <1>1, <2>1 DEF CampaignFits, HeldIsCurrent
  <2>2. ASSUME NEW p \in Procs, NEW stop \in BOOLEAN, SyncNext(p, h, n, stop)
        PROVE  HeldIsCurrent'
    BY <2>2, TypesAre DEF SyncNext, SingleFile, HeldIsCurrent, WindowsOK
  <2> QED
    BY <1>0, <2>1, <2>2, TaskParts
<1>3. \A k \in Hosts, m \in Scans : k # h \/ m # n => patch'[k][m] = patch[k][m]
  <2>1. CASE ClaimPatch(h, n)
    BY <2>1, TypesAre DEF ClaimPatch, JobsOK
  <2> QED
    BY <1>0, <2>1, TaskParts, JobMoves
<1>4. \A k \in Hosts, m \in Scans :
        patch'[k][m].status # "none" => patch[k][m].status # "none"
  BY <1>3, TaskHasJob
<1> QED
  BY <1>1, <1>2, <1>4, NothingStands

-----------------------------------------------------------------------------
(* Jobs and remediations.                                                  *)

LEMMA UnderWayCounts ==
  /\ UnderWay = {s \in Hosts \X Scans :
                   Counts(s[1], patch[s[1]][s[2]], rem[s[1]][s[2]], s \in revived)}
  /\ UnderWay' = {s \in Hosts \X Scans :
                    Counts(s[1], patch'[s[1]][s[2]], rem'[s[1]][s[2]], s \in revived')}
BY DEF UnderWay, Counts, Allowed, Live, Pending, Eligible

LEMMA UnderWayFinite == IsFiniteSet(UnderWay) /\ Cardinality(UnderWay) \in Nat
<1>1. IsFiniteSet(Scans)
  BY RulesAssumption, FS_Interval DEF Scans
<1>2. IsFiniteSet(Hosts \X Scans)
  BY <1>1, RulesAssumption, FS_Product
<1>3. UnderWay \in SUBSET (Hosts \X Scans)
  BY DEF UnderWay
<1> QED
  BY <1>2, <1>3, FS_Subset, FS_CardinalityType

(* A step that lets nothing new get under way keeps batches apart.         *)
LEMMA PairsStand ==
  ASSUME TypeOK, JobsFit, BatchesDoNotOverlap, TypeOK',
         \A h \in Hosts, n \in Scans :
           /\ JobFits(h, patch'[h][n], rem'[h][n], <<h, n>> \in started',
                      <<h, n>> \in halted', <<h, n>> \in revived')
           /\ CopyFits(patch'[h][n], stage'[h][n])
           /\ Counts(h, patch'[h][n], rem'[h][n], <<h, n>> \in revived') =>
                /\ Counts(h, patch[h][n], rem[h][n], <<h, n>> \in revived)
                /\ rem'[h][n].batch = rem[h][n].batch
  PROVE  JobsFit' /\ BatchesDoNotOverlap'
<1>1. JobsFit'
  BY DEF JobsFit
<1>2. ASSUME NEW s \in UnderWay'
      PROVE  s \in UnderWay /\ rem'[s[1]][s[2]].batch = rem[s[1]][s[2]].batch
  <2>1. PICK h \in Hosts, n \in Scans : s = <<h, n>>
    BY UnderWayCounts
  <2>2. Counts(h, patch'[h][n], rem'[h][n], <<h, n>> \in revived')
    BY <2>1, UnderWayCounts
  <2>3. Counts(h, patch[h][n], rem[h][n], <<h, n>> \in revived)
        /\ rem'[h][n].batch = rem[h][n].batch
    BY <2>2
  <2> QED
    BY <2>1, <2>3, UnderWayCounts
<1>3. Cardinality(UnderWay') <= Cardinality(UnderWay) /\ Cardinality(UnderWay') \in Nat
  <2>1. UnderWay' \in SUBSET UnderWay
    BY <1>2
  <2> QED
    BY <2>1, UnderWayFinite, FS_Subset, FS_CardinalityType
<1>4. ASSUME NEW s \in UnderWay'
      PROVE  Cardinality(UnderWay') <= rem'[s[1]][s[2]].batch
  <2>1. s[1] \in Hosts /\ s[2] \in Scans
    BY <1>4, UnderWayCounts
  <2>2. rem[s[1]][s[2]].batch \in Nat
    BY <2>1, TypesAre DEF RemediationsOK, Remediations
  <2> QED
    BY <1>2, <1>3, <1>4, <2>2, UnderWayFinite DEF BatchesDoNotOverlap
<1> QED
  BY <1>1, <1>4 DEF BatchesDoNotOverlap

(* The same for a step at one pair.                                        *)
LEMMA PairStands ==
  ASSUME TypeOK, JobsFit, BatchesDoNotOverlap, TypeOK',
         NEW h \in Hosts, NEW n \in Scans,
         \A k \in Hosts, m \in Scans :
           k # h \/ m # n => /\ patch'[k][m] = patch[k][m] /\ rem'[k][m] = rem[k][m]
                             /\ stage'[k][m] = stage[k][m]
                             /\ <<k, m>> \in started' <=> <<k, m>> \in started
                             /\ <<k, m>> \in revived' <=> <<k, m>> \in revived,
         halted' = halted,
         JobFits(h, patch'[h][n], rem'[h][n], <<h, n>> \in started',
                 <<h, n>> \in halted, <<h, n>> \in revived'),
         CopyFits(patch'[h][n], stage'[h][n]),
         Counts(h, patch'[h][n], rem'[h][n], <<h, n>> \in revived') =>
           /\ Counts(h, patch[h][n], rem[h][n], <<h, n>> \in revived)
           /\ rem'[h][n].batch = rem[h][n].batch
  PROVE  JobsFit' /\ BatchesDoNotOverlap'
<1>1. ASSUME NEW k \in Hosts, NEW m \in Scans
      PROVE  /\ JobFits(k, patch'[k][m], rem'[k][m], <<k, m>> \in started',
                        <<k, m>> \in halted', <<k, m>> \in revived')
             /\ CopyFits(patch'[k][m], stage'[k][m])
             /\ Counts(k, patch'[k][m], rem'[k][m], <<k, m>> \in revived') =>
                  /\ Counts(k, patch[k][m], rem[k][m], <<k, m>> \in revived)
                  /\ rem'[k][m].batch = rem[k][m].batch
  <2>1. CASE k = h /\ m = n
    BY <2>1
  <2>2. CASE k # h \/ m # n
    <3>1. /\ JobFits(k, patch[k][m], rem[k][m], <<k, m>> \in started,
                     <<k, m>> \in halted, <<k, m>> \in revived)
          /\ CopyFits(patch[k][m], stage[k][m])
      BY DEF JobsFit
    <3>2. /\ patch'[k][m] = patch[k][m] /\ rem'[k][m] = rem[k][m]
          /\ stage'[k][m] = stage[k][m]
          /\ <<k, m>> \in started' <=> <<k, m>> \in started
          /\ <<k, m>> \in revived' <=> <<k, m>> \in revived
      BY <2>2
    <3> QED
      BY <3>1, <3>2 DEF JobFits, Counts
  <2> QED
    BY <2>1, <2>2
<1> QED
  BY <1>1, PairsStand

(* What a step leaves at other pairs, and what it makes of its own.        *)
LEMMA OnePairMoves ==
  ASSUME TypeOK, NEW h \in Hosts, NEW n \in Scans, NEW j, NEW r,
         patch' = [patch EXCEPT ![h] = [patch[h] EXCEPT ![n] = j]],
         rem' = [rem EXCEPT ![h] = [rem[h] EXCEPT ![n] = r]]
  PROVE  /\ patch'[h][n] = j /\ rem'[h][n] = r
         /\ \A k \in Hosts, m \in Scans :
              k # h \/ m # n => patch'[k][m] = patch[k][m] /\ rem'[k][m] = rem[k][m]
BY TypesAre DEF JobsOK, RemediationsOK

LEMMA ExecMoves ==
  ASSUME TypeOK, NEW h \in Hosts, NEW n \in Scans, NEW state, Exec(h, n, state)
  PROVE  /\ rem'[h][n] = WithExec(rem[h][n], state)
         /\ \A k \in Hosts, m \in Scans : k # h \/ m # n => rem'[k][m] = rem[k][m]
BY TypesAre DEF Exec, WithExec, RemediationsOK

LEMMA ExecFields ==
  ASSUME NEW r \in Remediations, NEW state
  PROVE  /\ WithExec(r, state).exec = state
         /\ WithExec(r, state).approval = r.approval
         /\ WithExec(r, state).reboot = r.reboot
         /\ WithExec(r, state).changed = r.changed
         /\ WithExec(r, state).batch = r.batch
BY DEF WithExec, Remediations

(* A task that saves its copy of a job, or holds none before or after.     *)
LEMMA CopyMoves ==
  ASSUME TypeOK, NEW h \in Hosts, NEW n \in Scans, NEW at, Hold(h, n, at)
  PROVE  /\ stage'[h][n] = at
         /\ \A k \in Hosts, m \in Scans : k # h \/ m # n => stage'[k][m] = stage[k][m]
BY TypesAre DEF Hold, HistoryOK

(* The pair before a step of its task.                                     *)
LEMMA TaskBefore ==
  ASSUME TypeOK, JobsFit, NEW h \in Hosts, NEW n \in Scans
  PROVE  /\ patch[h][n] \in PatchJobs /\ rem[h][n] \in Remediations
         /\ patch[h][n].tries \in Nat /\ stage[h][n] \in Stages
         /\ JobFits(h, patch[h][n], rem[h][n], <<h, n>> \in started,
                    <<h, n>> \in halted, <<h, n>> \in revived)
         /\ CopyFits(patch[h][n], stage[h][n])
<1>1. /\ patch[h][n] \in PatchJobs /\ rem[h][n] \in Remediations
      /\ stage[h][n] \in Stages
  BY TypesAre DEF JobsOK, RemediationsOK, HistoryOK
<1> QED
  BY <1>1, CampaignAssumption DEF JobsFit, PatchJobs

LEMMA ClaimKeepsOrder ==
  ASSUME TypeOK, JobsFit, BatchesDoNotOverlap, TypeOK', NEW h \in Hosts, NEW n \in Scans,
         ClaimPatch(h, n)
  PROVE  JobsFit' /\ BatchesDoNotOverlap'
<1> DEFINE j == [status |-> "running", at |-> "claimed", tries |-> patch[h][n].tries + 1]
           back == <<h, n>> \in revived
<1>1. /\ patch' = [patch EXCEPT ![h] = [patch[h] EXCEPT ![n] = j]]
      /\ patch[h][n].status = "queued" /\ patch[h][n].at = "none"
      /\ stage[h][n] = "none"
      /\ UNCHANGED <<rem, started, halted, aside>>
  BY TypesAre DEF ClaimPatch, JobsOK
<1>2. patch'[h][n] = j
      /\ \A k \in Hosts, m \in Scans : k # h \/ m # n => patch'[k][m] = patch[k][m]
  BY <1>1, TypesAre DEF JobsOK
<1>3. j.status = "running" /\ j.at = "claimed" /\ j.tries = patch[h][n].tries + 1
  OBVIOUS
<1> HIDE DEF j, back
<1>4. JobFits(h, j, rem[h][n], <<h, n>> \in started, <<h, n>> \in halted, back)
  BY <1>1, <1>3, TaskBefore DEF JobFits, Live, back
<1>5. Counts(h, j, rem[h][n], back) => Counts(h, patch[h][n], rem[h][n], back)
  BY <1>1, <1>3, TaskBefore DEF Counts, Live
<1>6. CopyFits(patch'[h][n], stage'[h][n])
  BY <1>1 DEF CopyFits
<1> QED
  BY <1>1, <1>2, <1>4, <1>5, <1>6, PairStands DEF back

(* A job that leaves its task: it is finished, or waits to be tried again. *)
LEMMA LeaveKeepsOrder ==
  ASSUME TypeOK, JobsFit, BatchesDoNotOverlap, TypeOK', NEW h \in Hosts, NEW n \in Scans,
         NEW status, NEW state, Job(h, n, status, "none"), Exec(h, n, state),
         UNCHANGED <<started, halted, revived>>,
         UNCHANGED stage \/ Hold(h, n, "none"),
         stage'[h][n] = "none",
         patch[h][n].status \in Live \cup {"canceled"} \/ patch[h][n].at = "handler",
         state # "not_started",
         \/ status \in {"completed", "failed", "canceled"}
         \/ status = "queued" /\ state = "queued" /\ patch[h][n].status \in Live
  PROVE  JobsFit' /\ BatchesDoNotOverlap'
<1> DEFINE j == [status |-> status, tries |-> patch[h][n].tries, at |-> "none"]
           r == WithExec(rem[h][n], state)
           back == <<h, n>> \in revived
<1>1. /\ patch'[h][n] = j /\ rem'[h][n] = r
      /\ \A k \in Hosts, m \in Scans :
           k # h \/ m # n => patch'[k][m] = patch[k][m] /\ rem'[k][m] = rem[k][m]
                             /\ stage'[k][m] = stage[k][m]
  BY JobMoves, ExecMoves, CopyMoves
<1>2. j.status = status /\ j.at = "none" /\ j.tries = patch[h][n].tries
  OBVIOUS
<1>3. /\ r.exec = state /\ r.approval = rem[h][n].approval /\ r.reboot = rem[h][n].reboot
      /\ r.changed = rem[h][n].changed /\ r.batch = rem[h][n].batch
  BY TaskBefore, ExecFields
<1> HIDE DEF j, r, back
<1>4. JobFits(h, j, r, <<h, n>> \in started, <<h, n>> \in halted, back)
  BY <1>2, <1>3, TaskBefore DEF JobFits, Allowed, Live, Pending, back
<1>5. Counts(h, j, r, back) =>
        Counts(h, patch[h][n], rem[h][n], back) /\ r.batch = rem[h][n].batch
  BY <1>2, <1>3, TaskBefore DEF JobFits, Counts, Allowed, Live, Pending, back
<1>6. CopyFits(patch'[h][n], stage'[h][n])
  BY DEF CopyFits
<1> QED
  BY <1>1, <1>4, <1>5, <1>6, PairStands DEF back

(* A job that changes its state alone.                                     *)
LEMMA MoveKeepsOrder ==
  ASSUME TypeOK, JobsFit, BatchesDoNotOverlap, TypeOK', NEW h \in Hosts, NEW n \in Scans,
         NEW status, NEW at, Job(h, n, status, at),
         UNCHANGED <<rem, started, halted, revived>>,
         UNCHANGED stage \/ Hold(h, n, "none"),
         stage'[h][n] = "none",
         \/ status = "canceled" /\ at = "none"
            /\ patch[h][n].status \in Live \cup {"canceled"}
         \/ status \in {"scheduled", "queued"} /\ at = "none"
            /\ patch[h][n].status \in Live
         \/ status \in {"queued", "failed"} /\ at = "handler" /\ patch[h][n].at = "working"
  PROVE  JobsFit' /\ BatchesDoNotOverlap'
<1> DEFINE j == [status |-> status, tries |-> patch[h][n].tries, at |-> at]
           back == <<h, n>> \in revived
<1>1. /\ patch'[h][n] = j
      /\ \A k \in Hosts, m \in Scans :
           k # h \/ m # n => patch'[k][m] = patch[k][m] /\ stage'[k][m] = stage[k][m]
  BY JobMoves, CopyMoves
<1>2. j.status = status /\ j.at = at /\ j.tries = patch[h][n].tries
  OBVIOUS
<1> HIDE DEF j, back
<1>4. JobFits(h, j, rem[h][n], <<h, n>> \in started, <<h, n>> \in halted, back)
  BY <1>2, TaskBefore DEF JobFits, Live, Pending, back
<1>5. Counts(h, j, rem[h][n], back) => Counts(h, patch[h][n], rem[h][n], back)
  BY <1>2, TaskBefore DEF JobFits, Counts, Allowed, Live, Pending, back
<1>6. CopyFits(patch'[h][n], stage'[h][n])
  BY DEF CopyFits
<1> QED
  BY <1>1, <1>4, <1>5, <1>6, PairStands DEF back

(* A copy that is saved: over the job as it was read, or over its          *)
(* cancellation, which is lost.                                            *)
LEMMA SaveKeepsOrder ==
  ASSUME TypeOK, JobsFit, BatchesDoNotOverlap, TypeOK', NEW h \in Hosts, NEW n \in Scans,
         NEW status \in {"scheduled", "queued"}, SaveCopy(h, n, status),
         stage[h][n] # "none", UNCHANGED <<rem, started, halted>>
  PROVE  JobsFit' /\ BatchesDoNotOverlap'
<1>0. /\ patch[h][n].at = "none"
      /\ patch[h][n].status \in {"scheduled", "queued", "canceled"}
  BY TaskBefore DEF CopyFits, Stages
<1>1. Job(h, n, status, "none") /\ Hold(h, n, "none") /\ stage'[h][n] = "none"
  BY CopyMoves DEF SaveCopy
<1>2. CASE patch[h][n].status # "canceled"
  <2>1. revived' = revived
    BY <1>2 DEF SaveCopy
  <2> QED
    BY <1>0, <1>1, <1>2, <2>1, MoveKeepsOrder DEF Live
<1>3. CASE patch[h][n].status = "canceled"
  <2>1. revived' = revived \cup {<<h, n>>}
    BY <1>3 DEF SaveCopy
  <2> DEFINE j == [status |-> status, tries |-> patch[h][n].tries, at |-> "none"]
  <2>2. /\ patch'[h][n] = j
        /\ \A k \in Hosts, m \in Scans :
             k # h \/ m # n => patch'[k][m] = patch[k][m] /\ stage'[k][m] = stage[k][m]
    BY <1>1, JobMoves, CopyMoves
  <2>3. j.status = status /\ j.at = "none" /\ j.tries = patch[h][n].tries
    OBVIOUS
  <2> DEFINE back == <<h, n>> \in revived'
  <2>0. back
    BY <2>1
  <2> HIDE DEF j, back
  <2>4. JobFits(h, j, rem[h][n], <<h, n>> \in started, <<h, n>> \in halted, back)
    BY <1>3, <2>0, <2>3, TaskBefore DEF JobFits
  <2>5. ~Counts(h, j, rem[h][n], back)
    BY <2>0 DEF Counts
  <2>6. CopyFits(patch'[h][n], stage'[h][n])
    BY <1>1 DEF CopyFits
  <2>7. \A k \in Hosts, m \in Scans :
          k # h \/ m # n => (<<k, m>> \in revived' <=> <<k, m>> \in revived)
    BY <2>1
  <2> QED
    BY <2>2, <2>4, <2>5, <2>6, <2>7, PairStands DEF back
<1> QED
  BY <1>2, <1>3

(* A copy that is read, or let go.                                         *)
LEMMA CopyKeepsOrder ==
  ASSUME TypeOK, JobsFit, BatchesDoNotOverlap, TypeOK', NEW h \in Hosts, NEW n \in Scans,
         ReadQueued(h, n) \/ ListScheduled(h, n) \/ PassRelease(h, n)
  PROVE  JobsFit' /\ BatchesDoNotOverlap'
<1>1. UNCHANGED <<patch, rem, started, halted, revived>>
  BY DEF ReadQueued, ListScheduled, PassRelease
<1>2. PICK at : Hold(h, n, at) /\ CopyFits(patch[h][n], at)
  <2>1. CASE ReadQueued(h, n)
    BY <2>1 DEF ReadQueued, CopyFits
  <2>2. CASE ListScheduled(h, n)
    <3>1. patch[h][n].at = "none"
      BY <2>2, TaskBefore DEF ListScheduled, JobFits, PatchJobs
    <3> QED
      BY <2>2, <3>1 DEF ListScheduled, CopyFits
  <2>3. CASE PassRelease(h, n)
    BY <2>3, TaskBefore DEF PassRelease, CopyFits
  <2> QED
    BY <2>1, <2>2, <2>3
<1>3. /\ stage'[h][n] = at
      /\ \A k \in Hosts, m \in Scans : k # h \/ m # n => stage'[k][m] = stage[k][m]
  BY <1>2, CopyMoves
<1> QED
  BY <1>1, <1>2, <1>3, TaskBefore, PairStands

LEMMA GateKeepsOrder ==
  ASSUME TypeOK, JobsFit, BatchesDoNotOverlap, TypeOK', NEW h \in Hosts, NEW n \in Scans,
         NEW p \in Procs, GatePatch(p, h, n)
  PROVE  JobsFit' /\ BatchesDoNotOverlap'
<1>0. /\ patch[h][n].at = "claimed" /\ UNCHANGED <<halted, aside>>
      /\ patch[h][n].status = "running" /\ stage[h][n] = "none"
  BY TaskBefore DEF GatePatch, JobFits, CopyFits
<1>1. CASE ~Eligible(h, n)
  <2>1. Job(h, n, "failed", "none") /\ Exec(h, n, "blocked") /\ started' = started
    BY <1>1 DEF GatePatch
  <2> QED
    BY <1>0, <2>1, LeaveKeepsOrder DEF Live
<1>2. CASE Eligible(h, n)
  <2>1. /\ Job(h, n, "running", "working") /\ Exec(h, n, "running")
        /\ started' = started \cup {<<h, n>>}
    BY <1>2 DEF GatePatch
  <2> DEFINE j == [status |-> "running", tries |-> patch[h][n].tries, at |-> "working"]
             r == WithExec(rem[h][n], "running")
             back == <<h, n>> \in revived
  <2>2. /\ patch'[h][n] = j /\ rem'[h][n] = r
        /\ \A k \in Hosts, m \in Scans :
             k # h \/ m # n => patch'[k][m] = patch[k][m] /\ rem'[k][m] = rem[k][m]
    BY <2>1, JobMoves, ExecMoves
  <2>3. j.status = "running" /\ j.at = "working" /\ j.tries = patch[h][n].tries
    OBVIOUS
  <2>4. /\ r.exec = "running" /\ r.approval = rem[h][n].approval
        /\ r.reboot = rem[h][n].reboot
        /\ r.changed = rem[h][n].changed /\ r.batch = rem[h][n].batch
    BY TaskBefore, ExecFields
  <2> HIDE DEF j, r, back
  <2>5. JobFits(h, j, r, <<h, n>> \in started', <<h, n>> \in halted, back)
    BY <1>0, <2>3, <2>4, TaskBefore DEF JobFits, Allowed, Live, Pending, back
  <2>6. Counts(h, j, r, back) =>
          Counts(h, patch[h][n], rem[h][n], back) /\ r.batch = rem[h][n].batch
    BY <1>0, <1>2, <2>4, TaskBefore
       DEF JobFits, Counts, Allowed, Live, Pending, Eligible, back
  <2>7. \A k \in Hosts, m \in Scans :
          k # h \/ m # n => (<<k, m>> \in started' <=> <<k, m>> \in started)
    BY <2>1
  <2>8. CopyFits(patch'[h][n], stage'[h][n])
    BY <1>0 DEF CopyFits
  <2> QED
    BY <1>0, <2>2, <2>5, <2>6, <2>7, <2>8, PairStands DEF back
<1> QED
  BY <1>1, <1>2

LEMMA RefuseKeepsOrder ==
  ASSUME TypeOK, JobsFit, BatchesDoNotOverlap, TypeOK', NEW h \in Hosts, NEW n \in Scans,
         NEW p \in Procs, RefuseRelease(p, h, n)
  PROVE  JobsFit' /\ BatchesDoNotOverlap'
<1>1. /\ stage[h][n] = "listed" /\ Hold(h, n, "none")
      /\ UNCHANGED <<started, halted, revived>>
  BY DEF RefuseRelease
<1>2. patch[h][n].status \in {"scheduled", "canceled"} /\ stage'[h][n] = "none"
  <2>1. CopyFits(patch[h][n], "listed")
    BY <1>1, TaskBefore
  <2>2. stage'[h][n] = "none"
    BY <1>1, CopyMoves
  <2> QED
    BY <2>1, <2>2 DEF CopyFits
<1>3. CASE camp.status = "canceled"
  BY <1>1, <1>2, <1>3, MoveKeepsOrder DEF RefuseRelease, Live
<1>4. CASE camp.status # "canceled"
  BY <1>1, <1>2, <1>4, LeaveKeepsOrder DEF RefuseRelease, Live
<1> QED
  BY <1>3, <1>4

LEMMA TaskKeepsOrder ==
  ASSUME TypeOK, JobsFit, BatchesDoNotOverlap, TypeOK', NEW h \in Hosts, NEW n \in Scans,
         PatchTask(h, n)
  PROVE  JobsFit' /\ BatchesDoNotOverlap'
<1>0. /\ JobFits(h, patch[h][n], rem[h][n], <<h, n>> \in started,
                 <<h, n>> \in halted, <<h, n>> \in revived)
      /\ CopyFits(patch[h][n], stage[h][n])
      /\ patch[h][n].at # "none" => stage[h][n] = "none"
  BY TaskBefore DEF CopyFits
<1>1. CASE FailPatch(h, n)
  BY <1>0, <1>1, MoveKeepsOrder DEF FailPatch, JobFits, Live
<1>2. CASE ExhaustLost(h, n)
  BY <1>0, <1>2, LeaveKeepsOrder DEF ExhaustLost, JobFits, Live
<1>3. ASSUME NEW p \in Procs, DropCanceled(p, h, n) PROVE JobsFit' /\ BatchesDoNotOverlap'
  BY <1>3, LeaveKeepsOrder DEF DropCanceled, Live
<1>4. ASSUME NEW p \in Procs, Defer(p, h, n) \/ Release(p, h, n)
      PROVE  JobsFit' /\ BatchesDoNotOverlap'
  BY <1>4, SaveKeepsOrder DEF Defer, Release
<1>5. ASSUME NEW p \in Procs, Succeed(p, h, n) PROVE JobsFit' /\ BatchesDoNotOverlap'
  BY <1>0, <1>5, LeaveKeepsOrder DEF Succeed, JobFits, Live
<1>6. ASSUME NEW p \in Procs, HandleFailure(p, h, n) PROVE JobsFit' /\ BatchesDoNotOverlap'
  BY <1>0, <1>6, LeaveKeepsOrder DEF HandleFailure, JobFits, Live
<1>7. ASSUME NEW p \in Procs, RecoverLost(p, h, n) PROVE JobsFit' /\ BatchesDoNotOverlap'
  BY <1>0, <1>7, LeaveKeepsOrder DEF RecoverLost, JobFits, Live
<1> QED
  BY <1>1, <1>2, <1>3, <1>4, <1>5, <1>6, <1>7, ClaimKeepsOrder, CopyKeepsOrder,
     RefuseKeepsOrder, GateKeepsOrder DEF PatchTask

(* A step at a remediation alone.                                          *)
LEMMA RemediationStands ==
  ASSUME TypeOK, JobsFit, BatchesDoNotOverlap, TypeOK', NEW h \in Hosts, NEW n \in Scans,
         NEW r, rem' = [rem EXCEPT ![h][n] = r],
         UNCHANGED <<patch, started, halted, aside>>,
         JobFits(h, patch[h][n], r, <<h, n>> \in started,
                 <<h, n>> \in halted, <<h, n>> \in revived),
         Counts(h, patch[h][n], r, <<h, n>> \in revived) =>
           /\ Counts(h, patch[h][n], rem[h][n], <<h, n>> \in revived)
           /\ r.batch = rem[h][n].batch
  PROVE  JobsFit' /\ BatchesDoNotOverlap'
<1>1. /\ rem'[h][n] = r
      /\ \A k \in Hosts, m \in Scans : k # h \/ m # n => rem'[k][m] = rem[k][m]
  BY TypesAre DEF RemediationsOK
<1> QED
  BY <1>1, TaskBefore, PairStands

LEMMA JobsUntouched ==
  ASSUME TypeOK, JobsFit, BatchesDoNotOverlap, TypeOK',
         UNCHANGED <<patch, rem, started, halted, aside>>
  PROVE  JobsFit' /\ BatchesDoNotOverlap'
<1>1. \A h \in Hosts, n \in Scans :
        /\ JobFits(h, patch[h][n], rem[h][n], <<h, n>> \in started,
                   <<h, n>> \in halted, <<h, n>> \in revived)
        /\ CopyFits(patch[h][n], stage[h][n])
  BY DEF JobsFit
<1> QED
  BY <1>1, PairsStand

LEMMA ChangeKeepsOrder ==
  ASSUME TypeOK, JobsFit, BatchesDoNotOverlap, TypeOK', NEW h \in Hosts, NEW n \in Scans,
         ChangePlan(h, n)
  PROVE  JobsFit' /\ BatchesDoNotOverlap'
<1> DEFINE reboot == IF h \in Risky THEN "pending" ELSE "not_required"
           exec == IF rem[h][n].exec \in {"running", "succeeded", "failed"}
                   THEN rem[h][n].exec ELSE "blocked"
           r == [rem[h][n] EXCEPT !.changed = TRUE, !.approval = "pending",
                                  !.reboot = reboot, !.exec = exec]
<1>1. rem' = [rem EXCEPT ![h][n] = r] /\ UNCHANGED <<patch, started, halted, aside>>
  BY DEF ChangePlan
<1>2. exec \in {"running", "succeeded", "failed", "blocked"}
      /\ (exec = "running" => rem[h][n].exec = "running")
  OBVIOUS
<1> HIDE DEF reboot, exec
<1>3. r.changed /\ r.approval = "pending" /\ r.exec = exec /\ r.batch = rem[h][n].batch
  BY TaskBefore DEF Remediations
<1> HIDE DEF r
<1>4. JobFits(h, patch[h][n], r, <<h, n>> \in started,
              <<h, n>> \in halted, <<h, n>> \in revived)
  BY <1>2, <1>3, TaskBefore DEF JobFits
<1>5. Counts(h, patch[h][n], r, <<h, n>> \in revived) =>
        Counts(h, patch[h][n], rem[h][n], <<h, n>> \in revived)
  BY <1>2, <1>3 DEF Counts, Pending
<1> QED
  BY <1>1, <1>3, <1>4, <1>5, RemediationStands

LEMMA EndScanKeepsOrder ==
  ASSUME TypeOK, SingleFile, CampaignFits, JobsFit, BatchesDoNotOverlap, TypeOK',
         NEW h \in Hosts, NEW n \in Scans, EndScan(h, n)
  PROVE  JobsFit' /\ BatchesDoNotOverlap'
<1>1. UNCHANGED <<patch, started, halted, aside>> /\ scan[h][n] = "running"
  BY DEF EndScan, SetScan
<1>2. CASE UNCHANGED rem
  BY <1>1, <1>2, JobsUntouched
<1>3. ASSUME NEW size, rem' = [rem EXCEPT ![h][n].made = TRUE, ![h][n].batch = size]
      PROVE  JobsFit' /\ BatchesDoNotOverlap'
  <2> DEFINE r == WithBatch(rem[h][n], size)
  <2>1. rem' = [rem EXCEPT ![h][n] = r]
    BY <1>3, TypesAre DEF RemediationsOK, WithBatch
  <2>2. /\ r.exec = rem[h][n].exec /\ r.approval = rem[h][n].approval
        /\ r.reboot = rem[h][n].reboot /\ r.changed = rem[h][n].changed
    BY TaskBefore DEF WithBatch, Remediations
  <2> HIDE DEF r
  <2>3. patch[h][n].status = "none"
    BY <1>1, UntoldIsFree
  <2>4. JobFits(h, patch[h][n], r, <<h, n>> \in started,
                <<h, n>> \in halted, <<h, n>> \in revived)
    BY <2>2, TaskBefore DEF JobFits, Allowed
  <2>5. ~Counts(h, patch[h][n], r, <<h, n>> \in revived)
    BY <2>3 DEF Counts, Live
  <2> QED
    BY <1>1, <2>1, <2>4, <2>5, RemediationStands
<1> QED
  BY <1>2, <1>3 DEF EndScan

LEMMA AnswerKeepsOrder ==
  ASSUME TypeOK, WindowsAreNamed, JobsFit, BatchesDoNotOverlap, TypeOK',
         NEW p \in Procs, AnswerHost(p)
  PROVE  JobsFit' /\ BatchesDoNotOverlap'
<1> DEFINE w == win[p]
           h == w.host
           n == w.held.host[h].rem
           r == Answered(w.op, h, rem[h][n])
<1>1. UNCHANGED <<patch, started, halted, aside>>
      /\ w.op \in {"approve_synced", "reboot_synced", "reject_synced"}
  BY DEF AnswerHost
<1>2. h \in Hosts /\ w.held \in Campaigns
  BY <1>1, TypesAre DEF WindowsAreNamed, Named, WindowsOK, Windows
<1>3. CASE n = 0
  BY <1>1, <1>3, JobsUntouched DEF AnswerHost
<1>4. CASE n # 0
  <2>1. n \in Scans
    BY <1>2, <1>4, ScanRange DEF Campaigns
  <2>2. rem' = [rem EXCEPT ![h][n] = r]
    BY <1>4, Zenon DEF AnswerHost
  <2>3. rem[h][n] \in Remediations
    BY <1>2, <2>1, TaskBefore
  <2>4. /\ r.changed = rem[h][n].changed /\ r.batch = rem[h][n].batch
        /\ r.exec = rem[h][n].exec \/ (r.exec = "blocked" /\ rem[h][n].approval = "pending")
        /\ r.approval = rem[h][n].approval \/ rem[h][n].approval = "pending"
        /\ r.reboot = rem[h][n].reboot \/ rem[h][n].approval = "pending"
           \/ (h \in Risky /\ r.reboot = "approved")
    BY <1>1, <2>3 DEF Answered, Remediations
  <2> HIDE DEF r, n, h, w
  <2>5. JobFits(h, patch[h][n], rem[h][n], <<h, n>> \in started,
                <<h, n>> \in halted, <<h, n>> \in revived)
    BY <1>2, <2>1, TaskBefore
  <2>6. JobFits(h, patch[h][n], r, <<h, n>> \in started,
                <<h, n>> \in halted, <<h, n>> \in revived)
    <3>1. CASE rem[h][n].approval # "pending"
      BY <2>4, <2>5, <3>1 DEF JobFits, Allowed, Pending
    <3>2. CASE rem[h][n].approval = "pending"
      <4>1. r.exec # rem[h][n].exec => r.exec = "blocked"
        BY <2>4
      <4>2. patch[h][n].status # "none" => r.changed
        BY <2>4, <2>5, <3>2 DEF JobFits, Allowed
      <4> QED
        BY <2>5, <4>1, <4>2 DEF JobFits, Live
    <3> QED
      BY <3>1, <3>2
  <2>7. Counts(h, patch[h][n], r, <<h, n>> \in revived) =>
          Counts(h, patch[h][n], rem[h][n], <<h, n>> \in revived)
    BY <2>4, <2>5 DEF JobFits, Counts, Allowed, Pending, Live
  <2> QED
    BY <1>1, <1>2, <2>1, <2>2, <2>4, <2>6, <2>7, RemediationStands
<1> QED
  BY <1>3, <1>4

-----------------------------------------------------------------------------
(* A cancellation, or a stop: the waiting jobs of hosts end, and the       *)
(* remediations of those that were not running are canceled.               *)

Halts(c, hosts, resting, running) ==
  /\ c \in Campaigns
  /\ \A h \in Hosts :
       /\ c.host[h].rem = camp.host[h].rem /\ c.host[h].job = camp.host[h].job
       /\ c.host[h].state \in Proposing => camp.host[h].state \in Proposing
  /\ resting \subseteq hosts /\ hosts \subseteq Hosts
  /\ \A h \in resting : NamedJob(c, h) # "running"
  /\ \A h \in hosts : NamedJob(c, h) \in {"queued", "scheduled"} => h \in resting
  /\ CancelJobs(c, hosts) /\ CancelRemediations(c, resting) /\ Halt(c, resting)
  /\ UNCHANGED <<started, aside>>
  /\ camp'.host = WithStates(c, running, resting).host

HaltedPair(c, hosts, resting, h, n) ==
  /\ patch'[h][n] =
       IF /\ h \in hosts /\ NamedJob(c, h) \in {"queued", "scheduled"}
          /\ c.host[h].job = PatchJob /\ c.host[h].rem = n
       THEN [patch[h][n] EXCEPT !.status = "canceled"] ELSE patch[h][n]
  /\ rem'[h][n] =
       IF /\ h \in resting /\ c.host[h].rem = n
          /\ rem[h][n].exec \in {"not_started", "queued", "waiting_for_window"}
       THEN WithExec(rem[h][n], "canceled") ELSE rem[h][n]
  /\ <<h, n>> \in halted' =>
       \/ <<h, n>> \in halted
       \/ h \in resting /\ c.host[h].rem = n /\ patch[h][n].tries = 0
  /\ scan'[h][n] =
       IF /\ h \in hosts /\ NamedJob(c, h) \in {"queued", "scheduled"}
          /\ c.host[h].job = n
       THEN "canceled" ELSE scan[h][n]

LEMMA HaltedPairs ==
  ASSUME TypeOK, NEW c, NEW hosts, NEW resting, NEW running,
         Halts(c, hosts, resting, running),
         NEW h \in Hosts, NEW n \in Scans
  PROVE  HaltedPair(c, hosts, resting, h, n)
<1> DEFINE Waiting(k) == k \in hosts /\ NamedJob(c, k) \in {"queued", "scheduled"}
           m == c.host[h].rem
<1>0. n # 0
  BY ScanRange
<1>1. /\ patch' = [k \in Hosts |->
                     IF Waiting(k) /\ c.host[k].job = PatchJob
                     THEN [patch[k] EXCEPT ![c.host[k].rem].status = "canceled"]
                     ELSE patch[k]]
      /\ scan' = [k \in Hosts |->
                    IF Waiting(k) /\ c.host[k].job \in Scans
                    THEN [scan[k] EXCEPT ![c.host[k].job] = "canceled"]
                    ELSE scan[k]]
  BY Zenon DEF Halts, CancelJobs
<1>2. rem'[h] = IF /\ h \in resting /\ m # 0
                   /\ rem[h][m].exec \in {"not_started", "queued", "waiting_for_window"}
                THEN [rem[h] EXCEPT ![m] = WithExec(rem[h][m], "canceled")] ELSE rem[h]
  BY DEF Halts, CancelRemediations, WithExec
<1>3. halted' = halted \cup
        {<<k, c.host[k].rem>> : k \in {x \in resting : /\ c.host[x].rem # 0
                                         /\ patch[x][c.host[x].rem].tries = 0}}
  BY Zenon DEF Halts, Halt
<1>4. /\ patch[h] \in [Scans -> PatchJobs] /\ scan[h] \in [Scans -> ScanStates]
      /\ rem[h] \in [Scans -> Remediations]
  BY TypesAre DEF JobsOK, ScansOK, RemediationsOK
<1> HIDE DEF Waiting
<1>5. patch'[h][n] = IF Waiting(h) /\ c.host[h].job = PatchJob /\ m = n
                     THEN [patch[h][n] EXCEPT !.status = "canceled"] ELSE patch[h][n]
  <2>1. patch'[h] = IF Waiting(h) /\ c.host[h].job = PatchJob
                    THEN [patch[h] EXCEPT ![m].status = "canceled"] ELSE patch[h]
    BY <1>1
  <2> HIDE DEF m
  <2> QED
    BY <1>4, <2>1
<1>6. scan'[h][n] = IF Waiting(h) /\ c.host[h].job = n THEN "canceled" ELSE scan[h][n]
  <2>1. scan'[h] = IF Waiting(h) /\ c.host[h].job \in Scans
                   THEN [scan[h] EXCEPT ![c.host[h].job] = "canceled"] ELSE scan[h]
    BY <1>1
  <2> QED
    BY <1>4, <2>1
<1>7. rem'[h][n] =
        IF /\ h \in resting /\ m = n
           /\ rem[h][n].exec \in {"not_started", "queued", "waiting_for_window"}
        THEN WithExec(rem[h][n], "canceled") ELSE rem[h][n]
  <2> HIDE DEF m
  <2> QED
    BY <1>0, <1>2, <1>4
<1>8. <<h, n>> \in halted' =>
        <<h, n>> \in halted \/ (h \in resting /\ m = n /\ patch[h][n].tries = 0)
  BY <1>3
<1> QED
  BY <1>5, <1>6, <1>7, <1>8 DEF Waiting, HaltedPair

LEMMA HaltKeepsOrder ==
  ASSUME TypeOK, CampaignFits, JobsFit, BatchesDoNotOverlap, TypeOK',
         NEW c, NEW hosts, NEW resting, NEW running, Halts(c, hosts, resting, running)
  PROVE  JobsFit' /\ BatchesDoNotOverlap'
<1>1. ASSUME NEW h \in Hosts, NEW n \in Scans
      PROVE  /\ JobFits(h, patch'[h][n], rem'[h][n], <<h, n>> \in started',
                        <<h, n>> \in halted', <<h, n>> \in revived')
             /\ CopyFits(patch'[h][n], stage'[h][n])
             /\ Counts(h, patch'[h][n], rem'[h][n], <<h, n>> \in revived') =>
                  /\ Counts(h, patch[h][n], rem[h][n], <<h, n>> \in revived)
                  /\ rem'[h][n].batch = rem[h][n].batch
  <2> DEFINE j == patch[h][n]
             r == rem[h][n]
             ends == /\ h \in hosts /\ NamedJob(c, h) \in {"queued", "scheduled"}
                     /\ c.host[h].job = PatchJob /\ c.host[h].rem = n
             drops == /\ h \in resting /\ c.host[h].rem = n
                      /\ r.exec \in {"not_started", "queued", "waiting_for_window"}
             stopped == <<h, n>> \in halted
             back == <<h, n>> \in revived
             now == h \in resting /\ c.host[h].rem = n /\ j.tries = 0
  <2>0. HaltedPair(c, hosts, resting, h, n)
    BY HaltedPairs
  <2>1. /\ JobFits(h, j, r, <<h, n>> \in started, stopped, back)
        /\ CopyFits(j, stage[h][n])
        /\ j \in PatchJobs /\ r \in Remediations
    BY TaskBefore
  <2>2. /\ ~ends => patch'[h][n] = j
        /\ ends => /\ patch'[h][n].status = "canceled" /\ patch'[h][n].tries = j.tries
                   /\ patch'[h][n].at = j.at
        /\ <<h, n>> \in halted' => stopped \/ now
    BY <2>0, <2>1 DEF PatchJobs, HaltedPair
  <2>3. /\ ~drops => rem'[h][n] = r
        /\ drops => rem'[h][n].exec = "canceled"
        /\ rem'[h][n].approval = r.approval /\ rem'[h][n].reboot = r.reboot
        /\ rem'[h][n].changed = r.changed /\ rem'[h][n].batch = r.batch
    BY <2>0, <2>1, ExecFields DEF HaltedPair
  <2>4. j.status # "none" =>
          /\ c.host[h].rem = n /\ c.host[h].job = PatchJob
          /\ NamedJob(c, h) = j.status
    <3>1. PatchJob # NoJob
      BY ScanRange
    <3> QED
      BY <3>1 DEF CampaignFits, JobsAreBound, Halts, NamedJob
  <2>5. /\ j.status \in {"queued", "scheduled"} /\ h \in resting => ends
        /\ j.status = "running" => h \notin resting
        /\ ends => j.status \in {"queued", "scheduled"}
    <3>1. ends => NamedJob(c, h) = j.status
      <4>1. PatchJob # NoJob
        BY ScanRange
      <4> QED
        BY <4>1 DEF NamedJob
    <3> QED
      BY <2>4, <3>1 DEF Halts
  <2>6. started' = started /\ (<<h, n>> \in revived') = back /\ stage' = stage
    BY DEF Halts
  <2> HIDE DEF j, r, ends, drops, stopped, back
  <2>7. r.exec = "not_started" /\ now => drops
    BY DEF drops
  <2>8. drops => h \in resting
    BY DEF drops
  <2>9. j.at = "handler" => j.tries > 0
    BY <2>1 DEF JobFits
  <2>10. JobFits(h, patch'[h][n], rem'[h][n], <<h, n>> \in started',
                 <<h, n>> \in halted', back)
    <3>1. CASE ends
      BY <2>1, <2>2, <2>3, <2>5, <2>6, <2>7, <2>8, <3>1 DEF JobFits, Allowed, Live, Pending
    <3>2. CASE ~ends
      BY <2>1, <2>2, <2>3, <2>5, <2>6, <2>7, <2>8, <3>2 DEF JobFits, Allowed, Live, Pending
    <3> QED
      BY <3>1, <3>2
  <2>11. Counts(h, patch'[h][n], rem'[h][n], back) => Counts(h, j, r, back)
    BY <2>2, <2>3 DEF Counts, Allowed, Live, Pending
  <2>12. CopyFits(patch'[h][n], stage'[h][n])
    BY <2>1, <2>2, <2>5, <2>6 DEF CopyFits
  <2> QED
    BY <2>3, <2>6, <2>10, <2>11, <2>12 DEF j, r, back
<1> QED
  BY <1>1, PairsStand

LEMMA HaltFits ==
  ASSUME TypeOK, CampaignFits, HeldIsCurrent',
         NEW c, NEW hosts, NEW resting, NEW running, Halts(c, hosts, resting, running)
  PROVE  CampaignFits'
<1>1. ASSUME NEW h \in Hosts
      PROVE  /\ camp'.host[h].rem = camp.host[h].rem
             /\ camp'.host[h].job = camp.host[h].job
             /\ camp'.host[h].state \in Proposing =>
                  h \notin resting /\ camp.host[h].state \in Proposing
  <2>1. /\ c \in Campaigns /\ camp'.host = WithStates(c, running, resting).host
        /\ c.host[h].rem = camp.host[h].rem /\ c.host[h].job = camp.host[h].job
        /\ c.host[h].state \in Proposing => camp.host[h].state \in Proposing
    BY DEF Halts
  <2> QED
    BY <2>1, StatesType DEF Proposing
<1>2. ASSUME NEW h \in Hosts, NEW n \in Scans
      PROVE  /\ scan'[h][n] = scan[h][n] \/ (scan[h][n] # "told" /\ h \in resting)
             /\ patch'[h][n].status # "none" => patch[h][n].status # "none"
  <2>0. HaltedPair(c, hosts, resting, h, n)
    BY HaltedPairs
  <2>1. c.host[h].job = n /\ NamedJob(c, h) \in {"queued", "scheduled"} =>
          scan[h][n] # "told"
    BY ScanRange DEF NamedJob, ScanJob
  <2>2. \A k \in hosts : NamedJob(c, k) \in {"queued", "scheduled"} => k \in resting
    BY DEF Halts
  <2>3. c.host[h].job = PatchJob /\ c.host[h].rem = n
          /\ NamedJob(c, h) \in {"queued", "scheduled"} => patch[h][n].status # "none"
    BY ScanRange DEF NamedJob
  <2> QED
    BY <2>0, <2>1, <2>2, <2>3 DEF HaltedPair
<1>3. \A h \in Hosts : camp.host[h].rem \in {0} \cup Scans
  BY ScanRange, TypesAre DEF CampOK, Campaigns
<1>4. BoundIsTold'
  BY <1>1, <1>2, <1>3 DEF CampaignFits, BoundIsTold
<1>5. JobsAreBound'
  BY <1>1, <1>2 DEF CampaignFits, JobsAreBound
<1>6. ProposalsRun'
  BY <1>1, <1>2 DEF CampaignFits, ProposalsRun
<1> QED
  BY <1>4, <1>5, <1>6 DEF CampaignFits

LEMMA CancelHalts ==
  ASSUME TypeOK, NEW p \in Procs, CancelCampaign(p)
  PROVE  /\ Idle(p) /\ win' = win
         /\ \E c, hosts, resting, running : Halts(c, hosts, resting, running)
<1> DEFINE c == Project(camp, rem, patch)
           open == Hosts \ HostsIn(c, {"succeeded", "failed", "no_action"})
           running == {h \in open : NamedJob(c, h) = "running"}
           canceled == {h \in open : NamedJob(c, h) \in
                                       {"none", "canceled", "queued", "scheduled"}}
           status == IF running # {} THEN "cancelling" ELSE "canceled"
<1>1. camp \in Campaigns
  BY TypesAre DEF CampOK
<1>2. /\ CancelJobs(c, open) /\ CancelRemediations(c, canceled) /\ Halt(c, canceled)
      /\ camp' = [WithStates(c, running, canceled) EXCEPT
                    !.canceled = TRUE, !.status = status]
      /\ UNCHANGED <<win, confirmed, started, aside>> /\ Idle(p)
  BY Zenon DEF CancelCampaign
<1>3. /\ c \in Campaigns
      /\ \A h \in Hosts :
           /\ c.host[h].rem = camp.host[h].rem /\ c.host[h].job = camp.host[h].job
           /\ c.host[h].state \in Proposing => camp.host[h].state \in Proposing
  BY <1>1, Projection, ProjectionStands, TypesAre
<1>4. /\ canceled \subseteq open /\ open \subseteq Hosts
      /\ \A h \in canceled : NamedJob(c, h) # "running"
      /\ \A h \in open : NamedJob(c, h) \in {"queued", "scheduled"} => h \in canceled
  OBVIOUS
<1> HIDE DEF c, open, running, canceled, status
<1>5. camp'.host = WithStates(c, running, canceled).host
  BY <1>2, <1>3, StatesType DEF Campaigns
<1>6. Halts(c, open, canceled, running)
  BY <1>2, <1>3, <1>4, <1>5 DEF Halts
<1> QED
  BY <1>2, <1>6

LEMMA StopHalts ==
  ASSUME TypeOK, CampaignFits, NEW p \in Procs, StopRemaining(p)
  PROVE  /\ win' = [win EXCEPT ![p].op = "sync", ![p].held = camp']
         /\ \E c, hosts, resting, running : Halts(c, hosts, resting, running)
<1> DEFINE c == win[p].held
           others == (Hosts \ {win[p].host}) \
                       HostsIn(c, {"succeeded", "failed", "no_action", "running"})
           running == {h \in others : NamedJob(c, h) = "running"}
           stopped == WithStates(c, running, others \ running)
<1>1. camp \in Campaigns
  BY TypesAre DEF CampOK
<1>2. /\ CancelJobs(c, others) /\ CancelRemediations(c, others \ running)
      /\ Halt(c, others \ running) /\ camp' = stopped
      /\ win' = [win EXCEPT ![p].op = "sync", ![p].held = stopped]
      /\ UNCHANGED <<confirmed, started, aside>> /\ win[p].op = "stop"
  BY Zenon DEF StopRemaining
<1>3. c = camp
  BY <1>2 DEF CampaignFits, HeldIsCurrent
<1>4. /\ others \ running \subseteq others /\ others \subseteq Hosts
      /\ \A h \in others \ running : NamedJob(c, h) # "running"
      /\ \A h \in others : NamedJob(c, h) \in {"queued", "scheduled"} =>
                             h \in others \ running
  OBVIOUS
<1> HIDE DEF c, others, running
<1>5. Halts(c, others, others \ running, running)
  BY <1>1, <1>2, <1>3, <1>4 DEF Halts
<1> QED
  BY <1>2, <1>5

LEMMA CancelKeepsOrder ==
  ASSUME TypeOK, SingleFile, CampaignFits, JobsFit, BatchesDoNotOverlap, TypeOK',
         NEW p \in Procs, CancelCampaign(p)
  PROVE  CampaignFits' /\ JobsFit' /\ BatchesDoNotOverlap'
<1>1. HeldIsCurrent'
  BY CancelHalts, AllIdle
<1> QED
  BY <1>1, CancelHalts, HaltFits, HaltKeepsOrder, Zenon

LEMMA StopKeepsOrder ==
  ASSUME TypeOK, SingleFile, CampaignFits, JobsFit, BatchesDoNotOverlap, TypeOK',
         NEW p \in Procs, StopRemaining(p)
  PROVE  CampaignFits' /\ JobsFit' /\ BatchesDoNotOverlap'
<1>1. WindowsOK'
  BY DEF TypeOK, WindowsOK
<1>2. HeldIsCurrent'
  <2> DEFINE op == "sync"
  <2>1. win' = [win EXCEPT ![p].op = op, ![p].held = camp']
    BY StopHalts, Zenon
  <2> QED
    BY <1>1, <2>1, SyncHolds
<1> QED
  BY <1>2, StopHalts, HaltFits, HaltKeepsOrder, Zenon

-----------------------------------------------------------------------------
(* A batch.                                                                *)

Projected(c) == c = Project(camp, rem, patch)

(* Whom a batch may take: an approved plan that no job was made for yet.   *)
Fresh(h, n) ==
  /\ h \in Hosts /\ n \in Scans /\ n = camp.host[h].rem
  /\ ~rem[h][n].changed /\ rem[h][n].exec = "not_started"
  /\ patch[h][n].status = "none"
  /\ <<h, n>> \notin started /\ <<h, n>> \notin halted /\ <<h, n>> \notin revived
  /\ stage[h][n] = "none"

LEMMA CandidateIsFresh ==
  ASSUME TypeOK, JobsFit, NEW c, Projected(c), NEW h \in Candidates(c, rem)
  PROVE  Fresh(h, c.host[h].rem)
<1> DEFINE n == c.host[h].rem
<1>1. camp \in Campaigns
  BY TypesAre DEF CampOK
<1>2. /\ h \in Hosts /\ n # 0 /\ ~rem[h][n].changed /\ c.host[h].state = "approved"
  BY DEF Candidates, HostsIn
<1>3. n = camp.host[h].rem
  BY <1>1, <1>2, Projection, TypesAre DEF Projected
<1>4. n \in Scans
  BY <1>1, <1>2, <1>3, ScanRange DEF Campaigns
<1>5. HostState(camp.host[h], rem[h][n], BoundJob(camp, h)) = "approved"
  BY <1>1, <1>2, <1>3, Projection, TypesAre DEF Projected
<1>6. /\ rem[h][n] \in Remediations /\ stage[h][n] \in Stages
      /\ JobFits(h, patch[h][n], rem[h][n], <<h, n>> \in started,
                 <<h, n>> \in halted, <<h, n>> \in revived)
      /\ CopyFits(patch[h][n], stage[h][n])
  BY <1>2, <1>4, TaskBefore
<1>7. rem[h][n].exec = "not_started"
  <2> DEFINE r == rem[h][n]
  <2>1. r.exec \in DOMAIN ExecutionStates => ExecutionStates[r.exec] # "approved"
    BY DEF ExecutionStates
  <2>2. r.exec \in DOMAIN ExecutionStates \cup {"not_started", "blocked"}
    BY <1>6 DEF Remediations
  <2> QED
    BY <1>5, <2>1, <2>2 DEF HostState
<1> QED
  BY <1>2, <1>3, <1>4, <1>6, <1>7 DEF JobFits, CopyFits, Stages, Fresh

(* Nothing is under way when a batch may start.                            *)
LEMMA NoneUnderWay ==
  ASSUME TypeOK, CampaignFits, NEW c, Projected(c), ~BatchRefused(c),
         NEW h \in Hosts, NEW n \in Scans
  PROVE  ~Counts(h, patch[h][n], rem[h][n], <<h, n>> \in revived)
<1> SUFFICES ASSUME Counts(h, patch[h][n], rem[h][n], <<h, n>> \in revived)
             PROVE  FALSE
  OBVIOUS
<1>1. camp \in Campaigns
  BY TypesAre DEF CampOK
<1>2. camp.host[h].rem = n /\ camp.host[h].job = PatchJob
  BY DEF CampaignFits, JobsAreBound, Counts, Live
<1>3. BoundJob(camp, h) = patch[h][n].status
  BY <1>2 DEF BoundJob
<1>4. c.host[h].state = HostState(camp.host[h], rem[h][n], patch[h][n].status)
  BY <1>1, <1>2, <1>3, ScanRange, Projection, TypesAre DEF Projected
<1>5. HostState(camp.host[h], rem[h][n], patch[h][n].status) \in InBatch
  <2>1. patch[h][n].status \in Live /\ rem[h][n].exec \in Pending
    BY DEF Counts
  <2>2. \A exec \in Pending : exec \in DOMAIN ExecutionStates
                              /\ ExecutionStates[exec] \in InBatch
    BY DEF Pending, ExecutionStates, InBatch
  <2> QED
    BY <2>1, <2>2 DEF HostState, Live, InBatch
<1> QED
  BY <1>4, <1>5 DEF BatchRefused, HostsIn

(* A batch is no larger than any of its hosts allows.                      *)
LEMMA BatchIsSmall ==
  ASSUME TypeOK, NEW c \in Campaigns, NEW selected \in Selections(c, rem),
         NEW h \in Candidates(c, rem), NEW n, n = c.host[h].rem
  PROVE  /\ ~BatchRefused(c) /\ selected \subseteq Candidates(c, rem)
         /\ IsFiniteSet(selected) /\ Cardinality(selected) \in Nat
         /\ rem[h][n].batch \in Nat /\ Cardinality(selected) <= rem[h][n].batch
<1> DEFINE all == Candidates(c, rem)
           rems == {rem[k][c.host[k].rem] : k \in all}
           sizes == {c.size} \cup {r.batch : r \in rems}
           limit == Min(sizes)
           canaries == {limit} \cup {CanaryOf(r) : r \in rems}
           m == Min({Cardinality(all), BatchLimit(c, rem)})
<1>1. ~BatchRefused(c) /\ selected \in kSubset(m, all)
  BY DEF Selections
<1>2. selected \in SUBSET all /\ Cardinality(selected) = m
  BY <1>1 DEF kSubset
<1>3. all \in SUBSET Hosts
  BY DEF Candidates, HostsIn
<1>4. selected \in SUBSET Hosts
  BY <1>2, <1>3
<1>5. IsFiniteSet(selected) /\ Cardinality(selected) \in Nat /\ Cardinality(all) \in Nat
  BY <1>3, <1>4, HostsCount
<1>6. \A r \in rems : r \in Remediations /\ r.batch \in Nat \ {0}
  <2>1. ASSUME NEW k \in all
        PROVE  rem[k][c.host[k].rem] \in Remediations
    <3>1. k \in Hosts /\ c.host[k].rem # 0
      BY DEF Candidates, HostsIn
    <3> QED
      BY <3>1, ScanRange, TypesAre DEF Campaigns, RemediationsOK
  <2> HIDE DEF all
  <2>2. \A r \in rems : r \in Remediations
    BY <2>1
  <2> QED
    BY <2>2 DEF Remediations
<1>7. rem[h][n] \in rems
  OBVIOUS
<1>8. sizes \in SUBSET Nat /\ c.size \in sizes /\ rem[h][n].batch \in sizes
  <2>1. c.size \in Nat
    BY DEF Campaigns
  <2> HIDE DEF rems
  <2> QED
    BY <1>6, <1>7, <2>1
<1>9. limit \in Nat /\ limit <= rem[h][n].batch
  <2> HIDE DEF sizes
  <2> QED
    BY <1>8, LeastNatural
<1>10. BatchLimit(c, rem) = IF c.batch > 0 THEN limit ELSE Min(canaries)
  BY Zenon DEF BatchLimit
<1>11. BatchLimit(c, rem) \in Nat /\ BatchLimit(c, rem) <= rem[h][n].batch
  <2> HIDE DEF limit, rems
  <2>1. canaries \in SUBSET Nat /\ limit \in canaries
    BY <1>6, <1>9, RulesAssumption DEF CanaryOf
  <2> HIDE DEF canaries
  <2>2. Min(canaries) \in Nat /\ Min(canaries) <= limit
    BY <2>1, LeastNatural
  <2>3. rem[h][n].batch \in Nat
    BY <1>6, <1>7
  <2> QED
    BY <1>9, <1>10, <2>2, <2>3
<1>12. m <= BatchLimit(c, rem)
  <2> DEFINE both == {Cardinality(all), BatchLimit(c, rem)}
  <2>1. both \in SUBSET Nat /\ BatchLimit(c, rem) \in both
    BY <1>5, <1>11
  <2> HIDE DEF both, all
  <2> QED
    BY <2>1, LeastNatural DEF both
<1>13. rem[h][n].batch \in Nat
  BY <1>6, <1>7
<1> QED
  <2> HIDE DEF m, all
  <2>1. m \in Nat
    BY <1>2, <1>5
  <2> QED
    BY <1>1, <1>2, <1>5, <1>11, <1>12, <1>13, <2>1 DEF all

(* What a batch does to job and remediation of a pair.                     *)
LEMMA LaunchedPair ==
  ASSUME TypeOK, JobsFit, NEW c, Projected(c),
         NEW selected, NEW taken, NEW times, Launch(c, selected, taken, times),
         NEW h \in Hosts, NEW n \in Scans
  PROVE  /\ h \in taken /\ n = c.host[h].rem =>
              /\ h \in Candidates(c, rem) /\ Eligible(h, n)
              /\ patch'[h][n].status \in {"queued", "scheduled"}
              /\ patch'[h][n].tries = 0 /\ patch'[h][n].at = "none"
              /\ \E exec \in {"queued", "waiting_for_window"} :
                   rem'[h][n] = WithExec(rem[h][n], exec)
         /\ ~(h \in taken /\ n = c.host[h].rem) =>
              patch'[h][n] = patch[h][n] /\ rem'[h][n] = rem[h][n]
<1> DEFINE m == c.host[h].rem
<1>1. /\ patch' = [k \in Hosts |-> IF k \in taken
           THEN [patch[k] EXCEPT
                   ![c.host[k].rem] = Prepared(k, c.host[k].rem, times[k])]
           ELSE patch[k]]
      /\ AwaitExecution(c, taken, times)
      /\ selected \in Selections(c, rem)
      /\ taken \in SUBSET {k \in selected : Eligible(k, c.host[k].rem)}
      /\ times \in [taken -> {"queued", "scheduled"}]
  BY Zenon DEF Launch
<1>2. selected \subseteq Candidates(c, rem)
  BY <1>1 DEF Selections, kSubset
<1>3. /\ patch[h] \in [Scans -> PatchJobs] /\ rem[h] \in [Scans -> Remediations]
  BY TypesAre DEF JobsOK, RemediationsOK
<1>4. patch'[h] = IF h \in taken THEN [patch[h] EXCEPT ![m] = Prepared(h, m, times[h])]
                  ELSE patch[h]
  BY <1>1
<1>5. rem'[h] = IF h \in taken /\ patch[h][m].status = "none"
                THEN [rem[h] EXCEPT ![m] = WithExec(rem[h][m], WaitingExec(times[h]))]
                ELSE rem[h]
  BY <1>1 DEF AwaitExecution, WithExec
<1>6. CASE h \in taken
  <2>1. h \in Candidates(c, rem) /\ Eligible(h, m) /\ times[h] \in {"queued", "scheduled"}
    BY <1>1, <1>2, <1>6
  <2>2. m \in Scans /\ patch[h][m].status = "none"
    <3>1. Fresh(h, m)
      BY <2>1, CandidateIsFresh
    <3> QED
      BY <3>1 DEF Fresh
  <2> HIDE DEF m
  <2>3. /\ patch'[h][m] = [status |-> times[h], tries |-> 0, at |-> "none"]
        /\ rem'[h][m] = WithExec(rem[h][m], WaitingExec(times[h]))
        /\ n # m => patch'[h][n] = patch[h][n] /\ rem'[h][n] = rem[h][n]
    BY <1>3, <1>4, <1>5, <1>6, <2>2 DEF Prepared
  <2>4. WaitingExec(times[h]) \in {"queued", "waiting_for_window"}
    BY DEF WaitingExec
  <2> QED
    BY <1>6, <2>1, <2>3, <2>4 DEF m
<1>7. CASE h \notin taken
  BY <1>4, <1>5, <1>7
<1> QED
  BY <1>6, <1>7

LEMMA LaunchedFits ==
  ASSUME TypeOK, CampaignFits, JobsFit, TypeOK', NEW c, Projected(c),
         NEW selected, NEW taken, NEW times, Launch(c, selected, taken, times),
         ~BatchRefused(c), UNCHANGED <<started, halted, aside>>,
         NEW h \in Hosts, NEW n \in Scans
  PROVE  /\ JobFits(h, patch'[h][n], rem'[h][n], <<h, n>> \in started',
                    <<h, n>> \in halted', <<h, n>> \in revived')
         /\ CopyFits(patch'[h][n], stage'[h][n])
         /\ rem'[h][n].batch = rem[h][n].batch
         /\ Counts(h, patch'[h][n], rem'[h][n], <<h, n>> \in revived') =>
              /\ h \in taken /\ n = c.host[h].rem /\ h \in Candidates(c, rem)
<1> DEFINE launched == h \in taken /\ n = c.host[h].rem
<1>1. /\ rem[h][n] \in Remediations
      /\ JobFits(h, patch[h][n], rem[h][n], <<h, n>> \in started,
                 <<h, n>> \in halted, <<h, n>> \in revived)
      /\ CopyFits(patch[h][n], stage[h][n])
  BY TaskBefore
<1>2. ~Counts(h, patch[h][n], rem[h][n], <<h, n>> \in revived)
  BY NoneUnderWay
<1>3. CASE launched
  <2>1. /\ h \in Candidates(c, rem) /\ Eligible(h, n)
        /\ patch'[h][n].status \in {"queued", "scheduled"}
        /\ patch'[h][n].tries = 0 /\ patch'[h][n].at = "none"
        /\ \E exec \in {"queued", "waiting_for_window"} :
             rem'[h][n] = WithExec(rem[h][n], exec)
    BY <1>3, LaunchedPair
  <2>2. Fresh(h, n)
    BY <1>3, <2>1, CandidateIsFresh
  <2>3. /\ rem'[h][n].exec \in {"queued", "waiting_for_window"}
        /\ rem'[h][n].approval = rem[h][n].approval
        /\ rem'[h][n].reboot = rem[h][n].reboot
        /\ rem'[h][n].changed = rem[h][n].changed
        /\ rem'[h][n].batch = rem[h][n].batch
    BY <1>1, <2>1, ExecFields
  <2>4. Allowed(h, rem[h][n]) /\ ~rem[h][n].changed
    BY <2>1 DEF Eligible, Allowed
  <2>5. /\ <<h, n>> \notin started' /\ <<h, n>> \notin halted'
        /\ <<h, n>> \notin revived' /\ stage'[h][n] = "none"
    BY <2>2 DEF Fresh
  <2> QED
    BY <1>3, <2>1, <2>3, <2>4, <2>5 DEF JobFits, CopyFits, Allowed, Pending, Live
<1>4. CASE ~launched
  <2>1. patch'[h][n] = patch[h][n] /\ rem'[h][n] = rem[h][n]
    BY <1>4, LaunchedPair
  <2> QED
    BY <1>1, <1>2, <2>1
<1> QED
  BY <1>3, <1>4

LEMMA LaunchKeepsOrder ==
  ASSUME TypeOK, CampaignFits, JobsFit, TypeOK', NEW c \in Campaigns, Projected(c),
         NEW selected, NEW taken, NEW times, Launch(c, selected, taken, times),
         UNCHANGED <<started, halted, aside>>
  PROVE  JobsFit' /\ BatchesDoNotOverlap'
<1>1. selected \in Selections(c, rem) /\ taken \in SUBSET selected /\ ~BatchRefused(c)
  <2>1. selected \in Selections(c, rem) /\ taken \in SUBSET selected
    BY Zenon DEF Launch
  <2> QED
    BY <2>1 DEF Selections
<1>2. ASSUME NEW h \in Hosts, NEW n \in Scans
      PROVE  /\ JobFits(h, patch'[h][n], rem'[h][n], <<h, n>> \in started',
                        <<h, n>> \in halted', <<h, n>> \in revived')
             /\ CopyFits(patch'[h][n], stage'[h][n])
             /\ rem'[h][n].batch = rem[h][n].batch
             /\ Counts(h, patch'[h][n], rem'[h][n], <<h, n>> \in revived') =>
                  h \in taken /\ n = c.host[h].rem /\ h \in Candidates(c, rem)
  BY <1>1, LaunchedFits
<1> DEFINE image == {<<h, c.host[h].rem>> : h \in taken}
           f == [h \in taken |-> <<h, c.host[h].rem>>]
<1>3. ASSUME NEW s \in UnderWay'
      PROVE  \E h \in Hosts, n \in Scans :
               /\ s = <<h, n>> /\ h \in taken /\ h \in Candidates(c, rem)
               /\ n = c.host[h].rem /\ rem'[h][n].batch = rem[h][n].batch
  <2>1. PICK h \in Hosts, n \in Scans : s = <<h, n>>
    BY UnderWayCounts
  <2>2. Counts(h, patch'[h][n], rem'[h][n], <<h, n>> \in revived')
    BY <2>1, UnderWayCounts
  <2> QED
    BY <1>2, <2>1, <2>2
<1>4. f \in Surjection(taken, image)
  BY DEF Surjection
<1>6. UnderWay' \in SUBSET image
  BY <1>3
<1> HIDE DEF image, f
<1>5. ASSUME NEW s \in UnderWay'
      PROVE  Cardinality(UnderWay') <= rem'[s[1]][s[2]].batch
  <2>1. PICK h \in Hosts, n \in Scans :
          /\ s = <<h, n>> /\ h \in Candidates(c, rem)
          /\ n = c.host[h].rem /\ rem'[h][n].batch = rem[h][n].batch
    BY <1>3, <1>5
  <2>2. /\ IsFiniteSet(selected) /\ Cardinality(selected) \in Nat
        /\ rem[h][n].batch \in Nat /\ Cardinality(selected) <= rem[h][n].batch
    BY <1>1, <2>1, BatchIsSmall
  <2>3. IsFiniteSet(taken) /\ Cardinality(taken) <= Cardinality(selected)
    BY <1>1, <2>2, FS_Subset
  <2>4. IsFiniteSet(image) /\ Cardinality(image) <= Cardinality(taken)
    BY <1>4, <2>3, FS_Surjection
  <2>5. Cardinality(UnderWay') <= Cardinality(image) /\ IsFiniteSet(UnderWay')
    BY <1>6, <2>4, FS_Subset
  <2>6. /\ Cardinality(taken) \in Nat /\ Cardinality(image) \in Nat
        /\ Cardinality(UnderWay') \in Nat
    BY <2>3, <2>4, <2>5, FS_CardinalityType
  <2>7. Cardinality(UnderWay') <= rem'[h][n].batch
    BY <2>1, <2>2, <2>3, <2>4, <2>5, <2>6
  <2> QED
    BY <2>1, <2>7
<1> QED
  BY <1>2, <1>5 DEF JobsFit, BatchesDoNotOverlap

LEMMA LaunchFits ==
  ASSUME TypeOK, CampaignFits, JobsFit, HeldIsCurrent', NEW c, Projected(c),
         NEW selected, NEW taken, NEW times, Launch(c, selected, taken, times),
         scan' = scan
  PROVE  CampaignFits'
<1> DEFINE rows == [h \in Hosts |->
              IF h \in selected \ taken
              THEN [c.host[h] EXCEPT !.state = "blocked"] ELSE c.host[h]]
           jobs == [h \in taken |-> Prepared(h, c.host[h].rem, times[h]).status]
<1>1. camp' = StartBatch([c EXCEPT !.host = rows], jobs)
  BY Zenon DEF Launch
<1>2. camp \in Campaigns /\ c \in Campaigns
      /\ \A h \in Hosts :
           /\ c.host[h].rem = camp.host[h].rem /\ c.host[h].job = camp.host[h].job
           /\ c.host[h].state \in Proposing => camp.host[h].state \in Proposing
  BY Projection, ProjectionStands, TypesAre DEF CampOK, Projected
<1>3. ASSUME NEW h \in Hosts
      PROVE  /\ rows[h] \in Rows
             /\ rows[h].rem = camp.host[h].rem /\ rows[h].job = camp.host[h].job
             /\ rows[h].state \in Proposing => camp.host[h].state \in Proposing
  <2>1. c.host[h] \in Rows
    BY <1>2 DEF Campaigns, Rows
  <2> QED
    BY <1>2, <2>1 DEF Rows, HostStates, Proposing
<1>4. rows \in [Hosts -> Rows]
  BY <1>3
<1>5. DOMAIN jobs = taken
  OBVIOUS
<1> HIDE DEF rows, jobs
<1>6. PICK d \in Campaigns : d.host = rows /\ camp' = StartBatch(d, jobs)
  BY <1>1, <1>2, <1>4, NewRows, Zenon
<1>7. ASSUME NEW h \in Hosts
      PROVE  /\ camp'.host[h].rem = camp.host[h].rem
             /\ camp'.host[h].job = IF h \in taken THEN PatchJob ELSE camp.host[h].job
             /\ camp'.host[h].state \in Proposing => camp.host[h].state \in Proposing
  <2>1. /\ camp'.host[h].rem = rows[h].rem
        /\ camp'.host[h].job = IF h \in taken THEN PatchJob ELSE rows[h].job
        /\ camp'.host[h].state \in
             IF h \in taken THEN {"queued", "scheduled"} ELSE {rows[h].state}
    BY <1>5, <1>6, StartType
  <2> QED
    BY <1>3, <2>1 DEF Proposing
<1>8. BoundIsTold'
  BY <1>7 DEF CampaignFits, BoundIsTold
<1>9. JobsAreBound'
  <2> SUFFICES ASSUME NEW h \in Hosts, NEW n \in Scans, patch'[h][n].status # "none"
               PROVE  camp'.host[h].rem = n /\ camp'.host[h].job = PatchJob
    BY DEF JobsAreBound
  <2>1. CASE h \in taken /\ n = c.host[h].rem
    BY <1>2, <1>7, <2>1
  <2>2. CASE ~(h \in taken /\ n = c.host[h].rem)
    <3>1. patch'[h][n] = patch[h][n]
      BY <2>2, LaunchedPair
    <3> QED
      BY <1>7, <3>1 DEF CampaignFits, JobsAreBound
  <2> QED
    BY <2>1, <2>2
<1>10. ProposalsRun'
  BY <1>7 DEF CampaignFits, ProposalsRun
<1> QED
  BY <1>8, <1>9, <1>10 DEF CampaignFits

LEMMA BatchKeepsOrder ==
  ASSUME TypeOK, SingleFile, CampaignFits, JobsFit, TypeOK', NEW p \in Procs,
         ExecuteBatch(p)
  PROVE  CampaignFits' /\ JobsFit' /\ BatchesDoNotOverlap'
<1> DEFINE c == Project(camp, rem, patch)
<1>1. c \in Campaigns /\ Projected(c)
  BY Projection, TypesAre DEF CampOK, Projected
<1>2. Idle(p) /\ UNCHANGED <<scan, win, started, halted, aside>>
  BY BatchParts
<1>3. PICK selected, taken, times : Launch(c, selected, taken, times)
  BY BatchParts, Zenon
<1> HIDE DEF c
<1>4. HeldIsCurrent'
  BY <1>2, AllIdle
<1>5. CampaignFits'
  BY <1>1, <1>2, <1>3, <1>4, LaunchFits
<1>6. JobsFit' /\ BatchesDoNotOverlap'
  BY <1>1, <1>2, <1>3, LaunchKeepsOrder
<1> QED
  BY <1>5, <1>6

-----------------------------------------------------------------------------
LEMMA InitInOrder == Init => InOrder
<1> SUFFICES ASSUME Init
             PROVE  InOrder
  OBVIOUS
<1>1. /\ \A h \in Hosts : /\ camp.host[h].rem = 0
                          /\ camp.host[h].state = "selected"
      /\ \A h \in Hosts, n \in Scans :
           /\ patch[h][n] = PatchJobNone /\ rem[h][n] = NoRemediation
           /\ <<h, n>> \notin started /\ <<h, n>> \notin halted
           /\ <<h, n>> \notin revived /\ stage[h][n] = "none"
      /\ \A p \in Procs : win[p].op = "idle"
  BY DEF Init, Draft, NoWindow
<1>2. PatchJobNone.status = "none" /\ PatchJobNone.tries = 0 /\ PatchJobNone.at = "none"
  BY DEF PatchJobNone
<1>3. CampaignFits
  BY <1>1, <1>2 DEF CampaignFits, HeldIsCurrent, BoundIsTold, JobsAreBound,
                    ProposalsRun, Proposing
<1>4. JobsFit
  <2> SUFFICES ASSUME NEW h \in Hosts, NEW n \in Scans
               PROVE  /\ JobFits(h, patch[h][n], rem[h][n], <<h, n>> \in started,
                                 <<h, n>> \in halted, <<h, n>> \in revived)
                      /\ CopyFits(patch[h][n], stage[h][n])
    BY DEF JobsFit
  <2>1. patch[h][n] = PatchJobNone /\ stage[h][n] = "none"
    BY <1>1
  <2>2. <<h, n>> \notin started /\ <<h, n>> \notin halted /\ <<h, n>> \notin revived
    BY <1>1
  <2>3. CopyFits(patch[h][n], stage[h][n])
    BY <2>1 DEF CopyFits
  <2> QED
    BY <1>2, <2>1, <2>2, <2>3 DEF JobFits, Live
<1>5. BatchesDoNotOverlap
  BY <1>1, <1>2 DEF BatchesDoNotOverlap, UnderWay
<1> QED
  BY <1>3, <1>4, <1>5 DEF InOrder

LEMMA StepInOrder ==
  ASSUME TypeOK, WindowsAreNamed, SingleFile, InOrder, TypeOK', [Next]_vars
  PROVE  InOrder'
<1> USE DEF InOrder
<1>0. WindowsOK'
  BY DEF TypeOK, WindowsOK
<1>1. ASSUME NEW p \in Procs, ReadCampaign(p) PROVE InOrder'
  <2>1. UNCHANGED <<patch, rem, started, halted, aside>>
    BY <1>1 DEF ReadCampaign
  <2> QED
    BY <1>0, <1>1, <2>1, ReadFits, JobsUntouched
<1>2. ASSUME NEW p \in Procs, SyncCampaign(p) PROVE InOrder'
  <2>1. UNCHANGED <<patch, rem, started, halted, aside>>
    BY <1>2 DEF SyncCampaign
  <2> QED
    BY <1>0, <1>2, <2>1, SyncFits, JobsUntouched
<1>3. ASSUME NEW p \in Procs, Request(p) PROVE InOrder'
  <2>1. UNCHANGED <<patch, rem, started, halted, aside>>
    BY <1>3 DEF Request
  <2> QED
    BY <1>0, <1>3, <2>1, RequestFits, JobsUntouched
<1>4. ASSUME NEW p \in Procs, QueueProposals(p) PROVE InOrder'
  <2>1. UNCHANGED <<patch, rem, started, halted, aside>>
    BY <1>4 DEF QueueProposals
  <2> QED
    BY <1>4, <2>1, QueueFits, JobsUntouched
<1>5. ASSUME NEW p \in Procs, AnswerHost(p) PROVE InOrder'
  BY <1>0, <1>5, AnswerFits, AnswerKeepsOrder
<1>6. ASSUME NEW p \in Procs, ExecuteBatch(p) PROVE InOrder'
  BY <1>6, BatchKeepsOrder
<1>7. ASSUME NEW p \in Procs, CancelCampaign(p) PROVE InOrder'
  BY <1>7, CancelKeepsOrder
<1>8. ASSUME NEW p \in Procs, StopRemaining(p) PROVE InOrder'
  BY <1>8, StopKeepsOrder
<1>9. ASSUME NEW p \in Procs, MarkRunning(p) PROVE InOrder'
  <2>1. UNCHANGED <<patch, rem, started, halted, aside>>
    BY <1>9 DEF MarkRunning
  <2> QED
    BY <1>9, <2>1, MarkFits, JobsUntouched
<1>10. ASSUME NEW p \in Procs, TellCampaign(p) PROVE InOrder'
  <2>1. UNCHANGED <<patch, rem, started, halted, aside>>
    BY <1>10 DEF TellCampaign
  <2> QED
    BY <1>0, <1>10, <2>1, TellFits, JobsUntouched
<1>11. ASSUME NEW h \in Hosts, NEW n \in Scans, ScanTask(h, n) PROVE InOrder'
  <2>1. CampaignFits'
    BY <1>0, <1>11, ScanTaskFits
  <2>2. CASE EndScan(h, n)
    BY <2>1, <2>2, EndScanKeepsOrder
  <2>3. CASE ~EndScan(h, n)
    <3>1. UNCHANGED <<patch, rem, started, halted, aside>>
      BY <1>11, <2>3 DEF ScanTask, ClaimScan, ReadForMark, ReadForTell
    <3> QED
      BY <2>1, <3>1, JobsUntouched
  <2> QED
    BY <2>2, <2>3
<1>12. ASSUME NEW h \in Hosts, NEW n \in Scans, PatchTask(h, n) PROVE InOrder'
  BY <1>0, <1>12, PatchTaskFits, TaskKeepsOrder
<1>13. ASSUME NEW h \in Hosts, NEW n \in Scans, ChangePlan(h, n) PROVE InOrder'
  <2>1. JobsFit' /\ BatchesDoNotOverlap'
    BY <1>13, ChangeKeepsOrder
  <2>2. UNCHANGED <<camp, scan, patch, win>>
    BY <1>13 DEF ChangePlan
  <2>3. HeldIsCurrent'
    BY <2>2 DEF CampaignFits, HeldIsCurrent
  <2>4. CampaignFits'
    BY <2>2, <2>3, NothingStands
  <2> QED
    BY <2>1, <2>4
<1>14. ASSUME UNCHANGED vars PROVE InOrder'
  <2>1. UNCHANGED <<camp, scan, patch, win, rem, started, halted, aside>>
    BY <1>14 DEF vars
  <2>2. HeldIsCurrent'
    BY <2>1 DEF CampaignFits, HeldIsCurrent
  <2> QED
    BY <2>1, <2>2, NothingStands, JobsUntouched
<1> HIDE DEF InOrder
<1> QED
  BY <1>1, <1>2, <1>3, <1>4, <1>5, <1>6, <1>7, <1>8, <1>9, <1>10, <1>11, <1>12,
     <1>13, <1>14 DEF Next

(* One window at a time and one proposal for each host: then the campaign  *)
(* as it is stored, the jobs and the remediations go together in every     *)
(* state (see InOrder).                                                    *)
THEOREM CampaignInOrder ==
  ASSUME SingleFile
  PROVE  Spec => [](TypeOK /\ InOrder)
<1> DEFINE Good == TypeOK /\ WindowsAreNamed /\ InOrder
<1>1. Init => Good
  BY InitTypes, InitInOrder
<1>2. IInv /\ Good /\ [Next]_vars => Good'
  BY StepTypes, StepInOrder
<1> HIDE DEF Good
<1>3. Spec => []Good
  BY <1>1, <1>2, InductiveInvariant, PTL DEF Spec
<1>4. Good => TypeOK /\ InOrder
  BY DEF Good
<1> QED
  BY <1>3, <1>4, PTL

(* cancel_campaign and _stop_remaining_campaign_hosts: what they found     *)
(* waiting is never started, if each host has one proposal and no other    *)
(* window is open on the campaign, unless the release or the deferral of   *)
(* the job saved an older copy of it over the cancellation.                *)
THEOREM HaltsHold ==
  ASSUME SingleFile
  PROVE  Spec => []HaltHolds
<1>1. TypeOK /\ InOrder => HaltHolds
  <2> SUFFICES ASSUME TypeOK, InOrder, NEW s \in halted, s \in started, s \notin revived
               PROVE  FALSE
    BY DEF HaltHolds
  <2>1. PICK h \in Hosts, n \in Scans : s = <<h, n>>
    BY TypesAre DEF HistoryOK
  <2>2. JobFits(h, patch[h][n], rem[h][n], <<h, n>> \in started,
                <<h, n>> \in halted, <<h, n>> \in revived)
    BY <2>1, TaskBefore DEF InOrder
  <2>3. patch[h][n].tries \in Nat
    BY <2>1, TaskBefore DEF InOrder
  <2> QED
    BY <2>1, <2>2, <2>3 DEF JobFits
<1> QED
  BY <1>1, CampaignInOrder, PTL

(* prepare_campaign_execution: whatever retries, recoveries and plan       *)
(* changes come between, the hosts under way are never more than the       *)
(* smallest batch that their policies allow.                               *)
THEOREM BatchesAreApart ==
  ASSUME SingleFile
  PROVE  Spec => []BatchesDoNotOverlap
<1>1. TypeOK /\ InOrder => BatchesDoNotOverlap
  BY DEF InOrder
<1> QED
  BY <1>1, CampaignInOrder, PTL

(* queue_campaign_proposals and the scans it queues: when none of them is  *)
(* left, no host waits for its proposal.                                   *)
THEOREM ProposalsAreKept ==
  ASSUME SingleFile
  PROVE  Spec => []NoProposalIsLost
<1>1. TypeOK /\ InOrder => NoProposalIsLost
  BY DEF InOrder, CampaignFits, ProposalsRun, InFlight, NoProposalIsLost, ScansOver, HostsIn
<1> QED
  BY <1>1, CampaignInOrder, PTL

=============================================================================
