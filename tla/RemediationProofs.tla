--------------------------- MODULE RemediationProofs ---------------------------
(***************************************************************************)
(* What RemediationExecution keeps for any number of workers, phases and   *)
(* attempts.  With any losses, repeated deliveries, crash points and       *)
(* exceptions: its types, that the executor of a protected host runs only  *)
(* behind the attempt's own snapshot, and that a revocation stops every    *)
(* worker that still had a check ahead of it.                              *)
(*                                                                         *)
(* With immediate timing, also: an ended job stays ended; without losses a *)
(* claim is respected and "running" is told truthfully; and one loss never *)
(* makes the playbook run on a host that an earlier attempt touched.  Each *)
(* of these hypotheses is needed: the README says which run or hazard      *)
(* shows what happens without it.                                          *)
(***************************************************************************)
EXTENDS RemediationExecution, JobRowProofs

(* The verdict a handled failure leaves is a state of the remediation.     *)
VerdictIsAState ==
  \A w \in Workers :
    pc[w] = "settling" => note[w] \in {"queued", "blocked", "failed"}

(* The snapshot is there from the provider's answer to the playbooks.      *)
SnapshotIsHeld ==
  \A w \in Workers :
    Protected /\ pc[w] \in {"snap_created", "ready", "executing", "mutating"} =>
      snap[w] = "created"

(* Only a revocation that stands has workers to stop.                      *)
WarnedWhileRevoked == eligible => warned = {}

IInv == /\ TypeOK /\ VerdictIsAState
        /\ SnapshotIsHeld /\ WarnedWhileRevoked /\ RevocationIsSeen

(* The steps that are no worker's own.                                     *)
Side == Operator \/ Dispatch \/ SettleCampaign \/ Expire
          \/ Stall \/ DeliverTwice \/ LoseDispatch

-----------------------------------------------------------------------------
(* The moves the actions are built from.                                   *)

LEMMA SendStays ==
  ASSUME TypeOK, Send
  PROVE  msgs' \in 0..MaxMsgs
BY BoundsAssumption DEF TypeOK, Send

LEMMA ForgetIdles ==
  ASSUME TypeOK, NEW w \in Workers, Forget(w)
  PROVE  /\ pc' \in [Workers -> Points] /\ copy' \in [Workers -> Row]
         /\ note' \in [Workers -> Notes] /\ snap' \in [Workers -> Snaps]
         /\ pc'[w] = "idle"
         /\ \A v \in Workers \ {w} :
              pc'[v] = pc[v] /\ note'[v] = note[v] /\ snap'[v] = snap[v]
BY NewRowIsRow DEF TypeOK, Forget, Goto, Points, Notes, Snaps

LEMMA ReturnIdles ==
  ASSUME TypeOK, NEW w \in Workers, NEW r, Return(w, r)
  PROVE  Forget(w) /\ msgs' \in 0..MaxMsgs
BY SendStays DEF TypeOK, Return

LEMMA RewrittenIsRow ==
  ASSUME NEW r \in Row
  PROVE  /\ [r EXCEPT !.status = "scheduled",
                       !.phase = "waiting_for_maintenance_window"] \in Row
         /\ [r EXCEPT !.status = "queued", !.phase = "none"] \in Row
         /\ [r EXCEPT !.status = "canceled", !.phase = "canceled"] \in Row
BY DEF Row, Statuses, MarkerPhases

LEMMA SaveClaimedIsRow ==
  ASSUME TypeOK, NEW w \in Workers, NEW p \in Phases, SaveClaimed(w, p)
  PROVE  row' \in Row /\ copy' \in [Workers -> Row]
<1> DEFINE updated == [copy[w] EXCEPT !.phase = p]
<1>1. updated \in Row
  BY DEF TypeOK, Row
<1>2. row' = SavedOver(row, updated) /\ copy' = [copy EXCEPT ![w] = updated]
  BY DEF SaveClaimed
<1> HIDE DEF updated
<1> QED
  BY <1>1, <1>2, SavedOverIsRow DEF TypeOK

LEMMA DeliveryTypes ==
  ASSUME TypeOK, VerdictIsAState, NEW w \in Workers, DeliveryStep(w)
  PROVE  TypeOK' /\ VerdictIsAState'
<1> USE DEF TypeOK, VerdictIsAState, world, hist, local
<1>1. CASE Deliver(w)
  BY <1>1, BoundsAssumption DEF Deliver, Goto, Points, Delivery, Early
<1>2. CASE CancelOnDelivery(w)
  BY <1>2, CanceledIsRow, ReturnIdles, ForgetIdles DEF CancelOnDelivery, Goto, Points, Delivery, Early
<1>3. CASE SaveCanceled(w)
  BY <1>3, ForgetIdles DEF SaveCanceled, ExecStates
<1>4. CASE Defer(w)
  BY <1>4, ForgetIdles, RewrittenIsRow DEF Defer
<1>5. CASE Claim(w)
  BY <1>5, ClaimedIsRow DEF Claim, Goto, Points, Delivery, Early
<1>6. CASE ClaimRefused(w)
  BY <1>6, ExhaustedIsRow, ReturnIdles, ForgetIdles DEF ClaimRefused
<1>7. CASE Reject(w)
  BY <1>7 DEF Reject, Goto, Step, Points, Delivery, Early, ExecStates
<1>8. CASE FailRejected(w)
  BY <1>8, FinalCopiesAreRows, SavedOverIsRow, ReturnIdles, ForgetIdles DEF FailRejected
<1>9. CASE Accept(w)
  BY <1>9 DEF Accept, Goto, Step, Points, Delivery, Guarded
<1> QED
  BY <1>1, <1>2, <1>3, <1>4, <1>5, <1>6, <1>7, <1>8, <1>9 DEF DeliveryStep

LEMMA GuardedTypes ==
  ASSUME TypeOK, VerdictIsAState, NEW w \in Workers, GuardedStep(w)
  PROVE  TypeOK' /\ VerdictIsAState'
<1> USE DEF TypeOK, VerdictIsAState, world, hist, local
<1>1. CASE Start(w)
  BY <1>1, SaveClaimedIsRow, PhasesHold DEF Start, Goto, Step, Points, Delivery, Guarded
<1>2. CASE MarkRunning(w)
  BY <1>2 DEF MarkRunning, Goto, Step, Points, Delivery, Guarded, ExecStates
<1>3. CASE CheckDrift(w)
  BY <1>3 DEF CheckDrift, Goto, Raise, Points, Delivery, Guarded, Notes
<1>4. CASE Blocked(w)
  BY <1>4 DEF Blocked, Goto, Raise, Points, Delivery, Guarded, Notes, ExecStates
<1>5. CASE SkipSnapshot(w)
  BY <1>5 DEF SkipSnapshot, Goto, Step, Points, Delivery, Guarded
<1>6. CASE BeginSnapshot(w)
  BY <1>6, SaveClaimedIsRow, PhasesHold DEF BeginSnapshot, Goto, Step, Points, Delivery, Guarded
<1>7. CASE RequestSnapshot(w)
  BY <1>7 DEF RequestSnapshot, Goto, Step, Points, Delivery, Guarded, Snaps
<1>8. CASE SnapshotAnswers(w)
  BY <1>8 DEF SnapshotAnswers, Goto, Step, Raise, Points, Delivery, Guarded, Notes, Snaps
<1>9. CASE SnapshotKept(w)
  BY <1>9 DEF SnapshotKept, Goto, Step, Points, Delivery, Guarded
<1>10. CASE BeginExecution(w)
  BY <1>10, SaveClaimedIsRow, PhasesHold DEF BeginExecution, Goto, Step, Points, Delivery, Guarded
<1>11. CASE PreflightFails(w)
  BY <1>11 DEF PreflightFails, Goto, Finish, Points, Delivery, Guarded, Notes
<1>12. CASE Mutate(w)
  BY <1>12 DEF Mutate, Goto, Step, Points, Delivery, Guarded, Marks
<1>13. CASE ExecutorReports(w)
  BY <1>13 DEF ExecutorReports, Goto, Finish, Step, Points, Delivery, Guarded, Notes, Marks
<1>14. CASE BeginHealthCheck(w)
  BY <1>14, SaveClaimedIsRow, PhasesHold DEF BeginHealthCheck, Goto, Step, Points, Delivery, Guarded
<1>15. CASE HealthAnswers(w)
  BY <1>15 DEF HealthAnswers, Goto, Step, Points, Delivery, Guarded, Snaps
<1>16. CASE RollbackAnswers(w)
  BY <1>16 DEF RollbackAnswers, Goto, Step, Checking, Points, Delivery, Guarded, Snaps, Notes
<1>17. CASE KeepResult(w)
  BY <1>17 DEF KeepResult, Goto, Step, Points, Delivery, Guarded
<1>18. CASE RecordResult(w)
  BY <1>18 DEF RecordResult, Outcomes, Goto, Raise, Points, Delivery, Guarded, Notes, ExecStates
<1>19. CASE Complete(w)
  BY <1>19, FinalCopiesAreRows, SavedOverIsRow, ForgetIdles DEF Complete
<1>20. CASE HandleError(w)
  BY <1>20, FinalCopiesAreRows, SavedOverIsRow DEF HandleError, Goto, Step, Points, Delivery, Early, Notes
<1>21. CASE Settle(w)
  BY <1>21, ReturnIdles, ForgetIdles DEF Settle, ExecStates
<1>22. CASE LoseLease(w)
  BY <1>22, ReturnIdles, ForgetIdles DEF LoseLease
<1>23. CASE RestoreHost(w)
  BY <1>23 DEF RestoreHost, Marks
<1> QED
  BY <1>1, <1>2, <1>3, <1>4, <1>5, <1>6, <1>7, <1>8, <1>9, <1>10, <1>11, <1>12, <1>13, <1>14, <1>15, <1>16, <1>17, <1>18, <1>19, <1>20, <1>21, <1>22, <1>23
     DEF GuardedStep

LEMMA BeatTypes ==
  ASSUME TypeOK, VerdictIsAState, NEW w \in Workers, BeatStep(w)
  PROVE  TypeOK' /\ VerdictIsAState'
<1> USE DEF TypeOK, VerdictIsAState, world, hist, local
<1>1. CASE Sweep(w)
  BY <1>1, RecoveredIsRow DEF Sweep, Goto, Points, Beat
<1>2. CASE SweepRecovered(w)
  BY <1>2 DEF SweepRecovered, Goto, Step, Points, Beat, ExecStates
<1>3. CASE SweepExhausted(w)
  BY <1>3, ForgetIdles DEF SweepExhausted, ExecStates
<1>4. CASE FailUnleased(w)
  BY <1>4, FinalCopiesAreRows, ForgetIdles DEF FailUnleased
<1>5. CASE BeatDispatch(w)
  BY <1>5, SendStays, ForgetIdles DEF BeatDispatch
<1>6. CASE ListScheduled(w)
  BY <1>6 DEF ListScheduled, Goto, Points, Beat
<1>7. CASE ReleaseCanceled(w)
  BY <1>7, ForgetIdles, RewrittenIsRow DEF ReleaseCanceled
<1>8. CASE ReleaseBlocked(w)
  BY <1>8 DEF ReleaseBlocked, Goto, Step, Points, Beat, ExecStates
<1>9. CASE Release(w)
  <2>1. CASE windowOpen
    <3>1. row' = [copy[w] EXCEPT !.status = "queued", !.phase = "none"]
      BY <1>9, <2>1 DEF Release
    <3>2. row' \in Row
      BY <3>1, RewrittenIsRow
    <3> QED
      BY <1>9, <2>1, <3>2 DEF Release, Goto, Points, Beat
  <2>2. CASE ~windowOpen
    BY <1>9, <2>2, ForgetIdles DEF Release
  <2> QED
    BY <2>1, <2>2
<1> QED
  BY <1>1, <1>2, <1>3, <1>4, <1>5, <1>6, <1>7, <1>8, <1>9 DEF BeatStep

LEMMA SideTypes ==
  ASSUME TypeOK, VerdictIsAState, Side
  PROVE  TypeOK' /\ VerdictIsAState'
<1> USE DEF TypeOK, VerdictIsAState, world, hist, local
<1>1. CASE Prepare
  BY <1>1, NewRowsAreRows DEF Prepare, Statuses, ExecStates
<1>2. CASE PrepareAgain
  BY <1>2 DEF PrepareAgain
<1>3. CASE CancelCampaign
  BY <1>3, CanceledIsRow DEF CancelCampaign, ExecStates
<1>4. CASE Revoke
  BY <1>4 DEF Revoke, Checking
<1>5. CASE Restore
  BY <1>5 DEF Restore
<1>6. CASE MoveWindow
  BY <1>6 DEF MoveWindow
<1>7. CASE Dispatch
  BY <1>7, SendStays DEF Dispatch
<1>8. CASE SettleCampaign
  BY <1>8 DEF SettleCampaign
<1>9. CASE Expire
  BY <1>9 DEF Expire, Row
<1>10. CASE Stall
  BY <1>10, BoundsAssumption DEF Stall, Row
<1>11. CASE DeliverTwice
  BY <1>11, BoundsAssumption DEF DeliverTwice
<1>12. CASE LoseDispatch
  BY <1>12, BoundsAssumption DEF LoseDispatch
<1> QED
  BY <1>1, <1>2, <1>3, <1>4, <1>5, <1>6, <1>7, <1>8, <1>9, <1>10, <1>11, <1>12 DEF Side, Operator

LEMMA LossTypes ==
  ASSUME TypeOK, VerdictIsAState, NEW w \in Workers, Crash(w) \/ RaiseError(w)
  PROVE  TypeOK' /\ VerdictIsAState'
<1> USE DEF TypeOK, VerdictIsAState, world, hist, local
<1>1. CASE Crash(w)
  BY <1>1, BoundsAssumption, SendStays, ForgetIdles DEF Crash
<1>2. CASE RaiseError(w)
  BY <1>2 DEF RaiseError, Goto, Raise, Points, Delivery, Notes
<1> QED
  BY <1>1, <1>2

-----------------------------------------------------------------------------
(* The three safety parts.                                                 *)

LEMMA DeliverySafety ==
  ASSUME IInv, NEW w \in Workers, DeliveryStep(w)
  PROVE  SnapshotIsHeld' /\ WarnedWhileRevoked' /\ RevocationIsSeen'
<1> USE DEF IInv, TypeOK, SnapshotIsHeld, WarnedWhileRevoked, RevocationIsSeen,
           world, hist, local
<1>1. CASE Deliver(w)
  BY <1>1 DEF Deliver, Goto
<1>2. CASE CancelOnDelivery(w)
  BY <1>2, ReturnIdles, ForgetIdles DEF CancelOnDelivery, Goto
<1>3. CASE SaveCanceled(w)
  BY <1>3, ForgetIdles DEF SaveCanceled
<1>4. CASE Defer(w)
  BY <1>4, ForgetIdles DEF Defer
<1>5. CASE Claim(w)
  BY <1>5 DEF Claim, Goto
<1>6. CASE ClaimRefused(w)
  BY <1>6, ReturnIdles, ForgetIdles DEF ClaimRefused
<1>7. CASE Reject(w)
  BY <1>7 DEF Reject, Goto, Step
<1>8. CASE FailRejected(w)
  BY <1>8, ReturnIdles, ForgetIdles DEF FailRejected
<1>9. CASE Accept(w)
  BY <1>9 DEF Accept, Goto, Step
<1> QED
  BY <1>1, <1>2, <1>3, <1>4, <1>5, <1>6, <1>7, <1>8, <1>9 DEF DeliveryStep

LEMMA GuardedSafety ==
  ASSUME IInv, NEW w \in Workers, GuardedStep(w)
  PROVE  SnapshotIsHeld' /\ WarnedWhileRevoked' /\ RevocationIsSeen'
<1> USE DEF IInv, TypeOK, SnapshotIsHeld, WarnedWhileRevoked, RevocationIsSeen,
           world, hist, local
<1>1. CASE Start(w)
  BY <1>1 DEF Start, Goto, Step
<1>2. CASE MarkRunning(w)
  BY <1>2 DEF MarkRunning, Goto, Step
<1>3. CASE CheckDrift(w)
  BY <1>3 DEF CheckDrift, Goto, Raise
<1>4. CASE Blocked(w)
  BY <1>4 DEF Blocked, Goto, Raise
<1>5. CASE SkipSnapshot(w)
  BY <1>5 DEF SkipSnapshot, Goto, Step
<1>6. CASE BeginSnapshot(w)
  BY <1>6 DEF BeginSnapshot, Goto, Step
<1>7. CASE RequestSnapshot(w)
  BY <1>7 DEF RequestSnapshot, Goto, Step
<1>8. CASE SnapshotAnswers(w)
  BY <1>8 DEF SnapshotAnswers, Goto, Step, Raise
<1>9. CASE SnapshotKept(w)
  BY <1>9 DEF SnapshotKept, Goto, Step
<1>10. CASE BeginExecution(w)
  BY <1>10 DEF BeginExecution, Goto, Step
<1>11. CASE PreflightFails(w)
  BY <1>11 DEF PreflightFails, Goto, Finish
<1>12. CASE Mutate(w)
  BY <1>12 DEF Mutate, Goto, Step
<1>13. CASE ExecutorReports(w)
  BY <1>13 DEF ExecutorReports, Goto, Finish, Step
<1>14. CASE BeginHealthCheck(w)
  BY <1>14 DEF BeginHealthCheck, Goto, Step
<1>15. CASE HealthAnswers(w)
  BY <1>15 DEF HealthAnswers, Goto, Step
<1>16. CASE RollbackAnswers(w)
  BY <1>16 DEF RollbackAnswers, Goto, Step, Checking
<1>17. CASE KeepResult(w)
  BY <1>17 DEF KeepResult, Goto, Step
<1>18. CASE RecordResult(w)
  BY <1>18 DEF RecordResult, Goto, Raise
<1>19. CASE Complete(w)
  BY <1>19, ForgetIdles DEF Complete
<1>20. CASE HandleError(w)
  BY <1>20 DEF HandleError, Goto, Step
<1>21. CASE Settle(w)
  BY <1>21, ReturnIdles, ForgetIdles DEF Settle
<1>22. CASE LoseLease(w)
  BY <1>22, ReturnIdles, ForgetIdles DEF LoseLease
<1>23. CASE RestoreHost(w)
  BY <1>23 DEF RestoreHost
<1> QED
  BY <1>1, <1>2, <1>3, <1>4, <1>5, <1>6, <1>7, <1>8, <1>9, <1>10, <1>11, <1>12, <1>13, <1>14, <1>15, <1>16, <1>17, <1>18, <1>19, <1>20, <1>21, <1>22, <1>23
     DEF GuardedStep

LEMMA BeatSafety ==
  ASSUME IInv, NEW w \in Workers, BeatStep(w)
  PROVE  SnapshotIsHeld' /\ WarnedWhileRevoked' /\ RevocationIsSeen'
<1> USE DEF IInv, TypeOK, SnapshotIsHeld, WarnedWhileRevoked, RevocationIsSeen,
           world, hist, local
<1>1. CASE Sweep(w)
  BY <1>1 DEF Sweep, Goto
<1>2. CASE SweepRecovered(w)
  BY <1>2 DEF SweepRecovered, Goto, Step
<1>3. CASE SweepExhausted(w)
  BY <1>3, ForgetIdles DEF SweepExhausted
<1>4. CASE FailUnleased(w)
  BY <1>4, ForgetIdles DEF FailUnleased
<1>5. CASE BeatDispatch(w)
  BY <1>5, ForgetIdles DEF BeatDispatch
<1>6. CASE ListScheduled(w)
  BY <1>6 DEF ListScheduled, Goto
<1>7. CASE ReleaseCanceled(w)
  BY <1>7, ForgetIdles DEF ReleaseCanceled
<1>8. CASE ReleaseBlocked(w)
  BY <1>8 DEF ReleaseBlocked, Goto, Step
<1>9. CASE Release(w)
  BY <1>9, ForgetIdles DEF Release, Goto
<1> QED
  BY <1>1, <1>2, <1>3, <1>4, <1>5, <1>6, <1>7, <1>8, <1>9 DEF BeatStep

LEMMA SideSafety ==
  ASSUME IInv, Side
  PROVE  SnapshotIsHeld' /\ WarnedWhileRevoked' /\ RevocationIsSeen'
<1> USE DEF IInv, TypeOK, SnapshotIsHeld, WarnedWhileRevoked, RevocationIsSeen,
           world, hist, local
<1>1. CASE Prepare
  BY <1>1 DEF Prepare
<1>2. CASE PrepareAgain
  BY <1>2 DEF PrepareAgain
<1>3. CASE CancelCampaign
  BY <1>3 DEF CancelCampaign
<1>4. CASE Revoke
  BY <1>4 DEF Revoke, Checking
<1>5. CASE Restore
  BY <1>5 DEF Restore
<1>6. CASE MoveWindow
  BY <1>6 DEF MoveWindow
<1>7. CASE Dispatch
  BY <1>7 DEF Dispatch
<1>8. CASE SettleCampaign
  BY <1>8 DEF SettleCampaign
<1>9. CASE Expire
  BY <1>9 DEF Expire
<1>10. CASE Stall
  BY <1>10 DEF Stall
<1>11. CASE DeliverTwice
  BY <1>11 DEF DeliverTwice
<1>12. CASE LoseDispatch
  BY <1>12 DEF LoseDispatch
<1> QED
  BY <1>1, <1>2, <1>3, <1>4, <1>5, <1>6, <1>7, <1>8, <1>9, <1>10, <1>11, <1>12 DEF Side, Operator

LEMMA LossSafety ==
  ASSUME IInv, NEW w \in Workers, Crash(w) \/ RaiseError(w)
  PROVE  SnapshotIsHeld' /\ WarnedWhileRevoked' /\ RevocationIsSeen'
<1> USE DEF IInv, TypeOK, SnapshotIsHeld, WarnedWhileRevoked, RevocationIsSeen,
           world, hist, local
<1>1. CASE Crash(w)
  BY <1>1, ForgetIdles DEF Crash
<1>2. CASE RaiseError(w)
  BY <1>2 DEF RaiseError, Raise, Goto
<1> QED
  BY <1>1, <1>2

-----------------------------------------------------------------------------

LEMMA InitSafe == Init => IInv
<1> SUFFICES ASSUME Init PROVE IInv
  OBVIOUS
<1> USE DEF Init
<1>1. windowOpen \in BOOLEAN
  BY DEF Init
<1>2. faults \in [losses : 0..MaxLosses, copies : 0..MaxCopies]
  BY BoundsAssumption
<1>3. TypeOK
  BY <1>1, <1>2, NewRowIsRow, BoundsAssumption
     DEF TypeOK, ExecStates, Points, Notes, Snaps, Marks
<1> QED
  BY <1>3 DEF IInv, VerdictIsAState, SnapshotIsHeld, WarnedWhileRevoked,
              RevocationIsSeen

LEMMA StepSafe == IInv /\ [Next]_vars => IInv'
<1> SUFFICES ASSUME IInv, [Next]_vars PROVE IInv'
  OBVIOUS
<1>0. TypeOK /\ VerdictIsAState
  BY DEF IInv
<1>1. CASE Side
  BY <1>0, <1>1, SideTypes, SideSafety DEF IInv
<1>2. ASSUME NEW w \in Workers, Crash(w) \/ RaiseError(w)
      PROVE  IInv'
  BY <1>0, <1>2, LossTypes, LossSafety DEF IInv
<1>3. ASSUME NEW w \in Workers, DeliveryStep(w)
      PROVE  IInv'
  BY <1>0, <1>3, DeliveryTypes, DeliverySafety DEF IInv
<1>4. ASSUME NEW w \in Workers, GuardedStep(w)
      PROVE  IInv'
  BY <1>0, <1>4, GuardedTypes, GuardedSafety DEF IInv
<1>5. ASSUME NEW w \in Workers, BeatStep(w)
      PROVE  IInv'
  BY <1>0, <1>5, BeatTypes, BeatSafety DEF IInv
<1>6. CASE UNCHANGED vars
  BY <1>6 DEF vars, world, hist, local, IInv, TypeOK, VerdictIsAState,
              SnapshotIsHeld, WarnedWhileRevoked, RevocationIsSeen
<1> QED
  BY <1>1, <1>2, <1>3, <1>4, <1>5, <1>6 DEF Next, Fault, WorkerStep, Side

(* IInv holds in every reachable state: the types, and why the executor of *)
(* process_remediation is only reached with a snapshot and no revocation.  *)
THEOREM InductiveInvariant == Spec => []IInv
<1> QED
  BY InitSafe, StepSafe, PTL DEF Spec

(* The job, the remediation's state and what every worker holds keep their *)
(* types, whichever worker dies, stalls or raises, and as often as allowed. *)
THEOREM TypeCorrect == Spec => []TypeOK
<1>1. IInv => TypeOK
  BY DEF IInv
<1> QED
  BY <1>1, InductiveInvariant, PTL

(* process_remediation reaches the executor of a protected host only with  *)
(* the snapshot of the same attempt in the created state.                  *)
THEOREM SnapshotSafety == Spec => []SnapshotCoversMutation
<1>1. IInv => SnapshotCoversMutation
  BY DEF IInv, SnapshotIsHeld, SnapshotCoversMutation
<1> QED
  BY <1>1, InductiveInvariant, PTL

(* A policy change, a lost credential or a rollback alert that is not      *)
(* taken back stops every worker that still had an eligibility check ahead. *)
THEOREM RevocationSafety == Spec => []RevocationIsSeen
<1>1. IInv => RevocationIsSeen
  BY DEF IInv
<1> QED
  BY <1>1, InductiveInvariant, PTL

-----------------------------------------------------------------------------
(* Immediate timing: nothing waits for a window, so no job object that was *)
(* read is saved back without a lease, except by the sweep.  Whoever works *)
(* on a live claim holds the row as it is stored.                          *)

OnTime ==
  /\ windowOpen /\ row.status # "scheduled"
  /\ \A w \in Workers : /\ copy[w].status # "scheduled"
                        /\ pc[w] \notin {"release", "failing_release"}

CopyIsCurrent == \A w \in Workers : Working(w) /\ Owns(w) => copy[w] = row

Steady == IInv /\ OnTime /\ CopyIsCurrent

AfterGate == Guarded \cup {"raising"}
Changing == {"executing", "mutating", "finished", "health", "rolling_back",
             "watched", "recording", "completing"}
Sweeping == {"recovered", "exhausted", "failing_stale"}
Resting  == {"idle", "canceled_row", "settling"}

NeverSwept(r) == r.recoveredFrom = "none" /\ r.failure # "worker_lease_expired"

(* The worker was at its change, and its answer will not be tried again.   *)
WillEnd(w) ==
  \/ pc[w] \in {"mutating", "completing"}
  \/ pc[w] \in {"finished", "health", "rolling_back", "watched", "recording"}
     /\ note[w] \in {"success", "changed"}
  \/ pc[w] = "raising" /\ note[w] \in {"failed", "unsafe"}

-----------------------------------------------------------------------------
(* What a step is to the job.  Every action is one of these.               *)

Still(w) ==
  /\ \A v \in Workers \ {w} :
       pc'[v] = pc[v] /\ copy'[v] = copy[v] /\ note'[v] = note[v]
  /\ windowOpen' = windowOpen

SameFaults == faults' = faults
OneLost == faults.losses > 0 /\ faults'.losses = faults.losses - 1

(* How the host changes under a move of w.                                 *)
TouchMove(w) ==
  \/ /\ touched' = touched
     /\ pc'[w] = "executing" => pc[w] = "executing"
     /\ pc'[w] = "mutating" => pc[w] = "mutating"
     /\ WillEnd(w) => WillEnd(w)' \/ ~Owns(w)
  \/ /\ pc[w] = "executing" /\ pc'[w] = "mutating"
     /\ touched' = IF touched = "no" THEN "in_doubt" ELSE touched
  \/ /\ pc[w] = "mutating" /\ pc'[w] = "finished"
     /\ \/ touched' \in {"unseen", "changed"} /\ note'[w] \in {"success", "changed"}
        \/ touched' = IF touched = "in_doubt" THEN "no" ELSE touched
  \/ /\ pc[w] = "rolling_back" /\ pc'[w] = "rolling_back"
     /\ note'[w] = note[w] /\ touched' = "no"

(* w moves, the job stays as it is.                                        *)
OwnMove(w) ==
  /\ row' = row /\ SameFaults /\ Still(w)
  /\ copy'[w] \in {copy[w], row, NoRow}
  /\ Working(w)' => Working(w) /\ copy'[w] = copy[w]
  /\ Working(w) => Working(w)' \/ ~Owns(w)
  /\ pc'[w] \in AfterGate =>
       pc[w] \in AfterGate \/ (pc[w] = "claimed" /\ ~StaleClaim(w))
  /\ pc'[w] \in Changing => pc[w] \in Changing
  /\ pc'[w] \in Sweeping => pc[w] \in Sweeping
  /\ pc'[w] \notin {"release", "failing_release"}
  /\ CanRaise \/ TouchMove(w)

(* w saves a new phase under its lease.                                    *)
WithPhase(r, phase) == [r EXCEPT !.phase = phase]

SavedMove(w) ==
  /\ Owns(w) /\ pc[w] \in Guarded /\ pc'[w] \in Guarded
  /\ \E p \in Phases :
       /\ row' = WithPhase(row, p)
       /\ pc'[w] \in Changing => p \in {"ansible_execution", "post_reboot_health_check"}
  /\ copy'[w] = row'
  /\ SameFaults /\ Still(w) /\ touched' = touched
  /\ pc'[w] \in Changing => pc[w] \in Changing \/ pc[w] = "ready"
  /\ pc'[w] = "executing" => pc[w] = "ready"
  /\ pc'[w] # "mutating"
  /\ WillEnd(w) => WillEnd(w)'

Taken(w) ==
  /\ pc[w] = "read" /\ pc'[w] = "claimed"
  /\ Claimable(row, 0) /\ row' = Claimed(row, w, 0) /\ copy'[w] = row'
  /\ SameFaults /\ Still(w) /\ touched' = touched

Requeued(w) ==
  /\ pc[w] = "raising" /\ pc'[w] = "settling"
  /\ Owns(w) /\ note[w] = "retryable"
  /\ row'.status = "queued" /\ row'.recoveredFrom = row.recoveredFrom
  /\ row'.failure # "worker_lease_expired" /\ copy'[w] = row'
  /\ SameFaults /\ Still(w) /\ touched' = touched

Swept(w) ==
  /\ pc[w] = "idle" /\ pc'[w] \in {"recovered", "exhausted"}
  /\ Lapsed(row, 0) /\ row' = Recovered(row) /\ copy'[w] = row'
  /\ SameFaults /\ Still(w) /\ touched' = touched

Died(w) ==
  /\ pc'[w] = "idle" /\ copy'[w] = NoRow
  /\ row' = row /\ OneLost /\ Still(w) /\ touched' = touched

Ended ==
  /\ row'.status \in Terminal
  /\ faults.losses > 0 /\ NeverSwept(row) =>
       NeverSwept(row') \/ \E w \in Workers : pc[w] = "failing_stale"
  /\ \A w \in Workers :
       \/ pc'[w] = pc[w] /\ copy'[w] = copy[w]
       \/ pc'[w] \in Resting /\ copy'[w].status # "scheduled"
  /\ \/ \A w \in Workers : Working(w) /\ Owns(w) => pc'[w] \in Resting
     \/ \E w \in Workers : pc[w] = "failing_stale"
  /\ SameFaults /\ windowOpen' = windowOpen /\ touched' = touched

NobodyMoves == UNCHANGED <<pc, copy, note, windowOpen, touched>>

Inserted ==
  row.status = "absent" /\ row' = NewRow("queued") /\ SameFaults /\ NobodyMoves

Aged ==
  /\ LeaseIsLive /\ row' = [row EXCEPT !.expires = 0] /\ NobodyMoves
  /\ \/ SameFaults /\ ~\E w \in Workers : row.owner = w /\ Working(w)
     \/ OneLost

Aside == UNCHANGED row /\ NobodyMoves /\ (faults'.losses = faults.losses \/ OneLost)

StepOf(w) == OwnMove(w) \/ SavedMove(w) \/ Taken(w) \/ Requeued(w)
               \/ Swept(w) \/ Died(w) \/ Ended

Kinds == Aside \/ Inserted \/ Aged \/ Ended \/ \E w \in Workers : StepOf(w)

LEMMA SaveIsPhase ==
  ASSUME NEW r \in Row, r.status = "running", NEW p
  PROVE  SavedOver(r, WithPhase(r, p)) = WithPhase(r, p)
<1> DEFINE c == WithPhase(r, p)
<1>1. c = [r EXCEPT !.phase = p]
  BY DEF WithPhase
<1>2. c.status = "running" /\ c.expires = r.expires
  BY <1>1 DEF Row
<1>3. LaterOf(c.expires, r.expires) = c.expires
  BY <1>2, NoLeaseIsInt DEF LaterOf, Row
<1>4. [c EXCEPT !.expires = c.expires] = c
  BY <1>1 DEF Row
<1>5. SavedOver(r, c) = [c EXCEPT !.expires = LaterOf(c.expires, r.expires)]
  BY <1>2 DEF SavedOver
<1> QED
  BY <1>3, <1>4, <1>5

LEMMA SavedPhase ==
  ASSUME Steady, NEW w \in Workers, NEW p \in Phases,
         pc[w] \in Guarded, SaveClaimed(w, p)
  PROVE  /\ Owns(w) /\ row' = WithPhase(row, p) /\ copy'[w] = row'
         /\ \A v \in Workers \ {w} : copy'[v] = copy[v]
<1>1. Owns(w) /\ copy[w] = row /\ row \in Row /\ copy \in [Workers -> Row]
  BY DEF Steady, SaveClaimed, CopyIsCurrent, Working, IInv, TypeOK
<1>2. row.status = "running"
  BY <1>1 DEF Owns, HoldsLease
<1>3. row' = SavedOver(row, WithPhase(row, p))
      /\ copy' = [copy EXCEPT ![w] = WithPhase(row, p)]
  BY <1>1 DEF SaveClaimed, WithPhase
<1>4. row' = WithPhase(row, p)
  BY <1>1, <1>2, <1>3, SaveIsPhase
<1> QED
  BY <1>1, <1>3, <1>4

(* What a worker that holds its lease ends the job with.                   *)
DoneRow(r)    == SavedOver(r, CompletedCopy(r))
FailedRow(r)  == SavedOver(r, FailedCopy(r, FALSE))
RetriedRow(r) == SavedOver(r, FailedCopy(r, TRUE))

LEMMA LastRows ==
  ASSUME NEW r \in Row
  PROVE  /\ DoneRow(r).status = "completed" /\ FailedRow(r).status = "failed"
         /\ RetriedRow(r).status \in {"queued", "failed"}
         /\ DoneRow(r).recoveredFrom = r.recoveredFrom
         /\ FailedRow(r).recoveredFrom = r.recoveredFrom
         /\ RetriedRow(r).recoveredFrom = r.recoveredFrom
         /\ DoneRow(r).failure = r.failure
         /\ FailedRow(r).failure = "permanent"
         /\ RetriedRow(r).failure = "retryable"
<1>1. /\ CompletedCopy(r).status = "completed"
      /\ CompletedCopy(r).recoveredFrom = r.recoveredFrom
      /\ CompletedCopy(r).failure = r.failure
  BY DEF CompletedCopy, Row
<1>2. /\ FailedCopy(r, FALSE).status = "failed"
      /\ FailedCopy(r, FALSE).recoveredFrom = r.recoveredFrom
      /\ FailedCopy(r, FALSE).failure = "permanent"
  BY DEF FailedCopy, Row
<1>3. /\ FailedCopy(r, TRUE).status \in {"queued", "failed"}
      /\ FailedCopy(r, TRUE).recoveredFrom = r.recoveredFrom
      /\ FailedCopy(r, TRUE).failure = "retryable"
  BY DEF FailedCopy, Row
<1> QED
  BY <1>1, <1>2, <1>3 DEF SavedOver, DoneRow, FailedRow, RetriedRow

LEMMA EndedRows ==
  ASSUME NEW r \in Row
  PROVE  /\ Canceled(r).status = "canceled" /\ Exhausted(r).status = "failed"
         /\ Canceled(r).recoveredFrom = r.recoveredFrom
         /\ Canceled(r).failure = r.failure
         /\ Exhausted(r).recoveredFrom = r.recoveredFrom
         /\ Exhausted(r).failure = r.failure
BY DEF Canceled, Exhausted, Row

(* Forget and Return, as far as the job is concerned.                      *)
LEMMA ForgetRests ==
  ASSUME TypeOK, NEW w \in Workers, Forget(w), windowOpen' = windowOpen
  PROVE  pc'[w] = "idle" /\ copy'[w] = NoRow /\ Still(w)
BY DEF TypeOK, Forget, Goto, Still

LEMMA NothingScheduled == NoRow.status = "absent"
BY DEF NoRow

-----------------------------------------------------------------------------
(* Every action is one of the kinds.                                       *)

LEMMA IdleMove ==
  ASSUME TypeOK, NEW w \in Workers, Forget(w), row' = row, SameFaults,
         windowOpen' = windowOpen, touched' = touched,
         Working(w) => ~Owns(w)
  PROVE  OwnMove(w)
<1>1. pc'[w] = "idle" /\ copy'[w] = NoRow /\ Still(w)
  BY ForgetRests
<1>2. ~Working(w)' /\ pc'[w] \notin AfterGate /\ pc'[w] \notin Changing
      /\ pc'[w] \notin Sweeping /\ pc'[w] \notin {"release", "failing_release"}
  BY <1>1 DEF Working, Guarded, AfterGate, Changing, Sweeping
<1>3. TouchMove(w)
  <2>1. WillEnd(w) => Working(w)
    BY DEF WillEnd, Working, Guarded
  <2> QED
    BY <1>1, <2>1 DEF TouchMove
<1> QED
  BY <1>1, <1>2, <1>3 DEF OwnMove

LEMMA DeliveryKinds ==
  ASSUME Steady, NEW w \in Workers, DeliveryStep(w)
  PROVE  StepOf(w)
<1> USE DEF world, hist, local, SameFaults
<1>0. TypeOK /\ row \in Row /\ copy[w] \in Row /\ pc \in [Workers -> Points]
  BY DEF Steady, IInv, TypeOK
<1>1. CASE Deliver(w)
  BY <1>0, <1>1 DEF Deliver, Goto, OwnMove, TouchMove, Still, StepOf, TypeOK,
     Working, AfterGate, Guarded, Changing, Sweeping, WillEnd
<1>2. CASE CancelOnDelivery(w)
  <2>0. pc[w] = "read" /\ ~Working(w)
    BY <1>2 DEF CancelOnDelivery, Working, Guarded
  <2>1. CASE row.status = "queued"
    <3>1. row' = Canceled(row) /\ pc' = [pc EXCEPT ![w] = "canceled_row"]
          /\ UNCHANGED <<copy, faults, windowOpen, touched>>
      BY <1>2, <2>1 DEF CancelOnDelivery, Goto
    <3>2. \A v \in Workers : ~Owns(v)
      BY <2>1 DEF Owns, HoldsLease
    <3> QED
      BY <1>0, <2>0, <3>1, <3>2, EndedRows DEF Ended, StepOf, Terminal, Resting,
         NeverSwept, Steady, OnTime
  <2>2. CASE row.status = "canceled"
    BY <1>0, <1>2, <2>0, <2>2 DEF CancelOnDelivery, Goto, OwnMove, TouchMove, Still, StepOf,
       TypeOK, Working, AfterGate, Guarded, Changing, Sweeping, WillEnd
  <2>3. CASE row.status \notin {"queued", "canceled"}
    <3>1. Return(w, row) /\ UNCHANGED <<row, faults, windowOpen, touched>>
      BY <1>2, <2>3 DEF CancelOnDelivery
    <3>2. Forget(w)
      BY <3>1 DEF Return
    <3> QED
      BY <1>0, <2>0, <3>1, <3>2, IdleMove DEF StepOf
  <2> QED
    BY <2>1, <2>2, <2>3
<1>3. CASE SaveCanceled(w)
  <2>1. Forget(w) /\ UNCHANGED <<row, faults, windowOpen, touched>> /\ pc[w] = "canceled_row"
    BY <1>3 DEF SaveCanceled
  <2> QED
    BY <1>0, <2>1, IdleMove DEF StepOf, Working, Guarded
<1>4. CASE Defer(w)
  BY <1>4 DEF Defer, Steady, OnTime
<1>5. CASE Claim(w)
  BY <1>0, <1>5 DEF Claim, MayClaim, Goto, Taken, Still, StepOf, TypeOK
<1>6. CASE ClaimRefused(w)
  <2>1. pc[w] = "read" /\ ~Working(w) /\ Forget(w) /\ UNCHANGED <<faults, windowOpen, touched>>
    BY <1>6 DEF ClaimRefused, MayClaim, Return, Working, Guarded
  <2>2. CASE Claimable(row, 0)
    <3>1. row' = Exhausted(row)
      BY <1>6, <2>2 DEF ClaimRefused
    <3>2. \A v \in Workers : ~Owns(v)
      BY <2>2 DEF Owns, HoldsLease, Claimable, Lapsed
    <3>3. /\ Exhausted(row).status = "failed"
          /\ Exhausted(row).recoveredFrom = row.recoveredFrom
          /\ Exhausted(row).failure = row.failure
      BY <1>0, EndedRows
    <3>4. pc'[w] = "idle" /\ copy'[w] = NoRow /\ Still(w)
      BY <1>0, <2>1, ForgetRests
    <3>5. \A v \in Workers :
            \/ pc'[v] = pc[v] /\ copy'[v] = copy[v]
            \/ pc'[v] \in Resting /\ copy'[v].status # "scheduled"
      BY <3>4, NothingScheduled DEF Still, Resting
    <3>6. Ended
      BY <2>1, <3>1, <3>2, <3>3, <3>5 DEF Ended, Terminal, NeverSwept
    <3> QED
      BY <3>6 DEF StepOf
  <2>3. CASE ~Claimable(row, 0)
    <3>1. row' = row
      BY <1>6, <2>3 DEF ClaimRefused
    <3> QED
      BY <1>0, <2>1, <3>1, IdleMove DEF StepOf
  <2> QED
    BY <2>2, <2>3
<1>7. CASE Reject(w)
  BY <1>0, <1>7 DEF Reject, Step, Goto, OwnMove, TouchMove, Still, StepOf, TypeOK,
     Working, AfterGate, Guarded, Changing, Sweeping, WillEnd
<1>8. CASE FailRejected(w)
  <2>1. pc[w] = "rejecting" /\ Forget(w) /\ UNCHANGED <<faults, windowOpen, touched>>
    BY <1>8 DEF FailRejected, Return
  <2>2. CASE Owns(w)
    <3>1. row' = FailedRow(row)
      BY <1>8, <2>1, <2>2 DEF FailRejected, Steady, CopyIsCurrent, Working, FailedRow
    <3>2. /\ row'.status = "failed" /\ row'.recoveredFrom = row.recoveredFrom
          /\ row'.failure = "permanent"
      BY <1>0, <3>1, LastRows
    <3>3. pc'[w] = "idle" /\ copy'[w] = NoRow /\ Still(w)
      BY <1>0, <2>1, ForgetRests
    <3>4. \A v \in Workers :
            \/ pc'[v] = pc[v] /\ copy'[v] = copy[v]
            \/ pc'[v] \in Resting /\ copy'[v].status # "scheduled"
      BY <3>3, NothingScheduled DEF Still, Resting
    <3>5. \A v \in Workers : Owns(v) => v = w
      BY <2>2 DEF Owns, HoldsLease
    <3>6. Ended
      BY <2>1, <3>2, <3>3, <3>4, <3>5 DEF Ended, Terminal, NeverSwept, Resting
    <3> QED
      BY <3>6 DEF StepOf
  <2>3. CASE ~Owns(w)
    <3>1. row' = row
      BY <1>8, <2>3 DEF FailRejected
    <3> QED
      BY <1>0, <2>1, <2>3, <3>1, IdleMove DEF StepOf
  <2> QED
    BY <2>2, <2>3
<1>9. CASE Accept(w)
  BY <1>0, <1>9 DEF Accept, Step, Goto, OwnMove, TouchMove, Still, StepOf, TypeOK,
     Working, AfterGate, Guarded, Changing, Sweeping, WillEnd
<1> QED
  BY <1>1, <1>2, <1>3, <1>4, <1>5, <1>6, <1>7, <1>8, <1>9 DEF DeliveryStep

LEMMA SavedKinds ==
  ASSUME Steady, NEW w \in Workers,
         Start(w) \/ BeginSnapshot(w) \/ BeginExecution(w) \/ BeginHealthCheck(w)
  PROVE  SavedMove(w)
<1> USE DEF world, hist, local, SameFaults
<1>0. pc \in [Workers -> Points] /\ note \in [Workers -> Notes]
  BY DEF Steady, IInv, TypeOK
<1>1. ASSUME NEW p \in Phases, NEW from \in Guarded, NEW to \in Guarded,
             Step(w, from, to), SaveClaimed(w, p),
             UNCHANGED <<note, windowOpen, touched, faults>>,
             to \in Changing => p \in {"ansible_execution", "post_reboot_health_check"},
             to \in Changing => from \in Changing \/ from = "ready",
             to = "executing" => from = "ready", to # "mutating",
             WillEnd(w) => WillEnd(w)'
      PROVE  SavedMove(w)
  <2>1. /\ Owns(w) /\ row' = WithPhase(row, p) /\ copy'[w] = row'
        /\ \A v \in Workers \ {w} : copy'[v] = copy[v]
    BY <1>1, SavedPhase DEF Step
  <2>2. pc[w] = from /\ pc'[w] = to /\ \A v \in Workers \ {w} : pc'[v] = pc[v]
    BY <1>0, <1>1 DEF Step, Goto
  <2> QED
    BY <1>1, <2>1, <2>2 DEF SavedMove, Still
<1>2. CASE Start(w)
  <2>1. ~WillEnd(w)
    BY <1>2 DEF Start, Step, WillEnd
  <2>2. Step(w, "starting", "started") /\ SaveClaimed(w, "state_drift_check")
        /\ UNCHANGED <<note, windowOpen, touched, faults>>
    BY <1>2 DEF Start
  <2> QED
    BY <1>1, <2>1, <2>2, PhasesHold DEF Guarded, Changing
<1>3. CASE BeginSnapshot(w)
  <2>1. ~WillEnd(w)
    BY <1>3 DEF BeginSnapshot, Step, WillEnd
  <2>2. Step(w, "collected", "snapshotting") /\ SaveClaimed(w, "snapshot_create")
        /\ UNCHANGED <<note, windowOpen, touched, faults>>
    BY <1>3 DEF BeginSnapshot
  <2> QED
    BY <1>1, <2>1, <2>2, PhasesHold DEF Guarded, Changing
<1>4. CASE BeginExecution(w)
  <2>1. ~WillEnd(w)
    BY <1>4 DEF BeginExecution, Step, WillEnd
  <2>2. Step(w, "ready", "executing") /\ SaveClaimed(w, "ansible_execution")
        /\ UNCHANGED <<note, windowOpen, touched, faults>>
    BY <1>4 DEF BeginExecution
  <2> QED
    BY <1>1, <2>1, <2>2, PhasesHold DEF Guarded, Changing
<1>5. CASE BeginHealthCheck(w)
  <2>1. Step(w, "finished", "health") /\ SaveClaimed(w, "post_reboot_health_check")
        /\ UNCHANGED <<note, windowOpen, touched, faults>> /\ note[w] = "success"
    BY <1>5 DEF BeginHealthCheck
  <2>2. WillEnd(w)'
    BY <1>0, <2>1 DEF Step, Goto, WillEnd
  <2> QED
    BY <1>1, <2>1, <2>2, PhasesHold DEF Guarded, Changing
<1> QED
  BY <1>2, <1>3, <1>4, <1>5

(* The moves under the heartbeat that leave the job alone.                 *)
LEMMA GuardedMoves ==
  ASSUME Steady, NEW w \in Workers,
         \/ MarkRunning(w) \/ CheckDrift(w) \/ Blocked(w) \/ SkipSnapshot(w)
         \/ RequestSnapshot(w) \/ SnapshotAnswers(w) \/ SnapshotKept(w)
         \/ PreflightFails(w) \/ Mutate(w) \/ ExecutorReports(w)
         \/ HealthAnswers(w) \/ RollbackAnswers(w) \/ KeepResult(w)
         \/ RecordResult(w) \/ RestoreHost(w)
  PROVE  OwnMove(w)
<1> USE DEF world, hist, local, SameFaults
<1>0. pc \in [Workers -> Points] /\ note \in [Workers -> Notes]
  BY DEF Steady, IInv, TypeOK
<1>1. pc[w] \in Guarded
  BY DEF Guarded, MarkRunning, CheckDrift, Blocked, SkipSnapshot,
     RequestSnapshot, SnapshotAnswers, SnapshotKept, PreflightFails, Mutate,
     ExecutorReports, HealthAnswers, RollbackAnswers, KeepResult, RecordResult,
     RestoreHost, Step
<1>2. ASSUME UNCHANGED <<row, copy, faults, windowOpen>>,
             \A v \in Workers \ {w} : pc'[v] = pc[v] /\ note'[v] = note[v],
             pc'[w] \in AfterGate, pc'[w] \in Changing => pc[w] \in Changing,
             TouchMove(w)
      PROVE  OwnMove(w)
  <2>1. pc'[w] \notin Sweeping /\ pc'[w] \notin {"release", "failing_release"}
        /\ Working(w) /\ Working(w)' /\ pc[w] \in AfterGate
    BY <1>1, <1>2 DEF Working, AfterGate, Guarded, Sweeping
  <2> QED
    BY <1>2, <2>1 DEF OwnMove, Still
<1> USE DEF Step, Goto, Raise, Finish, AfterGate, Guarded, Changing, TouchMove, WillEnd
<1>3. CASE MarkRunning(w)
  BY <1>0, <1>2, <1>3 DEF MarkRunning
<1>4. CASE CheckDrift(w)
  BY <1>0, <1>2, <1>4 DEF CheckDrift
<1>5. CASE Blocked(w)
  BY <1>0, <1>2, <1>5 DEF Blocked
<1>6. CASE SkipSnapshot(w)
  BY <1>0, <1>2, <1>6 DEF SkipSnapshot
<1>7. CASE RequestSnapshot(w)
  BY <1>0, <1>2, <1>7 DEF RequestSnapshot
<1>8. CASE SnapshotAnswers(w)
  BY <1>0, <1>2, <1>8 DEF SnapshotAnswers
<1>9. CASE SnapshotKept(w)
  BY <1>0, <1>2, <1>9 DEF SnapshotKept
<1>10. CASE PreflightFails(w)
  BY <1>0, <1>2, <1>10 DEF PreflightFails
<1>11. CASE Mutate(w)
  BY <1>0, <1>2, <1>11 DEF Mutate
<1>12. CASE ExecutorReports(w)
  BY <1>0, <1>2, <1>12 DEF ExecutorReports
<1>13. CASE HealthAnswers(w)
  BY <1>0, <1>2, <1>13 DEF HealthAnswers
<1>14. CASE RollbackAnswers(w)
  BY <1>0, <1>2, <1>14 DEF RollbackAnswers
<1>15. CASE KeepResult(w)
  BY <1>0, <1>2, <1>15 DEF KeepResult
<1>16. CASE RecordResult(w)
  BY <1>0, <1>2, <1>16 DEF RecordResult, Outcomes
<1>17. CASE RestoreHost(w)
  BY <1>0, <1>2, <1>17 DEF RestoreHost
<1> QED
  BY <1>3, <1>4, <1>5, <1>6, <1>7, <1>8, <1>9, <1>10, <1>11, <1>12, <1>13,
     <1>14, <1>15, <1>16, <1>17

LEMMA HandledKinds ==
  ASSUME Steady, NEW w \in Workers, HandleError(w)
  PROVE  StepOf(w)
<1> USE DEF world, hist, local, SameFaults
<1>0. TypeOK /\ row \in Row /\ pc \in [Workers -> Points]
      /\ copy \in [Workers -> Row] /\ note \in [Workers -> Notes]
  BY DEF Steady, IInv, TypeOK
<1>1. /\ pc[w] = "raising" /\ pc'[w] = "settling" /\ copy'[w] = row' /\ Still(w)
      /\ UNCHANGED <<faults, windowOpen, touched>>
  BY <1>0 DEF HandleError, Step, Goto, Still
<1>2. CASE ~Owns(w)
  <2>1. row' = row
    BY <1>2 DEF HandleError
  <2>2. ~Working(w)' /\ pc'[w] \notin AfterGate /\ pc'[w] \notin Changing
        /\ pc'[w] \notin Sweeping /\ pc'[w] \notin {"release", "failing_release"}
    BY <1>1 DEF Working, Guarded, AfterGate, Changing, Sweeping
  <2>3. TouchMove(w)
    BY <1>1, <1>2 DEF TouchMove
  <2>4. OwnMove(w)
    BY <1>1, <1>2, <2>1, <2>2, <2>3 DEF OwnMove
  <2> QED
    BY <2>4 DEF StepOf
<1>3. CASE Owns(w)
  <2>1. copy[w] = row
    BY <1>1, <1>3 DEF Steady, CopyIsCurrent, Working
  <2>2. \A v \in Workers : Owns(v) => v = w
    BY <1>3 DEF Owns, HoldsLease
  <2>3. ASSUME row'.status \in Terminal, row'.recoveredFrom = row.recoveredFrom,
               row'.failure # "worker_lease_expired"
        PROVE  Ended
    BY <1>1, <2>2, <2>3 DEF Ended, Terminal, NeverSwept, Resting, Still
  <2>4. CASE note[w] = "retryable"
    <3>1. row' = RetriedRow(row)
      BY <1>3, <2>1, <2>4 DEF HandleError, RetriedRow
    <3>2. /\ row'.status \in {"queued", "failed"}
          /\ row'.recoveredFrom = row.recoveredFrom /\ row'.failure = "retryable"
      BY <1>0, <3>1, LastRows
    <3>3. CASE row'.status = "queued"
      BY <1>1, <1>3, <2>4, <3>2, <3>3 DEF Requeued, StepOf
    <3>4. CASE row'.status = "failed"
      BY <2>3, <3>2, <3>4 DEF Terminal, StepOf
    <3> QED
      BY <3>2, <3>3, <3>4
  <2>5. CASE note[w] # "retryable"
    <3>1. row' = FailedRow(row)
      BY <1>3, <2>1, <2>5 DEF HandleError, FailedRow
    <3>2. /\ row'.status = "failed"
          /\ row'.recoveredFrom = row.recoveredFrom /\ row'.failure = "permanent"
      BY <1>0, <3>1, LastRows
    <3> QED
      BY <2>3, <3>2 DEF Terminal, StepOf
  <2> QED
    BY <2>4, <2>5
<1> QED
  BY <1>2, <1>3

LEMMA GuardedKinds ==
  ASSUME Steady, NEW w \in Workers, GuardedStep(w)
  PROVE  StepOf(w)
<1> USE DEF world, hist, local, SameFaults
<1>0. TypeOK /\ row \in Row
  BY DEF Steady, IInv, TypeOK
<1>1. CASE Complete(w)
  <2>1. Owns(w) /\ pc[w] = "completing" /\ Forget(w)
        /\ UNCHANGED <<faults, windowOpen, touched>>
    BY <1>1 DEF Complete
  <2>2. row' = DoneRow(row)
    BY <1>1, <2>1 DEF Complete, Steady, CopyIsCurrent, Working, Guarded, DoneRow
  <2>3. /\ row'.status = "completed" /\ row'.recoveredFrom = row.recoveredFrom
        /\ row'.failure = row.failure
    BY <1>0, <2>2, LastRows
  <2>4. pc'[w] = "idle" /\ copy'[w] = NoRow /\ Still(w)
    BY <1>0, <2>1, ForgetRests
  <2>5. \A v \in Workers :
          \/ pc'[v] = pc[v] /\ copy'[v] = copy[v]
          \/ pc'[v] \in Resting /\ copy'[v].status # "scheduled"
    BY <2>4, NothingScheduled DEF Still, Resting
  <2>6. \A v \in Workers : Owns(v) => v = w
    BY <2>1 DEF Owns, HoldsLease
  <2>7. Ended
    BY <2>1, <2>3, <2>4, <2>5, <2>6 DEF Ended, Terminal, NeverSwept, Resting
  <2> QED
    BY <2>7 DEF StepOf
<1>2. CASE Settle(w)
  <2>1. Forget(w) /\ UNCHANGED <<row, faults, windowOpen, touched>> /\ pc[w] = "settling"
    BY <1>2 DEF Settle, Return
  <2> QED
    BY <1>0, <2>1, IdleMove DEF StepOf, Working, Guarded
<1>3. CASE LoseLease(w)
  <2>1. /\ Forget(w) /\ ~Owns(w) /\ UNCHANGED <<row, faults, windowOpen, touched>>
    BY <1>3 DEF LoseLease, Return
  <2> QED
    BY <1>0, <2>1, IdleMove DEF StepOf
<1> QED
  BY <1>1, <1>2, <1>3, SavedKinds, GuardedMoves, HandledKinds DEF GuardedStep, StepOf

LEMMA BeatKinds ==
  ASSUME Steady, NEW w \in Workers, BeatStep(w)
  PROVE  StepOf(w)
<1> USE DEF world, hist, local, SameFaults
<1>0. TypeOK /\ row \in Row /\ pc \in [Workers -> Points] /\ copy \in [Workers -> Row]
  BY DEF Steady, IInv, TypeOK
<1>1. CASE Sweep(w)
  <2>1. /\ pc[w] = "idle" /\ pc'[w] \in {"recovered", "exhausted"}
        /\ Lapsed(row, 0) /\ row' = Recovered(row) /\ copy'[w] = row'
    BY <1>0, <1>1 DEF Sweep, Goto
  <2>2. Still(w) /\ UNCHANGED <<faults, touched>>
    BY <1>0, <1>1 DEF Sweep, Goto, Still
  <2> QED
    BY <2>1, <2>2 DEF Swept, StepOf
<1>2. CASE SweepRecovered(w)
  BY <1>0, <1>2 DEF SweepRecovered, Step, Goto, OwnMove, TouchMove, Still, StepOf,
     Working, AfterGate, Guarded, Changing, Sweeping, WillEnd
<1>3. CASE SweepExhausted(w)
  <2>1. Forget(w) /\ UNCHANGED <<row, faults, windowOpen, touched>> /\ pc[w] = "exhausted"
    BY <1>3 DEF SweepExhausted
  <2> QED
    BY <1>0, <2>1, IdleMove DEF StepOf, Working, Guarded
<1>4. CASE FailUnleased(w)
  <2>1. /\ pc[w] = "failing_stale" /\ Forget(w)
        /\ UNCHANGED <<faults, windowOpen, touched>>
    BY <1>4 DEF FailUnleased, Steady, OnTime
  <2>2. row'.status = "failed"
    BY <1>0, <1>4 DEF FailUnleased, FailedCopy, Row
  <2>3. pc'[w] = "idle" /\ copy'[w] = NoRow /\ Still(w)
    BY <1>0, <2>1, ForgetRests
  <2>4. \A v \in Workers :
          \/ pc'[v] = pc[v] /\ copy'[v] = copy[v]
          \/ pc'[v] \in Resting /\ copy'[v].status # "scheduled"
    BY <2>3, NothingScheduled DEF Still, Resting
  <2>5. Ended
    BY <2>1, <2>2, <2>4 DEF Ended, Terminal
  <2> QED
    BY <2>5 DEF StepOf
<1>5. CASE BeatDispatch(w)
  <2>1. Forget(w) /\ UNCHANGED <<row, faults, windowOpen, touched>> /\ pc[w] = "dispatch"
    BY <1>5 DEF BeatDispatch
  <2> QED
    BY <1>0, <2>1, IdleMove DEF StepOf, Working, Guarded
<1>6. CASE ListScheduled(w) \/ ReleaseCanceled(w) \/ ReleaseBlocked(w) \/ Release(w)
  BY <1>6 DEF ListScheduled, ReleaseCanceled, ReleaseBlocked, Release, Step, Steady, OnTime
<1> QED
  BY <1>1, <1>2, <1>3, <1>4, <1>5, <1>6 DEF BeatStep

LEMMA SideKinds ==
  ASSUME Steady, Immediate, Side
  PROVE  Kinds
<1> USE DEF world, hist, local, SameFaults
<1>0. TypeOK /\ row \in Row
  BY DEF Steady, IInv, TypeOK
<1>1. CASE Prepare
  BY <1>1 DEF Prepare, Steady, OnTime, Inserted, NobodyMoves, Kinds
<1>2. CASE CancelCampaign
  <2>1. CASE Cancelable(row)
    <3>1. row' = Canceled(row) /\ UNCHANGED <<pc, copy, faults, windowOpen, touched>>
      BY <1>2, <2>1 DEF CancelCampaign
    <3>2. \A v \in Workers : ~Owns(v)
      BY <2>1 DEF Owns, HoldsLease, Cancelable
    <3>3. /\ Canceled(row).status = "canceled"
          /\ Canceled(row).recoveredFrom = row.recoveredFrom
          /\ Canceled(row).failure = row.failure
      BY <1>0, EndedRows
    <3> QED
      BY <3>1, <3>2, <3>3 DEF Ended, Kinds, Terminal, NeverSwept
  <2>2. CASE ~Cancelable(row)
    BY <1>2, <2>2 DEF CancelCampaign, Aside, NobodyMoves, Kinds
  <2> QED
    BY <2>1, <2>2
<1>3. CASE PrepareAgain \/ Revoke \/ Restore \/ Dispatch \/ SettleCampaign
  BY <1>3 DEF PrepareAgain, Revoke, Restore, Dispatch, SettleCampaign,
     Aside, NobodyMoves, Kinds
<1>4. CASE MoveWindow
  BY <1>4 DEF MoveWindow
<1>5. CASE Expire
  BY <1>5 DEF Expire, Aged, NobodyMoves, Kinds
<1>6. CASE Stall
  BY <1>0, <1>6 DEF Stall, Aged, OneLost, NobodyMoves, Kinds, TypeOK
<1>7. CASE DeliverTwice
  BY <1>0, <1>7 DEF DeliverTwice, Aside, NobodyMoves, Kinds, TypeOK
<1>8. CASE LoseDispatch
  BY <1>0, <1>8 DEF LoseDispatch, Aside, OneLost, NobodyMoves, Kinds, TypeOK
<1> QED
  BY <1>1, <1>2, <1>3, <1>4, <1>5, <1>6, <1>7, <1>8 DEF Side, Operator

LEMMA FaultKinds ==
  ASSUME Steady, NEW w \in Workers, Crash(w) \/ RaiseError(w)
  PROVE  StepOf(w)
<1> USE DEF world, hist, local, SameFaults
<1>0. TypeOK /\ pc \in [Workers -> Points] /\ note \in [Workers -> Notes]
  BY DEF Steady, IInv, TypeOK
<1>1. CASE Crash(w)
  <2>1. Forget(w) /\ UNCHANGED <<row, windowOpen, touched>> /\ OneLost
    BY <1>0, <1>1 DEF Crash, OneLost, TypeOK
  <2> QED
    BY <1>0, <2>1, ForgetRests DEF Died, StepOf
<1>2. CASE RaiseError(w)
  BY <1>0, <1>2 DEF RaiseError, Raise, Goto, OwnMove, Still, StepOf,
     Working, AfterGate, Guarded, Changing, Sweeping
<1> QED
  BY <1>1, <1>2

LEMMA EveryStepIsAKind ==
  ASSUME Steady, Immediate, [Next]_vars
  PROVE  Kinds
<1>1. CASE UNCHANGED vars
  BY <1>1 DEF vars, world, hist, local, Aside, NobodyMoves, Kinds
<1> QED
  BY <1>1, DeliveryKinds, GuardedKinds, BeatKinds, SideKinds, FaultKinds
     DEF Next, Fault, WorkerStep, Side, Kinds

-----------------------------------------------------------------------------
(* Immediate timing holds, and an ended job stays ended.                   *)

(* The status an operation leaves.                                         *)
LEMMA StatusesOf ==
  ASSUME NEW r \in Row, NEW w \in Workers, NEW p
  PROVE  /\ WithPhase(r, p).status = r.status
         /\ Claimed(r, w, 0).status = "running"
         /\ Recovered(r).status \in {"queued", "failed"}
         /\ [r EXCEPT !.expires = 0].status = r.status
         /\ NewRow("queued").status = "queued"
<1>1. WithPhase(r, p).status = r.status
  BY DEF WithPhase, Row
<1>2. Claimed(r, w, 0).status = "running"
  BY DEF Claimed, Row
<1>3. Recovered(r).status \in {"queued", "failed"}
  BY DEF Recovered, Exhausted, Row
<1>4. [r EXCEPT !.expires = 0].status = r.status
  BY DEF Row
<1>5. NewRow("queued").status = "queued"
  BY DEF NewRow, NoRow
<1> QED
  BY <1>1, <1>2, <1>3, <1>4, <1>5

LEMMA KeepsOnTime ==
  ASSUME Steady, Kinds
  PROVE  OnTime'
<1> USE DEF OnTime, Steady
<1>0. row \in Row
  BY DEF IInv, TypeOK
<1>1. CASE Aside
  BY <1>1 DEF Aside, NobodyMoves
<1>2. CASE Inserted
  BY <1>2, NewRowIsRow DEF Inserted, NobodyMoves, NewRow, NoRow
<1>3. CASE Aged
  BY <1>0, <1>3, StatusesOf DEF Aged, NobodyMoves, Row
<1>4. CASE Ended
  BY <1>4 DEF Ended, Terminal, Resting
<1>5. ASSUME NEW w \in Workers, OwnMove(w)
      PROVE  OnTime'
  BY <1>5, NothingScheduled DEF OwnMove, Still
<1>6. ASSUME NEW w \in Workers, SavedMove(w)
      PROVE  OnTime'
  BY <1>0, <1>6, StatusesOf DEF SavedMove, Still, Guarded
<1>7. ASSUME NEW w \in Workers, Taken(w)
      PROVE  OnTime'
  BY <1>0, <1>7, StatusesOf DEF Taken, Still
<1>8. ASSUME NEW w \in Workers, Requeued(w)
      PROVE  OnTime'
  BY <1>8 DEF Requeued, Still
<1>9. ASSUME NEW w \in Workers, Swept(w)
      PROVE  OnTime'
  BY <1>0, <1>9, StatusesOf DEF Swept, Still
<1>10. ASSUME NEW w \in Workers, Died(w)
       PROVE  OnTime'
  BY <1>10, NothingScheduled DEF Died, Still
<1> QED
  BY <1>1, <1>2, <1>3, <1>4, <1>5, <1>6, <1>7, <1>8, <1>9, <1>10 DEF Kinds, StepOf

(* Only a running row has an owner, and it has one.                        *)
LEMMA OwnersRun ==
  ASSUME row'.status # "running"
  PROVE  \A w \in Workers : ~Owns(w)'
BY DEF Owns, HoldsLease

LEMMA KeepsCopies ==
  ASSUME Steady, Kinds
  PROVE  CopyIsCurrent'
<1> USE DEF CopyIsCurrent, Steady
<1>0. row \in Row
  BY DEF IInv, TypeOK
<1>1. CASE Aside
  BY <1>1 DEF Aside, NobodyMoves, Working, Owns
<1>2. CASE Inserted
  BY <1>0, <1>2, OwnersRun DEF Inserted, NewRow, NoRow
<1>3. CASE Aged
  BY <1>0, <1>3 DEF Aged, Owns, HoldsLease, LeaseIsExpired, Row
<1>4. CASE Ended
  BY <1>4, OwnersRun DEF Ended, Terminal
<1>5. ASSUME NEW w \in Workers, OwnMove(w)
      PROVE  CopyIsCurrent'
  BY <1>5 DEF OwnMove, Still, Working, Owns
<1>6. ASSUME NEW w \in Workers, SavedMove(w)
      PROVE  CopyIsCurrent'
  <2>1. PICK p \in Phases : row' = WithPhase(row, p)
    BY <1>6 DEF SavedMove
  <2>2. \A v \in Workers : Owns(v)' => v = w
    BY <1>0, <1>6, <2>1 DEF SavedMove, Owns, HoldsLease, WithPhase, Row
  <2> QED
    BY <1>6, <2>2 DEF SavedMove
<1>7. ASSUME NEW w \in Workers, Taken(w)
      PROVE  CopyIsCurrent'
  <2>1. \A v \in Workers : Owns(v)' => v = w
    BY <1>0, <1>7 DEF Taken, Owns, HoldsLease, Claimed, Row
  <2> QED
    BY <1>7, <2>1 DEF Taken
<1>8. ASSUME NEW w \in Workers, Requeued(w)
      PROVE  CopyIsCurrent'
  BY <1>8, OwnersRun DEF Requeued
<1>9. ASSUME NEW w \in Workers, Swept(w)
      PROVE  CopyIsCurrent'
  BY <1>0, <1>9, OwnersRun, StatusesOf DEF Swept
<1>10. ASSUME NEW w \in Workers, Died(w)
       PROVE  CopyIsCurrent'
  BY <1>10 DEF Died, Still, Working, Guarded, Owns
<1> QED
  BY <1>1, <1>2, <1>3, <1>4, <1>5, <1>6, <1>7, <1>8, <1>9, <1>10 DEF Kinds, StepOf

LEMMA InitSteady ==
  ASSUME Immediate, Init
  PROVE  OnTime /\ CopyIsCurrent
BY DEF Init, NoRow, OnTime, CopyIsCurrent, Owns, HoldsLease

LEMMA StepSteady ==
  ASSUME Immediate, Steady, [Next]_vars
  PROVE  Kinds /\ OnTime' /\ CopyIsCurrent'
BY EveryStepIsAKind, KeepsOnTime, KeepsCopies

LEMMA EndedStaysEnded ==
  ASSUME Steady, Kinds, row.status \in Terminal
  PROVE  row'.status \in Terminal
<1>1. row \in Row /\ ~LeaseIsLive /\ row.status # "absent" /\ ~Claimable(row, 0)
      /\ ~Lapsed(row, 0) /\ \A w \in Workers : ~Owns(w)
  BY DEF Steady, IInv, TypeOK, LeaseIsLive, Terminal, Claimable, Lapsed, Owns, HoldsLease
<1> QED
  BY <1>1 DEF Kinds, StepOf, Aside, Inserted, Aged, Ended, OwnMove, SavedMove, Taken,
     Requeued, Swept, Died

LEMMA SteadyHolds ==
  ASSUME Immediate
  PROVE  Spec => []Steady
<1>1. Init => OnTime /\ CopyIsCurrent
  BY InitSteady
<1>2. IInv /\ OnTime /\ CopyIsCurrent /\ [Next]_vars => (OnTime /\ CopyIsCurrent)'
  BY StepSteady DEF Steady
<1>3. IInv /\ OnTime /\ CopyIsCurrent => Steady
  BY DEF Steady
<1> QED
  BY <1>1, <1>2, <1>3, InductiveInvariant, PTL DEF Spec

(* execute_remediation's claim that an outcome is final: once a job has    *)
(* completed, failed or was canceled, no late delivery, sweep or worker    *)
(* that lost its lease makes it run again, however many processes die, as  *)
(* long as no maintenance window defers jobs.                              *)
THEOREM EndedForGood ==
  ASSUME Immediate
  PROVE  Spec => TerminalNeverReopens
<1>1. Steady /\ [Next]_vars => (row.status \in Terminal => row'.status \in Terminal)
  BY EveryStepIsAKind, EndedStaysEnded
<1> QED
  BY <1>1, SteadyHolds, PTL DEF Spec, TerminalNeverReopens

-----------------------------------------------------------------------------
(* As long as no process dies or outlives its lease, the sweep finds       *)
(* nothing: a running job has one worker, and nobody else is at work.      *)

Alone ==
  /\ row.status = "running" => \E w \in Workers : Working(w) /\ Owns(w)
  /\ \A w \in Workers : (Working(w) => Owns(w)) /\ pc[w] \notin Sweeping

NoLosses == faults.losses = 0

LEMMA NoneToLose ==
  ASSUME MaxLosses = 0, TypeOK
  PROVE  NoLosses
<1>1. faults.losses \in 0..0
  BY DEF TypeOK
<1> QED
  BY <1>1 DEF NoLosses

LEMMA KeepsAlone ==
  ASSUME Steady, Alone, NoLosses, Kinds
  PROVE  Alone'
<1> USE DEF Alone, NoLosses
<1>0. row \in Row
  BY DEF Steady, IInv, TypeOK
<1>1. CASE Aside
  BY <1>1 DEF Aside, NobodyMoves, Working, Owns, OneLost
<1>2. CASE Inserted
  <2>1. \A w \in Workers : ~Working(w)
    BY <1>2 DEF Inserted, Owns, HoldsLease
  <2>2. row'.status # "running"
    BY <1>2 DEF Inserted, NewRow, NoRow
  <2> QED
    BY <1>2, <2>1, <2>2 DEF Inserted, NobodyMoves, Working
<1>3. CASE Aged
  BY <1>3 DEF Aged, OneLost, LeaseIsLive, Owns, HoldsLease
<1>4. CASE Ended
  <2>1. \A w \in Workers : Working(w) => pc'[w] \in Resting
    BY <1>4 DEF Ended, Sweeping
  <2>2. \A w \in Workers : ~Working(w)'
    BY <1>4, <2>1 DEF Ended, Working, Resting, Guarded
  <2> QED
    BY <1>4, <2>2 DEF Ended, Terminal, Resting, Sweeping
<1>5. ASSUME NEW w \in Workers, OwnMove(w)
      PROVE  Alone'
  <2>1. /\ row' = row /\ pc'[w] \notin Sweeping
        /\ Working(w)' <=> Working(w)
        /\ \A v \in Workers \ {w} : pc'[v] = pc[v]
    BY <1>5 DEF OwnMove, Still
  <2>2. \A v \in Workers : (Working(v)' <=> Working(v)) /\ (Owns(v)' <=> Owns(v))
    BY <2>1 DEF Working, Owns
  <2> QED
    BY <2>1, <2>2
<1>6. ASSUME NEW w \in Workers, SavedMove(w)
      PROVE  Alone'
  <2>1. PICK p \in Phases : row' = WithPhase(row, p)
    BY <1>6 DEF SavedMove
  <2>2. \A v \in Workers : Owns(v)' <=> v = w
    BY <1>0, <1>6, <2>1 DEF SavedMove, Owns, HoldsLease, WithPhase, Row
  <2>3. \A v \in Workers \ {w} : ~Working(v)
    BY <1>6 DEF SavedMove, Owns, HoldsLease
  <2>4. /\ pc'[w] \in Guarded /\ pc'[w] \notin Sweeping
        /\ \A v \in Workers \ {w} : pc'[v] = pc[v]
    BY <1>6 DEF SavedMove, Still, Guarded, Sweeping
  <2> QED
    BY <2>2, <2>3, <2>4 DEF Working
<1>7. ASSUME NEW w \in Workers, Taken(w)
      PROVE  Alone'
  <2>1. \A v \in Workers : Owns(v)' <=> v = w
    BY <1>0, <1>7, LeaseAssumption DEF Taken, Owns, HoldsLease, Claimed, LeaseIsExpired, Row
  <2>2. \A v \in Workers : ~Working(v)
    BY <1>7 DEF Taken, Claimable, Lapsed, Owns, HoldsLease
  <2>3. Working(w)' /\ pc'[w] \notin Sweeping
        /\ \A v \in Workers \ {w} : pc'[v] = pc[v]
    BY <1>7 DEF Taken, Still, Working, Sweeping
  <2> QED
    BY <2>1, <2>2, <2>3 DEF Working
<1>8. ASSUME NEW w \in Workers, Requeued(w)
      PROVE  Alone'
  <2>1. \A v \in Workers \ {w} : ~Working(v)
    BY <1>8 DEF Requeued, Owns, HoldsLease
  <2>2. pc'[w] = "settling" /\ row'.status # "running"
        /\ \A v \in Workers \ {w} : pc'[v] = pc[v]
    BY <1>8 DEF Requeued, Still
  <2> QED
    BY <2>1, <2>2 DEF Working, Guarded, Sweeping
<1>9. ASSUME NEW w \in Workers, Swept(w)
      PROVE  Alone'
  BY <1>9 DEF Swept, Lapsed, Owns, HoldsLease
<1>10. ASSUME NEW w \in Workers, Died(w)
       PROVE  Alone'
  BY <1>10 DEF Died, OneLost
<1> QED
  BY <1>1, <1>2, <1>3, <1>4, <1>5, <1>6, <1>7, <1>8, <1>9, <1>10 DEF Kinds, StepOf

LEMMA InitAlone == Init => Alone
BY DEF Init, NoRow, Alone, Working, Guarded, Sweeping

LEMMA AloneHolds ==
  ASSUME Immediate, MaxLosses = 0
  PROVE  Spec => [](Steady /\ Alone)
<1>1. Steady /\ Alone /\ [Next]_vars => Alone'
  BY EveryStepIsAKind, NoneToLose, KeepsAlone DEF Steady, IInv
<1>2. Alone /\ UNCHANGED vars => Alone'
  BY DEF vars, local, Alone, Working, Owns
<1> QED
  BY <1>1, <1>2, InitAlone, SteadyHolds, PTL DEF Spec

(* Only the owner of a live claim ends it.                                 *)
LEMMA OwnerEnds ==
  ASSUME Steady, Alone, NoLosses, Kinds,
         NEW w \in Workers, LeaseIsLive, row.owner = w, row'.owner # w
  PROVE  pc'[w] # pc[w]
<1> USE DEF Alone, NoLosses
<1>0. row \in Row /\ Owns(w) /\ row.status = "running"
  BY DEF Steady, IInv, TypeOK, LeaseIsLive, Owns, HoldsLease
<1>1. Working(w)
  BY <1>0 DEF Owns, HoldsLease
<1>2. CASE Ended
  BY <1>0, <1>1, <1>2 DEF Ended, Working, Resting, Guarded, Sweeping
<1>3. ASSUME NEW v \in Workers, SavedMove(v)
      PROVE  row'.owner = row.owner
  <2>1. PICK p \in Phases : row' = WithPhase(row, p)
    BY <1>3 DEF SavedMove
  <2> QED
    BY <1>0, <2>1 DEF WithPhase, Row
<1>4. ASSUME NEW v \in Workers, Requeued(v)
      PROVE  pc'[w] # pc[w]
  BY <1>0, <1>4 DEF Requeued, Owns, HoldsLease
<1>5. ~Lapsed(row, 0) /\ ~Claimable(row, 0)
  BY <1>0 DEF Lapsed, Claimable, LeaseIsLive
<1> QED
  BY <1>0, <1>2, <1>3, <1>4, <1>5 DEF Kinds, StepOf, Aside, Inserted, Aged, OneLost,
     OwnMove, Taken, Swept, Died, LeaseIsLive, Row

(* claim_job and the heartbeat: while processes live and heartbeats are on *)
(* time, a claimed job leaves its worker only by a step of that worker,    *)
(* however many deliveries of it are repeated and whatever raises.         *)
THEOREM ClaimsAreRespected ==
  ASSUME Immediate, MaxLosses = 0
  PROVE  Spec => ClaimIsRespected
<1>1. Steady /\ Alone /\ [Next]_vars =>
        \A w \in Workers :
          LeaseIsLive /\ row.owner = w /\ row'.owner # w => pc'[w] # pc[w]
  BY EveryStepIsAKind, NoneToLose, OwnerEnds DEF Steady, IInv
<1> QED
  BY <1>1, AloneHolds, PTL DEF Spec, ClaimIsRespected

-----------------------------------------------------------------------------
(* The remediation says "running" from the drift check on until the result *)
(* or the failure is recorded.                                             *)

Busy == {"collecting", "collected", "snapshotting", "snap_requested",
         "snap_created", "ready", "executing", "mutating", "finished",
         "health", "rolling_back", "watched", "recording", "raising", "settling"}

SaysRunning == exec = "running" => \E w \in Workers : pc[w] \in Busy

StaysBusy ==
  \/ exec' # "running"
  \/ exec' = exec /\ \A w \in Workers : pc[w] \in Busy => pc'[w] \in Busy
  \/ \E w \in Workers : pc'[w] \in Busy

LEMMA DeliveryBusy ==
  ASSUME IInv, Alone, NEW w \in Workers, DeliveryStep(w)
  PROVE  StaysBusy
<1> USE DEF StaysBusy, Busy, Goto, Step
<1>0. TypeOK /\ pc \in [Workers -> Points]
  BY DEF IInv, TypeOK
<1>1. ASSUME Forget(w), pc[w] \notin Busy, exec' = exec
      PROVE  StaysBusy
  BY <1>0, <1>1, ForgetIdles
<1>2. CASE Deliver(w)
  BY <1>0, <1>2 DEF Deliver
<1>3. CASE CancelOnDelivery(w)
  BY <1>0, <1>1, <1>3 DEF CancelOnDelivery, Return
<1>4. CASE SaveCanceled(w)
  BY <1>4 DEF SaveCanceled
<1>5. CASE Defer(w)
  BY <1>1, <1>5 DEF Defer
<1>6. CASE Claim(w)
  BY <1>0, <1>6 DEF Claim, MayClaim
<1>7. CASE ClaimRefused(w)
  BY <1>1, <1>7 DEF ClaimRefused, MayClaim, Return
<1>8. CASE Reject(w)
  BY <1>8 DEF Reject
<1>9. CASE FailRejected(w)
  BY <1>1, <1>9 DEF FailRejected, Return
<1>10. CASE Accept(w)
  BY <1>0, <1>10 DEF Accept
<1> QED
  BY <1>2, <1>3, <1>4, <1>5, <1>6, <1>7, <1>8, <1>9, <1>10 DEF DeliveryStep

LEMMA GuardedBusy ==
  ASSUME IInv, Alone, NEW w \in Workers, GuardedStep(w)
  PROVE  StaysBusy
<1>0. TypeOK /\ pc \in [Workers -> Points]
  BY DEF IInv, TypeOK
<1>1. ASSUME pc'[w] \in Busy
      PROVE  StaysBusy
  BY <1>1 DEF StaysBusy
<1>2. ASSUME NEW p \in Busy, Goto(w, p)
      PROVE  StaysBusy
  BY <1>0, <1>1, <1>2 DEF Goto
<1>3. \A x \in Busy : Goto(w, x) => StaysBusy
  BY <1>2
<1>4. CASE \/ MarkRunning(w) \/ CheckDrift(w) \/ Blocked(w) \/ SkipSnapshot(w)
           \/ BeginSnapshot(w) \/ RequestSnapshot(w) \/ SnapshotAnswers(w)
           \/ SnapshotKept(w) \/ BeginExecution(w) \/ PreflightFails(w)
           \/ Mutate(w) \/ ExecutorReports(w) \/ BeginHealthCheck(w)
           \/ HealthAnswers(w) \/ RollbackAnswers(w) \/ KeepResult(w) \/ HandleError(w)
  BY <1>3, <1>4 DEF MarkRunning, CheckDrift, Blocked, SkipSnapshot, BeginSnapshot,
     RequestSnapshot, SnapshotAnswers, SnapshotKept, BeginExecution, PreflightFails,
     Mutate, ExecutorReports, BeginHealthCheck, HealthAnswers, RollbackAnswers,
     KeepResult, HandleError, Step, Raise, Finish, Busy
<1>5. CASE Start(w)
  BY <1>0, <1>5 DEF Start, Step, Goto, StaysBusy, Busy
<1>6. CASE RecordResult(w)
  BY <1>6 DEF RecordResult, Outcomes, StaysBusy
<1>7. CASE Complete(w)
  BY <1>0, <1>7, ForgetIdles DEF Complete, StaysBusy, Busy
<1>8. CASE Settle(w)
  BY <1>8 DEF Settle, StaysBusy, IInv, VerdictIsAState
<1>9. CASE LoseLease(w)
  BY <1>9 DEF LoseLease, Alone, Working
<1>10. CASE RestoreHost(w)
  BY <1>10 DEF RestoreHost, local, StaysBusy
<1> QED
  BY <1>4, <1>5, <1>6, <1>7, <1>8, <1>9, <1>10 DEF GuardedStep

LEMMA BeatBusy ==
  ASSUME IInv, Alone, NEW w \in Workers, BeatStep(w)
  PROVE  StaysBusy
<1> USE DEF StaysBusy, Busy, Goto, Step
<1>0. TypeOK /\ pc \in [Workers -> Points]
  BY DEF IInv, TypeOK
<1>1. ASSUME Forget(w), pc[w] \notin Busy, exec' = exec
      PROVE  StaysBusy
  BY <1>0, <1>1, ForgetIdles
<1>2. CASE Sweep(w)
  BY <1>0, <1>2 DEF Sweep
<1>3. CASE SweepRecovered(w) \/ SweepExhausted(w)
  BY <1>3 DEF SweepRecovered, SweepExhausted
<1>4. CASE FailUnleased(w)
  BY <1>1, <1>4 DEF FailUnleased
<1>5. CASE BeatDispatch(w)
  BY <1>1, <1>5 DEF BeatDispatch
<1>6. CASE ListScheduled(w)
  BY <1>0, <1>6 DEF ListScheduled
<1>7. CASE ReleaseCanceled(w)
  BY <1>1, <1>7 DEF ReleaseCanceled
<1>8. CASE ReleaseBlocked(w)
  BY <1>8 DEF ReleaseBlocked
<1>9. CASE Release(w)
  BY <1>0, <1>1, <1>9 DEF Release
<1> QED
  BY <1>2, <1>3, <1>4, <1>5, <1>6, <1>7, <1>8, <1>9 DEF BeatStep

LEMMA SideBusy ==
  ASSUME Side
  PROVE  StaysBusy
BY DEF Side, Operator, StaysBusy, Prepare, PrepareAgain, CancelCampaign, Revoke, Restore,
   MoveWindow, Dispatch, SettleCampaign, Expire, Stall, DeliverTwice, LoseDispatch, local

LEMMA StepBusy ==
  ASSUME IInv, Alone, NoLosses, SaysRunning, [Next]_vars
  PROVE  SaysRunning'
<1>1. ASSUME NEW w \in Workers, Crash(w) \/ RaiseError(w)
      PROVE  StaysBusy
  BY <1>1 DEF Crash, NoLosses, RaiseError, Raise, Goto, StaysBusy, Busy, IInv, TypeOK
<1>2. UNCHANGED vars => StaysBusy
  BY DEF vars, local, StaysBusy
<1>3. ASSUME NEW w \in Workers, WorkerStep(w)
      PROVE  StaysBusy
  BY <1>3, DeliveryBusy, GuardedBusy, BeatBusy DEF WorkerStep
<1>4. Side => StaysBusy
  BY SideBusy
<1>5. StaysBusy
  BY <1>1, <1>2, <1>3, <1>4 DEF Next, Fault, Side
<1> QED
  BY <1>5 DEF StaysBusy, SaysRunning

(* process_remediation's last writes: when the workers are at rest, no     *)
(* remediation is left claiming that it runs, whatever raised on the way.  *)
THEOREM RunningIsTold ==
  ASSUME Immediate, MaxLosses = 0
  PROVE  Spec => []RunningIsTruthful
<1>1. Init => SaysRunning
  BY DEF Init, SaysRunning
<1>2. Steady /\ Alone /\ SaysRunning /\ [Next]_vars => SaysRunning'
  BY NoneToLose, StepBusy DEF Steady, IInv
<1>3. SaysRunning => RunningIsTruthful
  BY DEF SaysRunning, RunningIsTruthful, Busy
<1> QED
  BY <1>1, <1>2, <1>3, AloneHolds, PTL DEF Spec

-----------------------------------------------------------------------------
(* The drift check keeps a changed host from being changed again, whatever *)
(* raised on the way: between the check and the playbook nobody else can   *)
(* be at work.                                                             *)

(* The way from the drift check to the playbook.                           *)
Approaching == {"collected", "snapshotting", "snap_requested", "snap_created",
                "ready", "executing"}

NotChangedAhead == touched = "changed" => \A w \in Workers : pc[w] \notin Approaching

(* What a step may do to the host and to the workers on that way.          *)
Drifts ==
  \/ /\ touched' = touched
     /\ \A w \in Workers :
          /\ pc'[w] \in Approaching => pc[w] \in Approaching \/ touched # "changed"
          /\ pc'[w] = "mutating" => pc[w] = "mutating"
  \/ /\ touched' = "changed" => touched = "changed" \/ \E w \in Workers : pc[w] = "mutating"
     /\ \A w \in Workers :
          /\ pc'[w] \in Approaching => pc[w] \in Approaching
          /\ pc'[w] = "mutating" => pc[w] \in {"mutating", "executing"}

LEMMA DeliveryDrifts ==
  ASSUME TypeOK, NEW w \in Workers, DeliveryStep(w)
  PROVE  Drifts
<1> USE DEF Drifts, Approaching, Goto, Step, hist
<1>0. pc \in [Workers -> Points]
  BY DEF TypeOK
<1>1. ASSUME Forget(w), touched' = touched
      PROVE  Drifts
  BY <1>0, <1>1, ForgetIdles
<1>2. CASE Deliver(w)
  BY <1>0, <1>2 DEF Deliver
<1>3. CASE CancelOnDelivery(w)
  BY <1>0, <1>1, <1>3 DEF CancelOnDelivery, Return
<1>4. CASE SaveCanceled(w) \/ Defer(w)
  BY <1>1, <1>4 DEF SaveCanceled, Defer
<1>5. CASE Claim(w)
  BY <1>0, <1>5 DEF Claim
<1>6. CASE ClaimRefused(w) \/ FailRejected(w)
  BY <1>1, <1>6 DEF ClaimRefused, FailRejected, Return
<1>7. CASE Reject(w) \/ Accept(w)
  BY <1>0, <1>7 DEF Reject, Accept
<1> QED
  BY <1>2, <1>3, <1>4, <1>5, <1>6, <1>7 DEF DeliveryStep

LEMMA GuardedDrifts ==
  ASSUME TypeOK, NEW w \in Workers, GuardedStep(w)
  PROVE  Drifts
<1> USE DEF Drifts, Approaching, Goto, Step, Raise, Finish, hist
<1>0. pc \in [Workers -> Points]
  BY DEF TypeOK
<1>1. ASSUME Forget(w), touched' = touched
      PROVE  Drifts
  BY <1>0, <1>1, ForgetIdles
<1>2. CASE Start(w) \/ MarkRunning(w) \/ CheckDrift(w) \/ Blocked(w)
  BY <1>0, <1>2 DEF Start, MarkRunning, CheckDrift, Blocked
<1>3. CASE \/ SkipSnapshot(w) \/ BeginSnapshot(w) \/ RequestSnapshot(w)
           \/ SnapshotAnswers(w) \/ SnapshotKept(w) \/ BeginExecution(w)
  BY <1>0, <1>3 DEF SkipSnapshot, BeginSnapshot, RequestSnapshot, SnapshotAnswers,
     SnapshotKept, BeginExecution
<1>4. CASE PreflightFails(w)
  BY <1>0, <1>4 DEF PreflightFails
<1>5. CASE Mutate(w)
  BY <1>0, <1>5 DEF Mutate
<1>6. CASE ExecutorReports(w)
  BY <1>0, <1>6 DEF ExecutorReports
<1>7. CASE BeginHealthCheck(w) \/ HealthAnswers(w) \/ RollbackAnswers(w)
  BY <1>0, <1>7 DEF BeginHealthCheck, HealthAnswers, RollbackAnswers
<1>8. CASE RestoreHost(w)
  BY <1>8 DEF RestoreHost, local
<1>9. CASE KeepResult(w) \/ RecordResult(w) \/ HandleError(w)
  BY <1>0, <1>9 DEF KeepResult, RecordResult, HandleError
<1>10. CASE Complete(w) \/ Settle(w) \/ LoseLease(w)
  BY <1>1, <1>10 DEF Complete, Settle, LoseLease, Return
<1> QED
  BY <1>2, <1>3, <1>4, <1>5, <1>6, <1>7, <1>8, <1>9, <1>10 DEF GuardedStep

LEMMA BeatDrifts ==
  ASSUME TypeOK, NEW w \in Workers, BeatStep(w)
  PROVE  Drifts
<1> USE DEF Drifts, Approaching, Goto, Step, hist
<1>0. pc \in [Workers -> Points]
  BY DEF TypeOK
<1>1. ASSUME Forget(w), touched' = touched
      PROVE  Drifts
  BY <1>0, <1>1, ForgetIdles
<1>2. CASE Sweep(w) \/ SweepRecovered(w) \/ ListScheduled(w) \/ ReleaseBlocked(w)
  BY <1>0, <1>2 DEF Sweep, SweepRecovered, ListScheduled, ReleaseBlocked
<1>3. CASE SweepExhausted(w) \/ FailUnleased(w) \/ BeatDispatch(w) \/ ReleaseCanceled(w)
  BY <1>1, <1>3 DEF SweepExhausted, FailUnleased, BeatDispatch, ReleaseCanceled
<1>4. CASE Release(w)
  BY <1>0, <1>1, <1>4 DEF Release
<1> QED
  BY <1>2, <1>3, <1>4 DEF BeatStep

LEMMA SideDrifts ==
  ASSUME Side \/ UNCHANGED vars
  PROVE  Drifts
<1>1. UNCHANGED <<pc, touched>>
  BY DEF Side, Operator, Prepare, PrepareAgain, CancelCampaign, Revoke, Restore, MoveWindow,
     Dispatch, SettleCampaign, Expire, Stall, DeliverTwice, LoseDispatch, vars, local, hist
<1> QED
  BY <1>1 DEF Drifts

LEMMA StepDrifts ==
  ASSUME TypeOK, [Next]_vars
  PROVE  Drifts
<1>1. ASSUME NEW w \in Workers, Crash(w) \/ RaiseError(w)
      PROVE  Drifts
  BY <1>1, ForgetIdles DEF TypeOK, Crash, RaiseError, Raise, Goto, Drifts, Approaching, hist
<1>2. ASSUME NEW w \in Workers, WorkerStep(w)
      PROVE  Drifts
  BY <1>2, DeliveryDrifts, GuardedDrifts, BeatDrifts DEF WorkerStep
<1> QED
  BY <1>1, <1>2, SideDrifts DEF Next, Fault, Side

LEMMA OwnerIsOne ==
  ASSUME NEW v \in Workers, NEW w \in Workers, Owns(v), Owns(w)
  PROVE  v = w /\ row.status = "running" /\ ~Lapsed(row, 0) /\ ~Claimable(row, 0)
BY DEF Owns, HoldsLease, Lapsed, Claimable

LEMMA KeepsNotChangedAhead ==
  ASSUME Alone, NotChangedAhead, Drifts
  PROVE  NotChangedAhead'
<1> SUFFICES ASSUME touched' = "changed", NEW w \in Workers, pc'[w] \in Approaching
             PROVE  FALSE
  BY DEF NotChangedAhead
<1>1. pc[w] \in Approaching \/ (touched' = touched /\ touched # "changed")
  BY DEF Drifts
<1>2. pc[w] \in Approaching
  BY <1>1
<1>3. touched # "changed"
  BY <1>2 DEF NotChangedAhead
<1>4. PICK v \in Workers : pc[v] = "mutating"
  BY <1>3 DEF Drifts
<1>5. Owns(v) /\ Owns(w)
  BY <1>2, <1>4 DEF Alone, Working, Guarded, Approaching
<1> QED
  BY <1>2, <1>4, <1>5, OwnerIsOne DEF Approaching

(* service.py:691-701: while processes live, whatever raises before or     *)
(* after the playbook, is retried, or is delivered again and again, the    *)
(* playbook never starts on a host that differs visibly from the approved  *)
(* one and was not rolled back.                                            *)
THEOREM ChangedHostIsLeft ==
  ASSUME Immediate, MaxLosses = 0
  PROVE  Spec => ChangedHostIsNotRepeated
<1>1. Init => NotChangedAhead
  BY DEF Init, NotChangedAhead
<1>2. Steady /\ Alone /\ NotChangedAhead /\ [Next]_vars => NotChangedAhead'
  BY StepDrifts, KeepsNotChangedAhead DEF Steady, IInv
<1>3. Steady /\ NotChangedAhead /\ [Next]_vars => (StartsMutation => touched # "changed")
  <2> SUFFICES ASSUME Steady, NotChangedAhead, [Next]_vars,
                      NEW w \in Workers, pc[w] # "mutating", pc'[w] = "mutating"
               PROVE  touched # "changed"
    BY DEF StartsMutation
  <2>1. pc[w] = "executing"
    BY StepDrifts DEF Drifts, Steady, IInv
  <2> QED
    BY <2>1 DEF NotChangedAhead, Approaching
<1> QED
  BY <1>1, <1>2, <1>3, AloneHolds, PTL DEF Spec, ChangedHostIsNotRepeated

-----------------------------------------------------------------------------
(* One process may die or outlive its lease, once.  The argument: a worker *)
(* that may have changed the host has saved so under its lease first; if   *)
(* it is the one that is lost, the row says so, the sweep writes it down,  *)
(* and every later claim of that row stops at the gate; if it is not, its  *)
(* own last step ends the job.                                             *)

(* A running row whose lease has lapsed, or will, because nobody works.    *)
Unattended ==
  row.status = "running" /\ \A w \in Workers : ~(Working(w) /\ Owns(w))

(* Only a loss leaves a row unattended or gives the sweep something to do, *)
(* and the first one finds no trace of another.                            *)
LossesShow ==
  /\ Unattended => NoLosses
  /\ Unattended \/ ~NoLosses => NeverSwept(row)
  /\ \A w \in Workers : pc[w] \in Sweeping => NoLosses

(* No claim of this row passes the gate any more.                          *)
Closed ==
  \/ row.status \in Terminal
  \/ ~MayRepeat(row) /\ Unattended
  \/ /\ ~MayRepeat(row) /\ row.failure = "worker_lease_expired"
     /\ row.status \in {"queued", "running"}
     /\ \A w \in Workers : Owns(w) => pc[w] \notin AfterGate

(* The owner has saved that its change may have begun.                     *)
Begun(w) ==
  Owns(w) /\ row.phase \in {"ansible_execution", "post_reboot_health_check"}

ChangesAreSaved ==
  \A w \in Workers : pc[w] \in Changing => Closed \/ Begun(w)

OneChanges ==
  \A v, w \in Workers : pc[v] \in Changing /\ pc[w] \in Changing => v = w

TouchedIsClosed ==
  touched # "no" => Closed \/ \E w \in Workers : Begun(w) /\ WillEnd(w)

TouchedInTime ==
  \A w \in Workers : /\ pc[w] = "executing" => touched = "no"
                     /\ pc[w] = "mutating" => touched = "in_doubt"

OneLoss == /\ LossesShow /\ ChangesAreSaved /\ OneChanges
           /\ TouchedIsClosed /\ TouchedInTime

(* The loss that a step makes is the last one.                             *)
LastLoss == OneLost => NoLosses'

LEMMA LossIsLast ==
  ASSUME TypeOK, TypeOK', MaxLosses \in {0, 1}
  PROVE  LastLoss
<1> SUFFICES ASSUME OneLost PROVE NoLosses'
  BY DEF LastLoss
<1>1. faults.losses \in 0..1
  BY DEF TypeOK
<1> QED
  BY <1>1 DEF OneLost, NoLosses

(* The parts of the row the gate and the sweep look at.                    *)
LEMMA TracesOf ==
  ASSUME NEW r \in Row, NEW w \in Workers, NEW p \in Phases
  PROVE  /\ WithPhase(r, p).recoveredFrom = r.recoveredFrom
         /\ WithPhase(r, p).failure = r.failure /\ WithPhase(r, p).phase = p
         /\ WithPhase(r, p).owner = r.owner /\ WithPhase(r, p).expires = r.expires
         /\ Claimed(r, w, 0).recoveredFrom = r.recoveredFrom
         /\ Claimed(r, w, 0).phase = r.phase /\ Claimed(r, w, 0).owner = w
         /\ Claimed(r, w, 0).expires = LeaseTicks
         /\ ~Lapsed(r, 0) => Claimed(r, w, 0).failure = r.failure
         /\ Lapsed(r, 0) => Claimed(r, w, 0).failure = "worker_lease_expired"
         /\ Recovered(r).recoveredFrom = r.phase
         /\ Recovered(r).failure = "worker_lease_expired"
         /\ [r EXCEPT !.expires = 0].recoveredFrom = r.recoveredFrom
         /\ [r EXCEPT !.expires = 0].failure = r.failure
         /\ [r EXCEPT !.expires = 0].phase = r.phase
         /\ [r EXCEPT !.expires = 0].expires = 0
<1>1. /\ WithPhase(r, p).recoveredFrom = r.recoveredFrom
      /\ WithPhase(r, p).failure = r.failure /\ WithPhase(r, p).phase = p
      /\ WithPhase(r, p).owner = r.owner /\ WithPhase(r, p).expires = r.expires
  BY DEF WithPhase, Row
<1>2. /\ Claimed(r, w, 0).recoveredFrom = r.recoveredFrom
      /\ Claimed(r, w, 0).phase = r.phase /\ Claimed(r, w, 0).owner = w
      /\ ~Lapsed(r, 0) => Claimed(r, w, 0).failure = r.failure
      /\ Lapsed(r, 0) => Claimed(r, w, 0).failure = "worker_lease_expired"
  BY DEF Claimed, Row
<1>3. Claimed(r, w, 0).expires = LeaseTicks
  BY LeaseAssumption DEF Claimed, Row
<1>4. /\ Recovered(r).recoveredFrom = r.phase
      /\ Recovered(r).failure = "worker_lease_expired"
  BY DEF Recovered, Exhausted, Row
<1>5. /\ [r EXCEPT !.expires = 0].recoveredFrom = r.recoveredFrom
      /\ [r EXCEPT !.expires = 0].failure = r.failure
      /\ [r EXCEPT !.expires = 0].phase = r.phase
      /\ [r EXCEPT !.expires = 0].expires = 0
  BY DEF Row
<1> QED
  BY <1>1, <1>2, <1>3, <1>4, <1>5

LEMMA KeepsLosses ==
  ASSUME Steady, LossesShow, LastLoss, Kinds
  PROVE  LossesShow'
<1>0. row \in Row /\ TypeOK
  BY DEF Steady, IInv, TypeOK
<1>1. CASE Aside
  <2>1. Unattended' = Unattended /\ NeverSwept(row)' = NeverSwept(row) /\ pc' = pc
    BY <1>1 DEF Aside, NobodyMoves, Unattended, Working, Owns, NeverSwept
  <2>2. (NoLosses' <=> NoLosses) \/ (~NoLosses /\ NoLosses')
    BY <1>1 DEF Aside, NoLosses, LastLoss, OneLost
  <2> QED
    BY <2>1, <2>2 DEF LossesShow
<1>2. CASE Inserted
  <2>1. row' = NewRow("queued") /\ pc' = pc /\ (NoLosses' <=> NoLosses)
    BY <1>2 DEF Inserted, NobodyMoves, SameFaults, NoLosses
  <2>2. NeverSwept(row)' /\ ~Unattended'
    BY <2>1 DEF NewRow, NoRow, NeverSwept, Unattended
  <2> QED
    BY <2>1, <2>2 DEF LossesShow
<1>3. CASE Aged
  <2>1. pc' = pc /\ (NeverSwept(row)' <=> NeverSwept(row))
    BY <1>0, <1>3, TracesOf DEF Aged, NobodyMoves, NeverSwept, Row
  <2>2. CASE SameFaults /\ ~\E w \in Workers : row.owner = w /\ Working(w)
    <3>1. Unattended /\ (NoLosses' <=> NoLosses)
      BY <1>3, <2>2 DEF Aged, Unattended, LeaseIsLive, Owns, HoldsLease, SameFaults, NoLosses
    <3> QED
      BY <2>1, <3>1 DEF LossesShow
  <2>3. CASE OneLost
    <3>1. NoLosses' /\ ~NoLosses
      BY <2>3 DEF LastLoss, OneLost, NoLosses
    <3> QED
      BY <2>1, <3>1 DEF LossesShow
  <2> QED
    BY <1>3, <2>2, <2>3 DEF Aged
<1>4. CASE Ended
  <2>1. ~Unattended' /\ (NoLosses' <=> NoLosses)
    BY <1>4 DEF Ended, Terminal, Unattended, SameFaults, NoLosses
  <2>2. \A w \in Workers : pc'[w] \in Sweeping => pc[w] \in Sweeping
    BY <1>4 DEF Ended, Resting, Sweeping
  <2>3. ~NoLosses => NeverSwept(row')
    BY <1>0, <1>4 DEF Ended, LossesShow, NoLosses, Sweeping, TypeOK
  <2> QED
    BY <2>1, <2>2, <2>3 DEF LossesShow, NeverSwept
<1>5. ASSUME NEW w \in Workers, OwnMove(w)
      PROVE  LossesShow'
  <2>1. row' = row /\ (NoLosses' <=> NoLosses)
        /\ \A v \in Workers : pc'[v] \in Sweeping => pc[v] \in Sweeping
    BY <1>5 DEF OwnMove, Still, SameFaults, NoLosses
  <2>2. \A v \in Workers : Working(v) /\ Owns(v) => Working(v)' /\ Owns(v)'
    BY <1>5 DEF OwnMove, Still, Working, Owns
  <2>3. Unattended' => Unattended
    BY <2>1, <2>2 DEF Unattended
  <2> QED
    BY <2>1, <2>3 DEF LossesShow, NeverSwept
<1>6. ASSUME NEW w \in Workers, SavedMove(w)
      PROVE  LossesShow'
  <2>1. PICK p \in Phases : row' = WithPhase(row, p)
    BY <1>6 DEF SavedMove
  <2>2. Owns(w)' /\ Working(w)' /\ (NeverSwept(row)' <=> NeverSwept(row))
    BY <1>0, <1>6, <2>1, TracesOf, StatusesOf
       DEF SavedMove, Owns, HoldsLease, Working, NeverSwept
  <2>3. (NoLosses' <=> NoLosses) /\ ~Unattended'
        /\ \A v \in Workers : pc'[v] \in Sweeping => pc[v] \in Sweeping
    BY <1>6, <2>2 DEF SavedMove, Still, SameFaults, NoLosses, Guarded, Sweeping, Unattended
  <2> QED
    BY <2>2, <2>3 DEF LossesShow
<1>7. ASSUME NEW w \in Workers, Taken(w)
      PROVE  LossesShow'
  <2>1. row' = Claimed(row, w, 0) /\ (NoLosses' <=> NoLosses)
        /\ \A v \in Workers : pc'[v] \in Sweeping => pc[v] \in Sweeping
    BY <1>7 DEF Taken, Still, SameFaults, NoLosses, Sweeping
  <2>2. Owns(w)' /\ Working(w)'
    BY <1>0, <1>7, <2>1, StatusesOf, LeaseAssumption
       DEF Taken, Owns, HoldsLease, LeaseIsExpired, Working, Claimed, Row
  <2>3. ~Unattended'
    BY <2>2 DEF Unattended
  <2>4. CASE Lapsed(row, 0)
    <3>1. Unattended
      BY <2>4 DEF Unattended, Lapsed, Owns, HoldsLease
    <3> QED
      BY <2>1, <2>3, <3>1 DEF LossesShow
  <2>5. CASE ~Lapsed(row, 0)
    <3>1. NeverSwept(row)' <=> NeverSwept(row)
      BY <1>0, <2>1, <2>5 DEF NeverSwept, Claimed, Row
    <3> QED
      BY <2>1, <2>3, <3>1 DEF LossesShow
  <2> QED
    BY <2>4, <2>5
<1>8. ASSUME NEW w \in Workers, Requeued(w)
      PROVE  LossesShow'
  <2>1. ~Unattended' /\ (NoLosses' <=> NoLosses)
        /\ (NeverSwept(row) => NeverSwept(row)')
        /\ \A v \in Workers : pc'[v] \in Sweeping => pc[v] \in Sweeping
    BY <1>8 DEF Requeued, Still, SameFaults, NoLosses, Sweeping, Unattended, NeverSwept
  <2> QED
    BY <2>1 DEF LossesShow
<1>9. ASSUME NEW w \in Workers, Swept(w)
      PROVE  LossesShow'
  <2>1. Unattended
    BY <1>9 DEF Swept, Unattended, Lapsed, Owns, HoldsLease
  <2>2. NoLosses'
    BY <1>9, <2>1 DEF Swept, LossesShow, SameFaults, NoLosses
  <2>3. ~Unattended'
    BY <1>0, <1>9, StatusesOf DEF Swept, Unattended
  <2> QED
    BY <2>2, <2>3 DEF LossesShow
<1>10. ASSUME NEW w \in Workers, Died(w)
       PROVE  LossesShow'
  <2>1. NoLosses' /\ ~NoLosses /\ row' = row
    BY <1>10 DEF Died, LastLoss, OneLost, NoLosses
  <2> QED
    BY <2>1 DEF LossesShow, NeverSwept
<1> QED
  BY <1>1, <1>2, <1>3, <1>4, <1>5, <1>6, <1>7, <1>8, <1>9, <1>10 DEF Kinds, StepOf

(* A worker past the gate that still holds its lease shows the row is open. *)
LEMMA OwnerIsOpen ==
  ASSUME Steady, NEW w \in Workers, Owns(w), pc[w] \in AfterGate
  PROVE  ~Closed
BY DEF Closed, Owns, HoldsLease, Terminal, Unattended, Working, AfterGate

(* A row the sweep has not been at remembers its phase.                    *)
LEMMA PhaseRemains ==
  ASSUME NEW r, NeverSwept(r)
  PROVE  RecoveredPhase(r) = r.phase
BY DEF NeverSwept, RecoveredPhase

(* Marking a lapsed row closes it for the gate that the claim ran into.    *)
LEMMA UnattendedStaysClosed ==
  ASSUME Steady, LossesShow, Kinds, Unattended, ~MayRepeat(row)
  PROVE  Closed'
<1>0. row \in Row /\ NoLosses /\ NeverSwept(row) /\ row.status = "running"
  BY DEF Steady, IInv, TypeOK, LossesShow, Unattended
<1>1. row.phase \in UnsafePhases
  BY <1>0, PhaseRemains DEF MayRepeat
<1>2. \A w \in Workers : Owns(w) => ~Working(w)
  BY DEF Unattended
<1>3. ASSUME row' = row, \A w \in Workers : Working(w)' => Working(w)
      PROVE  Closed'
  BY <1>2, <1>3 DEF Closed, Unattended, MayRepeat, RecoveredPhase, Owns
<1>4. CASE Aside
  BY <1>3, <1>4 DEF Aside, NobodyMoves, Working
<1>5. CASE Inserted
  BY <1>0, <1>5 DEF Inserted
<1>6. CASE Aged
  <2>1. row' = [row EXCEPT !.expires = 0] /\ pc' = pc
    BY <1>6 DEF Aged, NobodyMoves
  <2>2. /\ row'.recoveredFrom = row.recoveredFrom /\ row'.phase = row.phase
        /\ row'.expires = 0 /\ row'.status = row.status
    BY <1>0, <2>1 DEF Row
  <2>3. ~MayRepeat(row)'
    BY <2>2 DEF MayRepeat, RecoveredPhase
  <2>4. Unattended'
    BY <1>0, <2>2 DEF Unattended, Owns, HoldsLease, LeaseIsExpired
  <2> QED
    BY <2>3, <2>4 DEF Closed
<1>7. CASE Ended
  BY <1>7 DEF Ended, Closed
<1>8. ASSUME NEW w \in Workers, OwnMove(w)
      PROVE  Closed'
  BY <1>3, <1>8 DEF OwnMove, Still, Working
<1>9. ASSUME NEW w \in Workers, SavedMove(w) \/ Requeued(w)
      PROVE  Closed'
  BY <1>2, <1>9 DEF SavedMove, Requeued, Working
<1>10. ASSUME NEW w \in Workers, Taken(w)
       PROVE  Closed'
  <2>1. Lapsed(row, 0) /\ row' = Claimed(row, w, 0) /\ pc'[w] = "claimed"
    BY <1>0, <1>10 DEF Taken, Claimable
  <2>2. /\ row'.recoveredFrom = row.recoveredFrom /\ row'.phase = row.phase
        /\ row'.failure = "worker_lease_expired" /\ row'.status = "running"
        /\ row'.owner = w
    BY <1>0, <2>1 DEF Claimed, Row
  <2>3. ~MayRepeat(row)'
    BY <2>2 DEF MayRepeat, RecoveredPhase
  <2>4. \A v \in Workers : Owns(v)' => pc'[v] \notin AfterGate
    BY <2>1, <2>2 DEF Owns, HoldsLease, AfterGate, Guarded
  <2> QED
    BY <2>2, <2>3, <2>4 DEF Closed
<1>11. ASSUME NEW w \in Workers, Swept(w)
       PROVE  Closed'
  <2>1. row' = Recovered(row)
    BY <1>11 DEF Swept
  <2>2. /\ row'.recoveredFrom = row.phase /\ row'.failure = "worker_lease_expired"
        /\ row'.status \in {"queued", "failed"}
    BY <1>0, <2>1, TracesOf, StatusesOf DEF Recovered, Exhausted, Row
  <2>3. ~MayRepeat(row)'
    BY <1>0, <1>1, <2>2 DEF MayRepeat, RecoveredPhase, UnsafePhases
  <2>4. \A v \in Workers : ~Owns(v)'
    BY <2>2, OwnersRun
  <2> QED
    BY <2>2, <2>3, <2>4 DEF Closed, Terminal
<1>12. ASSUME NEW w \in Workers, Died(w)
       PROVE  Closed'
  BY <1>3, <1>12 DEF Died, Still, Working, Guarded
<1> QED
  BY <1>4, <1>5, <1>6, <1>7, <1>8, <1>9, <1>10, <1>11, <1>12 DEF Kinds, StepOf

(* The gate itself: a claim that knows of the sweep goes no further.       *)
LEMMA ClosedStays ==
  ASSUME Steady, LossesShow, Kinds, Closed
  PROVE  Closed'
<1>0. row \in Row
  BY DEF Steady, IInv, TypeOK
<1>1. CASE row.status \in Terminal
  BY <1>1, EndedStaysEnded DEF Closed
<1>2. CASE ~MayRepeat(row) /\ Unattended
  BY <1>2, UnattendedStaysClosed
<1>3. CASE /\ ~MayRepeat(row) /\ row.failure = "worker_lease_expired"
           /\ row.status \in {"queued", "running"}
           /\ \A w \in Workers : Owns(w) => pc[w] \notin AfterGate
  <2>0. NoLosses /\ ~Unattended /\ ~Lapsed(row, 0)
    <3>1. ~NeverSwept(row)
      BY <1>3 DEF NeverSwept
    <3>2. Lapsed(row, 0) => Unattended
      BY DEF Unattended, Lapsed, Owns, HoldsLease
    <3> QED
      BY <3>1, <3>2 DEF LossesShow
  <2>1. ASSUME row' = row,
               \A w \in Workers : Owns(w) => pc'[w] \notin AfterGate
        PROVE  Closed'
    BY <1>3, <2>1 DEF Closed, Owns, MayRepeat, RecoveredPhase
  <2>2. CASE Aside
    BY <1>3, <2>1, <2>2 DEF Aside, NobodyMoves
  <2>3. CASE Inserted
    BY <1>3, <2>3 DEF Inserted
  <2>4. CASE Aged
    <3>1. Unattended \/ ~NoLosses
      BY <2>4 DEF Aged, OneLost, NoLosses, Unattended, LeaseIsLive, Owns, HoldsLease
    <3> QED
      BY <2>0, <3>1
  <2>5. CASE Ended
    BY <2>5 DEF Ended, Closed
  <2>6. ASSUME NEW w \in Workers, OwnMove(w)
        PROVE  Closed'
    <3>1. ASSUME Owns(w), pc'[w] \in AfterGate
          PROVE  FALSE
      <4>1. pc[w] = "claimed" /\ ~StaleClaim(w)
        BY <1>3, <2>6, <3>1 DEF OwnMove
      <4>2. copy[w] = row
        BY <3>1, <4>1 DEF Steady, CopyIsCurrent, Working
      <4> QED
        BY <1>3, <4>1, <4>2 DEF StaleClaim
    <3> QED
      BY <1>3, <2>1, <2>6, <3>1 DEF OwnMove, Still
  <2>7. ASSUME NEW w \in Workers, SavedMove(w) \/ Requeued(w)
        PROVE  Closed'
    BY <1>3, <2>7 DEF SavedMove, Requeued, AfterGate
  <2>8. ASSUME NEW w \in Workers, Taken(w)
        PROVE  Closed'
    <3>1. row' = Claimed(row, w, 0) /\ pc'[w] = "claimed"
      BY <2>8 DEF Taken
    <3>2. /\ row'.recoveredFrom = row.recoveredFrom /\ row'.phase = row.phase
          /\ row'.failure = row.failure /\ row'.status = "running"
          /\ row'.owner = w
      BY <1>0, <2>0, <3>1 DEF Claimed, Row
    <3>3. ~MayRepeat(row)'
      BY <1>3, <3>2 DEF MayRepeat, RecoveredPhase
    <3>4. \A v \in Workers : Owns(v)' => pc'[v] \notin AfterGate
      BY <3>1, <3>2 DEF Owns, HoldsLease, AfterGate, Guarded
    <3> QED
      BY <1>3, <3>2, <3>3, <3>4 DEF Closed
  <2>9. ASSUME NEW w \in Workers, Swept(w) \/ Died(w)
        PROVE  Closed'
    BY <2>0, <2>9 DEF Swept, Died, OneLost, NoLosses
  <2> QED
    BY <2>2, <2>3, <2>4, <2>5, <2>6, <2>7, <2>8, <2>9 DEF Kinds, StepOf
<1> QED
  BY <1>1, <1>2, <1>3 DEF Closed

(* A change that has begun stays saved, or a loss closes the row.          *)
LEMMA BegunStays ==
  ASSUME Steady, LossesShow, Kinds, NEW w \in Workers, Begun(w), Working(w)
  PROVE  \/ Closed' \/ Requeued(w) \/ (SavedMove(w) /\ pc'[w] \notin Changing)
         \/ Begun(w)' /\ Working(w)'
<1>0. /\ row \in Row /\ Owns(w) /\ row.status = "running" /\ ~Lapsed(row, 0)
      /\ ~Claimable(row, 0) /\ row.phase \in UnsafePhases
  BY OwnerIsOne DEF Steady, IInv, TypeOK, Begun, UnsafePhases
<1>1. ASSUME row' = row, Working(w)'
      PROVE  Begun(w)' /\ Working(w)'
  BY <1>1 DEF Begun, Owns
<1>2. CASE Aside
  BY <1>1, <1>2 DEF Aside, NobodyMoves, Working
<1>3. CASE Inserted
  BY <1>0, <1>3 DEF Inserted
<1>4. CASE Aged
  <2>1. ~NoLosses /\ NeverSwept(row)
    BY <1>0, <1>4 DEF Aged, Owns, HoldsLease, OneLost, NoLosses, LossesShow
  <2>2. /\ row'.recoveredFrom = row.recoveredFrom /\ row'.phase = row.phase
        /\ row'.expires = 0 /\ row'.status = row.status
    BY <1>0, <1>4 DEF Aged, Row
  <2>3. ~MayRepeat(row)'
    BY <1>0, <2>1, <2>2 DEF MayRepeat, RecoveredPhase, NeverSwept
  <2>4. Unattended'
    BY <1>0, <2>2 DEF Unattended, Owns, HoldsLease, LeaseIsExpired
  <2> QED
    BY <2>3, <2>4 DEF Closed
<1>5. CASE Ended
  BY <1>5 DEF Ended, Closed
<1>6. ASSUME NEW v \in Workers, OwnMove(v)
      PROVE  Begun(w)' /\ Working(w)'
  BY <1>0, <1>1, <1>6 DEF OwnMove, Still, Working
<1>7. ASSUME NEW v \in Workers, SavedMove(v)
      PROVE  (SavedMove(w) /\ pc'[w] \notin Changing) \/ (Begun(w)' /\ Working(w)')
  <2>1. v = w
    BY <1>0, <1>7, OwnerIsOne DEF SavedMove
  <2>2. CASE pc'[w] \in Changing
    <3>1. PICK p \in {"ansible_execution", "post_reboot_health_check"} :
            row' = WithPhase(row, p)
      BY <1>7, <2>1, <2>2 DEF SavedMove
    <3>2. row'.phase = p /\ row'.owner = row.owner /\ row'.expires = row.expires
          /\ row'.status = row.status
      BY <1>0, <3>1 DEF WithPhase, Row
    <3> QED
      BY <1>0, <1>7, <2>1, <3>2 DEF Begun, Owns, HoldsLease, SavedMove, Working
  <2> QED
    BY <1>7, <2>1, <2>2
<1>8. ASSUME NEW v \in Workers, Requeued(v)
      PROVE  Requeued(w)
  BY <1>0, <1>8, OwnerIsOne DEF Requeued
<1>9. ASSUME NEW v \in Workers, Taken(v) \/ Swept(v)
      PROVE  FALSE
  BY <1>0, <1>9 DEF Taken, Swept
<1>10. ASSUME NEW v \in Workers, Died(v)
       PROVE  Closed' \/ (Begun(w)' /\ Working(w)')
  <2>1. CASE v # w
    BY <1>1, <1>10, <2>1 DEF Died, Still, Working
  <2>2. CASE v = w
    <3>1. row' = row /\ ~Working(w)' /\ NeverSwept(row)
      BY <1>10, <2>2 DEF Died, Working, Guarded, OneLost, NoLosses, LossesShow
    <3>2. ~MayRepeat(row)'
      BY <1>0, <3>1 DEF MayRepeat, RecoveredPhase, NeverSwept
    <3>3. Unattended'
      BY <1>0, <3>1 DEF Unattended, Owns, HoldsLease
    <3> QED
      BY <3>2, <3>3 DEF Closed
  <2> QED
    BY <2>1, <2>2
<1> QED
  BY <1>2, <1>3, <1>4, <1>5, <1>6, <1>7, <1>8, <1>9, <1>10 DEF Kinds, StepOf

(* Only ready workers start to change the host.                            *)
LEMMA ChangingFrom ==
  ASSUME Kinds, NEW w \in Workers, pc'[w] \in Changing
  PROVE  \/ pc[w] \in Changing /\ ~Requeued(w)
         \/ SavedMove(w) /\ pc[w] = "ready"
<1>1. ~Requeued(w)
  BY DEF Requeued, Changing
<1> QED
  BY <1>1 DEF Kinds, StepOf, Aside, NobodyMoves, Inserted, Aged, Ended, Resting, OwnMove,
     Still, SavedMove, Taken, Requeued, Swept, Died, Changing

LEMMA KeepsSaved ==
  ASSUME Steady, OneLoss, Kinds
  PROVE  ChangesAreSaved'
<1> SUFFICES ASSUME NEW w \in Workers, pc'[w] \in Changing, ~Closed'
             PROVE  Begun(w)'
  BY DEF ChangesAreSaved
<1>0. row \in Row /\ ~Closed
  BY ClosedStays DEF OneLoss, Steady, IInv, TypeOK
<1>1. CASE pc[w] \in Changing /\ ~Requeued(w)
  <2>1. Begun(w) /\ Working(w)
    BY <1>0, <1>1 DEF OneLoss, ChangesAreSaved, Working, Changing, Guarded
  <2> QED
    BY <1>1, <2>1, BegunStays DEF OneLoss
<1>2. CASE SavedMove(w)
  <2>1. PICK p \in {"ansible_execution", "post_reboot_health_check"} :
          row' = WithPhase(row, p)
    BY <1>2 DEF SavedMove
  <2>2. row'.phase = p /\ row'.owner = row.owner /\ row'.expires = row.expires
        /\ row'.status = row.status
    BY <1>0, <2>1 DEF WithPhase, Row
  <2> QED
    BY <1>2, <2>2 DEF Begun, Owns, HoldsLease, SavedMove
<1> QED
  BY <1>1, <1>2, ChangingFrom

(* A worker about to change the host is the only one, and the first.       *)
LEMMA ReadyIsFirst ==
  ASSUME Steady, OneLoss, NEW w \in Workers, SavedMove(w), pc[w] = "ready"
  PROVE  touched = "no" /\ \A v \in Workers : pc[v] \notin Changing
<1>1. Owns(w) /\ ~Closed
  BY OwnerIsOpen DEF SavedMove, AfterGate
<1>2. \A v \in Workers : Begun(v) => v = w
  BY <1>1, OwnerIsOne DEF Begun
<1>3. pc[w] \notin Changing /\ ~WillEnd(w)
  BY DEF Changing, WillEnd
<1> QED
  BY <1>1, <1>2, <1>3 DEF OneLoss, ChangesAreSaved, TouchedIsClosed

LEMMA KeepsOneChange ==
  ASSUME Steady, OneLoss, Kinds
  PROVE  OneChanges'
<1> SUFFICES ASSUME NEW v \in Workers, NEW w \in Workers,
                    pc'[v] \in Changing, pc'[w] \in Changing
             PROVE  v = w
  BY DEF OneChanges
<1>1. CASE pc[v] \in Changing /\ pc[w] \in Changing
  BY <1>1 DEF OneLoss, OneChanges
<1>2. CASE SavedMove(v) /\ pc[v] = "ready"
  BY <1>2, ReadyIsFirst, ChangingFrom, OwnerIsOne DEF SavedMove
<1>3. CASE SavedMove(w) /\ pc[w] = "ready"
  BY <1>3, ReadyIsFirst, ChangingFrom, OwnerIsOne DEF SavedMove
<1> QED
  BY <1>1, <1>2, <1>3, ChangingFrom

(* The host changes under the playbook only.                               *)
LEMMA TouchedUnderPlaybook ==
  ASSUME Kinds, ~CanRaise, touched' # touched
  PROVE  \E w \in Workers : OwnMove(w) /\ TouchMove(w)
                             /\ \/ pc[w] \in {"executing", "mutating"}
                                \/ pc[w] = "rolling_back" /\ touched' = "no"
BY DEF Kinds, StepOf, Aside, NobodyMoves, Inserted, Aged, Ended, OwnMove, TouchMove,
   SavedMove, Taken, Requeued, Swept, Died

LEMMA WillEndStays ==
  ASSUME OneLoss, Kinds, ~CanRaise, touched' # "no",
         NEW w \in Workers, WillEnd(w), Owns(w), Working(w)'
  PROVE  WillEnd(w)' \/ Closed'
<1>1. ASSUME pc'[w] = pc[w], note'[w] = note[w]
      PROVE  WillEnd(w)'
  BY <1>1 DEF WillEnd
<1>2. row.status = "running" /\ ~Lapsed(row, 0) /\ ~Claimable(row, 0)
  BY OwnerIsOne
<1>3. CASE Aside \/ Inserted \/ Aged
  BY <1>1, <1>3 DEF Aside, Inserted, Aged, NobodyMoves
<1>4. CASE Ended
  BY <1>4 DEF Ended, Closed
<1>5. ASSUME NEW v \in Workers, OwnMove(v)
      PROVE  WillEnd(w)'
  <2>1. CASE v # w
    BY <1>1, <1>5, <2>1 DEF OwnMove, Still
  <2>2. CASE v = w
    <3>1. TouchMove(w)
      BY <1>5, <2>2 DEF OwnMove
    <3>2. CASE pc[w] = "executing"
      BY <3>2 DEF WillEnd
    <3>3. CASE pc[w] = "mutating" /\ pc'[w] = "finished" /\ note'[w] \in {"success", "changed"}
      BY <3>3 DEF WillEnd
    <3>4. CASE pc[w] = "mutating" /\ pc'[w] = "finished"
                /\ touched' = IF touched = "in_doubt" THEN "no" ELSE touched
      <4>1. touched = "in_doubt"
        BY <3>4 DEF OneLoss, TouchedInTime
      <4> QED
        BY <3>4, <4>1
    <3>5. CASE pc[w] = "rolling_back" /\ pc'[w] = "rolling_back" /\ note'[w] = note[w]
      BY <1>1, <3>5
    <3> QED
      BY <3>1, <3>2, <3>3, <3>4, <3>5 DEF TouchMove
  <2> QED
    BY <2>1, <2>2
<1>6. ASSUME NEW v \in Workers, SavedMove(v)
      PROVE  WillEnd(w)'
  BY <1>6, OwnerIsOne DEF SavedMove
<1>7. ASSUME NEW v \in Workers, Requeued(v)
      PROVE  FALSE
  BY <1>7, OwnerIsOne DEF Requeued, WillEnd
<1>8. ASSUME NEW v \in Workers, Taken(v) \/ Swept(v)
      PROVE  FALSE
  BY <1>2, <1>8 DEF Taken, Swept
<1>9. ASSUME NEW v \in Workers, Died(v)
      PROVE  WillEnd(w)'
  BY <1>1, <1>9 DEF Died, Still, Working, Guarded
<1> QED
  BY <1>3, <1>4, <1>5, <1>6, <1>7, <1>8, <1>9 DEF Kinds, StepOf

LEMMA KeepsTouched ==
  ASSUME Steady, OneLoss, Kinds, ~CanRaise
  PROVE  TouchedIsClosed'
<1> SUFFICES ASSUME touched' # "no", ~Closed'
             PROVE  \E w \in Workers : Begun(w)' /\ WillEnd(w)'
  BY DEF TouchedIsClosed
<1>0. ~Closed
  BY ClosedStays DEF OneLoss
<1>1. CASE touched # "no"
  <2>1. PICK w \in Workers : Begun(w) /\ WillEnd(w)
    BY <1>0, <1>1 DEF OneLoss, TouchedIsClosed
  <2>2. Working(w) /\ ~Requeued(w) /\ Owns(w)
    BY <2>1 DEF WillEnd, Working, Guarded, Requeued, Begun
  <2>3. SavedMove(w) => pc'[w] \in Changing
    BY <2>1 DEF SavedMove, WillEnd, Changing, Guarded
  <2> QED
    BY <2>1, <2>2, <2>3, BegunStays, WillEndStays DEF OneLoss
<1>2. CASE touched = "no"
  <2>1. PICK w \in Workers : OwnMove(w) /\ TouchMove(w) /\ pc[w] \in {"executing", "mutating"}
    BY <1>2, TouchedUnderPlaybook
  <2>2. pc[w] = "executing"
    BY <1>2, <2>1 DEF OneLoss, TouchedInTime
  <2>3. pc'[w] = "mutating" /\ row' = row
    BY <1>2, <2>1, <2>2 DEF TouchMove, OwnMove
  <2>4. Begun(w)
    BY <1>0, <2>2 DEF OneLoss, ChangesAreSaved, Changing
  <2> QED
    BY <2>3, <2>4 DEF Begun, Owns, WillEnd
<1> QED
  BY <1>1, <1>2

LEMMA PlaybookFrom ==
  ASSUME Kinds, ~CanRaise, NEW w \in Workers, pc'[w] \in {"executing", "mutating"}
  PROVE  \/ pc'[w] = pc[w]
         \/ OwnMove(w) /\ pc[w] = "executing" /\ pc'[w] = "mutating"
              /\ touched' = (IF touched = "no" THEN "in_doubt" ELSE touched)
         \/ SavedMove(w) /\ pc[w] = "ready" /\ pc'[w] = "executing"
BY DEF Kinds, StepOf, Aside, NobodyMoves, Inserted, Aged, Ended, Resting, OwnMove, TouchMove,
   Still, SavedMove, Taken, Requeued, Swept, Died

LEMMA KeepsInTime ==
  ASSUME Steady, OneLoss, Kinds, ~CanRaise
  PROVE  TouchedInTime'
<1> SUFFICES ASSUME NEW w \in Workers, pc'[w] \in {"executing", "mutating"}
             PROVE  /\ pc'[w] = "executing" => touched' = "no"
                    /\ pc'[w] = "mutating" => touched' = "in_doubt"
  BY DEF TouchedInTime
<1>1. CASE pc'[w] = pc[w]
  <2>1. touched' = touched
    <3> SUFFICES ASSUME touched' # touched PROVE FALSE
      OBVIOUS
    <3>1. PICK v \in Workers :
            OwnMove(v) /\ TouchMove(v) /\ pc[v] \in {"executing", "mutating", "rolling_back"}
      BY TouchedUnderPlaybook
    <3>2. v = w
      BY <1>1, <3>1 DEF OneLoss, OneChanges, Changing
    <3> QED
      BY <1>1, <3>1, <3>2 DEF TouchMove
  <2> QED
    BY <1>1, <2>1 DEF OneLoss, TouchedInTime
<1>2. CASE pc[w] = "executing" /\ pc'[w] = "mutating"
           /\ touched' = (IF touched = "no" THEN "in_doubt" ELSE touched)
  BY <1>2 DEF OneLoss, TouchedInTime
<1>3. CASE SavedMove(w) /\ pc[w] = "ready" /\ pc'[w] = "executing"
  BY <1>3, ReadyIsFirst DEF SavedMove
<1> QED
  BY <1>1, <1>2, <1>3, PlaybookFrom

LEMMA InitOneLoss ==
  ASSUME Init
  PROVE  OneLoss
<1>1. row.status = "absent" /\ NeverSwept(row) /\ touched = "no"
      /\ \A w \in Workers : pc[w] = "idle"
  BY DEF Init, NoRow, NeverSwept
<1> QED
  BY <1>1 DEF OneLoss, LossesShow, Unattended, ChangesAreSaved, OneChanges,
     TouchedIsClosed, TouchedInTime, Sweeping, Changing

LEMMA StepOneLoss ==
  ASSUME Immediate, ~CanRaise, MaxLosses \in {0, 1},
         Steady, Steady', OneLoss, [Next]_vars
  PROVE  OneLoss'
<1>1. Kinds
  BY EveryStepIsAKind
<1>2. LastLoss
  BY LossIsLast DEF Steady, IInv
<1> QED
  BY <1>1, <1>2, KeepsLosses, KeepsSaved, KeepsOneChange, KeepsTouched, KeepsInTime
     DEF OneLoss

(* package_upgrade is started once: with any number of workers and of      *)
(* repeated deliveries, and whichever one process dies or outlives its     *)
(* lease, wherever it is, the playbook never starts on a host that an      *)
(* earlier attempt changed or may have changed.                            *)
THEOREM MutatesOnce ==
  ASSUME Immediate, ~CanRaise, MaxLosses \in {0, 1}
  PROVE  Spec => NeverMutatesTwice
<1>1. Steady /\ Steady' /\ OneLoss /\ [Next]_vars => OneLoss'
  BY StepOneLoss
<1>2. Init => OneLoss
  BY InitOneLoss
<1>3. Steady /\ OneLoss /\ [Next]_vars => (StartsMutation => touched = "no")
  <2> SUFFICES ASSUME Steady, OneLoss, [Next]_vars,
                      NEW w \in Workers, pc[w] # "mutating", pc'[w] = "mutating"
               PROVE  touched = "no"
    BY DEF StartsMutation
  <2>1. pc[w] = "executing"
    BY EveryStepIsAKind, PlaybookFrom
  <2> QED
    BY <2>1 DEF OneLoss, TouchedInTime
<1> QED
  BY <1>1, <1>2, <1>3, SteadyHolds, PTL DEF Spec, NeverMutatesTwice

=============================================================================
